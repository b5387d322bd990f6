---------------------------- MODULE ToolCatalog ----------------------------
(***************************************************************************)
(* What each tool of the default catalog may answer: the set of outputs of *)
(* an ok result, given the transcript behind the notes the tool reads.     *)
(* The web, the LLM and the prompt's text are outside the program; what    *)
(* they decide is left open.                                               *)
(***************************************************************************)
EXTENDS Transcript

MaybeAnswer == Answers \cup {NoAnswer}
Found(cand, urls) ==
  [NoOutputs EXCEPT !.cand = cand, !.spans = TRUE, !.urls = urls]
Verdict(cand, verdict, urls) ==
  [NoOutputs EXCEPT !.cand = cand, !.verdict = verdict, !.urls = urls]
Extract(cand, spans) == [NoOutputs EXCEPT !.cand = cand, !.spans = spans]
Passages(spans, urls) == [NoOutputs EXCEPT !.spans = spans, !.urls = urls]

(* LLM or fallback, an ok analysis always lists a required output          *)
AnalyzeOutputs == {[NoOutputs EXCEPT !.reqs = TRUE]}

(* Faulty variant: the argument is taken for a candidate whatever it is    *)
CheckOutputs_RawKey(t, key) ==
  { Verdict(key, v, {}) : v \in {"yes", "no"} }

(* The candidate judged is the explicit one, else the transcript's; it is  *)
(* echoed as answer_candidate. A sufficient verdict needs a candidate or,  *)
(* for the GitHub commit heuristic, spans; only the LLM, asked when there  *)
(* is a candidate, names source URLs.                                      *)
Verdicts(t, key) ==
  LET given == IF key \in Answers THEN {key} ELSE LatestAnswer(t)
      spans == \E i \in DOMAIN t : Ok(t[i]) /\ t[i].out.spans
      verdicts == IF given # {} \/ spans THEN {"yes", "no"} ELSE {"no"}
  IN  IF given # {}
        THEN { Verdict(a, v, u) : a \in given, v \in verdicts, u \in SUBSET Urls }
        ELSE { Verdict(NoAnswer, v, {}) : v \in verdicts }

(* The coverage table is the LLM's, or the token heuristic's when at least *)
(* three outputs are required. Rows that name no required output leave the *)
(* verdict alone, and so does every row when the requirements are missing: *)
(* a table with blocking rows goes with any verdict.                       *)
CheckOutputs(t, key) ==
  {[o EXCEPT !.table = b] : o \in Verdicts(t, key), b \in Tables}

(* Results make spans; a search without results may still list the home,   *)
(* news and archive URLs of the site it was scoped to. A web answerer, if  *)
(* the deployer gave one, answers instead of searching.                    *)
SearchOutputs ==
  { [NoOutputs EXCEPT !.hits = h, !.spans = TRUE] : h \in SUBSET Urls \ {{}} }
  \cup { [NoOutputs EXCEPT !.urls = u] : u \in SUBSET Urls }
AnswererOutputs == { Found(a, {}) : a \in Answers }

(* A fetched page is a span; its own URL is listed with the ones it links  *)
(* to, and a GitHub commit or pull request page is a candidate.            *)
FetchOutputs(url) ==
  { Found(a, u) : a \in MaybeAnswer, u \in {v \in SUBSET Urls : url \in v} }

ResearchOutputs == { Found(a, u) : a \in MaybeAnswer, u \in SUBSET Urls }

ExtractOutputs ==
  { Extract(a, s) : a \in MaybeAnswer, s \in BOOLEAN }

SearchDocsOutputs ==
  { Passages(s, u) : s \in BOOLEAN, u \in SUBSET Urls }

(* calculate and finish mark their candidate sufficient_alone              *)
CalculateOutputs ==
  { [NoOutputs EXCEPT !.cand = a, !.spans = TRUE, !.alone = TRUE] : a \in Answers }
FinishOutputs(key) ==
  { [NoOutputs EXCEPT !.cand = IF key \in Answers THEN key ELSE NoAnswer,
                      !.alone = TRUE] }

OkOutputs(t, call, answerer) ==
  CASE call.tool = "analyze_requirements" -> AnalyzeOutputs
    [] call.tool = "sufficiency_check" -> CheckOutputs(t, call.key)
    [] call.tool = "web_search" ->
         SearchOutputs \cup IF answerer THEN AnswererOutputs ELSE {}
    [] call.tool = "web_fetch" ->
         IF call.key \in Urls THEN FetchOutputs(call.key) ELSE {}
    [] call.tool = "research_answer" -> IF answerer THEN ResearchOutputs ELSE {}
    [] call.tool = "extract_answer" -> ExtractOutputs
    [] call.tool = "search_docs" -> SearchDocsOutputs
    [] call.tool = "calculate" -> CalculateOutputs
    [] call.tool = "finish" -> FinishOutputs(call.key)
    [] OTHER -> {NoOutputs}

(* The tools whose run returns ok=False on some input                      *)
CanFail == {"analyze_requirements", "web_fetch", "research_answer",
            "calculate", "shell_exec", "verify_claim"}
=============================================================================
