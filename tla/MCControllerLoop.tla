-------------------------- MODULE MCControllerLoop --------------------------
(* Small instances of ControllerLoop for TLC.                              *)
EXTENDS ControllerLoop

AllNames ==
  {"analyze_requirements", "sufficiency_check", "research_answer",
   "web_search", "web_fetch", "extract_answer", "search_docs", "calculate",
   "finish", "shell_exec", "verify_claim", "no_such_tool"}
Lookup(names, n) == [tool \in AllNames |-> IF tool \in names THEN n ELSE 0]

(* Attempt minimums, above MaxAttempts as in the code (8 and 4 above 2)    *)
FewAttempts == Lookup({"web_fetch", "web_search"}, 3)

Request(context, asks, clues, caps) ==
  [context |-> context, asks |-> asks, clues |-> clues, caps |-> caps]
OpenQuestion == Request(FALSE, "research", "none", {"web_research"})
ClueQuestion == Request(FALSE, "plain", "multi", {"web_research"})
LineageQuestion == Request(FALSE, "research", "advisor", {"web_research"})
Arithmetic == Request(FALSE, "closed", "none", {"calculator"})
Document == Request(TRUE, "plain", "none", {"doc_research"})
Everything ==
  Request(TRUE, "research", "none", {"calculator", "doc_research", "shell_code"})

(* Instance for an arbitrary controller                                    *)
CoreTools == {"sufficiency_check", "web_search", "web_fetch", "calculate"}
CoreCalls ==
  { MakeCall("sufficiency_check", NoArgs), MakeCall("web_search", NoArgs),
    MakeCall("calculate", NoArgs), MakeCall("no_such_tool", NoArgs) }
  \cup { MakeCall("web_fetch", u) : u \in Urls }
  \cup { MakeCall("web_search", q) : q \in Queries }
TwiceExternal == Lookup({"web_fetch", "web_search"}, 2)
CoreRequests == {OpenQuestion, Arithmetic}
NoMinimum == Lookup({}, 0)

(* Every mapping of its own text, and no clues, where only the rule        *)
(* controller or none in particular reads texts                            *)
OwnText == [q \in Queries |-> q]
NoClue == [q \in Queries |-> NoGroup]

(* Instance for the LLM controller: a blended query on the first clue, the *)
(* same text sent again with a longer record, a site query, a named college. *)
CONSTANTS blended, again, site, named
LLMTools ==
  {"sufficiency_check", "web_search", "web_fetch", "research_answer",
   "search_docs", "calculate"}
LLMQueries == {blended, again, site, named}
LLMText == [q \in LLMQueries |-> IF q = again THEN blended ELSE q]
LLMGroup ==
  [q \in LLMQueries |->
     CASE q = site -> NoGroup [] q = named -> "bank" [] OTHER -> "plant"]
LLMCalls ==
  { MakeCall("sufficiency_check", NoArgs), MakeCall("calculate", NoArgs),
    MakeCall("research_answer", NoArgs) }
  \cup { MakeCall("web_fetch", u) : u \in Urls }
  \cup { MakeCall("web_search", k) : k \in {blended, site, NoArgs} }
Sites == {site}
Named == {named}
Blends == {blended, again}
LLMRequests == {OpenQuestion, ClueQuestion, Document}

(* Instance for the rule controller: the default catalog                   *)
RuleTools == AllNames \ {"no_such_tool"}
RuleRequests ==
  {OpenQuestion, ClueQuestion, LineageQuestion, Arithmetic, Document, Everything}
=============================================================================
