--------------------------- MODULE RuleController ---------------------------
(***************************************************************************)
(* RuleBasedController.next_action: the actions it may return on a         *)
(* transcript. It is the default controller when no LLM is configured, and *)
(* the loop's fallback when a final or a surrender is not yet allowed.     *)
(*                                                                         *)
(* The text-dependent choices are left open: which unfetched URL scores    *)
(* best, whether the URL filters reject all of them, whether a fresh query *)
(* can be built and which. The order of the rules, the attempt limits, the *)
(* evidence bookkeeping and the rule that a call is never built for a URL, *)
(* or a query with a key, already tried are kept.                          *)
(***************************************************************************)
EXTENDS ToolCatalog

(* Queries without a Latin letter or digit, or with general words only     *)
(* (news, official, source, ...): they have no key to be compared by.      *)
CONSTANT Keyless
ASSUME KeylessAssumption == Keyless \subseteq Queries

(* A request: context or attachment text present; how the prompt reads to  *)
(* _initial_external_research_call (a research marker, none, or empty or a *)
(* self-contained calculation); whether the controller builds queries from *)
(* the prompt itself (multi-clue or advisor lineage); and the capabilities *)
(* the profiler scores above the threshold.                                *)
Capabilities == {"calculator", "doc_research", "web_research", "shell_code"}
Requests ==
  [ context : BOOLEAN,
    asks    : {"research", "plain", "closed"},
    clues   : {"none", "advisor", "multi"},
    caps    : SUBSET Capabilities ]

Final(answer) == [kind |-> "final", answer |-> answer]
GiveUp == [kind |-> "surrender", answer |-> NoAnswer]
Do(tool, key) == [kind |-> "call", call |-> MakeCall(tool, key)]

CapTools ==
  [ calculator   |-> <<"calculate">>,
    doc_research |-> <<"search_docs", "extract_answer">>,
    web_research |-> <<"research_answer", "web_search", "web_fetch">>,
    shell_code   |-> <<"shell_exec">> ]

(* Sufficient on their own: the ok turns that say so and have a candidate  *)
SelfSufficient(t) ==
  {i \in DOMAIN t : Ok(t[i]) /\ t[i].out.alone /\ t[i].out.cand # NoAnswer}

Judged(t) ==
  /\ LatestAnswer(t) # {}
  /\ LatestVerdictIs(t, "yes")
  /\ ~Unchecked(t, RuleEvidence(t))

(* Faulty variant: checks again until the verdict is positive              *)
MustCheck_UntilYes(t) ==
  /\ LatestAnswer(t) # {}
  /\ "sufficiency_check" \in Tools
  /\ ~LatestVerdictIs(t, "yes")

MustCheck(t) ==
  /\ LatestAnswer(t) # {}
  /\ "sufficiency_check" \in Tools
  /\ Unchecked(t, RuleEvidence(t))

(* `limit' is _attempt_limit: the attempts a controller object allows      *)
Within(t, limit, tool) == tool \in Tools /\ Attempted(t, tool) < limit[tool]

(* _unfetched_url: listed by an ok turn and never attempted, even in vain  *)
AttemptedUrls(t) ==
  {t[i].call.key : i \in {j \in DOMAIN t : t[j].call.tool = "web_fetch"}}
ListedUrls(t) ==
  UNION {t[i].out.urls \cup t[i].out.hits : i \in {j \in DOMAIN t : Ok(t[j])}}
Fetches(t, limit) ==
  IF Within(t, limit, "web_fetch")
    THEN {Do("web_fetch", u) : u \in ListedUrls(t) \ AttemptedUrls(t)}
    ELSE {}

(* _next_search_args: a query not yet seen, where one without a key is     *)
(* never recognised. Before the first query is on record, one can only     *)
(* come from a sufficiency_check or from the prompt.                       *)
TriedQueries(t) ==
  {t[i].call.key : i \in {j \in DOMAIN t : t[j].call.tool = "web_search"}}
TriedTexts(t) == {TextOf[q] : q \in TriedQueries(t) \cap Queries}
QueryOnRecord(t) ==
  \E i \in DOMAIN t :
    /\ t[i].call.tool = "web_search"
    /\ \/ t[i].call.key \in Queries
       \/ Ok(t[i]) /\ t[i].out.cand = NoAnswer
Searches(req, t, limit) ==
  IF /\ Within(t, limit, "web_search")
     /\ \/ QueryOnRecord(t)
        \/ req.clues # "none"
        \/ Checks(t) # {}
    THEN {Do("web_search", q) :
            q \in {r \in Queries : r \in Keyless \/ TextOf[r] \notin TriedTexts(t)}}
    ELSE {}

FirstWithin(t, limit, tools) ==
  LET open == {i \in DOMAIN tools : Within(t, limit, tools[i])}
  IN  {tools[i] : i \in {j \in open : \A k \in open : j <= k}}

DocCalls(req, t, limit) ==
  IF req.context
    THEN {Do(tool, NoArgs) :
            tool \in FirstWithin(t, limit, <<"search_docs", "extract_answer">>)}
    ELSE {}

(* The walk over the profile calls the first tool with attempts left. It   *)
(* fetches only an unfetched URL, and searches with no query (the bare     *)
(* prompt) when none can be built, unless the prompt is a multi-clue one.  *)
ProfileCalls(req, t, limit) ==
  {Do(tool, NoArgs) : tool \in
     {x \in UNION {FirstWithin(t, limit, CapTools[c]) : c \in req.caps} :
        /\ x # "web_fetch"
        /\ x = "web_search" => req.clues # "multi"}}

(* Rules 5 to 8. The text rules may yield a fetch or a search; when they   *)
(* yield nothing the document tools come next, then the profile, then the  *)
(* best candidate, then surrender.                                         *)
LastResort(t) ==
  IF LatestAnswer(t) # {} THEN {Final(a) : a \in LatestAnswer(t)} ELSE {GiveUp}
FollowUps(req, t, limit) ==
  LET docs == DocCalls(req, t, limit)
      profile == ProfileCalls(req, t, limit)
      fixed == IF docs # {} THEN docs
               ELSE IF profile # {} THEN profile ELSE LastResort(t)
  IN  Fetches(t, limit) \cup Searches(req, t, limit) \cup fixed

RuleActions(req, t, limit) ==
  IF SelfSufficient(t) # {}
    THEN {Final(t[i].out.cand) : i \in Newest(SelfSufficient(t))}
  ELSE IF Judged(t) THEN {Final(a) : a \in LatestAnswer(t)}
  ELSE IF MustCheck(t) THEN {Do("sufficiency_check", NoArgs)}
  ELSE FollowUps(req, t, limit)
=============================================================================
