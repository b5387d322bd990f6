--------------------------- MODULE LLMController ---------------------------
(***************************************************************************)
(* LLMController.next_action: what becomes of a language model's reply on  *)
(* a transcript. The model may say anything; its rule-based fallback is    *)
(* asked at most once with the same answer, as it is a function of the     *)
(* request, the transcript and the tools.                                  *)
(*                                                                         *)
(* The words of a query are abstracted to the clue group they belong to    *)
(* and to three tests on them. The queries a result reports as tried are   *)
(* left out of the record of texts: the model's reply may then repeat such *)
(* a query where the code falls back, which only adds behaviours.          *)
(***************************************************************************)
EXTENDS RuleController

CONSTANTS
  GroupOf,         (* the clue group of a query's text, or NoGroup         *)
  NoGroup,
  SiteScoped,      (* queries that begin with site:                        *)
  CandidateScoped, (* compact queries with a quoted institution and a clue *)
  Overbroad        (* queries that blend clues or read like an instruction *)

ASSUME QueryAssumption ==
  /\ DOMAIN GroupOf = Queries
  /\ CandidateScoped \cap SiteScoped = {}
  /\ \A q \in CandidateScoped : GroupOf[q] # NoGroup

Multi(req) == req.clues = "multi"
Directed == SiteScoped \cup CandidateScoped
IsSearch(a) == a.kind = "call" /\ a.call.tool = "web_search"

-----------------------------------------------------------------------------
(* Reading the transcript                                                  *)

(* latest_output("requirement_coverage"): an empty table hides no older one*)
Tabled(t) == {i \in DOMAIN t : Ok(t[i]) /\ t[i].out.table # "none"}
LatestTable(t) == {t[i].out.table : i \in Newest(Tabled(t))}
Blocked(t) == LatestTable(t) \cap {"open", "mixed"} # {}
Mixed(t) == "mixed" \in LatestTable(t)

(* The first URL, of any kind, that no ok web_fetch has retrieved; which   *)
(* one of a turn comes first is left open.                                 *)
PendingAt(t, i) ==
  IF Ok(t[i]) THEN (t[i].out.urls \cup t[i].out.hits) \ FetchedOk(t) ELSE {}
Pending(t) ==
  UNION {PendingAt(t, i) : i \in
           {j \in DOMAIN t : \A k \in 1 .. j - 1 : PendingAt(t, k) = {}}}

EmptySearches(t) ==
  Cardinality({i \in DOMAIN t :
    Ok(t[i]) /\ t[i].call.tool = "web_search" /\ t[i].out.hits = {}})

(* _repeat_or_exhausted_multiclue_web_query                                *)
Repeated(req, t, key) ==
  /\ key \in Queries
  /\ \/ TextOf[key] \in TriedTexts(t)
     \/ /\ Multi(req)
        /\ key \notin SiteScoped
        /\ GroupOf[key] # NoGroup
        /\ \E q \in TriedQueries(t) \cap Queries : GroupOf[q] = GroupOf[key]

RetryLeft(t) ==
  "research_answer" \in Tools /\ Attempted(t, "research_answer") < 2
Retries == {Do("research_answer", Retry)}

-----------------------------------------------------------------------------
(* Before the model is asked                                               *)

(* Faulty variant: promoted only while requirements are open               *)
FollowUp_Blocked(req, t, fb) ==
  IF Multi(req) /\ Blocked(t) /\ Unchecked(t, LoopEvidence(t))
    THEN {Do("sufficiency_check", NoArgs)} ELSE {}

(* A multi-clue question has its new evidence checked, and a directed      *)
(* search for an open requirement carried out, without asking the model.   *)
FollowUp(req, t, fb) ==
  CASE ~Multi(req) -> {}
    [] Multi(req) /\ Unchecked(t, LoopEvidence(t)) /\ "sufficiency_check" \in Tools ->
         {Do("sufficiency_check", NoArgs)}
    [] OTHER ->
         {a \in {fb} : Blocked(t) /\ IsSearch(a) /\ a.call.key \in Directed}

ModelAsked(req, t, limit) ==
  \E fb \in RuleActions(req, t, limit) : FollowUp(req, t, fb) = {}

-----------------------------------------------------------------------------
(* What the model may reply: an action, or Garbage, which is an error of   *)
(* the client, a text without a JSON object, an unknown action or a call   *)
(* without a name. A reply whose action is not a string raises (see Abort  *)
(* in ControllerLoop).                                                     *)
Garbage == [kind |-> "garbage"]

InfoTools ==
  {"web_search", "web_fetch", "research_answer", "search_docs", "extract_answer"}

(* Faulty variants: calls, or surrenders, are not held back                *)
Refused_Finals(t, reply) == Blocked(t) /\ reply.kind = "final"
Refused_Stops(t, reply) == Blocked(t) /\ reply.kind = "surrender"

(* While requirements are open the model may neither end the run, nor call *)
(* anything that gathers no information, nor search before it has fetched. *)
Refused(t, reply) ==
  /\ Blocked(t)
  /\ \/ reply.kind \in {"final", "surrender"}
     \/ reply.kind = "call" /\ reply.call.tool \notin InfoTools
     \/ IsSearch(reply) /\ Pending(t) # {} /\ ~Mixed(t)

(* A repeated search becomes the fallback's action, and if that is a       *)
(* repeated search too, a fetch or a second try of the whole question.     *)
Escalate(req, t, fb) ==
  IF ~IsSearch(fb) \/ ~Repeated(req, t, fb.call.key) THEN {fb}
  ELSE IF "web_fetch" \in Tools /\ Pending(t) # {}
    THEN {Do("web_fetch", u) : u \in Pending(t)}
  ELSE IF RetryLeft(t) THEN Retries ELSE {fb}

(* Over a table that blames mixed sources, a blended search gives way to   *)
(* the fallback's, and one without a query counts as blended. Any other    *)
(* search goes out with the list of the queries tried so far, be it one    *)
(* with a query or without, unless two searches have come back empty.      *)
Blended(req, t, fb, key) ==
  Multi(req) /\ Mixed(t) /\ (key \in Queries => key \in Overbroad) /\ IsSearch(fb)
SentAs(key) ==
  IF key \in Queries THEN {q \in Queries : TextOf[q] = TextOf[key]} ELSE Blanks
SendSearch(req, t, fb, key) ==
  IF Blended(req, t, fb, key) THEN {fb}
  ELSE IF Multi(req) /\ EmptySearches(t) >= 2 /\ RetryLeft(t) THEN Retries
  ELSE {Do("web_search", k) : k \in SentAs(key)}

(* A repeated search is only caught when the fallback has a call to offer. *)
Obey(req, t, fb, reply) ==
  IF Refused(t, reply) \/ reply.kind = "garbage" THEN {fb}
  ELSE IF ~IsSearch(reply) THEN {reply}
  ELSE IF Repeated(req, t, reply.call.key) /\ fb.kind = "call"
    THEN Escalate(req, t, fb)
    ELSE SendSearch(req, t, fb, reply.call.key)

LLMActions(req, t, limit, replies) ==
  UNION { IF FollowUp(req, t, fb) # {} THEN FollowUp(req, t, fb)
                                       ELSE Obey(req, t, fb, reply) :
            fb \in RuleActions(req, t, limit), reply \in replies }
=============================================================================
