------------------------ MODULE RuleController_proofs -----------------------
(***************************************************************************)
(* Types of what the transcript's readers, the tools and the rule          *)
(* controller return. Whatever the transcript, the controller answers with *)
(* a final, a surrender or a call of a registered tool with arguments it   *)
(* found on the transcript.                                                *)
(***************************************************************************)
EXTENDS RuleController, SequenceTheorems, TLAPS

LEMMA TurnFields ==
  ASSUME NEW t \in Seq(Turn), NEW i \in DOMAIN t
  PROVE  /\ t[i].call \in Call
         /\ t[i].call.key \in Keys
         /\ t[i].out.cand \in Answers \cup {NoAnswer}
         /\ t[i].out.urls \subseteq Urls
         /\ t[i].out.hits \subseteq Urls
<1>1. t[i] \in Turn
  OBVIOUS
<1>2. t[i].call \in Call /\ t[i].out \in Outputs
  BY <1>1 DEF Turn
<1> QED
  BY <1>2 DEF Call, Outputs

(* latest_output: what it returns was a candidate of some turn.            *)
LEMMA LatestAnswerType ==
  ASSUME NEW t \in Seq(Turn)
  PROVE  LatestAnswer(t) \subseteq Answers
BY TurnFields DEF LatestAnswer, Newest, Answered

(* _first_unfetched_url returns a URL that some result listed.             *)
LEMMA FirstUnfetchedType ==
  ASSUME NEW t \in Seq(Turn)
  PROVE  FirstUnfetchedUrls(t) \subseteq Urls
BY TurnFields DEF FirstUnfetchedUrls, UnfetchedAt

LEMMA NoOutputsType == NoOutputs \in Outputs
BY DEF NoOutputs, Outputs

LEMMA ShapesType ==
  /\ \A a \in MaybeAnswer, u \in SUBSET Urls : Found(a, u) \in Outputs
  /\ \A a \in MaybeAnswer, s \in BOOLEAN : Extract(a, s) \in Outputs
  /\ \A s \in BOOLEAN, u \in SUBSET Urls : Passages(s, u) \in Outputs
  /\ \A a \in MaybeAnswer, v \in {"yes", "no", "none"}, u \in SUBSET Urls :
       Verdict(a, v, u) \in Outputs
BY DEF Found, Verdict, Extract, Passages, NoOutputs, Outputs, MaybeAnswer

LEMMA VerdictsType ==
  ASSUME NEW t \in Seq(Turn), NEW key
  PROVE  Verdicts(t, key) \subseteq Outputs
<1> DEFINE given == IF key \in Answers THEN {key} ELSE LatestAnswer(t)
           spans == \E i \in DOMAIN t : Ok(t[i]) /\ t[i].out.spans
           verdicts == IF given # {} \/ spans THEN {"yes", "no"} ELSE {"no"}
<1>1. given \subseteq MaybeAnswer
  BY LatestAnswerType DEF MaybeAnswer
<1>2. verdicts \subseteq {"yes", "no", "none"}
  OBVIOUS
<1> HIDE DEF given, verdicts
<1>3. {Verdict(a, v, u) : a \in given, v \in verdicts, u \in SUBSET Urls}
        \subseteq Outputs
  <2>1. \A a \in given, v \in verdicts, u \in SUBSET Urls :
          Verdict(a, v, u) \in Outputs
    BY <1>1, <1>2, ShapesType
  <2> QED
    BY <2>1
<1>4. {Verdict(NoAnswer, v, {}) : v \in verdicts} \subseteq Outputs
  BY <1>2, ShapesType DEF MaybeAnswer
<1> QED
  BY <1>3, <1>4 DEF Verdicts, given, verdicts

LEMMA CheckOutputsType ==
  ASSUME NEW t \in Seq(Turn), NEW key
  PROVE  CheckOutputs(t, key) \subseteq Outputs
<1>1. \A o \in Verdicts(t, key), b \in Tables : [o EXCEPT !.table = b] \in Outputs
  BY VerdictsType DEF Outputs
<1> QED
  BY <1>1 DEF CheckOutputs

(* Whatever an ok run of a tool returns, its outputs have the shape the    *)
(* transcript's readers expect.                                            *)
LEMMA OkOutputsType ==
  ASSUME NEW t \in Seq(Turn), NEW call \in Call, NEW answerer \in BOOLEAN
  PROVE  OkOutputs(t, call, answerer) \subseteq Outputs
<1>1. AnalyzeOutputs \subseteq Outputs
  BY DEF AnalyzeOutputs, NoOutputs, Outputs
<1>2. CheckOutputs(t, call.key) \subseteq Outputs
  BY CheckOutputsType
<1>3. SearchOutputs \subseteq Outputs
  BY DEF SearchOutputs, NoOutputs, Outputs
<1>4. AnswererOutputs \subseteq Outputs
  BY ShapesType DEF AnswererOutputs, MaybeAnswer
<1>5. FetchOutputs(call.key) \subseteq Outputs
  BY ShapesType DEF FetchOutputs
<1>6. ResearchOutputs \subseteq Outputs
  BY ShapesType DEF ResearchOutputs
<1>7. ExtractOutputs \subseteq Outputs
  BY ShapesType DEF ExtractOutputs
<1>8. SearchDocsOutputs \subseteq Outputs
  BY ShapesType DEF SearchDocsOutputs
<1>9. CalculateOutputs \subseteq Outputs
  BY DEF CalculateOutputs, NoOutputs, Outputs
<1>10. FinishOutputs(call.key) \subseteq Outputs
  BY DEF FinishOutputs, NoOutputs, Outputs
<1> QED
  BY <1>1, <1>2, <1>3, <1>4, <1>5, <1>6, <1>7, <1>8, <1>9, <1>10, NoOutputsType
  DEF OkOutputs

-----------------------------------------------------------------------------
Closing == {GiveUp} \cup {Final(a) : a \in MaybeAnswer}
Calling == {[kind |-> "call", call |-> c] : c \in Call}

LEMMA DoType ==
  ASSUME NEW tool \in ToolNames, NEW key \in Keys
  PROVE  Do(tool, key) \in Calling
BY DEF Do, Calling, MakeCall, Call

LEMMA FetchesType ==
  ASSUME NEW t \in Seq(Turn), NEW limit
  PROVE  Fetches(t, limit) \subseteq Calling
<1>1. ListedUrls(t) \subseteq Urls
  BY TurnFields DEF ListedUrls
<1>2. Within(t, limit, "web_fetch") => "web_fetch" \in ToolNames
  BY ToolsAssumption DEF Within
<1>3. \A u \in Urls : u \in Keys
  BY DEF Keys
<1> QED
  BY <1>1, <1>2, <1>3, DoType DEF Fetches

LEMMA SearchesType ==
  ASSUME NEW req, NEW t \in Seq(Turn), NEW limit
  PROVE  Searches(req, t, limit) \subseteq Calling
<1>1. Within(t, limit, "web_search") => "web_search" \in ToolNames
  BY ToolsAssumption DEF Within
<1>2. \A q \in Queries : q \in Keys
  BY DEF Keys
<1> QED
  BY <1>1, <1>2, DoType DEF Searches

LEMMA FirstWithinType ==
  ASSUME NEW t, NEW limit, NEW tools
  PROVE  FirstWithin(t, limit, tools) \subseteq ToolNames
BY ToolsAssumption DEF FirstWithin, Within

LEMMA FollowUpsType ==
  ASSUME NEW req, NEW t \in Seq(Turn), NEW limit
  PROVE  FollowUps(req, t, limit) \subseteq Closing \cup Calling
<1>1. NoArgs \in Keys
  BY DEF Keys
<1>2. DocCalls(req, t, limit) \subseteq Calling
  BY <1>1, FirstWithinType, DoType DEF DocCalls
<1>3. ProfileCalls(req, t, limit) \subseteq Calling
  BY <1>1, FirstWithinType, DoType DEF ProfileCalls
<1>4. LastResort(t) \subseteq Closing
  BY LatestAnswerType DEF LastResort, Closing, MaybeAnswer
<1> QED
  BY <1>2, <1>3, <1>4, FetchesType, SearchesType DEF FollowUps

(* RuleBasedController.next_action returns an Action.                      *)
LEMMA RuleActionsType ==
  ASSUME NEW req, NEW t \in Seq(Turn), NEW limit
  PROVE  RuleActions(req, t, limit) \subseteq Closing \cup Calling
<1>1. \A a \in Answers : Final(a) \in Closing
  BY DEF Closing, MaybeAnswer
<1>2. \A i \in SelfSufficient(t) : t[i].out.cand \in Answers
  BY TurnFields DEF SelfSufficient
<1>3. \A i \in Newest(SelfSufficient(t)) : Final(t[i].out.cand) \in Closing
  BY <1>1, <1>2 DEF Newest
<1>4. \A a \in LatestAnswer(t) : Final(a) \in Closing
  BY <1>1, LatestAnswerType
<1>5. MustCheck(t) => Do("sufficiency_check", NoArgs) \in Calling
  BY DoType, ToolsAssumption DEF MustCheck, Keys
<1> QED
  BY <1>3, <1>4, <1>5, FollowUpsType DEF RuleActions
=============================================================================
