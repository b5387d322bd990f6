--------------------------- MODULE ControllerLoop ---------------------------
(***************************************************************************)
(* ControllerLoop.run with its BudgetTracker: ask the controller, gate     *)
(* finals and surrenders, skip repeated external calls, stop on repeated   *)
(* calls, cap attempts, run the tool in isolation, record the turn.        *)
(*                                                                         *)
(* The loop awaits twice per turn, in next_action and in tool.run; time    *)
(* passes there and nowhere else. Everything between two awaits is one     *)
(* step of the event loop and is split here only for readability.          *)
(***************************************************************************)
EXTENDS LLMController

CONSTANTS
  Driver,            (* "rule": the default controller without an LLM;     *)
                     (* "llm": the default one with an LLM;                *)
                     (* "any": some controller about which nothing is known*)
  Uttered,           (* the calls an LLM or an arbitrary controller may    *)
                     (* ask for                                            *)
  Answerer,          (* a web answerer is configured                       *)
  RequestSet,        (* the requests considered                            *)
  MaxSteps,          (* BudgetTracker.max_steps                            *)
  TimeLimit,         (* BudgetTracker.time_limit_s, or None                *)
  Reserve,           (* reserve_s of _deadline_near                        *)
  ToolTimeout,       (* tool_timeout_s, or None                            *)
  MaxAttempts,       (* max_attempts_per_tool                              *)
  MinAttempts,       (* _MIN_TOOL_ATTEMPTS, 0 for the tools not in it      *)
  MaxDuplicates,     (* max_consecutive_duplicates                         *)
  ControllerLatency, (* the longest await of next_action: the LLM client's *)
                     (* own timeout, a bound of the environment            *)
  ToolLatency,       (* the longest await of a tool when there is no       *)
                     (* ToolTimeout, a bound of the environment            *)
  None

ASSUME DriverAssumption == Driver \in {"rule", "llm", "any"}
ASSUME UtteredAssumption == Uttered \subseteq Call
ASSUME StepsAssumption == MaxSteps \in Nat
ASSUME TimeAssumption ==
  /\ None \notin Nat
  /\ TimeLimit \in Nat \cup {None}
  /\ Reserve \in Nat
  /\ ToolTimeout \in Nat \cup {None}
  /\ ControllerLatency \in Nat
  /\ ToolLatency \in Nat
ASSUME AttemptsAssumption ==
  /\ MaxAttempts \in Nat
  /\ MinAttempts \in [ToolNames -> Nat]
  /\ MaxDuplicates \in Nat \ {0}
ASSUME EnvironmentAssumption ==
  /\ Answerer \in BOOLEAN
  /\ RequestSet \subseteq Requests

VARIABLES
  request,     (* the task, fixed for the run                              *)
  transcript,
  steps,       (* BudgetTracker._steps_used                                *)
  clock,       (* time since BudgetTracker.start                           *)
  seen,        (* seen_external_call_keys                                  *)
  last,        (* last_call_key: {} or the singleton of a call             *)
  dups,        (* consecutive_duplicates                                   *)
  pc,          (* where in the loop body control is                        *)
  action,      (* the action, or the call, being processed                 *)
  outcome      (* the LoopOutcome, kind "none" while the loop runs         *)

vars == <<request, transcript, steps, clock, seen, last, dups, pc, action, outcome>>

-----------------------------------------------------------------------------
(* Budget                                                                  *)

(* Faulty variant: the deadline is not tested                              *)
CanContinue_Timeless == steps < MaxSteps

CanContinue == steps < MaxSteps /\ (TimeLimit # None => clock < TimeLimit)
DeadlineNear == TimeLimit # None /\ clock + Reserve >= TimeLimit

(* Attempt limits: the loop's cap, and the limits of the three rule        *)
(* controllers: the loop's own fallback, the orchestrator's default, which *)
(* is built with max_attempts=1 and max_external_attempts, and the LLM     *)
(* controller's fallback, which is built without either.                   *)
Larger(a, b) == IF a >= b THEN a ELSE b
Cap(tool) == Larger(MaxAttempts, MinAttempts[tool])
Uncapped == {"sufficiency_check"}
FallbackLimit == [tool \in ToolNames |-> Cap(tool)]
DefaultLimit ==
  [tool \in ToolNames |->
     IF tool \in External THEN Larger(Larger(1, MinAttempts[tool]), MaxAttempts)
                          ELSE Larger(1, MinAttempts[tool])]

LLMLimit == [tool \in ToolNames |-> Larger(1, MinAttempts[tool])]

Actions ==
  {Final(a) : a \in MaybeAnswer} \cup {GiveUp}
  \cup {Do(c.tool, c.key) : c \in Uttered}
NextActions ==
  CASE Driver = "rule" -> RuleActions(request, transcript, DefaultLimit)
    [] Driver = "llm" ->
         LLMActions(request, transcript, LLMLimit, Actions \cup {Garbage})
    [] Driver = "any" -> Actions

Idle == [kind |-> "idle"]
Outcome(kind, reason, answer) ==
  [kind |-> kind, reason |-> reason, answer |-> answer]

Stop(kind, reason, answer) ==
  /\ pc' = "done"
  /\ action' = Idle
  /\ outcome' = Outcome(kind, reason, answer)

(* transcript.append and budget.record_step always come together; the trace*)
(* callback only reads.                                                    *)
Record(c, status, out) ==
  /\ transcript' = Append(transcript, MakeTurn(c, status, out))
  /\ steps' = steps + 1
  /\ pc' = "top"
  /\ action' = Idle
  /\ UNCHANGED <<request, outcome>>

-----------------------------------------------------------------------------
(* Deciding                                                                *)

Truncate ==
  /\ pc = "top"
  /\ ~CanContinue
  /\ Stop("truncated", "budget", NoAnswer)
  /\ UNCHANGED <<request, transcript, steps, clock, seen, last, dups>>

MustAnalyze ==
  /\ "analyze_requirements" \in Tools
  /\ ~NameSeen(transcript, {"analyze_requirements"})

Analyze ==
  /\ pc = "top"
  /\ CanContinue
  /\ MustAnalyze
  /\ action' = Do("analyze_requirements", NoArgs)
  /\ pc' = "call"
  /\ UNCHANGED <<request, transcript, steps, clock, seen, last, dups, outcome>>

Ask ==
  /\ pc = "top"
  /\ CanContinue
  /\ ~MustAnalyze
  /\ \E a \in NextActions :
       /\ action' = a
       /\ pc' = IF a.kind = "call" THEN "call" ELSE "gate"
  /\ \E d \in 0 .. ControllerLatency : clock' = clock + d
  /\ UNCHANGED <<request, transcript, steps, seen, last, dups, outcome>>

(* The loop isolates its tools, not its controller: an exception of        *)
(* next_action leaves run. The rule controller raises none; the LLM        *)
(* controller raises on a reply whose action is not a string.              *)
Abort ==
  /\ pc = "top"
  /\ CanContinue
  /\ ~MustAnalyze
  /\ \/ Driver = "any"
     \/ Driver = "llm" /\ ModelAsked(request, transcript, LLMLimit)
  /\ Stop("escaped", "controller", NoAnswer)
  /\ UNCHANGED <<request, transcript, steps, clock, seen, last, dups>>

-----------------------------------------------------------------------------
(* The gate on a final answer or a surrender                               *)

(* _initial_external_research_call                                         *)
ResearchTool ==
  IF "research_answer" \in Tools THEN {"research_answer"}
                                 ELSE {"web_search"} \cap Tools
(* Faulty variant: only the first turn is guarded                          *)
ResearchDue_FirstTurn ==
  /\ transcript = <<>>
  /\ ~request.context
  /\ request.asks = "research"
  /\ ResearchTool # {}

ResearchDue ==
  /\ ~request.context
  /\ ~NameSeen(transcript, ExternalResearch)
  /\ request.asks # "closed"
  /\ request.asks = "research" \/ HasRequirements(transcript)
  /\ ResearchTool # {}

Research ==
  /\ pc = "gate"
  /\ ResearchDue
  /\ \E tool \in ResearchTool : action' = Do(tool, NoArgs)
  /\ pc' = "call"
  /\ UNCHANGED <<request, transcript, steps, clock, seen, last, dups, outcome>>

(* The action stands: the deadline is near, or no check is called for, or  *)
(* the budget cannot pay for one.                                          *)
Accept ==
  /\ pc = "gate"
  /\ ~ResearchDue
  /\ DeadlineNear \/ ~NeedsCheck(transcript) \/ ~CanContinue
  /\ IF action.kind = "final" THEN Stop("final", "accepted", action.answer)
                              ELSE Stop("surrendered", "accepted", NoAnswer)
  /\ UNCHANGED <<request, transcript, steps, clock, seen, last, dups>>

(* Otherwise the fallback decides; its own final is put to the same test.  *)
Fallback ==
  /\ pc = "gate"
  /\ ~ResearchDue
  /\ ~DeadlineNear /\ NeedsCheck(transcript) /\ CanContinue
  /\ \E a \in RuleActions(request, transcript, FallbackLimit) :
       CASE a.kind = "call" -> action' = a /\ pc' = "call" /\ UNCHANGED outcome
         [] a.kind = "surrender" -> Stop("surrendered", "accepted", NoAnswer)
         [] a.kind = "final" ->
              IF NeedsCheck(transcript)
                THEN Stop("surrendered", "evidence", NoAnswer)
                ELSE Stop("final", "accepted", a.answer)
  /\ UNCHANGED <<request, transcript, steps, clock, seen, last, dups>>

-----------------------------------------------------------------------------
(* A tool call                                                             *)

(* A repeated web_search becomes a web_fetch of a listed URL, if any.      *)
Resolved ==
  IF /\ action.call.tool = "web_search"
     /\ action.call \in seen
     /\ "web_fetch" \in Tools
     /\ FirstUnfetchedUrls(transcript) # {}
    THEN {MakeCall("web_fetch", u) : u \in FirstUnfetchedUrls(transcript)}
    ELSE {action.call}

IsRepeat(c) == c.tool \in External /\ c \in seen

(* Faulty variants: the skip is recorded for free, or not recorded at all  *)
SkipRepeat_Unpaid ==
  /\ pc = "call"
  /\ \E c \in Resolved :
       /\ IsRepeat(c)
       /\ transcript' = Append(transcript, MakeTurn(c, "duplicate", NoOutputs))
  /\ pc' = "top"
  /\ action' = Idle
  /\ UNCHANGED <<request, steps, clock, seen, last, dups, outcome>>
SkipRepeat_Unrecorded ==
  /\ pc = "call"
  /\ \E c \in Resolved : IsRepeat(c)
  /\ pc' = "top"
  /\ action' = Idle
  /\ UNCHANGED <<request, transcript, steps, clock, seen, last, dups, outcome>>

(* The skipped call is recorded, but is not a duplicate for `last'.        *)
SkipRepeat ==
  /\ pc = "call"
  /\ \E c \in Resolved : IsRepeat(c) /\ Record(c, "duplicate", NoOutputs)
  /\ UNCHANGED <<clock, seen, last, dups>>

(* Faulty variant: the repetitions are not counted                         *)
DupsAfter_Uncounted(c) == IF last = {c} THEN dups ELSE 0

DupsAfter(c) == IF last = {c} THEN dups + 1 ELSE 0

StopOnDuplicates ==
  /\ pc = "call"
  /\ \E c \in Resolved : ~IsRepeat(c) /\ last = {c} /\ DupsAfter(c) >= MaxDuplicates
  /\ dups' = dups + 1
  /\ Stop("surrendered", "duplicates", NoAnswer)
  /\ UNCHANGED <<request, transcript, steps, clock, seen, last>>

(* The call passes the duplicate checks and becomes the last call.         *)
Admit(c) ==
  /\ ~IsRepeat(c)
  /\ DupsAfter(c) < MaxDuplicates
  /\ dups' = DupsAfter(c)
  /\ last' = {c}

(* Faulty variant: one attempt too many                                    *)
AtCap_OffByOne(c) ==
  c.tool \notin Uncapped /\ Attempted(transcript, c.tool) > Cap(c.tool)

AtCap(c) == c.tool \notin Uncapped /\ Attempted(transcript, c.tool) >= Cap(c.tool)

Reject ==
  /\ pc = "call"
  /\ \E c \in Resolved :
       /\ Admit(c)
       /\ c.tool \notin Tools \/ AtCap(c)
       /\ Record(c, IF c.tool \in Tools THEN "capped" ELSE "unknown", NoOutputs)
  /\ UNCHANGED <<clock, seen>>

Start ==
  /\ pc = "call"
  /\ \E c \in Resolved :
       /\ Admit(c)
       /\ c.tool \in Tools /\ ~AtCap(c)
       /\ action' = [kind |-> "call", call |-> c]
  /\ pc' = "running"
  /\ UNCHANGED <<request, transcript, steps, clock, seen, outcome>>

-----------------------------------------------------------------------------
(* Awaiting the tool                                                       *)

RunBound == IF ToolTimeout = None THEN ToolLatency ELSE ToolTimeout

(* Faulty variant: only a successful call is remembered                    *)
Finish_Forgetful(status, out) ==
  /\ pc = "running"
  /\ Record(action.call, status, out)
  /\ seen' = IF action.call.tool \in External /\ status = "ok"
               THEN seen \cup {action.call} ELSE seen
  /\ \E d \in 0 .. RunBound : clock' = clock + d
  /\ UNCHANGED <<last, dups>>

(* Whatever became of it, an external call is remembered.                  *)
Finish(status, out) ==
  /\ pc = "running"
  /\ Record(action.call, status, out)
  /\ seen' = IF action.call.tool \in External THEN seen \cup {action.call} ELSE seen
  /\ \E d \in 0 .. RunBound : clock' = clock + d
  /\ UNCHANGED <<last, dups>>

Return ==
  \E out \in OkOutputs(transcript, action.call, Answerer) : Finish("ok", out)
Fail == action.call.tool \in CanFail /\ Finish("failed", NoOutputs)
Raise == Finish("raised", NoOutputs)
TimeOut == ToolTimeout # None /\ Finish("timeout", NoOutputs)

(* With timeouts disabled a TimeoutError of the tool's own enters the      *)
(* handler written for wait_for, which formats the timeout and so raises   *)
(* TypeError out of run.                                                   *)
Escape ==
  /\ pc = "running"
  /\ ToolTimeout = None
  /\ Stop("escaped", "timeout handler", NoAnswer)
  /\ UNCHANGED <<request, transcript, steps, clock, seen, last, dups>>

-----------------------------------------------------------------------------
Init ==
  /\ request \in RequestSet
  /\ transcript = <<>>
  /\ steps = 0
  /\ clock = 0
  /\ seen = {}
  /\ last = {}
  /\ dups = 0
  /\ pc = "top"
  /\ action = Idle
  /\ outcome = Outcome("none", "", NoAnswer)

Decide == Truncate \/ Analyze \/ Ask \/ Abort
Gate == Research \/ Accept \/ Fallback
Dispatch == SkipRepeat \/ StopOnDuplicates \/ Reject \/ Start
Await == pc = "running" /\ (Return \/ Fail \/ Raise \/ TimeOut \/ Escape)

Next == Decide \/ Gate \/ Dispatch \/ Await

(* The event loop resumes a coroutine whose await is over, and every await *)
(* of the loop ends: a tool by its timeout or latency, the controller by   *)
(* its own.                                                                *)
Spec == Init /\ [][Next]_vars /\ WF_vars(Next)
-----------------------------------------------------------------------------
(* Properties                                                              *)

Ran(turn) == turn.status \in RanStatus
RanTurns(t, tool) == {i \in DOMAIN t : Ran(t[i]) /\ t[i].call.tool = tool}

(* Types of the loop's locals, the budget and the transcript.              *)
ActionType ==
  {Idle, GiveUp} \cup {Final(a) : a \in MaybeAnswer}
  \cup {[kind |-> "call", call |-> c] : c \in Call}
OutcomeType ==
  [ kind   : {"none", "final", "surrendered", "truncated", "escaped"},
    reason : {"", "budget", "accepted", "evidence", "duplicates", "controller",
                "timeout handler"},
    answer : MaybeAnswer ]
TypeOK ==
  /\ request \in RequestSet
  /\ transcript \in Seq(Turn)
  /\ steps \in Nat
  /\ clock \in Nat
  /\ seen \subseteq Call
  /\ last \in {{}} \cup {{c} : c \in Call}
  /\ dups \in 0 .. MaxDuplicates
  /\ pc \in {"top", "gate", "call", "running", "done"}
  /\ action \in ActionType
  /\ outcome \in OutcomeType

(* Every turn is paid for, the skipped and the rejected ones too, and the  *)
(* transcript never outgrows the step budget, whichever way control takes  *)
(* through the loop body.                                                  *)
BudgetKept == steps = Len(transcript) /\ steps <= MaxSteps

(* No web_search or web_fetch runs twice with the same arguments in a task,*)
(* not after a failure or a timeout, not through the search-to-fetch swap. *)
NoExternalRepeat ==
  \A i, j \in DOMAIN transcript :
    /\ i < j
    /\ Ran(transcript[i]) /\ Ran(transcript[j])
    /\ transcript[i].call.tool \in External
    => transcript[i].call # transcript[j].call

(* No tool but sufficiency_check runs more often than its attempt cap.     *)
CapsHold ==
  \A tool \in ToolNames \ Uncapped :
    Cardinality(RanTurns(transcript, tool)) <= Cap(tool)

(* Away from the deadline no answer is committed over evidence that no     *)
(* later sufficiency_check has seen, nor against the latest verdict.       *)
CheckedFinal ==
  outcome.kind = "final" /\ ~DeadlineNear =>
    /\ \A i \in LoopEvidence(transcript) : \E j \in Checks(transcript) : i < j
    /\ ~LatestVerdictIs(transcript, "no")

(* An open-web question is not closed, with an answer or without, before a *)
(* research tool was called, unless the controller kept repeating a call.  *)
ResearchedStop ==
  /\ outcome.kind \in {"final", "surrendered"}
  /\ outcome.reason # "duplicates"
  /\ request.asks = "research" /\ ~request.context
  /\ ResearchTool # {}
  => NameSeen(transcript, ExternalResearch)

(* The same call is never admitted more than MaxDuplicates times in a row. *)
RowsBounded ==
  \A i \in 1 .. Len(transcript) - MaxDuplicates :
    ~ \A k \in i .. i + MaxDuplicates :
        /\ transcript[k].call = transcript[i].call
        /\ transcript[k].status # "duplicate"

(* A run overruns its time limit by at most one await of the controller    *)
(* and one of a tool: the limit is tested only at the top of the loop.     *)
OverrunBounded ==
  TimeLimit # None => clock <= TimeLimit + ControllerLatency + RunBound

(* With the rule controller an answer committed before the deadline is the *)
(* very candidate the latest sufficiency_check found sufficient.           *)
JudgedCommit ==
  outcome.kind = "final" /\ ~DeadlineNear =>
    \E i \in Newest(Checks(transcript)) :
      /\ transcript[i].out.verdict = "yes"
      /\ transcript[i].out.cand = outcome.answer

(* The newest turn that the loop admitted: only skipped repeats follow it. *)
LastAdmitted(n) ==
  /\ transcript[n].status # "duplicate"
  /\ \A j \in n + 1 .. Len(transcript) : transcript[j].status = "duplicate"

(* The rule controller's run is stopped for repeating itself only when it  *)
(* has no answer to commit, and only on a sufficiency_check that does not  *)
(* come back, on a fetch beyond the cap that stands for a repeated search, *)
(* or on a tool of which the fallback allows more attempts than the loop   *)
(* allows duplicates, while nothing is there to be checked.                *)
RepeatsInVain ==
  outcome.reason = "duplicates" =>
    /\ SelfSufficient(transcript) = {} /\ ~Judged(transcript)
    /\ \E n \in {i \in DOMAIN transcript : LastAdmitted(i)} :
         LET c == transcript[n].call IN
           \/ c = MakeCall("sufficiency_check", NoArgs) /\ ~Ok(transcript[n])
           \/ c.tool = "web_fetch" /\ Attempted(transcript, c.tool) > Cap(c.tool)
           \/ /\ c.tool \notin Uncapped \cup External
              /\ MaxDuplicates < Larger(1, Cap(c.tool))
              /\ ~MustCheck(transcript)

(* While the newest coverage table is open, the LLM controller's run       *)
(* commits, away from the deadline, only what the newest sufficiency_check *)
(* accepted or what a tool called sufficient alone: not what the model     *)
(* offers, nor what the fallback's last resort would.                      *)
OpenCommitJudged ==
  outcome.kind = "final" /\ ~DeadlineNear /\ Blocked(transcript) =>
    \/ \E i \in SelfSufficient(transcript) :
         transcript[i].out.cand = outcome.answer
    \/ \E i \in Newest(Checks(transcript)) :
         /\ transcript[i].out.verdict = "yes"
         /\ transcript[i].out.cand = outcome.answer

(* While requirements are open the LLM controller gives up, away from the  *)
(* deadline, only with no candidate at hand and with every document and    *)
(* profile tool used up, whatever the model says.                          *)
NoEarlySurrender ==
  /\ outcome.kind = "surrendered" /\ outcome.reason = "accepted"
  /\ ~DeadlineNear /\ Blocked(transcript)
  => /\ LatestAnswer(transcript) = {}
     /\ DocCalls(request, transcript, LLMLimit) = {}
     /\ ProfileCalls(request, transcript, LLMLimit) = {}

(* On a multi-clue question the LLM controller never lets evidence pile up:*)
(* between two results that carry evidence an ok sufficiency_check has run.*)
CheckedBetween ==
  Multi(request) /\ "sufficiency_check" \in Tools =>
    \A i, j \in LoopEvidence(transcript) :
      i < j => \E k \in Checks(transcript) : i < k /\ k < j

(* The run implements its abstract specification: one paid turn at a time, *)
(* every external call spent at most once, exactly one result. As the      *)
(* abstract run always ends, so does this one, whatever the controller says*)
(* and the tools do: every turn costs a step and every way through the loop*)
(* body records one or stops.                                              *)
ExternalCalls == {c \in Call : c.tool \in External}
Ledger(t) ==
  { [step |-> i, call |-> t[i].call] :
      i \in {j \in DOMAIN t : Ran(t[j]) /\ t[j].call.tool \in External} }
Bounded == INSTANCE BoundedRun WITH
  Spendable <- ExternalCalls,
  Timed <- TimeLimit # None,
  Results <- {"final", "surrendered", "truncated", "escaped"},
  used <- Len(transcript),
  ledger <- Ledger(transcript),
  result <- outcome.kind
RunIsBounded == Bounded!Spec

-----------------------------------------------------------------------------
(* What the documentation claims and the code does not keep                *)

(* loop.py: "exception isolation (tool exceptions become failed            *)
(* observations)": no exception of a tool ends the run.                    *)
ExceptionsIsolated == outcome.reason # "timeout handler"

(* rule_controller.py: "If any prior turn marked itself sufficient_alone   *)
(* ..., commit that candidate directly": with such a candidate at hand the *)
(* run does not end in a surrender for lack of evidence.                   *)
SelfSufficientCommits ==
  outcome.reason = "evidence" => SelfSufficient(transcript) = {}

(* llm_controller.py: "falls back to ``Surrender`` on any malformed        *)
(* output": no reply of the model makes the controller raise.              *)
MalformedTolerated == outcome.reason # "controller"
=============================================================================
