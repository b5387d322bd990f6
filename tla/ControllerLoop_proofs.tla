------------------------ MODULE ControllerLoop_proofs -----------------------
(***************************************************************************)
(* What the loop keeps for every catalog of tools, every controller and    *)
(* every budget. The inductive invariant IInv ties the position in the     *)
(* loop body to the action held, the steps left and the calls remembered.  *)
(***************************************************************************)
EXTENDS ControllerLoop, RuleController_proofs

(* The action held is of the kind the position in the loop body needs.     *)
ActionFits ==
  /\ pc = "gate" => action \in Closing
  /\ pc \in {"call", "running"} => action \in Calling

(* A turn begun can be paid for; the run is not over before it is over.    *)
Payable == pc \in {"gate", "call", "running"} => steps < MaxSteps
StillRunning == pc # "done" => dups < MaxDuplicates /\ outcome.kind = "none"
Over == pc = "done" => outcome.kind # "none"

(* Every external call that ran is remembered, and the one about to run    *)
(* is not among them.                                                      *)
Remembered ==
  \A i \in DOMAIN transcript :
    Ran(transcript[i]) /\ transcript[i].call.tool \in External
      => transcript[i].call \in seen
Fresh == pc = "running" /\ action.call.tool \in External => action.call \notin seen

IInv ==
  /\ TypeOK
  /\ ActionFits
  /\ BudgetKept
  /\ Payable
  /\ StillRunning
  /\ Over
  /\ NoExternalRepeat
  /\ Remembered
  /\ Fresh

-----------------------------------------------------------------------------
LEMMA ClosingFields ==
  ASSUME NEW a \in Closing
  PROVE  a \in ActionType /\ a.kind \in {"final", "surrender"} /\ a.answer \in MaybeAnswer
BY DEF Closing, ActionType, Final, GiveUp, MaybeAnswer

LEMMA CallingFields ==
  ASSUME NEW a \in Calling
  PROVE  a \in ActionType /\ a.kind = "call" /\ a.call \in Call
BY DEF Calling, ActionType

(* Whatever the model replies, the LLM controller answers with an action.  *)
LEMMA LLMActionsType ==
  ASSUME NEW req, NEW t \in Seq(Turn), NEW limit, NEW replies,
         \A reply \in replies :
           reply.kind = "garbage" \/ reply \in Closing \cup Calling
  PROVE  LLMActions(req, t, limit, replies) \subseteq Closing \cup Calling
<1> SUFFICES ASSUME NEW fb \in RuleActions(req, t, limit), NEW reply \in replies
             PROVE  /\ FollowUp(req, t, fb) \subseteq Closing \cup Calling
                    /\ Obey(req, t, fb, reply) \subseteq Closing \cup Calling
  BY DEF LLMActions
<1>1. fb \in Closing \cup Calling
  BY RuleActionsType
<1>2. \A tool \in Tools, key \in Keys : Do(tool, key) \in Calling
  BY DoType, ToolsAssumption
<1>3. FollowUp(req, t, fb) \subseteq Closing \cup Calling
  BY <1>1, <1>2 DEF FollowUp, Keys
<1>4. Pending(t) \subseteq Urls
  BY TurnFields DEF Pending, PendingAt
<1>5. RetryLeft(t) => Retries \subseteq Calling
  BY <1>2 DEF RetryLeft, Retries, Keys
<1>6. Escalate(req, t, fb) \subseteq Closing \cup Calling
  BY <1>1, <1>2, <1>4, <1>5 DEF Escalate, Keys
<1>7. ASSUME IsSearch(reply), reply \in Closing \cup Calling
      PROVE  SendSearch(req, t, fb, reply.call.key) \subseteq Closing \cup Calling
  <2>1. reply \in Calling
    BY <1>7 DEF IsSearch, Closing, Final, GiveUp
  <2>2. "web_search" \in ToolNames /\ reply.call.key \in Keys
    BY <1>7, <2>1 DEF IsSearch, Calling, Call
  <2>3. \A k \in SentAs(reply.call.key) : Do("web_search", k) \in Calling
    BY <2>2, DoType DEF SentAs, Keys
  <2> QED
    BY <1>1, <1>5, <2>3 DEF SendSearch
<1> QED
  BY <1>1, <1>3, <1>6, <1>7 DEF Obey, IsSearch

(* Whatever drives the loop, it answers with an action.                    *)
LEMMA NextActionsType ==
  ASSUME transcript \in Seq(Turn)
  PROVE  NextActions \subseteq Closing \cup Calling
<1>1. Actions \subseteq Closing \cup Calling
  BY UtteredAssumption DEF Actions, Closing, Calling, Do, MakeCall, Call
<1>2. LLMActions(request, transcript, LLMLimit, Actions \cup {Garbage})
        \subseteq Closing \cup Calling
  BY <1>1, LLMActionsType DEF Garbage
<1> QED
  BY <1>1, <1>2, RuleActionsType, DriverAssumption DEF NextActions

LEMMA ResolvedType ==
  ASSUME transcript \in Seq(Turn), action \in Calling
  PROVE  Resolved \subseteq Call
<1>1. \A u \in Urls : u \in Keys
  BY DEF Keys
<1>2. "web_fetch" \in Tools => \A u \in Urls : MakeCall("web_fetch", u) \in Call
  BY <1>1, ToolsAssumption DEF MakeCall, Call
<1> QED
  BY <1>2, CallingFields, FirstUnfetchedType DEF Resolved

LEMMA MakeTurnType ==
  ASSUME NEW c \in Call, NEW status \in RanStatus \cup SkipStatus, NEW out \in Outputs
  PROVE  /\ MakeTurn(c, status, out) \in Turn
         /\ MakeTurn(c, status, out).call = c
         /\ MakeTurn(c, status, out).status = status
BY DEF MakeTurn, Turn

LEMMA RecordType ==
  ASSUME IInv, NEW c \in Call, NEW status \in RanStatus \cup SkipStatus,
         NEW out \in Outputs, Record(c, status, out)
  PROVE  /\ transcript' \in Seq(Turn)
         /\ Len(transcript') = Len(transcript) + 1
         /\ \A i \in DOMAIN transcript : transcript'[i] = transcript[i]
         /\ DOMAIN transcript' = DOMAIN transcript \cup {Len(transcript) + 1}
         /\ transcript'[Len(transcript) + 1].call = c
         /\ transcript'[Len(transcript) + 1].status = status
BY MakeTurnType, AppendProperties, LenProperties DEF Record, IInv, TypeOK

(* Recording a turn that was begun keeps the invariant, if a call that ran *)
(* was new and is remembered.                                              *)
LEMMA RecordKeeps ==
  ASSUME IInv, Payable, pc \in {"call", "running"},
         NEW c \in Call, NEW status \in RanStatus \cup SkipStatus,
         NEW out \in Outputs, Record(c, status, out),
         seen \subseteq seen', seen' \subseteq Call,
         status \in RanStatus /\ c.tool \in External => c \notin seen /\ c \in seen',
         clock' \in Nat,
         last' \in {{}} \cup {{d} : d \in Call},
         dups' \in 0 .. MaxDuplicates - 1
  PROVE  IInv'
<1> USE DEF IInv
<1> DEFINE n == Len(transcript) + 1
<1>1. /\ transcript' \in Seq(Turn)
      /\ Len(transcript') = n
      /\ \A i \in DOMAIN transcript : transcript'[i] = transcript[i]
      /\ DOMAIN transcript' = DOMAIN transcript \cup {n}
      /\ transcript'[n].call = c
      /\ transcript'[n].status = status
  BY RecordType
<1>2. n \in Nat /\ DOMAIN transcript = 1 .. n - 1
  BY LenProperties DEF TypeOK
<1>3. pc' = "top" /\ action' = Idle /\ steps' = steps + 1
      /\ request' = request /\ outcome' = outcome
  BY DEF Record
<1> HIDE DEF n
<1>4. TypeOK'
  BY <1>1, <1>3, AttemptsAssumption DEF TypeOK, ActionType
<1>5. ActionFits' /\ Payable' /\ StillRunning' /\ Over' /\ Fresh'
  BY <1>3, AttemptsAssumption DEF ActionFits, Payable, StillRunning, Over, Fresh
<1>6. BudgetKept'
  BY <1>1, <1>3, StepsAssumption DEF BudgetKept, Payable, TypeOK, n
<1>7. Remembered'
  BY <1>1 DEF Remembered, Ran
<1>8. NoExternalRepeat'
  <2> SUFFICES ASSUME NEW i \in DOMAIN transcript', NEW j \in DOMAIN transcript',
                      i < j, Ran(transcript'[i]), Ran(transcript'[j]),
                      transcript'[i].call.tool \in External
               PROVE  transcript'[i].call # transcript'[j].call
    BY DEF NoExternalRepeat, Ran
  <2>1. i \in DOMAIN transcript
    BY <1>1, <1>2
  <2>2. CASE j \in DOMAIN transcript
    BY <1>1, <2>1, <2>2 DEF NoExternalRepeat, Ran
  <2>3. CASE j = n
    <3>1. transcript[i].call \in seen
      BY <1>1, <2>1 DEF Remembered, Ran
    <3>2. c.tool \in External => c \notin seen
      BY <1>1, <2>3 DEF Ran
    <3> QED
      BY <1>1, <2>1, <2>3, <3>1, <3>2
  <2> QED
    BY <1>1, <2>2, <2>3
<1> QED
  BY <1>4, <1>5, <1>6, <1>7, <1>8

(* Ending the run keeps the invariant.                                     *)
LEMMA StopKeeps ==
  ASSUME IInv, NEW kind \in {"final", "surrendered", "truncated", "escaped"},
         NEW reason \in {"budget", "accepted", "evidence", "duplicates",
                         "controller", "timeout handler"},
         NEW answer \in MaybeAnswer, Stop(kind, reason, answer),
         UNCHANGED <<request, transcript, steps, seen, last>>,
         clock' \in Nat, dups' \in 0 .. MaxDuplicates
  PROVE  IInv'
<1> USE DEF IInv
<1>1. TypeOK'
  BY DEF Stop, TypeOK, ActionType, Outcome, OutcomeType
<1>2. ActionFits' /\ Payable' /\ StillRunning' /\ Over' /\ Fresh'
  BY DEF Stop, Outcome, ActionFits, Payable, StillRunning, Over, Fresh
<1>3. BudgetKept' /\ NoExternalRepeat' /\ Remembered'
  BY DEF BudgetKept, NoExternalRepeat, Remembered, Ran
<1> QED
  BY <1>1, <1>2, <1>3

(* Choosing an action within a turn that can be paid for keeps it too.     *)
LEMMA ChooseKeeps ==
  ASSUME IInv, steps < MaxSteps, pc # "done",
         \/ pc' = "gate" /\ action' \in Closing
         \/ pc' = "call" /\ action' \in Calling,
         UNCHANGED <<request, transcript, steps, seen, last, dups, outcome>>,
         clock' \in Nat
  PROVE  IInv'
<1> USE DEF IInv
<1>1. TypeOK'
  BY ClosingFields, CallingFields DEF TypeOK
<1>2. ActionFits' /\ Payable' /\ StillRunning' /\ Over' /\ Fresh'
  BY DEF ActionFits, Payable, StillRunning, Over, Fresh
<1>3. BudgetKept' /\ NoExternalRepeat' /\ Remembered'
  BY DEF BudgetKept, NoExternalRepeat, Remembered, Ran
<1> QED
  BY <1>1, <1>2, <1>3

LEMMA IInvInit == Init => IInv
<1> SUFFICES ASSUME Init PROVE IInv
  OBVIOUS
<1>1. /\ transcript \in Seq(Turn) /\ Len(transcript) = 0
      /\ \A i \in DOMAIN transcript : FALSE
  <2>1. transcript = <<>>
    BY DEF Init
  <2> QED
    BY <2>1
<1>2. /\ request \in RequestSet /\ steps = 0 /\ clock = 0
      /\ seen \subseteq Call /\ last \in {{}} /\ dups = 0
      /\ pc = "top" /\ action \in {Idle}
  BY DEF Init
<1>3. outcome \in OutcomeType /\ outcome.kind = "none"
  BY DEF Init, Outcome, OutcomeType, MaybeAnswer
<1>4. TypeOK
  BY <1>1, <1>2, <1>3, AttemptsAssumption DEF TypeOK, ActionType
<1>5. ActionFits /\ Payable /\ StillRunning /\ Over /\ Fresh
  BY <1>2, <1>3, AttemptsAssumption DEF ActionFits, Payable, StillRunning, Over, Fresh
<1>6. BudgetKept /\ NoExternalRepeat /\ Remembered
  BY <1>1, <1>2, StepsAssumption DEF BudgetKept, NoExternalRepeat, Remembered
<1> QED
  BY <1>4, <1>5, <1>6 DEF IInv

LEMMA DecideKeeps ==
  ASSUME IInv, Decide
  PROVE  IInv'
<1> USE DEF IInv, TypeOK
<1>1. CASE Truncate
  BY <1>1, StopKeeps DEF Truncate, MaybeAnswer, StillRunning
<1>2. CASE Analyze
  <2>1. Do("analyze_requirements", NoArgs) \in Calling
    BY <1>2, DoType, ToolsAssumption DEF Analyze, MustAnalyze, Keys
  <2> QED
    BY <1>2, <2>1, ChooseKeeps DEF Analyze, CanContinue
<1>3. CASE Ask
  <2>1. PICK a \in NextActions :
          action' = a /\ pc' = IF a.kind = "call" THEN "call" ELSE "gate"
    BY <1>3 DEF Ask
  <2>2. a \in Closing \cup Calling
    BY NextActionsType
  <2>3. clock' \in Nat
    BY <1>3, TimeAssumption DEF Ask
  <2> QED
    BY <1>3, <2>1, <2>2, <2>3, ClosingFields, CallingFields, ChooseKeeps
    DEF Ask, CanContinue
<1>4. CASE Abort
  BY <1>4, StopKeeps DEF Abort, MaybeAnswer, StillRunning
<1> QED
  BY <1>1, <1>2, <1>3, <1>4 DEF Decide

LEMMA GateKeeps ==
  ASSUME IInv, Gate
  PROVE  IInv'
<1> USE DEF IInv, TypeOK
<1>1. CASE Research
  <2>1. \A tool \in ResearchTool : Do(tool, NoArgs) \in Calling
    BY DoType, ToolsAssumption DEF ResearchTool, Keys
  <2> QED
    BY <1>1, <2>1, ChooseKeeps DEF Research, Payable
<1>2. CASE Accept
  <2>1. action.answer \in MaybeAnswer
    BY <1>2, ClosingFields DEF Accept, ActionFits
  <2> QED
    BY <1>2, <2>1, StopKeeps DEF Accept, MaybeAnswer
<1>3. CASE Fallback
  <2>1. PICK a \in RuleActions(request, transcript, FallbackLimit) :
          CASE a.kind = "call" -> action' = a /\ pc' = "call" /\ UNCHANGED outcome
            [] a.kind = "surrender" -> Stop("surrendered", "accepted", NoAnswer)
            [] a.kind = "final" ->
                 IF NeedsCheck(transcript)
                   THEN Stop("surrendered", "evidence", NoAnswer)
                   ELSE Stop("final", "accepted", a.answer)
    BY <1>3 DEF Fallback
  <2>2. a \in Closing \cup Calling
    BY RuleActionsType
  <2>3. UNCHANGED <<request, transcript, steps, clock, seen, last, dups>>
    BY <1>3 DEF Fallback
  <2>4. CASE a \in Calling
    BY <1>3, <2>1, <2>3, <2>4, CallingFields, ChooseKeeps DEF Fallback, Payable
  <2>5. CASE a \in Closing
    <3>1. a.kind \in {"final", "surrender"} /\ a.answer \in MaybeAnswer
      BY <2>5, ClosingFields
    <3>2. \/ Stop("surrendered", "accepted", NoAnswer)
          \/ Stop("surrendered", "evidence", NoAnswer)
          \/ Stop("final", "accepted", a.answer)
      BY <2>1, <3>1
    <3> QED
      BY <2>3, <3>1, <3>2, StopKeeps DEF MaybeAnswer
  <2> QED
    BY <2>2, <2>4, <2>5
<1> QED
  BY <1>1, <1>2, <1>3 DEF Gate

LEMMA DispatchKeeps ==
  ASSUME IInv, Dispatch
  PROVE  IInv'
<1> USE DEF IInv, TypeOK
<1>1. pc = "call" /\ action \in Calling
  BY DEF Dispatch, SkipRepeat, StopOnDuplicates, Reject, Start, ActionFits
<1>2. Resolved \subseteq Call
  BY <1>1, ResolvedType
<1>3. dups \in 0 .. MaxDuplicates - 1
  BY <1>1, AttemptsAssumption DEF StillRunning
<1>4. CASE SkipRepeat
  <2>1. PICK c \in Resolved : IsRepeat(c) /\ Record(c, "duplicate", NoOutputs)
    BY <1>4 DEF SkipRepeat
  <2>2. UNCHANGED <<clock, seen, last, dups>>
    BY <1>4 DEF SkipRepeat
  <2> QED
    BY <1>1, <1>2, <1>3, <2>1, <2>2, RecordKeeps, NoOutputsType
    DEF RanStatus, SkipStatus
<1>5. CASE StopOnDuplicates
  <2>1. dups' \in 0 .. MaxDuplicates
    BY <1>3, <1>5, AttemptsAssumption DEF StopOnDuplicates
  <2> QED
    BY <1>5, <2>1, StopKeeps DEF StopOnDuplicates, MaybeAnswer
<1>6. ASSUME NEW c \in Resolved, Admit(c)
      PROVE  /\ c \in Call /\ ~IsRepeat(c)
             /\ last' \in {{}} \cup {{d} : d \in Call}
             /\ dups' \in 0 .. MaxDuplicates - 1
  BY <1>2, <1>3, <1>6, AttemptsAssumption DEF Admit, DupsAfter
<1>7. CASE Reject
  <2>1. PICK c \in Resolved :
          /\ Admit(c)
          /\ Record(c, IF c.tool \in Tools THEN "capped" ELSE "unknown", NoOutputs)
    BY <1>7 DEF Reject
  <2>2. UNCHANGED <<clock, seen>>
    BY <1>7 DEF Reject
  <2>3. PICK status \in {"capped", "unknown"} : Record(c, status, NoOutputs)
    BY <2>1
  <2> QED
    BY <1>1, <1>6, <2>1, <2>2, <2>3, RecordKeeps, NoOutputsType
    DEF RanStatus, SkipStatus
<1>8. CASE Start
  <2>1. PICK c \in Resolved : Admit(c) /\ action' = [kind |-> "call", call |-> c]
    BY <1>8 DEF Start
  <2>2. action' \in Calling /\ action'.call = c
    BY <1>6, <2>1 DEF Calling
  <2>3. /\ pc' = "running"
        /\ UNCHANGED <<request, transcript, steps, clock, seen, outcome>>
    BY <1>8 DEF Start
  <2>4. /\ ~IsRepeat(c)
        /\ last' \in {{}} \cup {{d} : d \in Call}
        /\ dups' \in 0 .. MaxDuplicates - 1
    BY <1>6, <2>1
  <2>5. TypeOK'
    <3>1. action' \in ActionType
      BY <2>2, CallingFields
    <3> QED
      BY <2>3, <2>4, <3>1, AttemptsAssumption
  <2>7. ActionFits' /\ Payable' /\ StillRunning' /\ Over' /\ Fresh'
    BY <1>1, <2>2, <2>3, <2>4, AttemptsAssumption
    DEF ActionFits, Payable, StillRunning, Over, Fresh, IsRepeat
  <2>6. BudgetKept' /\ NoExternalRepeat' /\ Remembered'
    BY <2>3 DEF BudgetKept, NoExternalRepeat, Remembered, Ran
  <2> QED
    BY <2>5, <2>6, <2>7
<1> QED
  BY <1>4, <1>5, <1>7, <1>8 DEF Dispatch

LEMMA AwaitKeeps ==
  ASSUME IInv, Await
  PROVE  IInv'
<1> USE DEF IInv, TypeOK
<1>1. pc = "running" /\ action \in Calling /\ action.call \in Call
  BY CallingFields DEF Await, ActionFits
<1>2. ASSUME NEW status \in RanStatus, NEW out \in Outputs, Finish(status, out)
      PROVE  IInv'
  <2>1. Record(action.call, status, out)
    BY <1>2 DEF Finish
  <2>2. clock' \in Nat
    BY <1>2, TimeAssumption DEF Finish, RunBound
  <2>3. /\ seen \subseteq seen' /\ seen' \subseteq Call
        /\ action.call.tool \in External =>
             action.call \notin seen /\ action.call \in seen'
    BY <1>1, <1>2 DEF Finish, Fresh
  <2>4. UNCHANGED <<last, dups>> /\ dups \in 0 .. MaxDuplicates - 1
    BY <1>1, <1>2, AttemptsAssumption DEF Finish, StillRunning
  <2> QED
    BY <1>1, <2>1, <2>2, <2>3, <2>4, RecordKeeps
<1>3. CASE Return
  BY <1>1, <1>2, <1>3, OkOutputsType, EnvironmentAssumption DEF Return, RanStatus
<1>4. CASE Fail \/ Raise \/ TimeOut
  BY <1>2, <1>4, NoOutputsType DEF Fail, Raise, TimeOut, RanStatus
<1>5. CASE Escape
  BY <1>1, <1>5, StopKeeps DEF Escape, MaybeAnswer, StillRunning
<1> QED
  BY <1>3, <1>4, <1>5 DEF Await

LEMMA IInvNext == IInv /\ [Next]_vars => IInv'
<1> SUFFICES ASSUME IInv, [Next]_vars PROVE IInv'
  OBVIOUS
<1>1. CASE UNCHANGED vars
  BY <1>1 DEF vars, IInv, TypeOK, ActionFits, BudgetKept, Payable, StillRunning,
     Over, NoExternalRepeat, Remembered, Fresh, Ran
<1> QED
  BY <1>1, DecideKeeps, GateKeeps, DispatchKeeps, AwaitKeeps DEF Next

LEMMA Invariance == Spec => []IInv
BY IInvInit, IInvNext, PTL DEF Spec

-----------------------------------------------------------------------------
(* The loop's locals, the budget and the transcript keep their types.      *)
THEOREM TypeCorrect == Spec => []TypeOK
BY Invariance, PTL DEF IInv

(* Every turn is paid for, and no way through the loop body outruns        *)
(* max_steps.                                                              *)
THEOREM BudgetIsKept == Spec => []BudgetKept
BY Invariance, PTL DEF IInv

(* No external call of a task runs twice.                                  *)
THEOREM ExternalRunsOnce == Spec => []NoExternalRepeat
BY Invariance, PTL DEF IInv

-----------------------------------------------------------------------------
LEMMA StopFields ==
  ASSUME NEW kind, NEW reason, NEW answer, Stop(kind, reason, answer)
  PROVE  pc' = "done" /\ outcome'.kind = kind /\ outcome'.reason = reason
BY DEF Stop, Outcome

(* Awaiting a tool ends in a recorded turn or in the exception that escapes*)
LEMMA AwaitStep ==
  ASSUME Await
  PROVE  \/ \E status \in RanStatus : \E out : Finish(status, out)
         \/ Stop("escaped", "timeout handler", NoAnswer)
BY DEF Await, Return, Fail, Raise, TimeOut, Escape, RanStatus

(* How a run can come to be committed or surrendered.                      *)
LEMMA FinalStep ==
  ASSUME IInv, Next, outcome'.kind = "final"
  PROVE  /\ UNCHANGED <<request, transcript, clock>>
         /\ DeadlineNear \/ ~NeedsCheck(transcript)
<1>1. pc # "done"
  BY DEF Next, Decide, Truncate, Analyze, Ask, Abort, Gate, Research, Accept, Fallback,
     Dispatch, SkipRepeat, StopOnDuplicates, Reject, Start, Await
<1>2. outcome.kind = "none"
  BY <1>1 DEF IInv, StillRunning
<1>3. ~Decide
  BY <1>2 DEF Decide, Truncate, Analyze, Ask, Abort, Stop, Outcome
<1>4. ~Dispatch
  BY <1>2 DEF Dispatch, SkipRepeat, StopOnDuplicates, Reject, Start, Record, Stop, Outcome
<1>5. ~Await
  BY <1>2, AwaitStep, StopFields DEF Finish, Record
<1>6. ~Research
  BY <1>2 DEF Research
<1>7. CASE Accept
  <2>1. steps < MaxSteps /\ clock \in Nat
    BY <1>7 DEF Accept, IInv, Payable, TypeOK
  <2>2. ~CanContinue => DeadlineNear
    BY <2>1, TimeAssumption DEF CanContinue, DeadlineNear
  <2> QED
    BY <1>7, <2>2 DEF Accept
<1>8. CASE Fallback
  <2>1. UNCHANGED <<request, transcript, clock>>
    BY <1>8 DEF Fallback
  <2>2. PICK a \in RuleActions(request, transcript, FallbackLimit) :
          CASE a.kind = "call" -> action' = a /\ pc' = "call" /\ UNCHANGED outcome
            [] a.kind = "surrender" -> Stop("surrendered", "accepted", NoAnswer)
            [] a.kind = "final" ->
                 IF NeedsCheck(transcript)
                   THEN Stop("surrendered", "evidence", NoAnswer)
                   ELSE Stop("final", "accepted", a.answer)
    BY <1>8 DEF Fallback
  <2>3. a.kind \in {"call", "surrender", "final"}
    BY RuleActionsType, ClosingFields, CallingFields DEF IInv, TypeOK
  <2>4. ~NeedsCheck(transcript)
    BY <1>2, <2>2, <2>3, StopFields
  <2> QED
    BY <2>1, <2>4
<1> QED
  BY <1>3, <1>4, <1>5, <1>6, <1>7, <1>8 DEF Next, Gate

LEMMA CheckedWhenNotNeeded ==
  ASSUME transcript \in Seq(Turn), ~NeedsCheck(transcript)
  PROVE  /\ \A i \in LoopEvidence(transcript) : \E j \in Checks(transcript) : i < j
         /\ ~LatestVerdictIs(transcript, "no")
<1>1. SUFFICES ASSUME NEW i \in LoopEvidence(transcript)
               PROVE  \E j \in Checks(transcript) : i < j
  BY DEF NeedsCheck
<1>2. PICK j \in Checks(transcript) : ~(j < i)
  BY <1>1 DEF NeedsCheck, Unchecked
<1>3. j # i
  BY <1>1 DEF Checks, LoopEvidence, RuleEvidence
<1>4. i \in DOMAIN transcript /\ j \in DOMAIN transcript
  BY DEF Checks, LoopEvidence, RuleEvidence
<1>5. i \in Nat /\ j \in Nat
  BY <1>4, LenProperties
<1> QED
  BY <1>2, <1>3, <1>5

(* An answer committed away from the deadline has had all its evidence     *)
(* checked, and not against it: the gate holds for every controller.       *)
THEOREM FinalIsChecked == Spec => []CheckedFinal
<1>1. Init => CheckedFinal
  <2> SUFFICES ASSUME Init PROVE outcome.kind # "final"
    BY DEF CheckedFinal
  <2> QED
    BY DEF Init, Outcome
<1>2. IInv /\ CheckedFinal /\ [Next]_vars => CheckedFinal'
  <2> SUFFICES ASSUME IInv, CheckedFinal, [Next]_vars PROVE CheckedFinal'
    OBVIOUS
  <2>1. CASE UNCHANGED vars
    BY <2>1 DEF vars, CheckedFinal, DeadlineNear, LatestVerdictIs, Newest, Checks
  <2>2. CASE Next /\ outcome'.kind = "final"
    <3>1. UNCHANGED <<request, transcript, clock>>
      BY <2>2, FinalStep
    <3>2. DeadlineNear' \/ ~NeedsCheck(transcript)
      BY <2>2, <3>1, FinalStep DEF DeadlineNear
    <3> QED
      BY <3>1, <3>2, CheckedWhenNotNeeded
      DEF CheckedFinal, IInv, TypeOK, LatestVerdictIs, Newest, Checks
  <2>3. CASE outcome'.kind # "final"
    BY <2>3 DEF CheckedFinal
  <2> QED
    BY <2>1, <2>2, <2>3
<1> QED
  BY <1>1, <1>2, Invariance, PTL DEF Spec

LEMMA ClosedStep ==
  ASSUME IInv, Next, outcome'.kind \in {"final", "surrendered"},
         outcome'.reason # "duplicates"
  PROVE  UNCHANGED <<request, transcript>> /\ ~ResearchDue
<1>1. pc # "done"
  BY DEF Next, Decide, Truncate, Analyze, Ask, Abort, Gate, Research, Accept, Fallback,
     Dispatch, SkipRepeat, StopOnDuplicates, Reject, Start, Await
<1>2. outcome.kind = "none"
  BY <1>1 DEF IInv, StillRunning
<1>3. ~Decide
  BY <1>2, StopFields DEF Decide, Truncate, Analyze, Ask, Abort
<1>4. ~Dispatch
  BY <1>2, StopFields DEF Dispatch, SkipRepeat, StopOnDuplicates, Reject, Start, Record
<1>5. ~Await
  BY <1>2, AwaitStep, StopFields DEF Finish, Record
<1>6. ~Research
  BY <1>2 DEF Research
<1> QED
  BY <1>3, <1>4, <1>5, <1>6 DEF Next, Gate, Accept, Fallback

(* An open-web question is not closed before a research tool was called,   *)
(* whoever controls the loop, unless the calls went round in circles.      *)
THEOREM StopIsResearched == Spec => []ResearchedStop
<1>1. Init => ResearchedStop
  <2> SUFFICES ASSUME Init PROVE outcome.kind \notin {"final", "surrendered"}
    BY DEF ResearchedStop
  <2> QED
    BY DEF Init, Outcome
<1>2. IInv /\ ResearchedStop /\ [Next]_vars => ResearchedStop'
  <2> SUFFICES ASSUME IInv, ResearchedStop, [Next]_vars PROVE ResearchedStop'
    OBVIOUS
  <2>1. CASE UNCHANGED vars
    BY <2>1 DEF vars, ResearchedStop, ResearchTool, NameSeen
  <2>2. CASE /\ Next
             /\ outcome'.kind \in {"final", "surrendered"}
             /\ outcome'.reason # "duplicates"
    <3>1. UNCHANGED <<request, transcript>> /\ ~ResearchDue
      BY <2>2, ClosedStep
    <3> QED
      BY <3>1 DEF ResearchedStop, ResearchDue, ResearchTool, NameSeen
  <2>3. CASE ~(/\ outcome'.kind \in {"final", "surrendered"}
               /\ outcome'.reason # "duplicates")
    BY <2>3 DEF ResearchedStop
  <2> QED
    BY <2>1, <2>2, <2>3
<1> QED
  BY <1>1, <1>2, Invariance, PTL DEF Spec

-----------------------------------------------------------------------------
(* The clock within a turn: no later than the limit when the turn began,   *)
(* plus the controller's await.                                            *)
ClockInv ==
  TimeLimit # None =>
    /\ pc \in {"gate", "call", "running"} => clock <= TimeLimit + ControllerLatency
    /\ clock <= TimeLimit + ControllerLatency + RunBound

LEMMA ClockTypes ==
  ASSUME TimeLimit # None
  PROVE  TimeLimit \in Nat /\ ControllerLatency \in Nat /\ RunBound \in Nat
BY TimeAssumption DEF RunBound

LEMMA ClockNext ==
  ASSUME IInv, ClockInv, [Next]_vars
  PROVE  ClockInv'
<1> SUFFICES ASSUME TimeLimit # None
             PROVE  /\ pc' \in {"gate", "call", "running"} =>
                         clock' <= TimeLimit + ControllerLatency
                    /\ clock' <= TimeLimit + ControllerLatency + RunBound
  BY DEF ClockInv, RunBound
<1>1. clock \in Nat /\ TimeLimit \in Nat /\ ControllerLatency \in Nat /\ RunBound \in Nat
  BY ClockTypes DEF IInv, TypeOK
<1>2. /\ pc \in {"gate", "call", "running"} => clock <= TimeLimit + ControllerLatency
      /\ clock <= TimeLimit + ControllerLatency + RunBound
  BY DEF ClockInv
<1>3. CASE clock' = clock /\ (pc' \in {"gate", "call", "running"} =>
             pc \in {"gate", "call", "running"} \/ clock < TimeLimit)
  BY <1>1, <1>2, <1>3
<1>4. CASE Ask
  <2>1. clock < TimeLimit
    BY <1>4 DEF Ask, CanContinue
  <2>2. PICK d \in 0 .. ControllerLatency : clock' = clock + d
    BY <1>4 DEF Ask
  <2> QED
    BY <1>1, <2>1, <2>2
<1>5. CASE Await
  <2>1. CASE \E status \in RanStatus : \E out : Finish(status, out)
    <3>1. PICK d \in 0 .. RunBound : clock' = clock + d
      BY <2>1 DEF Finish
    <3>2. pc' = "top" /\ pc = "running"
      BY <2>1 DEF Finish, Record
    <3> QED
      BY <1>1, <1>2, <3>1, <3>2
  <2>2. CASE Escape
    BY <1>3, <2>2 DEF Escape, Stop
  <2> QED
    BY <1>5, <2>1, <2>2 DEF Await, Return, Fail, Raise, TimeOut, RanStatus
<1>6. CASE Decide /\ ~Ask
  BY <1>3, <1>6 DEF Decide, Truncate, Analyze, Abort, Stop, CanContinue
<1>7. CASE Gate
  BY <1>3, <1>7 DEF Gate, Research, Accept, Fallback
<1>8. CASE Dispatch
  BY <1>3, <1>8 DEF Dispatch, SkipRepeat, StopOnDuplicates, Reject, Start
<1>9. CASE UNCHANGED vars
  BY <1>3, <1>9 DEF vars
<1> QED
  BY <1>4, <1>5, <1>6, <1>7, <1>8, <1>9 DEF Next

(* The time limit is overrun by at most the two awaits of one turn.        *)
THEOREM OverrunIsBounded == Spec => []OverrunBounded
<1>1. Init => ClockInv
  <2> SUFFICES ASSUME Init, TimeLimit # None
               PROVE  /\ pc \in {"gate", "call", "running"} =>
                           clock <= TimeLimit + ControllerLatency
                      /\ clock <= TimeLimit + ControllerLatency + RunBound
    BY DEF ClockInv
  <2>1. clock = 0
    BY DEF Init
  <2> QED
    BY <2>1, ClockTypes
<1>2. IInv /\ ClockInv /\ [Next]_vars => ClockInv'
  BY ClockNext
<1>3. ClockInv => OverrunBounded
  BY DEF ClockInv, OverrunBounded
<1> QED
  BY <1>1, <1>2, <1>3, Invariance, PTL DEF Spec

-----------------------------------------------------------------------------
(* The loop implements BoundedRun: a recorded turn is a Turn of it, an     *)
(* ending is its End, everything else a stutter.                           *)
LEMMA RecordIsTurn ==
  ASSUME IInv, pc \in {"call", "running"},
         NEW c \in Call, NEW status \in RanStatus \cup SkipStatus, NEW out \in Outputs,
         Record(c, status, out),
         status \in RanStatus /\ c.tool \in External => c \notin seen
  PROVE  Bounded!Turn
<1> DEFINE n == Len(transcript) + 1
<1>1. /\ transcript' \in Seq(Turn)
      /\ Len(transcript') = n
      /\ \A i \in DOMAIN transcript : transcript'[i] = transcript[i]
      /\ DOMAIN transcript' = DOMAIN transcript \cup {n}
      /\ transcript'[n].call = c
      /\ transcript'[n].status = status
  BY RecordType
<1>2. n \in Nat /\ n \notin DOMAIN transcript
  BY LenProperties DEF IInv, TypeOK
<1>3. outcome.kind = "none" /\ UNCHANGED outcome /\ Len(transcript) < MaxSteps
  BY DEF IInv, StillRunning, Payable, BudgetKept, Record
<1> HIDE DEF n
<1>4. CASE status \in RanStatus /\ c.tool \in External
  <2>1. Ledger(transcript') = Ledger(transcript) \cup {[step |-> n, call |-> c]}
    BY <1>1, <1>2, <1>4 DEF Ledger, Ran
  <2>2. \A entry \in Ledger(transcript) : entry.call # c
    BY <1>4 DEF Ledger, Ran, IInv, Remembered
  <2>3. c \in ExternalCalls
    BY <1>4 DEF ExternalCalls
  <2> QED
    BY <1>1, <1>3, <2>1, <2>2, <2>3 DEF Bounded!Turn, Bounded!Spend, n
<1>5. CASE ~(status \in RanStatus /\ c.tool \in External)
  <2>1. Ledger(transcript') = Ledger(transcript)
    BY <1>1, <1>2, <1>5 DEF Ledger, Ran
  <2> QED
    BY <1>1, <1>3, <2>1 DEF Bounded!Turn, n
<1> QED
  BY <1>4, <1>5

LEMMA StopIsEnd ==
  ASSUME IInv, pc # "done",
         NEW kind \in {"final", "surrendered", "truncated", "escaped"},
         NEW reason, NEW answer, Stop(kind, reason, answer),
         UNCHANGED transcript,
         kind = "truncated" => TimeLimit # None \/ Len(transcript) = MaxSteps
  PROVE  Bounded!End
<1>1. outcome.kind = "none" /\ outcome'.kind = kind
  BY StopFields DEF IInv, StillRunning
<1>2. UNCHANGED Ledger(transcript)
  BY DEF Ledger, Ran
<1> QED
  BY <1>1, <1>2 DEF Bounded!End

LEMMA StutterIsStutter ==
  ASSUME UNCHANGED <<transcript, outcome>>
  PROVE  UNCHANGED Bounded!vars
BY DEF Bounded!vars, Ledger, Ran

LEMMA StepSimulation ==
  ASSUME IInv, [Next]_vars
  PROVE  [Bounded!Next]_(Bounded!vars)
<1>1. CASE Truncate
  <2>1. TimeLimit = None => Len(transcript) = MaxSteps
    BY <1>1, StepsAssumption DEF Truncate, CanContinue, IInv, BudgetKept, TypeOK
  <2> QED
    BY <1>1, <2>1, StopIsEnd DEF Truncate, Bounded!Next
<1>2. CASE Analyze \/ Ask \/ Research \/ Start
  BY <1>2, StutterIsStutter DEF Analyze, Ask, Research, Start
<1>3. CASE Abort
  BY <1>3, StopIsEnd DEF Abort, Bounded!Next
<1>4. CASE Accept
  BY <1>4, StopIsEnd DEF Accept, Bounded!Next
<1>5. CASE Fallback
  <2>1. PICK a \in RuleActions(request, transcript, FallbackLimit) :
          CASE a.kind = "call" -> action' = a /\ pc' = "call" /\ UNCHANGED outcome
            [] a.kind = "surrender" -> Stop("surrendered", "accepted", NoAnswer)
            [] a.kind = "final" ->
                 IF NeedsCheck(transcript)
                   THEN Stop("surrendered", "evidence", NoAnswer)
                   ELSE Stop("final", "accepted", a.answer)
    BY <1>5 DEF Fallback
  <2>2. a.kind \in {"call", "surrender", "final"}
    BY RuleActionsType, ClosingFields, CallingFields DEF IInv, TypeOK
  <2>3. pc = "gate" /\ UNCHANGED transcript
    BY <1>5 DEF Fallback
  <2>4. CASE UNCHANGED outcome
    BY <2>3, <2>4, StutterIsStutter
  <2>5. CASE \E kind \in {"final", "surrendered"} : \E reason, answer :
               Stop(kind, reason, answer)
    BY <2>3, <2>5, StopIsEnd DEF Bounded!Next
  <2> QED
    BY <2>1, <2>2, <2>4, <2>5
<1>6. CASE SkipRepeat \/ Reject
  <2>1. pc = "call" /\ Resolved \subseteq Call
    BY <1>6, ResolvedType DEF SkipRepeat, Reject, IInv, TypeOK, ActionFits
  <2>2. PICK c \in Resolved, status \in SkipStatus : Record(c, status, NoOutputs)
    BY <1>6 DEF SkipRepeat, Reject, SkipStatus
  <2>3. status \notin RanStatus
    BY DEF SkipStatus, RanStatus
  <2> QED
    BY <2>1, <2>2, <2>3, NoOutputsType, RecordIsTurn DEF Bounded!Next
<1>7. CASE StopOnDuplicates
  BY <1>7, StopIsEnd DEF StopOnDuplicates, Bounded!Next
<1>8. CASE Await
  <2>1. pc = "running" /\ action.call \in Call /\ transcript \in Seq(Turn)
    BY <1>8, CallingFields DEF Await, IInv, ActionFits, TypeOK
  <2>2. CASE Escape
    BY <2>2, StopIsEnd DEF Escape, Bounded!Next
  <2>3. ASSUME NEW status \in RanStatus, NEW out \in Outputs, Finish(status, out)
        PROVE  Bounded!Next
    BY <2>1, <2>3, RecordIsTurn DEF Finish, IInv, Fresh, Bounded!Next
  <2>4. CASE Return
    BY <2>1, <2>3, <2>4, OkOutputsType, EnvironmentAssumption DEF Return, RanStatus
  <2>5. CASE Fail \/ Raise \/ TimeOut
    BY <2>3, <2>5, NoOutputsType DEF Fail, Raise, TimeOut, RanStatus
  <2> QED
    BY <1>8, <2>2, <2>4, <2>5 DEF Await
<1>9. CASE UNCHANGED vars
  BY <1>9, StutterIsStutter DEF vars
<1> QED
  BY <1>1, <1>2, <1>3, <1>4, <1>5, <1>6, <1>7, <1>8, <1>9
  DEF Next, Decide, Gate, Dispatch

(* Every run of the loop is a bounded run: turns that are paid for and     *)
(* spend new external calls, and one result at the end.                    *)
THEOREM RunIsSafe == Spec => Bounded!Safe
<1>1. Init => Bounded!Init
  <2> SUFFICES ASSUME Init PROVE Bounded!Init
    OBVIOUS
  <2>1. Len(transcript) = 0 /\ \A i \in DOMAIN transcript : FALSE
    <3>1. transcript = <<>>
      BY DEF Init
    <3> QED
      BY <3>1
  <2>2. outcome.kind = "none"
    BY DEF Init, Outcome
  <2> QED
    BY <2>1, <2>2 DEF Bounded!Init, Ledger
<1>2. IInv /\ [Next]_vars => [Bounded!Next]_(Bounded!vars)
  BY StepSimulation
<1> QED
  BY <1>1, <1>2, Invariance, PTL DEF Spec, Bounded!Safe
-----------------------------------------------------------------------------
(* Every run winds down. Each pass through the loop body goes from the top *)
(* to the gate, the call, the tool, skipping some, and costs a step when it*)
(* comes back to the top.                                                  *)
Place == [top |-> 4, gate |-> 3, call |-> 2, running |-> 1, done |-> 0]
Fuel == 5 * (MaxSteps - steps) + Place[pc]

LEMMA FuelType ==
  ASSUME IInv
  PROVE  Fuel \in Nat /\ Place[pc] \in 0 .. 4 /\ MaxSteps - steps \in Nat
<1>1. steps \in Nat /\ MaxSteps \in Nat /\ steps <= MaxSteps
  BY StepsAssumption DEF IInv, BudgetKept, TypeOK
<1>2. Place[pc] \in 0 .. 4
  BY DEF IInv, TypeOK, Place
<1> QED
  BY <1>1, <1>2 DEF Fuel

LEMMA FuelSpent ==
  ASSUME IInv, Next
  PROVE  Fuel' < Fuel
<1>1. steps \in Nat /\ MaxSteps \in Nat
  BY StepsAssumption DEF IInv, TypeOK
<1>2. /\ Place["top"] = 4 /\ Place["gate"] = 3 /\ Place["call"] = 2
      /\ Place["running"] = 1 /\ Place["done"] = 0
  BY DEF Place
<1>3. ASSUME UNCHANGED steps, Place[pc'] \in Nat, Place[pc] \in Nat, Place[pc'] < Place[pc]
      PROVE  Fuel' < Fuel
  BY <1>1, <1>3 DEF Fuel
<1>4. ASSUME NEW c, NEW status, NEW out, Record(c, status, out), pc \in {"call", "running"}
      PROVE  Fuel' < Fuel
  <2>1. steps' = steps + 1 /\ pc' = "top" /\ Place[pc] \in {1, 2}
    BY <1>2, <1>4 DEF Record
  <2> QED
    BY <1>1, <1>2, <2>1 DEF Fuel
<1>5. CASE Decide
  <2>1. /\ UNCHANGED steps /\ pc = "top" /\ pc' \in {"gate", "call", "done"}
    BY <1>5 DEF Decide, Truncate, Analyze, Ask, Abort, Stop
  <2> QED
    BY <1>2, <1>3, <2>1
<1>6. CASE Gate
  <2>1. UNCHANGED steps /\ pc = "gate"
    BY <1>6 DEF Gate, Research, Accept, Fallback
  <2>2. pc' \in {"call", "done"}
    <3>1. CASE Research \/ Accept
      BY <3>1 DEF Research, Accept, Stop
    <3>2. CASE Fallback
      <4>1. PICK a \in RuleActions(request, transcript, FallbackLimit) :
              CASE a.kind = "call" -> action' = a /\ pc' = "call" /\ UNCHANGED outcome
                [] a.kind = "surrender" -> Stop("surrendered", "accepted", NoAnswer)
                [] a.kind = "final" ->
                     IF NeedsCheck(transcript)
                       THEN Stop("surrendered", "evidence", NoAnswer)
                       ELSE Stop("final", "accepted", a.answer)
        BY <3>2 DEF Fallback
      <4>2. a.kind \in {"call", "surrender", "final"}
        BY RuleActionsType, ClosingFields, CallingFields DEF IInv, TypeOK
      <4> QED
        BY <4>1, <4>2 DEF Stop
    <3> QED
      BY <1>6, <3>1, <3>2 DEF Gate
  <2> QED
    BY <1>2, <1>3, <2>1, <2>2
<1>7. CASE SkipRepeat \/ Reject
  BY <1>4, <1>7 DEF SkipRepeat, Reject
<1>8. CASE StopOnDuplicates \/ Start
  <2>1. UNCHANGED steps /\ pc = "call" /\ pc' \in {"running", "done"}
    BY <1>8 DEF StopOnDuplicates, Start, Stop
  <2> QED
    BY <1>2, <1>3, <2>1
<1>9. CASE Await
  <2>1. CASE Escape
    <3>1. UNCHANGED steps /\ pc = "running" /\ pc' = "done"
      BY <2>1 DEF Escape, Stop
    <3> QED
      BY <1>2, <1>3, <3>1
  <2>2. CASE Return \/ Fail \/ Raise \/ TimeOut
    BY <1>4, <2>2 DEF Return, Fail, Raise, TimeOut, Finish
  <2> QED
    BY <1>9, <2>1, <2>2 DEF Await
<1> QED
  BY <1>5, <1>6, <1>7, <1>8, <1>9 DEF Next, Dispatch

(* For every controller, catalog and clock, each step of a run uses up some*)
(* of a supply that is a natural number: a run takes at most               *)
(* 5 * MaxSteps + 4 steps, whatever the tools answer.                      *)
THEOREM RunWindsDown == Spec => [](Fuel \in Nat) /\ [][Fuel' < Fuel]_vars
<1>1. IInv => Fuel \in Nat
  BY FuelType
<1>2. IInv /\ [Next]_vars => [Fuel' < Fuel]_vars
  BY FuelSpent
<1> QED
  BY <1>1, <1>2, Invariance, PTL DEF Spec
=============================================================================
