-------------------------- MODULE LoopLimits_proofs --------------------------
(***************************************************************************)
(* The loop's limits on attempts and on rows of one call, for every cap and*)
(* every controller; and, for every model's replies, what the LLM and the  *)
(* rule controller may close a run with and what they have checked.        *)
(***************************************************************************)
EXTENDS ControllerLoop_proofs, FiniteSetTheorems

(* What a step may do to the transcript: leave it, or add a turn. A turn   *)
(* that ran is the call that was awaited.                                  *)
Skips ==
  \E c \in Resolved :
    /\ pc = "call" /\ IsRepeat(c) /\ Record(c, "duplicate", NoOutputs)
    /\ UNCHANGED <<last, dups>>
Rejects ==
  \E c \in Resolved, status \in {"capped", "unknown"} :
    pc = "call" /\ Admit(c) /\ Record(c, status, NoOutputs)
Finishes ==
  \E status \in RanStatus, out \in Outputs :
    /\ pc = "running" /\ Record(action.call, status, out)
    /\ UNCHANGED <<last, dups>>
Starts ==
  \E c \in Resolved :
    /\ pc = "call" /\ Admit(c) /\ ~AtCap(c)
    /\ pc' = "running" /\ action' = [kind |-> "call", call |-> c]
    /\ UNCHANGED transcript
Thinks ==
  /\ UNCHANGED <<transcript, last>>
  /\ \/ pc' \in {"top", "gate", "call"} /\ pc \in {"top", "gate", "call"} /\ UNCHANGED dups
     \/ pc' = "done"
     \/ UNCHANGED <<pc, action, dups>>

LEMMA StepShape ==
  ASSUME IInv, [Next]_vars
  PROVE  Skips \/ Rejects \/ Finishes \/ Starts \/ Thinks
<1>1. CASE Decide
  BY <1>1 DEF Decide, Truncate, Analyze, Ask, Abort, Stop, Thinks
<1>2. CASE Gate
  <2>1. UNCHANGED <<transcript, last, dups>> /\ pc = "gate"
    BY <1>2 DEF Gate, Research, Accept, Fallback
  <2>2. CASE Research \/ Accept
    BY <2>1, <2>2 DEF Research, Accept, Stop, Thinks
  <2>3. CASE Fallback
    <3>1. PICK a \in RuleActions(request, transcript, FallbackLimit) :
            CASE a.kind = "call" -> action' = a /\ pc' = "call" /\ UNCHANGED outcome
              [] a.kind = "surrender" -> Stop("surrendered", "accepted", NoAnswer)
              [] a.kind = "final" ->
                   IF NeedsCheck(transcript)
                     THEN Stop("surrendered", "evidence", NoAnswer)
                     ELSE Stop("final", "accepted", a.answer)
      BY <2>3 DEF Fallback
    <3>2. a.kind \in {"call", "surrender", "final"}
      BY RuleActionsType, ClosingFields, CallingFields DEF IInv, TypeOK
    <3>3. pc' = "call" \/ pc' = "done"
      BY <3>1, <3>2 DEF Stop
    <3> QED
      BY <2>1, <3>3 DEF Thinks
  <2> QED
    BY <1>2, <2>2, <2>3 DEF Gate
<1>3. CASE Dispatch
  <2>1. CASE SkipRepeat
    BY <2>1 DEF SkipRepeat, Skips
  <2>2. CASE StopOnDuplicates
    BY <2>2 DEF StopOnDuplicates, Stop, Thinks
  <2>3. CASE Reject
    BY <2>3 DEF Reject, Rejects
  <2>4. CASE Start
    BY <2>4 DEF Start, Starts
  <2> QED
    BY <1>3, <2>1, <2>2, <2>3, <2>4 DEF Dispatch
<1>4. CASE Await
  <2>1. action.call \in Call /\ transcript \in Seq(Turn) /\ pc = "running"
    BY <1>4, CallingFields DEF Await, IInv, ActionFits, TypeOK
  <2>2. CASE Escape
    BY <2>2 DEF Escape, Stop, Thinks
  <2>3. ASSUME NEW status \in RanStatus, NEW out \in Outputs, Finish(status, out)
        PROVE  Finishes
    BY <2>1, <2>3 DEF Finish, Finishes
  <2>4. CASE Return
    BY <2>1, <2>3, <2>4, OkOutputsType, EnvironmentAssumption DEF Return, RanStatus
  <2>5. CASE Fail \/ Raise \/ TimeOut
    BY <2>3, <2>5, NoOutputsType DEF Fail, Raise, TimeOut, RanStatus
  <2> QED
    BY <1>4, <2>2, <2>4, <2>5 DEF Await
<1>5. CASE UNCHANGED vars
  BY <1>5 DEF vars, Thinks
<1> QED
  BY <1>1, <1>2, <1>3, <1>4, <1>5 DEF Next

-----------------------------------------------------------------------------
(* Attempts                                                                *)

Tries(t, tool) == {i \in DOMAIN t : t[i].call.tool = tool}

(* A call that is awaited was below its cap when it was started.           *)
BelowCap ==
  pc = "running" /\ action.call.tool \notin Uncapped =>
    Attempted(transcript, action.call.tool) < Cap(action.call.tool)

LEMMA TriesFinite ==
  ASSUME NEW t \in Seq(Turn), NEW tool
  PROVE  /\ IsFiniteSet(Tries(t, tool)) /\ Cardinality(Tries(t, tool)) \in Nat
         /\ Attempted(t, tool) = Cardinality(Tries(t, tool))
         /\ IsFiniteSet(RanTurns(t, tool)) /\ Cardinality(RanTurns(t, tool)) \in Nat
         /\ Cardinality(RanTurns(t, tool)) <= Attempted(t, tool)
<1>1. DOMAIN t = 1 .. Len(t) /\ Len(t) \in Nat
  BY LenProperties
<1>2. IsFiniteSet(DOMAIN t)
  BY <1>1, FS_Interval
<1>3. Tries(t, tool) \subseteq DOMAIN t /\ RanTurns(t, tool) \subseteq Tries(t, tool)
  BY DEF Tries, RanTurns
<1>4. IsFiniteSet(Tries(t, tool))
  BY <1>2, <1>3, FS_Subset
<1>5. /\ IsFiniteSet(RanTurns(t, tool))
      /\ Cardinality(RanTurns(t, tool)) <= Cardinality(Tries(t, tool))
  BY <1>3, <1>4, FS_Subset
<1>6. Attempted(t, tool) = Cardinality(Tries(t, tool))
  BY DEF Attempted, Tries
<1> QED
  BY <1>4, <1>5, <1>6, FS_CardinalityType

LEMMA CapType == ASSUME NEW tool \in ToolNames PROVE Cap(tool) \in Nat
BY AttemptsAssumption DEF Cap, Larger

LEMMA CapsKept ==
  ASSUME IInv, BelowCap, CapsHold, [Next]_vars
  PROVE  BelowCap' /\ CapsHold'
<1>0. transcript \in Seq(Turn) /\ transcript' \in Seq(Turn)
  BY IInvNext DEF IInv, TypeOK
<1>1. CASE Starts
  <2>1. CapsHold'
    BY <1>1 DEF Starts, CapsHold, RanTurns, Ran
  <2>2. BelowCap'
    <3>1. PICK c \in Resolved : pc = "call" /\ ~AtCap(c) /\ action'.call = c /\ UNCHANGED transcript
      BY <1>1 DEF Starts
    <3>2. c \in Call
      BY <3>1, ResolvedType DEF IInv, ActionFits, TypeOK
    <3>3. c.tool \in ToolNames
      BY <3>2 DEF Call
    <3>4. Cap(c.tool) \in Nat /\ Attempted(transcript, c.tool) \in Nat
      BY <1>0, <3>3, CapType, TriesFinite
    <3>5. c.tool \notin Uncapped => Attempted(transcript, c.tool) < Cap(c.tool)
      BY <3>1, <3>4 DEF AtCap
    <3>6. Attempted(transcript', c.tool) = Attempted(transcript, c.tool)
      BY <3>1
    <3> QED
      BY <3>1, <3>5, <3>6 DEF BelowCap
  <2> QED
    BY <2>1, <2>2
<1>2. CASE Thinks
  <2>1. CapsHold'
    BY <1>2 DEF Thinks, CapsHold, RanTurns, Ran
  <2>2. BelowCap'
    BY <1>2 DEF Thinks, BelowCap, Attempted
  <2> QED
    BY <2>1, <2>2
<1>3. CASE Skips \/ Rejects \/ Finishes
  <2>1. PICK c \in Call, status \in RanStatus \cup SkipStatus, out \in Outputs :
          /\ Record(c, status, out)
          /\ status \in RanStatus => pc = "running" /\ c = action.call
    <3>1. pc \in {"call", "running"} => action \in Calling
      BY DEF IInv, ActionFits
    <3>2. CASE Skips \/ Rejects
      <4>1. Resolved \subseteq Call
        BY <3>1, <3>2, ResolvedType DEF Skips, Rejects, IInv, TypeOK
      <4> QED
        BY <3>2, <4>1, NoOutputsType DEF Skips, Rejects, SkipStatus, RanStatus
    <3>3. CASE Finishes
      BY <3>1, <3>3, CallingFields DEF Finishes
    <3> QED
      BY <1>3, <3>2, <3>3
  <2>2. pc' = "top"
    BY <2>1 DEF Record
  <2> DEFINE n == Len(transcript) + 1
  <2>3. /\ \A i \in DOMAIN transcript : transcript'[i] = transcript[i]
        /\ DOMAIN transcript' = DOMAIN transcript \cup {n}
        /\ transcript'[n].call = c /\ transcript'[n].status = status
    BY <2>1, RecordType
  <2> HIDE DEF n
  <2>4. ASSUME NEW tool \in ToolNames \ Uncapped
        PROVE  Cardinality(RanTurns(transcript', tool)) <= Cap(tool)
    <3>1. CASE status \notin RanStatus \/ c.tool # tool
      <4>1. RanTurns(transcript', tool) \subseteq RanTurns(transcript, tool)
        BY <2>3, <3>1 DEF RanTurns, Ran
      <4>2. /\ Cardinality(RanTurns(transcript', tool)) <= Cardinality(RanTurns(transcript, tool))
            /\ Cardinality(RanTurns(transcript, tool)) <= Cap(tool)
        BY <1>0, <4>1, TriesFinite, FS_Subset DEF CapsHold
      <4> QED
        BY <1>0, <4>2, TriesFinite, CapType
    <3>2. CASE status \in RanStatus /\ c.tool = tool
      <4>1. Attempted(transcript, tool) < Cap(tool)
        <5>1. pc = "running" /\ action.call.tool = tool /\ tool \notin Uncapped
          BY <2>1, <3>2
        <5> QED
          BY <5>1 DEF BelowCap
      <4>2. Tries(transcript', tool) \subseteq Tries(transcript, tool) \cup {n}
        BY <2>3 DEF Tries
      <4>3. /\ IsFiniteSet(Tries(transcript, tool) \cup {n})
            /\ Cardinality(Tries(transcript, tool) \cup {n})
                 <= Cardinality(Tries(transcript, tool)) + 1
        <5>1. IsFiniteSet(Tries(transcript, tool)) /\ Cardinality(Tries(transcript, tool)) \in Nat
          BY <1>0, TriesFinite
        <5>2. /\ IsFiniteSet(Tries(transcript, tool) \cup {n})
              /\ \/ Cardinality(Tries(transcript, tool) \cup {n})
                      = Cardinality(Tries(transcript, tool))
                 \/ Cardinality(Tries(transcript, tool) \cup {n})
                      = Cardinality(Tries(transcript, tool)) + 1
          BY <5>1, FS_AddElement
        <5> QED
          BY <5>1, <5>2
      <4>4. Cardinality(Tries(transcript', tool)) <= Cardinality(Tries(transcript, tool) \cup {n})
        BY <4>2, <4>3, FS_Subset
      <4>5. Cardinality(Tries(transcript, tool) \cup {n}) \in Nat
        BY <4>3, FS_CardinalityType
      <4> QED
        BY <1>0, <4>1, <4>3, <4>4, <4>5, TriesFinite, CapType
    <3> QED
      BY <3>1, <3>2
  <2> QED
    BY <2>2, <2>4 DEF CapsHold, BelowCap
<1> QED
  BY <1>1, <1>2, <1>3, StepShape

(* For all caps no tool but sufficiency_check runs more often than its cap.*)
THEOREM CapsAreHeld == Spec => []CapsHold
<1>1. Init => BelowCap /\ CapsHold
  <2> SUFFICES ASSUME Init PROVE BelowCap /\ CapsHold
    OBVIOUS
  <2>1. \A tool : RanTurns(transcript, tool) = {}
    <3>1. DOMAIN transcript = {}
      <4>1. transcript = <<>>
        BY DEF Init
      <4> QED
        BY <4>1
    <3> QED
      BY <3>1 DEF RanTurns
  <2>2. CapsHold
    BY <2>1, FS_EmptySet, CapType DEF CapsHold
  <2> QED
    BY <2>2 DEF Init, BelowCap
<1>2. IInv /\ BelowCap /\ CapsHold /\ [Next]_vars => BelowCap' /\ CapsHold'
  BY CapsKept
<1> QED
  BY <1>1, <1>2, Invariance, PTL DEF Spec

-----------------------------------------------------------------------------
(* Rows of one call                                                        *)

(* The transcript ends, from k on, with calls of c that were admitted.     *)
Row(k, c) ==
  \A j \in k .. Len(transcript) : transcript[j].call = c /\ transcript[j].status # "duplicate"

(* The row at the end is one of the last call, and no longer than dups     *)
(* says; a call that is awaited is not in it yet.                          *)
RowCounted ==
  /\ pc \in {"top", "gate", "call"} =>
       \A k \in DOMAIN transcript, c \in Call :
         Row(k, c) => last = {c} /\ Len(transcript) - k <= dups
  /\ pc = "running" =>
       /\ last = {action.call}
       /\ \A k \in DOMAIN transcript :
            Row(k, action.call) => Len(transcript) - k < dups

LEMMA RowGrows ==
  ASSUME IInv, NEW c \in Call, NEW status \in RanStatus \cup SkipStatus, NEW out \in Outputs,
         Record(c, status, out), RowsBounded, dups' \in 0 .. MaxDuplicates - 1,
         status # "duplicate" =>
           /\ last' = {c}
           /\ \A k \in DOMAIN transcript : Row(k, c) => Len(transcript) - k < dups'
  PROVE  RowCounted' /\ RowsBounded'
<1> DEFINE n == Len(transcript) + 1
<1>1. /\ transcript' \in Seq(Turn) /\ Len(transcript') = n
      /\ \A i \in DOMAIN transcript : transcript'[i] = transcript[i]
      /\ transcript'[n].call = c /\ transcript'[n].status = status
  BY RecordType
<1>2. n \in Nat /\ DOMAIN transcript = 1 .. n - 1 /\ DOMAIN transcript' = 1 .. n
      /\ Len(transcript) = n - 1
  BY <1>1, LenProperties DEF IInv, TypeOK
<1>3. pc' = "top" /\ dups' \in Nat /\ dups' < MaxDuplicates /\ MaxDuplicates \in Nat \ {0}
  BY AttemptsAssumption DEF Record
<1> HIDE DEF n
<1>4. ASSUME NEW k \in 1 .. n, NEW d \in Call, Row(k, d)'
      PROVE  last' = {d} /\ n - k <= dups'
  <2>1. \A j \in k .. n : transcript'[j].call = d /\ transcript'[j].status # "duplicate"
    BY <1>1, <1>4 DEF Row
  <2>2. d = c /\ status # "duplicate"
    BY <1>1, <1>2, <2>1
  <2>3. CASE k = n
    BY <1>2, <1>3, <2>2, <2>3
  <2>4. CASE k # n
    <3>1. k \in DOMAIN transcript
      BY <1>2, <2>4
    <3>2. \A j \in k .. n - 1 : transcript[j].call = c /\ transcript[j].status # "duplicate"
      BY <1>1, <1>2, <2>1, <2>2
    <3>3. Row(k, c)
      BY <1>2, <3>2 DEF Row
    <3>4. n - 1 - k < dups'
      BY <1>2, <2>2, <3>1, <3>3
    <3> QED
      BY <1>2, <1>3, <2>2, <3>1, <3>4
  <2> QED
    BY <2>3, <2>4
<1>5. RowCounted'
  BY <1>1, <1>2, <1>3, <1>4 DEF RowCounted
<1>6. RowsBounded'
  <2> SUFFICES ASSUME NEW i \in 1 .. n - MaxDuplicates,
                      \A k \in i .. i + MaxDuplicates :
                        /\ transcript'[k].call = transcript'[i].call
                        /\ transcript'[k].status # "duplicate"
               PROVE  FALSE
    BY <1>1 DEF RowsBounded
  <2>1. i \in Nat /\ i \in 1 .. n /\ i + MaxDuplicates \in 1 .. n
    BY <1>2, <1>3
  <2>2. CASE i + MaxDuplicates = n
    <3>1. PICK d \in Call : d = transcript'[i].call
      BY <1>1, <1>2, <2>1, TurnFields
    <3>2. Row(i, d)'
      BY <1>1, <2>2, <3>1 DEF Row
    <3>3. n - i <= dups'
      BY <1>4, <2>1, <3>1, <3>2
    <3> QED
      BY <1>2, <1>3, <2>1, <2>2, <3>3
  <2>3. CASE i + MaxDuplicates # n
    <3>1. i \in 1 .. Len(transcript) - MaxDuplicates
      BY <1>2, <1>3, <2>1, <2>3
    <3>2. \A k \in i .. i + MaxDuplicates : k \in DOMAIN transcript
      BY <1>2, <1>3, <2>1, <2>3
    <3>3. \A k \in i .. i + MaxDuplicates :
            /\ transcript[k].call = transcript[i].call
            /\ transcript[k].status # "duplicate"
      BY <1>1, <1>3, <2>1, <3>2
    <3> QED
      BY <3>1, <3>3 DEF RowsBounded
  <2> QED
    BY <2>2, <2>3
<1> QED
  BY <1>5, <1>6

(* An admitted call counts for a row of its own length.                    *)
LEMMA AdmitCounts ==
  ASSUME IInv, RowCounted, pc = "call", NEW c \in Call, Admit(c)
  PROVE  /\ last' = {c} /\ dups' \in 0 .. MaxDuplicates - 1
         /\ \A k \in DOMAIN transcript : Row(k, c) => Len(transcript) - k < dups'
<1>1. /\ last' = {c} /\ dups' = (IF last = {c} THEN dups + 1 ELSE 0)
      /\ dups' < MaxDuplicates
  BY DEF Admit, DupsAfter
<1>2. dups \in Nat /\ MaxDuplicates \in Nat
  BY AttemptsAssumption DEF IInv, TypeOK
<1>3. \A k \in DOMAIN transcript : k \in Nat
  BY LenProperties DEF IInv, TypeOK
<1>4. Len(transcript) \in Nat
  BY LenProperties DEF IInv, TypeOK
<1>5. ASSUME NEW k \in DOMAIN transcript, Row(k, c)
      PROVE  last = {c} /\ Len(transcript) - k <= dups
  BY <1>5 DEF RowCounted
<1> QED
  BY <1>1, <1>2, <1>3, <1>4, <1>5

LEMMA RowsKept ==
  ASSUME IInv, RowCounted, RowsBounded, [Next]_vars
  PROVE  RowCounted' /\ RowsBounded'
<1>0. /\ transcript \in Seq(Turn) /\ dups \in Nat
      /\ pc # "done" => dups \in 0 .. MaxDuplicates - 1
      /\ pc \in {"call", "running"} => action \in Calling
  BY AttemptsAssumption DEF IInv, TypeOK, StillRunning, ActionFits
<1>1. pc = "call" => Resolved \subseteq Call
  BY <1>0, ResolvedType
<1>2. CASE Skips
  <2>1. PICK c \in Resolved : pc = "call" /\ Record(c, "duplicate", NoOutputs) /\ dups' = dups
    BY <1>2 DEF Skips
  <2>2. "duplicate" \in RanStatus \cup SkipStatus
    BY DEF SkipStatus
  <2> QED
    BY <1>0, <1>1, <2>1, <2>2, NoOutputsType, RowGrows
<1>3. CASE Rejects
  <2>1. PICK c \in Resolved, status \in {"capped", "unknown"} :
          pc = "call" /\ Admit(c) /\ Record(c, status, NoOutputs)
    BY <1>3 DEF Rejects
  <2>2. status \in RanStatus \cup SkipStatus
    BY DEF SkipStatus
  <2> QED
    BY <1>1, <2>1, <2>2, AdmitCounts, NoOutputsType, RowGrows
<1>4. CASE Finishes
  <2>1. PICK status \in RanStatus, out \in Outputs :
          pc = "running" /\ Record(action.call, status, out) /\ UNCHANGED <<last, dups>>
    BY <1>4 DEF Finishes
  <2>2. action.call \in Call
    BY <1>0, <2>1, CallingFields
  <2>3. /\ last' = {action.call}
        /\ \A k \in DOMAIN transcript : Row(k, action.call) => Len(transcript) - k < dups'
    BY <2>1 DEF RowCounted
  <2> QED
    BY <1>0, <2>1, <2>2, <2>3, RowGrows
<1>5. CASE Starts
  <2>1. PICK c \in Resolved : /\ pc = "call" /\ Admit(c) /\ pc' = "running"
                              /\ action' = [kind |-> "call", call |-> c]
                              /\ UNCHANGED transcript
    BY <1>5 DEF Starts
  <2>2. c \in Call /\ action'.call = c
    BY <1>1, <2>1
  <2>3. /\ last' = {c}
        /\ \A k \in DOMAIN transcript : Row(k, c) => Len(transcript) - k < dups'
    BY <2>1, <2>2, AdmitCounts
  <2>4. \A k \in DOMAIN transcript : Row(k, c)' <=> Row(k, c)
    BY <2>1 DEF Row
  <2> QED
    BY <2>1, <2>2, <2>3, <2>4 DEF RowCounted, RowsBounded, Row
<1>6. CASE Thinks
  <2>1. RowsBounded'
    BY <1>6 DEF Thinks, RowsBounded
  <2>2. UNCHANGED <<transcript, last>>
    BY <1>6 DEF Thinks
  <2>3. CASE pc' = "done"
    BY <2>1, <2>3 DEF RowCounted
  <2>4. CASE \/ pc' \in {"top", "gate", "call"} /\ pc \in {"top", "gate", "call"} /\ UNCHANGED dups
             \/ UNCHANGED <<pc, action, dups>>
    <3>1. CASE pc' \in {"top", "gate", "call"} /\ pc \in {"top", "gate", "call"} /\ UNCHANGED dups
      BY <2>1, <2>2, <3>1 DEF RowCounted, Row
    <3>2. CASE UNCHANGED <<pc, action, dups>>
      BY <2>1, <2>2, <3>2 DEF RowCounted, Row
    <3> QED
      BY <2>4, <3>1, <3>2
  <2> QED
    BY <1>6, <2>1, <2>3, <2>4 DEF Thinks
<1> QED
  BY <1>2, <1>3, <1>4, <1>5, <1>6, StepShape

(* For every bound on duplicates, the same call is never admitted more     *)
(* often in a row, whichever way control takes through the loop body.      *)
THEOREM RowsAreBounded == Spec => []RowsBounded
<1>1. Init => RowCounted /\ RowsBounded
  <2> SUFFICES ASSUME Init PROVE RowCounted /\ RowsBounded
    OBVIOUS
  <2>1. Len(transcript) = 0 /\ \A k \in DOMAIN transcript : FALSE
    <3>1. transcript = <<>>
      BY DEF Init
    <3> QED
      BY <3>1
  <2>2. pc = "top" /\ MaxDuplicates \in Nat \ {0}
    BY AttemptsAssumption DEF Init
  <2>3. 1 .. Len(transcript) - MaxDuplicates = {}
    BY <2>1, <2>2
  <2> QED
    BY <2>1, <2>2, <2>3 DEF RowCounted, RowsBounded
<1>2. IInv /\ RowCounted /\ RowsBounded /\ [Next]_vars => RowCounted' /\ RowsBounded'
  BY RowsKept
<1> QED
  BY <1>1, <1>2, Invariance, PTL DEF Spec

-----------------------------------------------------------------------------
(* What a step does to the transcript and to the action held               *)

Check == "sufficiency_check"

(* A turn is recorded: one the loop wrote itself, or one of the call that  *)
(* was awaited, whose outputs are the tool's own when it is ok.            *)
Recorded(c, status, out) ==
  /\ Record(c, status, out)
  /\ \/ pc = "call" /\ c \in Resolved /\ status \in SkipStatus
     \/ pc = "running" /\ c = action.call /\ status \in RanStatus
  /\ status = "ok" => out \in OkOutputs(transcript, c, Answerer)
Records ==
  \E c \in Call, status \in RanStatus \cup SkipStatus, out \in Outputs :
    Recorded(c, status, out)
Same == UNCHANGED <<request, transcript>>
Asks == Same /\ pc = "top" /\ ~MustAnalyze /\ action' \in NextActions
        /\ pc' = IF action'.kind = "call" THEN "call" ELSE "gate"
Analyzes == Same /\ pc = "top" /\ MustAnalyze
            /\ pc' = "call" /\ action' = Do("analyze_requirements", NoArgs)
Redirects ==
  /\ Same /\ pc = "gate" /\ pc' = "call"
  /\ \/ action'.call.tool \in ExternalResearch /\ ~NameSeen(transcript, ExternalResearch)
     \/ action'.kind = "call" /\ action' \in RuleActions(request, transcript, FallbackLimit)
Launches ==
  /\ Same /\ pc = "call" /\ pc' = "running"
  /\ \E c \in Resolved : action' = [kind |-> "call", call |-> c]
Rests == Same /\ (pc' = "done" \/ UNCHANGED <<pc, action>>)

LEMMA ControlShape ==
  ASSUME IInv, [Next]_vars
  PROVE  Records \/ Asks \/ Analyzes \/ Redirects \/ Launches \/ Rests
<1>1. CASE Decide
  BY <1>1 DEF Decide, Truncate, Analyze, Ask, Abort, Stop, Same, Asks, Analyzes, Rests
<1>2. CASE Research
  <2>1. ResearchTool \subseteq ExternalResearch
    BY DEF ResearchTool, ExternalResearch
  <2>2. \A tool : Do(tool, NoArgs).call.tool = tool
    BY DEF Do, MakeCall
  <2> QED
    BY <1>2, <2>1, <2>2 DEF Research, ResearchDue, Same, Redirects
<1>3. CASE Accept
  BY <1>3 DEF Accept, Stop, Same, Rests
<1>4. CASE Fallback
  <2>1. PICK a \in RuleActions(request, transcript, FallbackLimit) :
          CASE a.kind = "call" -> action' = a /\ pc' = "call" /\ UNCHANGED outcome
            [] a.kind = "surrender" -> Stop("surrendered", "accepted", NoAnswer)
            [] a.kind = "final" ->
                 IF NeedsCheck(transcript)
                   THEN Stop("surrendered", "evidence", NoAnswer)
                   ELSE Stop("final", "accepted", a.answer)
    BY <1>4 DEF Fallback
  <2>2. a.kind \in {"call", "surrender", "final"}
    BY RuleActionsType, ClosingFields, CallingFields DEF IInv, TypeOK
  <2>3. Same /\ pc = "gate"
    BY <1>4 DEF Fallback, Same
  <2>4. CASE a.kind = "call"
    BY <2>1, <2>3, <2>4 DEF Redirects
  <2>5. CASE a.kind # "call"
    BY <2>1, <2>2, <2>3, <2>5, StopFields DEF Rests
  <2> QED
    BY <2>4, <2>5
<1>5. CASE Dispatch
  <2>1. CASE SkipRepeat \/ Reject
    <3>1. pc = "call" /\ action \in Calling /\ transcript \in Seq(Turn)
      BY <2>1 DEF SkipRepeat, Reject, IInv, ActionFits, TypeOK
    <3>2. Resolved \subseteq Call
      BY <3>1, ResolvedType
    <3>3. PICK c \in Resolved, status \in SkipStatus : Record(c, status, NoOutputs)
      BY <2>1 DEF SkipRepeat, Reject, SkipStatus
    <3>4. Recorded(c, status, NoOutputs)
      BY <3>1, <3>3 DEF Recorded, SkipStatus
    <3> QED
      BY <3>2, <3>4, NoOutputsType DEF Records
  <2>2. CASE StopOnDuplicates
    BY <2>2 DEF StopOnDuplicates, Stop, Same, Rests
  <2>3. CASE Start
    BY <2>3 DEF Start, Same, Launches
  <2> QED
    BY <1>5, <2>1, <2>2, <2>3 DEF Dispatch
<1>6. CASE Await
  <2>1. action.call \in Call /\ transcript \in Seq(Turn) /\ pc = "running"
    BY <1>6, CallingFields DEF Await, IInv, ActionFits, TypeOK
  <2>2. CASE Escape
    BY <2>2 DEF Escape, Stop, Same, Rests
  <2>3. CASE Return
    <3>1. PICK out \in OkOutputs(transcript, action.call, Answerer) : Finish("ok", out)
      BY <2>3 DEF Return
    <3>2. out \in Outputs
      BY <2>1, <3>1, OkOutputsType, EnvironmentAssumption
    <3>3. Recorded(action.call, "ok", out)
      BY <2>1, <3>1 DEF Finish, Recorded, RanStatus
    <3> QED
      BY <2>1, <3>2, <3>3 DEF Records, RanStatus
  <2>4. CASE Fail \/ Raise \/ TimeOut
    <3>1. PICK status \in {"failed", "raised", "timeout"} : Finish(status, NoOutputs)
      BY <2>4 DEF Fail, Raise, TimeOut
    <3>2. Recorded(action.call, status, NoOutputs)
      BY <2>1, <3>1 DEF Finish, Recorded, RanStatus
    <3> QED
      BY <2>1, <3>2, NoOutputsType DEF Records, RanStatus
  <2> QED
    BY <1>6, <2>2, <2>3, <2>4 DEF Await
<1>7. CASE UNCHANGED vars
  BY <1>7 DEF vars, Same, Rests
<1> QED
  BY <1>1, <1>2, <1>3, <1>4, <1>5, <1>6, <1>7 DEF Next, Gate

(* The new turn, and what it adds to the turns a reader looks for.         *)
LEMMA RecordedTurn ==
  ASSUME IInv, NEW c \in Call, NEW status \in RanStatus \cup SkipStatus,
         NEW out \in Outputs, Recorded(c, status, out)
  PROVE  LET n == Len(transcript) + 1 IN
         /\ n \in Nat /\ pc' = "top" /\ request' = request
         /\ DOMAIN transcript' = DOMAIN transcript \cup {n}
         /\ \A i \in DOMAIN transcript :
              i \in Nat /\ i < n /\ transcript'[i] = transcript[i]
         /\ transcript'[n].call = c
         /\ transcript'[n].status = status
         /\ transcript'[n].out = out
<1>1. /\ Record(c, status, out) /\ transcript \in Seq(Turn)
      /\ MakeTurn(c, status, out) \in Turn
      /\ MakeTurn(c, status, out).out = out
  BY MakeTurnType DEF Recorded, IInv, TypeOK, MakeTurn
<1>2. transcript' = Append(transcript, MakeTurn(c, status, out))
  BY <1>1 DEF Record
<1>3. transcript'[Len(transcript) + 1] = MakeTurn(c, status, out)
  BY <1>1, <1>2
<1>4. \A i \in DOMAIN transcript : i \in Nat /\ i < Len(transcript) + 1
  BY <1>1
<1>5. Len(transcript) + 1 \in Nat /\ pc' = "top" /\ request' = request
  BY <1>1 DEF Record
<1> QED
  BY <1>1, <1>3, <1>4, <1>5, RecordType

(* The swap of a search for a fetch makes no check of another call.        *)
LEMMA ResolvedTool ==
  ASSUME NEW c \in Resolved
  PROVE  c.tool = action.call.tool \/ (action.call.tool = "web_search" /\ c.tool = "web_fetch")
BY DEF Resolved, MakeCall

-----------------------------------------------------------------------------
(* Evidence is checked as it comes in                                      *)

Unseen == Unchecked(transcript, LoopEvidence(transcript))
Analysing == MustAnalyze =>
  /\ transcript = <<>> /\ pc # "gate"
  /\ pc \in {"call", "running"} => action.call.tool = "analyze_requirements"

(* A multi-clue question's loop holds no action but a check while some     *)
(* evidence is unchecked.                                                  *)
HeldBack ==
  Multi(request) /\ Check \in Tools /\ Unseen =>
    /\ pc # "gate"
    /\ pc \in {"call", "running"} => action.call.tool = Check

LEMMA LLMChecksFirst ==
  ASSUME NEW req, NEW t, NEW limit, NEW replies, NEW a \in LLMActions(req, t, limit, replies),
         Multi(req), Check \in Tools, Unchecked(t, LoopEvidence(t))
  PROVE  a.kind = "call" /\ a.call.tool = Check
<1>1. \A fb : FollowUp(req, t, fb) = {Do(Check, NoArgs)}
  BY DEF FollowUp, Check
<1>2. a = Do(Check, NoArgs)
  BY <1>1 DEF LLMActions
<1> QED
  BY <1>2 DEF Do, MakeCall

LEMMA RestKeepsTurns ==
  ASSUME UNCHANGED <<request, transcript>>
  PROVE  (MustAnalyze' <=> MustAnalyze) /\ (Unseen' <=> Unseen)
BY DEF MustAnalyze, NameSeen, Unseen, Unchecked, LoopEvidence, RuleEvidence, Checks

LEMMA BetweenKept ==
  ASSUME Driver = "llm", IInv, Analysing, HeldBack, CheckedBetween, [Next]_vars
  PROVE  Analysing' /\ HeldBack' /\ CheckedBetween'
<1>1. CASE Records
  <2>1. PICK c \in Call, status \in RanStatus \cup SkipStatus, out \in Outputs :
          Recorded(c, status, out)
    BY <1>1 DEF Records
  <2> DEFINE n == Len(transcript) + 1
  <2>2. /\ n \in Nat /\ pc' = "top" /\ request' = request
        /\ DOMAIN transcript' = DOMAIN transcript \cup {n}
        /\ \A i \in DOMAIN transcript :
             i \in Nat /\ i < n /\ transcript'[i] = transcript[i]
        /\ transcript'[n].call = c /\ transcript'[n].status = status
        /\ transcript'[n].out = out
    BY <2>1, RecordedTurn
  <2> HIDE DEF n
  <2>3. Analysing'
    <3>1. NameSeen(transcript, {"analyze_requirements"}) =>
            NameSeen(transcript', {"analyze_requirements"})
      BY <2>2 DEF NameSeen
    <3>2. MustAnalyze => c.tool = "analyze_requirements"
      BY <2>1, ResolvedTool DEF Recorded, Analysing
    <3>3. c.tool = "analyze_requirements" => NameSeen(transcript', {"analyze_requirements"})
      BY <2>2 DEF NameSeen
    <3> QED
      BY <3>1, <3>2, <3>3 DEF Analysing, MustAnalyze
  <2>4. HeldBack'
    BY <2>2 DEF HeldBack
  <2>5. CheckedBetween'
    <3> SUFFICES ASSUME Multi(request), Check \in Tools,
                        NEW i \in LoopEvidence(transcript'),
                        NEW j \in LoopEvidence(transcript'), i < j
                 PROVE  \E k \in Checks(transcript') : i < k /\ k < j
      BY <2>2 DEF CheckedBetween, Check
    <3>1. LoopEvidence(transcript') \subseteq LoopEvidence(transcript) \cup {n}
      BY <2>2 DEF LoopEvidence, RuleEvidence, Ok, IsCheck
    <3>2. Checks(transcript) \subseteq Checks(transcript')
      BY <2>2 DEF Checks, Ok, IsCheck
    <3>3. i \in LoopEvidence(transcript)
      BY <2>2, <3>1 DEF LoopEvidence, RuleEvidence
    <3>4. CASE j \in LoopEvidence(transcript)
      BY <3>2, <3>3, <3>4 DEF CheckedBetween, Check
    <3>5. CASE j = n
      <4>1. status = "ok" /\ c.tool # Check
        BY <2>2, <3>5 DEF LoopEvidence, RuleEvidence, Ok, IsCheck, Check
      <4>2. pc = "running" /\ action.call.tool # Check
        BY <2>1, <4>1 DEF Recorded, SkipStatus
      <4>3. PICK k \in Checks(transcript) : ~(k < i)
        BY <3>3, <4>2 DEF HeldBack, Unseen, Unchecked
      <4>4. k # i
        BY <3>3, <4>3 DEF Checks, LoopEvidence, RuleEvidence
      <4>5. k \in Nat /\ i \in Nat /\ k < n
        BY <2>2, <3>3, <4>3 DEF Checks, LoopEvidence, RuleEvidence
      <4> QED
        BY <3>2, <3>5, <4>3, <4>4, <4>5
    <3> QED
      BY <3>1, <3>4, <3>5
  <2> QED
    BY <2>3, <2>4, <2>5
<1>2. ASSUME Same PROVE CheckedBetween' /\ (MustAnalyze' <=> MustAnalyze)
                        /\ (Unseen' <=> Unseen) /\ request' = request /\ transcript' = transcript
  BY <1>2, RestKeepsTurns DEF Same, CheckedBetween, LoopEvidence, RuleEvidence, Checks
<1>3. CASE Asks
  <2>1. Analysing'
    BY <1>2, <1>3 DEF Asks, Analysing
  <2>2. Multi(request) /\ Check \in Tools /\ Unseen =>
          pc' = "call" /\ action'.call.tool = Check
    BY <1>3, LLMChecksFirst DEF Asks, NextActions, Unseen
  <2> QED
    BY <1>2, <1>3, <2>1, <2>2 DEF Asks, HeldBack
<1>4. CASE Analyzes
  <2>1. action'.call.tool = "analyze_requirements"
    BY <1>4 DEF Analyzes, Do, MakeCall
  <2>2. transcript = <<>>
    BY <1>4 DEF Analyzes, Analysing
  <2>3. ~Unseen
    BY <2>2 DEF Unseen, Unchecked, LoopEvidence, RuleEvidence
  <2> QED
    BY <1>2, <1>4, <2>1, <2>2, <2>3 DEF Analyzes, Analysing, HeldBack
<1>5. CASE Redirects
  BY <1>2, <1>5 DEF Redirects, Analysing, HeldBack
<1>6. CASE Launches
  <2>1. action.call.tool \in {"analyze_requirements", Check} =>
          action'.call.tool = action.call.tool
    BY <1>6, ResolvedTool DEF Launches, Check
  <2> QED
    BY <1>2, <1>6, <2>1 DEF Launches, Analysing, HeldBack
<1>7. CASE Rests
  BY <1>2, <1>7 DEF Rests, Analysing, HeldBack
<1> QED
  BY <1>1, <1>3, <1>4, <1>5, <1>6, <1>7, ControlShape

(* Under the LLM controller, on a multi-clue question, between two results *)
(* that carry evidence an ok sufficiency_check has run.                    *)
THEOREM EvidenceIsChecked ==
  ASSUME Driver = "llm"
  PROVE  Spec => []CheckedBetween
<1>1. Init => Analysing /\ HeldBack /\ CheckedBetween
  <2> SUFFICES ASSUME Init PROVE Analysing /\ HeldBack /\ CheckedBetween
    OBVIOUS
  <2>1. transcript = <<>> /\ pc = "top"
    BY DEF Init
  <2>2. LoopEvidence(transcript) = {}
    BY <2>1 DEF LoopEvidence, RuleEvidence
  <2> QED
    BY <2>1, <2>2 DEF Analysing, HeldBack, CheckedBetween
<1>2. IInv /\ Analysing /\ HeldBack /\ CheckedBetween /\ [Next]_vars
        => Analysing' /\ HeldBack' /\ CheckedBetween'
  BY BetweenKept
<1> QED
  BY <1>1, <1>2, Invariance, PTL DEF Spec

-----------------------------------------------------------------------------
(* What the checks on the transcript say                                   *)

(* A check gives a verdict and echoes the candidate it judged; it had none *)
(* to judge only when no turn before it had one. None is sufficient alone. *)
CheckFacts ==
  /\ \A i \in Checks(transcript) :
       /\ transcript[i].out.verdict \in {"yes", "no"}
       /\ transcript[i].out.cand = NoAnswer =>
            \A j \in Answered(transcript) : i < j
  /\ Checks(transcript) # {} => Newest(Checks(transcript)) # {}
  /\ Answered(transcript) # {} => Newest(Answered(transcript)) # {}
  /\ Checks(transcript) \cap SelfSufficient(transcript) = {}

LEMMA CheckOutputsSay ==
  ASSUME NEW t, NEW key, NEW out \in CheckOutputs(t, key)
  PROVE  /\ out.verdict \in {"yes", "no"} /\ ~out.alone
         /\ out.cand = NoAnswer => LatestAnswer(t) = {} \/ NoAnswer \in LatestAnswer(t)
<1>1. PICK o \in Verdicts(t, key), b \in Tables : out = [o EXCEPT !.table = b]
  BY DEF CheckOutputs
<1>2. ASSUME NEW a, NEW v \in {"yes", "no"}, NEW u, o = Verdict(a, v, u)
      PROVE  out.verdict = v /\ ~out.alone /\ out.cand = a
  BY <1>1, <1>2 DEF Verdict, NoOutputs
<1> DEFINE given == IF key \in Answers THEN {key} ELSE LatestAnswer(t)
<1>3. CASE given # {}
  <2>1. PICK a \in given, v \in {"yes", "no"}, u \in SUBSET Urls : o = Verdict(a, v, u)
    BY <1>1, <1>3 DEF Verdicts
  <2> QED
    BY <1>2, <2>1, AnswersAssumption
<1>4. CASE given = {}
  <2>1. PICK v \in {"yes", "no"} : o = Verdict(NoAnswer, v, {})
    BY <1>1, <1>4 DEF Verdicts
  <2> QED
    BY <1>2, <1>4, <2>1
<1> QED
  BY <1>3, <1>4

LEMMA NewestGrows ==
  ASSUME NEW S, NEW n, \A i \in S : i \in Nat /\ i < n, n \in Nat
  PROVE  Newest(S \cup {n}) = {n}
BY DEF Newest

LEMMA CheckFactsKept ==
  ASSUME IInv, CheckFacts, [Next]_vars
  PROVE  CheckFacts'
<1>1. CASE Records
  <2>1. PICK c \in Call, status \in RanStatus \cup SkipStatus, out \in Outputs :
          Recorded(c, status, out)
    BY <1>1 DEF Records
  <2> DEFINE n == Len(transcript) + 1
  <2>2. /\ n \in Nat
        /\ DOMAIN transcript' = DOMAIN transcript \cup {n}
        /\ \A i \in DOMAIN transcript :
             i \in Nat /\ i < n /\ transcript'[i] = transcript[i]
        /\ transcript'[n].call = c /\ transcript'[n].status = status
        /\ transcript'[n].out = out
    BY <2>1, RecordedTurn
  <2> HIDE DEF n
  <2> USE DEF Ok, IsCheck, Check
  <2>3. n \notin DOMAIN transcript
    BY <2>2
  <2>4. Checks(transcript') = Checks(transcript) \cup
          (IF status = "ok" /\ c.tool = Check THEN {n} ELSE {})
    BY <2>2 DEF Checks
  <2>5. Answered(transcript') = Answered(transcript) \cup
          (IF status = "ok" /\ out.cand # NoAnswer THEN {n} ELSE {})
    BY <2>2 DEF Answered
  <2>6. SelfSufficient(transcript') \subseteq SelfSufficient(transcript) \cup
          (IF status = "ok" /\ out.alone THEN {n} ELSE {})
    BY <2>2 DEF SelfSufficient
  <2>7. /\ Checks(transcript) \subseteq DOMAIN transcript
        /\ Answered(transcript) \subseteq DOMAIN transcript
        /\ SelfSufficient(transcript) \subseteq DOMAIN transcript
    BY DEF Checks, Answered, SelfSufficient
  <2>8. status = "ok" => out \in OkOutputs(transcript, c, Answerer)
    BY <2>1 DEF Recorded
  <2>9. ASSUME status = "ok", c.tool = Check
         PROVE  /\ out.verdict \in {"yes", "no"} /\ ~out.alone
                /\ out.cand = NoAnswer => Answered(transcript) = {}
    <3>1. out \in CheckOutputs(transcript, c.key)
      BY <2>8, <2>9 DEF OkOutputs
    <3>2. NoAnswer \notin LatestAnswer(transcript)
      BY AnswersAssumption, LatestAnswerType DEF IInv, TypeOK
    <3>3. LatestAnswer(transcript) = {} => Newest(Answered(transcript)) = {}
      BY DEF LatestAnswer
    <3> QED
      BY <3>1, <3>2, <3>3, CheckOutputsSay DEF CheckFacts
  <2>10. ASSUME NEW i \in Checks(transcript')
         PROVE  /\ transcript'[i].out.verdict \in {"yes", "no"}
                /\ transcript'[i].out.cand = NoAnswer =>
                     \A j \in Answered(transcript') : i < j
    <3>1. CASE i \in Checks(transcript)
      BY <2>2, <2>5, <2>7, <3>1 DEF CheckFacts
    <3>2. CASE i \notin Checks(transcript)
      BY <2>2, <2>4, <2>5, <2>9, <3>2
    <3> QED
      BY <3>1, <3>2
  <2>11. /\ Checks(transcript') # {} => Newest(Checks(transcript')) # {}
         /\ Answered(transcript') # {} => Newest(Answered(transcript')) # {}
    <3>1. Newest(Checks(transcript) \cup {n}) = {n}
      BY <2>2, <2>7, NewestGrows
    <3>2. Newest(Answered(transcript) \cup {n}) = {n}
      BY <2>2, <2>7, NewestGrows
    <3> QED
      BY <2>4, <2>5, <3>1, <3>2 DEF CheckFacts
  <2>12. Checks(transcript') \cap SelfSufficient(transcript') = {}
    BY <2>3, <2>4, <2>6, <2>7, <2>9 DEF CheckFacts
  <2> QED
    BY <2>10, <2>11, <2>12 DEF CheckFacts
<1>2. CASE Same
  BY <1>2 DEF Same, CheckFacts, Checks, Answered, SelfSufficient, Newest
<1> QED
  BY <1>1, <1>2, ControlShape DEF Asks, Analyzes, Redirects, Launches, Rests

LEMMA CheckFactsInit == Init => CheckFacts
<1> SUFFICES ASSUME Init PROVE CheckFacts
  OBVIOUS
<1>1. transcript = <<>>
  BY DEF Init
<1> QED
  BY <1>1 DEF CheckFacts, Checks, Answered, SelfSufficient

(* Once the evidence is checked, a yes of the newest check is a yes to the *)
(* candidate at hand.                                                      *)
LEMMA JudgedByNewest ==
  ASSUME IInv, CheckFacts, ~Unchecked(transcript, RuleEvidence(transcript)),
         LatestVerdictIs(transcript, "yes"), NEW a \in LatestAnswer(transcript)
  PROVE  \E i \in Newest(Checks(transcript)) :
           transcript[i].out.verdict = "yes" /\ transcript[i].out.cand = a
<1>1. PICK i \in Newest(Checks(transcript)) : transcript[i].out.verdict = "yes"
  BY DEF LatestVerdictIs
<1>2. PICK k \in Newest(Answered(transcript)) : a = transcript[k].out.cand
  BY DEF LatestAnswer
<1>3. /\ i \in Checks(transcript) /\ \A j \in Checks(transcript) : j <= i
      /\ k \in Answered(transcript) /\ \A j \in Answered(transcript) : j <= k
  BY <1>1, <1>2 DEF Newest
<1>4. DOMAIN transcript \subseteq Nat
  BY LenProperties DEF IInv, TypeOK
<1>5. i \in Nat /\ k \in Nat
  BY <1>3, <1>4 DEF Checks, Answered
<1>6. k <= i
  <2>1. CASE k \in Checks(transcript)
    BY <1>3, <2>1
  <2>2. CASE k \notin Checks(transcript)
    <3>1. k \in RuleEvidence(transcript)
      BY <1>3, <2>2 DEF RuleEvidence, Answered, Checks, IsCheck
    <3>2. PICK j \in Checks(transcript) : ~(j < k)
      BY <3>1 DEF Unchecked
    <3>3. j \in Nat /\ j <= i
      BY <1>3, <1>4, <3>2 DEF Checks
    <3> QED
      BY <1>5, <3>2, <3>3
  <2> QED
    BY <2>1, <2>2
<1>7. i \in Answered(transcript)
  <2>1. transcript[i].out.cand # NoAnswer
    BY <1>3, <1>5, <1>6 DEF CheckFacts
  <2> QED
    BY <1>3, <2>1 DEF Answered, Checks, IsCheck
<1>8. i = k
  BY <1>3, <1>5, <1>6, <1>7
<1> QED
  BY <1>1, <1>2, <1>8

-----------------------------------------------------------------------------
(* What a controller may close the run with                                *)

(* The rule controller commits what is sufficient alone, or else the       *)
(* candidate at hand, and gives up only with none and nothing left to call.*)
LEMMA RuleCloses ==
  ASSUME NEW req, NEW t, NEW limit, NEW a \in RuleActions(req, t, limit)
  PROVE  /\ a.kind = "final" =>
              \/ \E i \in SelfSufficient(t) : t[i].out.cand = a.answer
              \/ SelfSufficient(t) = {} /\ a.answer \in LatestAnswer(t)
         /\ a.kind = "surrender" =>
              /\ LatestAnswer(t) = {}
              /\ DocCalls(req, t, limit) = {} /\ ProfileCalls(req, t, limit) = {}
         /\ a.kind = "call" => SelfSufficient(t) = {}
<1>0. /\ \A tool, key : Do(tool, key).kind = "call"
      /\ \A x : Final(x).kind = "final" /\ Final(x).answer = x
      /\ GiveUp.kind = "surrender"
  BY DEF Do, Final, GiveUp
<1>1. CASE SelfSufficient(t) # {}
  <2>1. PICK i \in Newest(SelfSufficient(t)) : a = Final(t[i].out.cand)
    BY <1>1 DEF RuleActions
  <2>2. i \in SelfSufficient(t)
    BY <2>1 DEF Newest
  <2> QED
    BY <1>0, <2>1, <2>2
<1>2. CASE SelfSufficient(t) = {}
  <2>1. CASE Judged(t)
    BY <1>0, <1>2, <2>1 DEF RuleActions
  <2>2. CASE ~Judged(t) /\ MustCheck(t)
    BY <1>0, <1>2, <2>2 DEF RuleActions
  <2>3. CASE ~Judged(t) /\ ~MustCheck(t)
    <3>1. a \in FollowUps(req, t, limit)
      BY <1>2, <2>3 DEF RuleActions
    <3>2. \A x \in Fetches(t, limit) \cup Searches(req, t, limit)
                   \cup DocCalls(req, t, limit) \cup ProfileCalls(req, t, limit) :
            x.kind = "call"
      BY <1>0 DEF Fetches, Searches, DocCalls, ProfileCalls
    <3>3. a.kind # "call" =>
            /\ DocCalls(req, t, limit) = {} /\ ProfileCalls(req, t, limit) = {}
            /\ a \in LastResort(t)
      BY <3>1, <3>2 DEF FollowUps
    <3> QED
      BY <1>0, <1>2, <3>3 DEF LastResort
  <2> QED
    BY <2>1, <2>2, <2>3
<1> QED
  BY <1>1, <1>2

(* While requirements are open, the LLM controller closes the run only as  *)
(* its fallback does.                                                      *)
LEMMA LLMCloses ==
  ASSUME NEW req, NEW t, NEW limit, NEW replies, NEW a \in LLMActions(req, t, limit, replies),
         Blocked(t), a.kind # "call",
         \A reply \in replies : reply.kind \in {"garbage", "final", "surrender", "call"}
  PROVE  a \in RuleActions(req, t, limit)
<1>0. \A tool, key : Do(tool, key).kind = "call"
  BY DEF Do
<1>1. PICK fb \in RuleActions(req, t, limit), reply \in replies :
        a \in IF FollowUp(req, t, fb) # {} THEN FollowUp(req, t, fb)
                                           ELSE Obey(req, t, fb, reply)
  BY DEF LLMActions
<1>2. \A x \in FollowUp(req, t, fb) : x = fb \/ x.kind = "call"
  BY <1>0 DEF FollowUp
<1>3. \A x \in Escalate(req, t, fb) : x = fb \/ x.kind = "call"
  BY <1>0 DEF Escalate, Retries
<1>4. \A key : \A x \in SendSearch(req, t, fb, key) : x = fb \/ x.kind = "call"
  BY <1>0 DEF SendSearch, Retries
<1>5. ~IsSearch(reply) /\ reply.kind # "garbage" /\ reply.kind # "call" => Refused(t, reply)
  BY DEF Refused
<1>6. \A x \in Obey(req, t, fb, reply) : x = fb \/ x.kind = "call"
  BY <1>3, <1>4, <1>5 DEF Obey
<1> QED
  BY <1>1, <1>2, <1>6

(* Nothing to call under the larger limits is nothing to call under the    *)
(* smaller ones.                                                           *)
LEMMA NothingLeft ==
  ASSUME NEW req \in Requests, transcript \in Seq(Turn), MaxAttempts >= 1,
         DocCalls(req, transcript, FallbackLimit) = {},
         ProfileCalls(req, transcript, FallbackLimit) = {}
  PROVE  /\ DocCalls(req, transcript, LLMLimit) = {}
         /\ ProfileCalls(req, transcript, LLMLimit) = {}
<1>1. ASSUME NEW tool, Within(transcript, LLMLimit, tool)
      PROVE  Within(transcript, FallbackLimit, tool)
  <2>1. tool \in ToolNames /\ tool \in Tools
    BY <1>1, ToolsAssumption DEF Within
  <2>2. LLMLimit[tool] \in Nat /\ FallbackLimit[tool] \in Nat
        /\ LLMLimit[tool] <= FallbackLimit[tool]
    BY <2>1, AttemptsAssumption DEF LLMLimit, FallbackLimit, Cap, Larger
  <2>3. Attempted(transcript, tool) \in Nat
    BY TriesFinite
  <2> QED
    BY <1>1, <2>1, <2>2, <2>3 DEF Within
<1> DEFINE May(tool) == Within(transcript, FallbackLimit, tool)
<1>2. DocCalls(req, transcript, LLMLimit) = {}
  <2>1. ASSUME NEW tool \in FirstWithin(transcript, LLMLimit, <<"search_docs", "extract_answer">>)
        PROVE  May("search_docs") \/ May("extract_answer")
    <3>1. /\ tool \in {"search_docs", "extract_answer"}
          /\ Within(transcript, LLMLimit, tool)
      BY DEF FirstWithin
    <3> QED
      BY <1>1, <3>1
  <2>2. May("search_docs") =>
          "search_docs" \in FirstWithin(transcript, FallbackLimit, <<"search_docs", "extract_answer">>)
    BY DEF FirstWithin
  <2>3. ~May("search_docs") /\ May("extract_answer") =>
          "extract_answer" \in FirstWithin(transcript, FallbackLimit, <<"search_docs", "extract_answer">>)
    BY DEF FirstWithin
  <2> QED
    BY <2>1, <2>2, <2>3 DEF DocCalls
<1>3. ProfileCalls(req, transcript, LLMLimit) = {}
  <2> SUFFICES ASSUME NEW c \in req.caps,
                      NEW x \in FirstWithin(transcript, LLMLimit, CapTools[c]),
                      x # "web_fetch", x = "web_search" => req.clues # "multi"
               PROVE  FALSE
    <3>1. \A x \in UNION {FirstWithin(transcript, LLMLimit, CapTools[c]) : c \in req.caps} :
            \E c \in req.caps : x \in FirstWithin(transcript, LLMLimit, CapTools[c])
      OBVIOUS
    <3> QED
      BY <3>1 DEF ProfileCalls
  <2>0. c \in Capabilities
    BY DEF Requests
  <2> DEFINE tools == CapTools[c]
             hi == FirstWithin(transcript, FallbackLimit, tools)
  <2>1. PICK j \in DOMAIN tools : x = tools[j] /\ May(tools[j])
    BY <1>1 DEF FirstWithin
  <2>2. \A y \in hi : y # "web_fetch" => y = "web_search" /\ req.clues = "multi"
    BY DEF ProfileCalls
  <2>3. CASE c \in {"calculator", "shell_code"}
    <3>1. DOMAIN tools = {1} /\ tools[1] \in {"calculate", "shell_exec"}
      BY <2>3 DEF CapTools
    <3>2. tools[1] \in hi
      BY <2>1, <3>1 DEF FirstWithin
    <3> QED
      BY <2>2, <3>1, <3>2
  <2>4. CASE c = "doc_research"
    <3>1. DOMAIN tools = {1, 2} /\ tools[1] = "search_docs" /\ tools[2] = "extract_answer"
      BY <2>4 DEF CapTools
    <3>2. tools[1] \in hi \/ tools[2] \in hi
      BY <2>1, <3>1 DEF FirstWithin
    <3> QED
      BY <2>2, <3>1, <3>2
  <2>5. CASE c = "web_research"
    <3>1. DOMAIN tools = {1, 2, 3} /\ tools[1] = "research_answer"
          /\ tools[2] = "web_search" /\ tools[3] = "web_fetch"
      BY <2>5 DEF CapTools
    <3>2. ~May(tools[1])
      <4>1. May(tools[1]) => tools[1] \in hi
        BY <3>1 DEF FirstWithin
      <4> QED
        BY <2>2, <3>1, <4>1
    <3>3. j = 2
      BY <2>1, <3>1, <3>2
    <3>4. tools[2] \in hi
      BY <2>1, <3>1, <3>2, <3>3 DEF FirstWithin
    <3> QED
      BY <2>1, <2>2, <3>1, <3>3, <3>4
  <2> QED
    BY <2>0, <2>3, <2>4, <2>5 DEF Capabilities
<1> QED
  BY <1>2, <1>3

-----------------------------------------------------------------------------
(* What stands at the gate, and what passes it                             *)

(* At the gate the rule controller's own action stands; under the LLM      *)
(* controller it is the fallback's while requirements are open.            *)
Backed == pc = "gate" =>
  /\ Driver = "rule" => action \in RuleActions(request, transcript, DefaultLimit)
  /\ Driver = "llm" /\ Blocked(transcript) =>
       action \in RuleActions(request, transcript, LLMLimit)

LEMMA BackedKept ==
  ASSUME IInv, Backed, [Next]_vars
  PROVE  Backed'
<1>1. CASE Records
  BY <1>1 DEF Records, Recorded, Record, Backed
<1>2. CASE Asks
  <2>1. CASE pc' = "gate" /\ Driver = "llm" /\ Blocked(transcript)
    <3>1. \A reply \in Actions \cup {Garbage} :
            reply.kind \in {"garbage", "final", "surrender", "call"}
      BY DEF Actions, Final, GiveUp, Do, Garbage
    <3>2. action'.kind # "call"
      BY <1>2, <2>1 DEF Asks
    <3>3. action' \in LLMActions(request, transcript, LLMLimit, Actions \cup {Garbage})
      BY <1>2, <2>1 DEF Asks, NextActions
    <3>4. action' \in RuleActions(request, transcript, LLMLimit)
      BY <2>1, <3>1, <3>2, <3>3, LLMCloses
    <3> QED
      BY <1>2, <2>1, <3>4 DEF Asks, Same, Backed
  <2>2. CASE pc' = "gate" /\ Driver = "rule"
    BY <1>2, <2>2 DEF Asks, NextActions, Same, Backed
  <2>3. CASE \/ pc' # "gate"
             \/ Driver \notin {"llm", "rule"}
             \/ Driver = "llm" /\ ~Blocked(transcript)
    BY <1>2, <2>3 DEF Asks, Same, Backed
  <2> QED
    BY <2>1, <2>2, <2>3
<1>3. CASE Analyzes \/ Redirects \/ Launches
  BY <1>3 DEF Analyzes, Redirects, Launches, Backed
<1>4. CASE Rests
  BY <1>4 DEF Rests, Same, Backed
<1> QED
  BY <1>1, <1>2, <1>3, <1>4, ControlShape

(* An answer or a surrender that stops the run passed the gate, and an     *)
(* answer did so as it stood.                                              *)
LEMMA Passed ==
  ASSUME IInv, Next
  PROVE  /\ outcome'.kind = "final" =>
              /\ Same /\ pc = "gate"
              /\ action.kind = "final" /\ outcome'.answer = action.answer
              /\ DeadlineNear' \/ ~NeedsCheck(transcript)
         /\ outcome'.kind = "surrendered" /\ outcome'.reason = "accepted" =>
              /\ Same /\ pc = "gate"
              /\ \/ action.kind = "surrender"
                 \/ \E a \in RuleActions(request, transcript, FallbackLimit) :
                      a.kind = "surrender"
<1> SUFFICES ASSUME \/ outcome'.kind = "final"
                    \/ outcome'.kind = "surrendered" /\ outcome'.reason = "accepted"
             PROVE  /\ outcome'.kind = "final" =>
                         /\ Same /\ pc = "gate"
                         /\ action.kind = "final" /\ outcome'.answer = action.answer
                         /\ DeadlineNear' \/ ~NeedsCheck(transcript)
                    /\ outcome'.kind = "surrendered" =>
                         /\ Same /\ pc = "gate"
                         /\ \/ action.kind = "surrender"
                            \/ \E a \in RuleActions(request, transcript, FallbackLimit) :
                                 a.kind = "surrender"
  OBVIOUS
<1>1. outcome'.kind = "final" =>
        UNCHANGED <<request, transcript, clock>> /\ (DeadlineNear \/ ~NeedsCheck(transcript))
  BY FinalStep
<1>2. pc # "done"
  BY DEF Next, Decide, Truncate, Analyze, Ask, Abort, Gate, Research, Accept, Fallback,
     Dispatch, SkipRepeat, StopOnDuplicates, Reject, Start, Await
<1>3. outcome.kind = "none"
  BY <1>2 DEF IInv, StillRunning
<1>4. ~Decide /\ ~Research
  BY <1>3, StopFields DEF Decide, Truncate, Analyze, Ask, Abort, Research
<1>5. ~Dispatch
  BY <1>3, StopFields DEF Dispatch, SkipRepeat, StopOnDuplicates, Reject, Start, Record
<1>6. ~Await
  BY <1>3, AwaitStep, StopFields DEF Finish, Record
<1>7. CASE Accept
  <2>1. Same /\ pc = "gate" /\ action.kind \in {"final", "surrender"}
    BY <1>7, ClosingFields DEF Accept, Same, IInv, ActionFits
  <2>2. CASE action.kind = "final"
    <3>1. Stop("final", "accepted", action.answer)
      BY <1>7, <2>2 DEF Accept
    <3>2. outcome'.kind = "final" /\ outcome'.answer = action.answer
      BY <3>1 DEF Stop, Outcome
    <3> QED
      BY <1>1, <2>1, <2>2, <3>2 DEF DeadlineNear
  <2>3. CASE action.kind = "surrender"
    <3>1. outcome'.kind = "surrendered"
      BY <1>7, <2>3, StopFields DEF Accept
    <3> QED
      BY <2>1, <2>3, <3>1
  <2> QED
    BY <2>1, <2>2, <2>3
<1>8. CASE Fallback
  <2>1. Same /\ pc = "gate" /\ NeedsCheck(transcript)
    BY <1>8 DEF Fallback, Same
  <2>2. PICK a \in RuleActions(request, transcript, FallbackLimit) :
          CASE a.kind = "call" -> action' = a /\ pc' = "call" /\ UNCHANGED outcome
            [] a.kind = "surrender" -> Stop("surrendered", "accepted", NoAnswer)
            [] a.kind = "final" ->
                 IF NeedsCheck(transcript)
                   THEN Stop("surrendered", "evidence", NoAnswer)
                   ELSE Stop("final", "accepted", a.answer)
    BY <1>8 DEF Fallback
  <2>3. a.kind \in {"call", "surrender", "final"}
    BY RuleActionsType, ClosingFields, CallingFields DEF IInv, TypeOK
  <2>4. a.kind # "call"
    BY <1>3, <2>2
  <2>5. a.kind # "final"
    <3>1. a.kind = "final" => Stop("surrendered", "evidence", NoAnswer)
      BY <2>1, <2>2
    <3>2. a.kind = "final" => outcome'.kind = "surrendered" /\ outcome'.reason = "evidence"
      BY <3>1, StopFields
    <3> QED
      BY <3>2
  <2>6. a.kind = "surrender"
    BY <2>3, <2>4, <2>5
  <2>7. Stop("surrendered", "accepted", NoAnswer)
    BY <2>2, <2>6
  <2>8. outcome'.kind = "surrendered"
    BY <2>7, StopFields
  <2> QED
    BY <2>1, <2>6, <2>8
<1> QED
  BY <1>4, <1>5, <1>6, <1>7, <1>8 DEF Next, Gate

(* The candidate at hand, with all evidence checked and not against it, is *)
(* the one the newest check accepted.                                      *)
LEMMA CandidateJudged ==
  ASSUME IInv, CheckFacts, ~NeedsCheck(transcript), NEW a \in LatestAnswer(transcript)
  PROVE  \E i \in Newest(Checks(transcript)) :
           transcript[i].out.verdict = "yes" /\ transcript[i].out.cand = a
<1>1. ~Unchecked(transcript, RuleEvidence(transcript))
  BY DEF NeedsCheck, Unchecked, LoopEvidence
<1>2. Checks(transcript) # {}
  <2>1. PICK k \in Answered(transcript) : TRUE
    BY DEF LatestAnswer, Newest
  <2>2. k \in Checks(transcript) \/ k \in RuleEvidence(transcript)
    BY DEF Checks, RuleEvidence, Answered
  <2> QED
    BY <1>1, <2>2 DEF Unchecked
<1>3. PICK i \in Newest(Checks(transcript)) : TRUE
  BY <1>2 DEF CheckFacts
<1>4. transcript[i].out.verdict \in {"yes", "no"}
  BY <1>3 DEF CheckFacts, Newest
<1>5. LatestVerdictIs(transcript, "yes")
  BY <1>3, <1>4 DEF NeedsCheck, LatestVerdictIs
<1> QED
  BY <1>1, <1>5, JudgedByNewest

(* While requirements are open, the LLM controller's run commits, away     *)
(* from the deadline, only what a tool or the newest check vouches for.    *)
THEOREM OpenCommitsJudged ==
  ASSUME Driver = "llm"
  PROVE  Spec => []OpenCommitJudged
<1>1. Init => Backed /\ OpenCommitJudged
  <2> SUFFICES ASSUME Init PROVE Backed /\ OpenCommitJudged
    OBVIOUS
  <2>1. pc = "top" /\ outcome.kind = "none"
    BY DEF Init, Outcome
  <2> QED
    BY <2>1 DEF Backed, OpenCommitJudged
<1>2. ASSUME IInv, Backed, CheckFacts, OpenCommitJudged, [Next]_vars
      PROVE  OpenCommitJudged'
  <2>1. CASE UNCHANGED vars
    BY <1>2, <2>1 DEF vars, OpenCommitJudged, DeadlineNear
  <2>2. CASE Next
    <3> SUFFICES ASSUME outcome'.kind = "final", ~DeadlineNear', Blocked(transcript')
                 PROVE  \/ \E i \in SelfSufficient(transcript') :
                             transcript'[i].out.cand = outcome'.answer
                        \/ \E i \in Newest(Checks(transcript')) :
                             /\ transcript'[i].out.verdict = "yes"
                             /\ transcript'[i].out.cand = outcome'.answer
      BY DEF OpenCommitJudged
    <3>1. /\ Same /\ pc = "gate" /\ action.kind = "final"
          /\ outcome'.answer = action.answer /\ ~NeedsCheck(transcript)
      BY <1>2, <2>2, Passed
    <3>2. transcript' = transcript /\ Blocked(transcript)
      BY <3>1 DEF Same
    <3>3. action \in RuleActions(request, transcript, LLMLimit)
      BY <1>2, <3>1, <3>2 DEF Backed
    <3>4. \/ \E i \in SelfSufficient(transcript) : transcript[i].out.cand = action.answer
          \/ action.answer \in LatestAnswer(transcript)
      BY <3>1, <3>3, RuleCloses
    <3> QED
      BY <1>2, <3>1, <3>2, <3>4, CandidateJudged
  <2> QED
    BY <1>2, <2>1, <2>2
<1>3. IInv /\ Backed /\ CheckFacts /\ OpenCommitJudged /\ [Next]_vars
        => Backed' /\ CheckFacts' /\ OpenCommitJudged'
  BY <1>2, BackedKept, CheckFactsKept
<1> QED
  BY <1>1, <1>3, CheckFactsInit, Invariance, PTL DEF Spec

(* While requirements are open, the LLM controller's run gives up, away    *)
(* from the deadline, only with nothing at hand and nothing left to call.  *)
THEOREM SurrendersLate ==
  ASSUME Driver = "llm", MaxAttempts >= 1
  PROVE  Spec => []NoEarlySurrender
<1>1. Init => Backed /\ NoEarlySurrender
  <2> SUFFICES ASSUME Init PROVE Backed /\ NoEarlySurrender
    OBVIOUS
  <2>1. pc = "top" /\ outcome.kind = "none"
    BY DEF Init, Outcome
  <2> QED
    BY <2>1 DEF Backed, NoEarlySurrender
<1>2. ASSUME IInv, Backed, NoEarlySurrender, [Next]_vars
      PROVE  NoEarlySurrender'
  <2>1. CASE UNCHANGED vars
    BY <1>2, <2>1 DEF vars, NoEarlySurrender, DeadlineNear
  <2>2. CASE Next
    <3> SUFFICES ASSUME outcome'.kind = "surrendered", outcome'.reason = "accepted",
                        Blocked(transcript')
                 PROVE  /\ LatestAnswer(transcript') = {}
                        /\ DocCalls(request', transcript', LLMLimit) = {}
                        /\ ProfileCalls(request', transcript', LLMLimit) = {}
      BY DEF NoEarlySurrender
    <3>1. /\ transcript' = transcript /\ request' = request /\ pc = "gate"
          /\ \/ action.kind = "surrender"
             \/ \E a \in RuleActions(request, transcript, FallbackLimit) :
                  a.kind = "surrender"
      BY <1>2, <2>2, Passed DEF Same
    <3>2. CASE action.kind = "surrender"
      <4>1. action \in RuleActions(request, transcript, LLMLimit)
        BY <1>2, <3>1 DEF Backed
      <4> QED
        BY <3>1, <3>2, <4>1, RuleCloses
    <3>3. CASE \E a \in RuleActions(request, transcript, FallbackLimit) :
                 a.kind = "surrender"
      <4>1. /\ LatestAnswer(transcript) = {}
            /\ DocCalls(request, transcript, FallbackLimit) = {}
            /\ ProfileCalls(request, transcript, FallbackLimit) = {}
        BY <3>3, RuleCloses
      <4>2. request \in Requests /\ transcript \in Seq(Turn)
        BY <1>2, EnvironmentAssumption DEF IInv, TypeOK
      <4> QED
        BY <3>1, <4>1, <4>2, NothingLeft
    <3> QED
      BY <3>1, <3>2, <3>3
  <2> QED
    BY <1>2, <2>1, <2>2
<1>3. IInv /\ Backed /\ NoEarlySurrender /\ [Next]_vars => Backed' /\ NoEarlySurrender'
  BY <1>2, BackedKept
<1> QED
  BY <1>1, <1>3, Invariance, PTL DEF Spec

-----------------------------------------------------------------------------
(* The rule controller's answers                                           *)

(* After a result that is sufficient alone the rule controller calls no    *)
(* check: its answer is then never one that the gate lets pass.            *)
AloneUnchecked ==
  /\ \A i \in SelfSufficient(transcript), j \in Checks(transcript) : j < i
  /\ pc \in {"call", "running"} /\ action.call.tool = Check =>
       SelfSufficient(transcript) = {}

LEMMA AloneUncheckedKept ==
  ASSUME Driver = "rule", IInv, CheckFacts, AloneUnchecked, [Next]_vars
  PROVE  AloneUnchecked'
<1>1. CASE Records
  <2>1. PICK c \in Call, status \in RanStatus \cup SkipStatus, out \in Outputs :
          Recorded(c, status, out)
    BY <1>1 DEF Records
  <2> DEFINE n == Len(transcript) + 1
  <2>2. /\ n \in Nat /\ pc' = "top"
        /\ DOMAIN transcript' = DOMAIN transcript \cup {n}
        /\ \A i \in DOMAIN transcript :
             i \in Nat /\ i < n /\ transcript'[i] = transcript[i]
        /\ transcript'[n].call = c /\ transcript'[n].status = status
        /\ transcript'[n].out = out
    BY <2>1, RecordedTurn
  <2> HIDE DEF n
  <2>3. Checks(transcript') \subseteq Checks(transcript) \cup
          (IF status = "ok" /\ c.tool = Check THEN {n} ELSE {})
    BY <2>2 DEF Checks, Ok, IsCheck, Check
  <2>4. SelfSufficient(transcript') \subseteq SelfSufficient(transcript) \cup
          (IF status = "ok" /\ out.alone THEN {n} ELSE {})
    BY <2>2 DEF SelfSufficient, Ok
  <2>5. ASSUME status = "ok", c.tool = Check
        PROVE  SelfSufficient(transcript) = {} /\ ~out.alone
    <3>1. pc = "running" /\ c = action.call /\ out \in CheckOutputs(transcript, c.key)
      BY <2>1, <2>5 DEF Recorded, SkipStatus, OkOutputs, Check
    <3> QED
      BY <2>5, <3>1, CheckOutputsSay DEF AloneUnchecked
  <2>6. Checks(transcript) \subseteq DOMAIN transcript
    BY DEF Checks
  <2>7. ASSUME NEW i \in SelfSufficient(transcript'), NEW j \in Checks(transcript')
        PROVE  j < i
    <3>1. CASE status = "ok" /\ c.tool = Check
      BY <2>4, <2>5, <3>1
    <3>2. CASE ~(status = "ok" /\ c.tool = Check)
      BY <2>2, <2>3, <2>4, <2>6, <3>2 DEF AloneUnchecked
    <3> QED
      BY <3>1, <3>2
  <2> QED
    BY <2>2, <2>7 DEF AloneUnchecked
<1>2. ASSUME Same
      PROVE  /\ SelfSufficient(transcript') = SelfSufficient(transcript)
             /\ Checks(transcript') = Checks(transcript)
  BY <1>2 DEF Same
<1>3. CASE Asks
  <2>1. pc' = "call" => SelfSufficient(transcript) = {}
    BY <1>3, RuleCloses DEF Asks, NextActions
  <2> QED
    BY <1>2, <1>3, <2>1 DEF Asks, AloneUnchecked
<1>4. CASE Analyzes
  BY <1>2, <1>4 DEF Analyzes, Do, MakeCall, Check, AloneUnchecked
<1>5. CASE Redirects
  <2>1. action'.call.tool = Check => SelfSufficient(transcript) = {}
    BY <1>5, RuleCloses DEF Redirects, ExternalResearch, Check
  <2> QED
    BY <1>2, <1>5, <2>1 DEF Redirects, AloneUnchecked
<1>6. CASE Launches
  <2>1. action'.call.tool = Check => action.call.tool = Check
    BY <1>6, ResolvedTool DEF Launches, Check
  <2> QED
    BY <1>2, <1>6, <2>1 DEF Launches, AloneUnchecked
<1>7. CASE Rests
  BY <1>2, <1>7 DEF Rests, AloneUnchecked
<1> QED
  BY <1>1, <1>3, <1>4, <1>5, <1>6, <1>7, ControlShape

(* With the rule controller an answer committed before the deadline is the *)
(* very candidate the newest sufficiency_check found sufficient.           *)
THEOREM CommitIsJudged ==
  ASSUME Driver = "rule"
  PROVE  Spec => []JudgedCommit
<1>1. Init => Backed /\ AloneUnchecked /\ JudgedCommit
  <2> SUFFICES ASSUME Init PROVE Backed /\ AloneUnchecked /\ JudgedCommit
    OBVIOUS
  <2>1. transcript = <<>> /\ pc = "top" /\ outcome.kind = "none"
    BY DEF Init, Outcome
  <2> QED
    BY <2>1 DEF Backed, AloneUnchecked, JudgedCommit, SelfSufficient
<1>2. ASSUME IInv, Backed, CheckFacts, AloneUnchecked, JudgedCommit, [Next]_vars
      PROVE  JudgedCommit'
  <2>1. CASE UNCHANGED vars
    BY <1>2, <2>1 DEF vars, JudgedCommit, DeadlineNear
  <2>2. CASE Next
    <3> SUFFICES ASSUME outcome'.kind = "final", ~DeadlineNear'
                 PROVE  \E i \in Newest(Checks(transcript')) :
                          /\ transcript'[i].out.verdict = "yes"
                          /\ transcript'[i].out.cand = outcome'.answer
      BY DEF JudgedCommit
    <3>1. /\ Same /\ pc = "gate" /\ action.kind = "final"
          /\ outcome'.answer = action.answer /\ ~NeedsCheck(transcript)
      BY <1>2, <2>2, Passed
    <3>2. action \in RuleActions(request, transcript, DefaultLimit)
      BY <1>2, <3>1 DEF Backed
    <3>3. SelfSufficient(transcript) = {}
      <4>1. SUFFICES ASSUME NEW i \in SelfSufficient(transcript) PROVE FALSE
        OBVIOUS
      <4>2. i \in LoopEvidence(transcript)
        BY <1>2 DEF CheckFacts, SelfSufficient, Checks, LoopEvidence, RuleEvidence
      <4> QED
        BY <1>2, <3>1, <4>2 DEF AloneUnchecked, NeedsCheck, Unchecked
    <3>4. action.answer \in LatestAnswer(transcript)
      BY <3>1, <3>2, <3>3, RuleCloses
    <3> QED
      BY <1>2, <3>1, <3>4, CandidateJudged DEF Same
  <2> QED
    BY <1>2, <2>1, <2>2
<1>3. IInv /\ Backed /\ CheckFacts /\ AloneUnchecked /\ JudgedCommit /\ [Next]_vars
        => Backed' /\ CheckFacts' /\ AloneUnchecked' /\ JudgedCommit'
  BY <1>2, BackedKept, CheckFactsKept, AloneUncheckedKept
<1> QED
  BY <1>1, <1>3, CheckFactsInit, Invariance, PTL DEF Spec
-----------------------------------------------------------------------------
(* What the rule controller's run is stopped on                            *)

(* The last call is the newest admitted turn. It was attempted more often  *)
(* than it was repeated, and if it is an external one that never ran, its  *)
(* tool is beyond the cap.                                                 *)
LastCounted ==
  /\ pc \in {"top", "gate", "call"} => \A c \in last :
       /\ \E n \in DOMAIN transcript : LastAdmitted(n) /\ transcript[n].call = c
       /\ dups < Attempted(transcript, c.tool)
       /\ c.tool \in External \cap Tools =>
            c \in seen \/ Attempted(transcript, c.tool) > Cap(c.tool)
  /\ pc = "running" =>
       last = {action.call} /\ dups <= Attempted(transcript, action.call.tool)

(* Where the call in hand comes from.                                      *)
CallChosen ==
  pc = "call" /\ Driver = "rule" =>
    \/ /\ action.call.tool = "analyze_requirements"
       /\ ~NameSeen(transcript, {"analyze_requirements"})
    \/ /\ action.call.tool \in ExternalResearch
       /\ ~NameSeen(transcript, ExternalResearch)
    \/ action \in RuleActions(request, transcript, DefaultLimit)
    \/ action \in RuleActions(request, transcript, FallbackLimit)

(* A recorded turn is one more attempt of its tool.                        *)
LEMMA AttemptsGrow ==
  ASSUME IInv, NEW c \in Call, NEW status \in RanStatus \cup SkipStatus,
         NEW out \in Outputs, Record(c, status, out)
  PROVE  /\ \A tool : /\ Attempted(transcript, tool) \in Nat
                      /\ Attempted(transcript', tool) \in Nat
                      /\ Attempted(transcript, tool) <= Attempted(transcript', tool)
         /\ Attempted(transcript', c.tool) = Attempted(transcript, c.tool) + 1
<1> DEFINE n == Len(transcript) + 1
<1>1. /\ transcript' \in Seq(Turn) /\ transcript \in Seq(Turn)
      /\ \A i \in DOMAIN transcript : transcript'[i] = transcript[i]
      /\ DOMAIN transcript' = DOMAIN transcript \cup {n}
      /\ transcript'[n].call = c
  BY RecordType DEF IInv, TypeOK
<1>2. n \notin DOMAIN transcript
  BY <1>1, LenProperties
<1> HIDE DEF n
<1>3. ASSUME NEW tool
      PROVE  /\ Attempted(transcript, tool) \in Nat
             /\ Attempted(transcript', tool) \in Nat
             /\ Attempted(transcript, tool) <= Attempted(transcript', tool)
  <2>1. Tries(transcript, tool) \subseteq Tries(transcript', tool)
    BY <1>1 DEF Tries
  <2>2. Cardinality(Tries(transcript, tool)) <= Cardinality(Tries(transcript', tool))
    BY <1>1, <2>1, TriesFinite, FS_Subset
  <2> QED
    BY <1>1, <2>2, TriesFinite
<1>4. Attempted(transcript', c.tool) = Attempted(transcript, c.tool) + 1
  <2>1. Tries(transcript', c.tool) = Tries(transcript, c.tool) \cup {n}
    BY <1>1 DEF Tries
  <2>2. n \notin Tries(transcript, c.tool)
    BY <1>2 DEF Tries
  <2>3. IsFiniteSet(Tries(transcript, c.tool))
    BY <1>1, TriesFinite
  <2>4. Cardinality(Tries(transcript, c.tool) \cup {n})
          = Cardinality(Tries(transcript, c.tool)) + 1
    BY <2>2, <2>3, FS_AddElement
  <2> QED
    BY <1>1, <2>1, <2>4, TriesFinite
<1> QED
  BY <1>3, <1>4

LEMMA LastCountedKept ==
  ASSUME IInv, LastCounted, [Next]_vars
  PROVE  LastCounted'
<1>0. /\ transcript \in Seq(Turn) /\ dups \in Nat
      /\ last \in {{}} \cup {{c} : c \in Call}
      /\ pc \in {"call", "running"} => action \in Calling
  BY AttemptsAssumption DEF IInv, TypeOK, ActionFits
<1>1. pc = "call" => Resolved \subseteq Call
  BY <1>0, ResolvedType
<1>2. CASE SkipRepeat
  <2>1. PICK c \in Resolved : pc = "call" /\ Record(c, "duplicate", NoOutputs)
    BY <1>2 DEF SkipRepeat
  <2>2. UNCHANGED <<seen, last, dups>> /\ pc' = "top" /\ pc = "call"
    BY <1>2, <2>1 DEF SkipRepeat, Record
  <2>3. c \in Call /\ "duplicate" \in RanStatus \cup SkipStatus
    BY <1>1, <2>1 DEF SkipStatus
  <2> DEFINE k == Len(transcript) + 1
  <2>4. /\ Len(transcript') = k
        /\ \A i \in DOMAIN transcript : transcript'[i] = transcript[i]
        /\ DOMAIN transcript' = DOMAIN transcript \cup {k}
        /\ transcript'[k].status = "duplicate"
    BY <2>1, <2>3, NoOutputsType, RecordType
  <2>5. DOMAIN transcript = 1 .. Len(transcript) /\ Len(transcript) \in Nat
    BY <1>0, LenProperties
  <2>6. ASSUME NEW n \in DOMAIN transcript, LastAdmitted(n)
        PROVE  LastAdmitted(n)'
    BY <2>4, <2>5, <2>6 DEF LastAdmitted
  <2>7. \A tool : /\ Attempted(transcript, tool) \in Nat
                  /\ Attempted(transcript', tool) \in Nat
                  /\ Attempted(transcript, tool) <= Attempted(transcript', tool)
    BY <2>1, <2>3, NoOutputsType, AttemptsGrow
  <2> SUFFICES ASSUME NEW d \in last
               PROVE  /\ \E n \in DOMAIN transcript' :
                           LastAdmitted(n)' /\ transcript'[n].call = d
                      /\ dups < Attempted(transcript', d.tool)
                      /\ d.tool \in External \cap Tools =>
                           d \in seen \/ Attempted(transcript', d.tool) > Cap(d.tool)
    BY <2>2 DEF LastCounted
  <2>8. d \in Call
    BY <1>0
  <2>9. Cap(d.tool) \in Nat
    BY <2>8, CapType DEF Call
  <2>10. PICK n \in DOMAIN transcript : LastAdmitted(n) /\ transcript[n].call = d
    BY <2>2 DEF LastCounted
  <2>11. /\ dups < Attempted(transcript, d.tool)
         /\ d.tool \in External \cap Tools =>
              d \in seen \/ Attempted(transcript, d.tool) > Cap(d.tool)
    BY <2>2 DEF LastCounted
  <2>12. /\ n \in DOMAIN transcript' /\ LastAdmitted(n)' /\ transcript'[n].call = d
    BY <2>4, <2>6, <2>10
  <2> QED
    BY <1>0, <2>7, <2>9, <2>11, <2>12
<1>3. ASSUME NEW c \in Call, NEW status \in RanStatus \cup SkipStatus, NEW out \in Outputs,
             Record(c, status, out), status # "duplicate", last' = {c},
             dups' \in Nat, dups' <= Attempted(transcript, c.tool),
             c.tool \in External \cap Tools =>
               c \in seen' \/ Attempted(transcript, c.tool) >= Cap(c.tool)
      PROVE  LastCounted'
  <2>1. PICK n \in Nat : n = Len(transcript) + 1
    BY <1>0, LenProperties
  <2>2. /\ Len(transcript') = n /\ n \in DOMAIN transcript'
        /\ transcript'[n].call = c /\ transcript'[n].status = status
    BY <1>3, <2>1, RecordType
  <2>3. pc' = "top"
    BY <1>3 DEF Record
  <2>4. LastAdmitted(n)'
    BY <1>3, <2>1, <2>2 DEF LastAdmitted
  <2>5. /\ Attempted(transcript, c.tool) \in Nat
        /\ Attempted(transcript', c.tool) = Attempted(transcript, c.tool) + 1
    BY <1>3, AttemptsGrow
  <2>6. Cap(c.tool) \in Nat
    BY CapType DEF Call
  <2>7. /\ dups' < Attempted(transcript', c.tool)
        /\ c.tool \in External \cap Tools =>
             c \in seen' \/ Attempted(transcript', c.tool) > Cap(c.tool)
    BY <1>3, <2>5, <2>6
  <2> QED
    BY <1>3, <2>2, <2>3, <2>4, <2>7 DEF LastCounted
<1>4. ASSUME pc = "call", NEW c \in Call, Admit(c)
      PROVE  last' = {c} /\ dups' \in Nat /\ dups' <= Attempted(transcript, c.tool)
  <2>1. last' = {c} /\ dups' = IF last = {c} THEN dups + 1 ELSE 0
    BY <1>4 DEF Admit, DupsAfter
  <2>2. last = {c} => dups < Attempted(transcript, c.tool)
    BY <1>4 DEF LastCounted
  <2>3. Attempted(transcript, c.tool) \in Nat
    BY <1>0, TriesFinite
  <2> QED
    BY <1>0, <2>1, <2>2, <2>3
<1>5. CASE Reject
  <2>1. PICK c \in Resolved : /\ pc = "call" /\ Admit(c)
                              /\ c.tool \notin Tools \/ AtCap(c)
                              /\ Record(c, IF c.tool \in Tools THEN "capped" ELSE "unknown",
                                        NoOutputs)
    BY <1>5 DEF Reject
  <2>2. PICK status \in {"capped", "unknown"} : Record(c, status, NoOutputs)
    BY <2>1
  <2>3. c \in Call /\ status \in RanStatus \cup SkipStatus /\ status # "duplicate"
    BY <1>1, <2>1 DEF SkipStatus
  <2>4. c.tool \in Tools => Attempted(transcript, c.tool) >= Cap(c.tool)
    BY <2>1 DEF AtCap
  <2> QED
    BY <1>3, <1>4, <2>1, <2>2, <2>3, <2>4, NoOutputsType
<1>6. CASE Start
  <2>1. PICK c \in Resolved : /\ pc = "call" /\ Admit(c)
                              /\ action' = [kind |-> "call", call |-> c]
    BY <1>6 DEF Start
  <2>2. pc' = "running" /\ UNCHANGED transcript /\ c \in Call /\ action'.call = c
    BY <1>1, <1>6, <2>1 DEF Start
  <2>3. last' = {c} /\ dups' <= Attempted(transcript, c.tool)
    BY <1>4, <2>1, <2>2
  <2> QED
    BY <2>2, <2>3 DEF LastCounted
<1>7. CASE Await
  <2>1. CASE Escape
    BY <2>1 DEF Escape, Stop, LastCounted
  <2>2. CASE Return \/ Fail \/ Raise \/ TimeOut
    <3>1. pc = "running" /\ action.call \in Call
      BY <1>0, <1>7, CallingFields DEF Await
    <3>2. PICK status \in RanStatus, out \in Outputs : Finish(status, out)
      BY <2>2, <3>1, <1>0, OkOutputsType, NoOutputsType, EnvironmentAssumption
      DEF Return, Fail, Raise, TimeOut, RanStatus
    <3>3. /\ Record(action.call, status, out)
          /\ action.call.tool \in External => action.call \in seen'
          /\ UNCHANGED <<last, dups>>
      BY <3>2 DEF Finish
    <3>4. last' = {action.call} /\ dups' <= Attempted(transcript, action.call.tool)
      BY <3>1, <3>3 DEF LastCounted
    <3>5. status # "duplicate"
      BY DEF RanStatus
    <3> QED
      BY <1>0, <1>3, <3>1, <3>3, <3>4, <3>5
  <2> QED
    BY <1>7, <2>1, <2>2 DEF Await
<1>8. CASE Decide \/ Gate \/ StopOnDuplicates \/ UNCHANGED vars
  <2>1. \/ pc' = "done"
        \/ /\ pc \in {"top", "gate", "call"} /\ pc' \in {"top", "gate", "call"}
           /\ UNCHANGED <<transcript, seen, last, dups>>
        \/ UNCHANGED <<transcript, seen, last, dups, pc, action>>
    <3>1. CASE Decide \/ Research \/ Accept \/ StopOnDuplicates \/ UNCHANGED vars
      BY <3>1 DEF Decide, Truncate, Analyze, Ask, Abort, Research, Accept,
         StopOnDuplicates, Stop, vars
    <3>2. CASE Fallback
      <4>1. UNCHANGED <<transcript, seen, last, dups>> /\ pc = "gate"
        BY <3>2 DEF Fallback
      <4>2. Thinks \/ Skips \/ Rejects \/ Finishes \/ Starts
        BY <3>2, StepShape DEF Next, Gate
      <4> QED
        BY <4>1, <4>2 DEF Thinks, Skips, Rejects, Finishes, Starts
    <3> QED
      BY <1>8, <3>1, <3>2 DEF Gate
  <2>2. CASE pc' = "done"
    BY <2>2 DEF LastCounted
  <2>3. CASE /\ pc \in {"top", "gate", "call"} /\ pc' \in {"top", "gate", "call"}
             /\ UNCHANGED <<transcript, seen, last, dups>>
    BY <2>3 DEF LastCounted, LastAdmitted
  <2>4. CASE UNCHANGED <<transcript, seen, last, dups, pc, action>>
    BY <2>4 DEF LastCounted, LastAdmitted
  <2> QED
    BY <2>1, <2>2, <2>3, <2>4
<1> QED
  BY <1>2, <1>5, <1>6, <1>7, <1>8 DEF Next, Dispatch

LEMMA CallChosenKept ==
  ASSUME IInv, CallChosen, [Next]_vars
  PROVE  CallChosen'
<1>1. CASE Records
  BY <1>1 DEF Records, Recorded, Record, CallChosen
<1>2. CASE Asks
  BY <1>2 DEF Asks, NextActions, Same, CallChosen
<1>3. CASE Analyzes
  <2>1. action'.call.tool = "analyze_requirements"
    BY <1>3 DEF Analyzes, Do, MakeCall
  <2> QED
    BY <1>3, <2>1 DEF Analyzes, MustAnalyze, Same, CallChosen
<1>4. CASE Redirects
  BY <1>4 DEF Redirects, Same, CallChosen
<1>5. CASE Launches
  BY <1>5 DEF Launches, CallChosen
<1>6. CASE Rests
  BY <1>6 DEF Rests, Same, CallChosen
<1> QED
  BY <1>1, <1>2, <1>3, <1>4, <1>5, <1>6, ControlShape

(* The rule controller calls for a check, or else for a tool of which it   *)
(* allows itself another attempt; and only with no answer to commit.       *)
LEMMA RuleCalls ==
  ASSUME NEW req \in Requests, NEW t, NEW limit, NEW a \in RuleActions(req, t, limit),
         a.kind = "call"
  PROVE  /\ SelfSufficient(t) = {} /\ ~Judged(t)
         /\ \/ MustCheck(t) /\ a.call = MakeCall(Check, NoArgs)
            \/ ~MustCheck(t) /\ Within(t, limit, a.call.tool) /\ a.call.tool # Check
<1>0. \A tool, key : Do(tool, key).call = MakeCall(tool, key)
                     /\ MakeCall(tool, key).tool = tool
  BY DEF Do, MakeCall
<1>1. SelfSufficient(t) = {}
  BY RuleCloses
<1>2. ~Judged(t)
  BY <1>1 DEF RuleActions, Final
<1>3. CASE MustCheck(t)
  BY <1>0, <1>1, <1>2, <1>3 DEF RuleActions, Check
<1>4. CASE ~MustCheck(t)
  <2>1. a \in FollowUps(req, t, limit)
    BY <1>1, <1>2, <1>4 DEF RuleActions
  <2>2. a \notin LastResort(t)
    BY DEF LastResort, Final, GiveUp
  <2>3. CASE a \in Fetches(t, limit)
    BY <1>0, <1>1, <1>2, <1>4, <2>3 DEF Fetches, Check
  <2>4. CASE a \in Searches(req, t, limit)
    BY <1>0, <1>1, <1>2, <1>4, <2>4 DEF Searches, Check
  <2>5. CASE a \in DocCalls(req, t, limit)
    <3>1. PICK tool \in FirstWithin(t, limit, <<"search_docs", "extract_answer">>) :
            a = Do(tool, NoArgs)
      BY <2>5 DEF DocCalls
    <3>2. tool \in {"search_docs", "extract_answer"} /\ Within(t, limit, tool)
      BY <3>1 DEF FirstWithin
    <3> QED
      BY <1>0, <1>1, <1>2, <1>4, <3>1, <3>2 DEF Check
  <2>6. CASE a \in ProfileCalls(req, t, limit)
    <3>1. PICK c \in req.caps : \E tool \in FirstWithin(t, limit, CapTools[c]) :
            a = Do(tool, NoArgs)
      BY <2>6 DEF ProfileCalls
    <3>2. PICK tool \in FirstWithin(t, limit, CapTools[c]) : a = Do(tool, NoArgs)
      BY <3>1
    <3>3. c \in Capabilities
      BY DEF Requests
    <3>4. \A i \in DOMAIN CapTools[c] : CapTools[c][i] # Check
      BY <3>3 DEF Capabilities, CapTools, Check
    <3>5. tool # Check /\ Within(t, limit, tool)
      BY <3>2, <3>4 DEF FirstWithin
    <3> QED
      BY <1>0, <1>1, <1>2, <1>4, <3>2, <3>5
  <2> QED
    BY <2>1, <2>2, <2>3, <2>4, <2>5, <2>6 DEF FollowUps
<1> QED
  BY <1>3, <1>4

(* A call the rule controllers allow is below the loop's cap, or is the    *)
(* first one.                                                              *)
LEMMA WithinCap ==
  ASSUME transcript \in Seq(Turn), NEW tool, NEW limit \in {DefaultLimit, FallbackLimit},
         Within(transcript, limit, tool)
  PROVE  tool \in Tools /\ Attempted(transcript, tool) < Larger(1, Cap(tool))
<1>1. tool \in ToolNames /\ tool \in Tools /\ Attempted(transcript, tool) < limit[tool]
  BY ToolsAssumption DEF Within
<1>2. limit[tool] \in Nat /\ limit[tool] <= Larger(1, Cap(tool))
  BY <1>1, AttemptsAssumption DEF DefaultLimit, FallbackLimit, Cap, Larger
<1>3. Attempted(transcript, tool) \in Nat /\ Cap(tool) \in Nat
  BY <1>1, TriesFinite, CapType
<1> QED
  BY <1>1, <1>2, <1>3 DEF Larger

(* A check that came back leaves nothing to be checked.                    *)
LEMMA FailedCheck ==
  ASSUME transcript \in Seq(Turn), MustCheck(transcript),
         NEW n \in DOMAIN transcript, LastAdmitted(n),
         transcript[n].call = MakeCall(Check, NoArgs)
  PROVE  ~Ok(transcript[n])
<1> SUFFICES ASSUME Ok(transcript[n]) PROVE FALSE
  OBVIOUS
<1>1. n \in Checks(transcript)
  BY DEF Checks, IsCheck, Check, MakeCall
<1>2. PICK i \in RuleEvidence(transcript) : \A j \in Checks(transcript) : j < i
  BY DEF MustCheck, Unchecked
<1>3. i \in DOMAIN transcript /\ Ok(transcript[i]) /\ n < i
  BY <1>1, <1>2 DEF RuleEvidence
<1>4. i \in n + 1 .. Len(transcript)
  BY <1>3, LenProperties
<1> QED
  BY <1>3, <1>4 DEF LastAdmitted, Ok

(* The rule controller's run is stopped for repeating itself only without  *)
(* an answer to commit, on a failed sufficiency_check, a swapped fetch     *)
(* beyond its cap, or a document or profile tool of which the fallback     *)
(* allows more attempts than the loop allows duplicates.                   *)
THEOREM RepeatsAreInVain ==
  ASSUME Driver = "rule"
  PROVE  Spec => []RepeatsInVain
<1> DEFINE Calm == pc # "done" => outcome.reason # "duplicates"
<1>1. Init => LastCounted /\ CallChosen /\ Calm /\ RepeatsInVain
  <2> SUFFICES ASSUME Init PROVE LastCounted /\ CallChosen /\ Calm /\ RepeatsInVain
    OBVIOUS
  <2>1. last = {} /\ pc = "top" /\ outcome.reason = ""
    BY DEF Init, Outcome
  <2> QED
    BY <2>1 DEF LastCounted, CallChosen, RepeatsInVain
<1>2. ASSUME IInv, LastCounted, CallChosen, Calm, RepeatsInVain, [Next]_vars
      PROVE  Calm' /\ RepeatsInVain'
  <2>1. CASE StopOnDuplicates
    <3>1. PICK c \in Resolved : ~IsRepeat(c) /\ last = {c} /\ DupsAfter(c) >= MaxDuplicates
      BY <2>1 DEF StopOnDuplicates
    <3>2. /\ pc = "call" /\ pc' = "done" /\ UNCHANGED transcript
          /\ action \in Calling /\ transcript \in Seq(Turn) /\ request \in Requests
          /\ dups \in Nat /\ MaxDuplicates \in Nat
      BY <1>2, <2>1, AttemptsAssumption, EnvironmentAssumption
      DEF StopOnDuplicates, Stop, IInv, ActionFits, TypeOK
    <3>3. dups + 1 >= MaxDuplicates /\ c \in Call /\ c.tool \in ToolNames
      BY <3>1, <3>2, ResolvedType DEF DupsAfter, Call
    <3>4. PICK n \in DOMAIN transcript : LastAdmitted(n) /\ transcript[n].call = c
      BY <1>2, <3>1, <3>2 DEF LastCounted
    <3>5. /\ dups < Attempted(transcript, c.tool)
          /\ c.tool \in External \cap Tools => Attempted(transcript, c.tool) > Cap(c.tool)
      BY <1>2, <3>1, <3>2 DEF LastCounted, IsRepeat
    <3>6. Attempted(transcript, c.tool) \in Nat /\ Cap(c.tool) \in Nat
      BY <3>2, <3>3, TriesFinite, CapType
    <3>7. PICK limit \in {DefaultLimit, FallbackLimit} :
            action \in RuleActions(request, transcript, limit)
      <4>1. c.tool = action.call.tool
              \/ (action.call.tool = "web_search" /\ c.tool = "web_fetch")
        BY <3>1, ResolvedTool
      <4>2. NameSeen(transcript, {c.tool})
        BY <3>4 DEF NameSeen
      <4>3. ~(/\ action.call.tool = "analyze_requirements"
              /\ ~NameSeen(transcript, {"analyze_requirements"}))
        BY <4>1, <4>2
      <4>4. ~(/\ action.call.tool \in ExternalResearch
              /\ ~NameSeen(transcript, ExternalResearch))
        BY <4>1, <4>2 DEF NameSeen, ExternalResearch
      <4> QED
        BY <1>2, <3>2, <4>3, <4>4 DEF CallChosen
    <3>8. action.kind = "call"
      BY <3>2, CallingFields
    <3>9. /\ SelfSufficient(transcript) = {} /\ ~Judged(transcript)
          /\ \/ MustCheck(transcript) /\ action.call = MakeCall(Check, NoArgs)
             \/ /\ ~MustCheck(transcript) /\ action.call.tool # Check
                /\ Within(transcript, limit, action.call.tool)
      BY <3>2, <3>7, <3>8, RuleCalls
    <3>10. \/ c = MakeCall(Check, NoArgs) /\ ~Ok(transcript[n])
           \/ c.tool = "web_fetch" /\ Attempted(transcript, c.tool) > Cap(c.tool)
           \/ /\ c.tool \notin Uncapped \cup External
              /\ MaxDuplicates < Larger(1, Cap(c.tool))
              /\ ~MustCheck(transcript)
      <4>1. CASE c # action.call
        <5>1. c.tool = "web_fetch" /\ "web_fetch" \in Tools
          BY <3>1, <4>1 DEF Resolved, MakeCall
        <5> QED
          BY <3>5, <5>1 DEF External
      <4>2. CASE c = action.call /\ MustCheck(transcript)
        BY <3>2, <3>4, <3>9, <4>2, FailedCheck
      <4>3. CASE c = action.call /\ ~MustCheck(transcript)
        <5>1. c.tool \in Tools /\ Attempted(transcript, c.tool) < Larger(1, Cap(c.tool))
          BY <3>2, <3>9, <4>3, WithinCap
        <5>2. c.tool \notin External
          BY <3>2, <3>5, <3>6, <5>1 DEF Larger
        <5>3. MaxDuplicates < Larger(1, Cap(c.tool))
          BY <3>2, <3>3, <3>5, <3>6, <5>1 DEF Larger
        <5> QED
          BY <3>9, <4>3, <5>2, <5>3 DEF Uncapped, Check
      <4> QED
        BY <4>1, <4>2, <4>3
    <3> QED
      BY <3>2, <3>4, <3>9, <3>10 DEF RepeatsInVain, LastAdmitted, Check
  <2>2. CASE Next /\ ~StopOnDuplicates
    <3>1. pc # "done"
      BY <2>2 DEF Next, Decide, Truncate, Analyze, Ask, Abort, Gate, Research, Accept, Fallback,
         Dispatch, SkipRepeat, StopOnDuplicates, Reject, Start, Await
    <3>2. outcome.reason # "duplicates"
      BY <1>2, <3>1
    <3>3. outcome' = outcome \/ outcome'.reason # "duplicates"
      <4>1. CASE Decide \/ Research \/ Accept
        BY <4>1 DEF Decide, Truncate, Analyze, Ask, Abort, Research, Accept, Stop, Outcome
      <4>2. CASE Fallback
        <5>1. PICK a \in RuleActions(request, transcript, FallbackLimit) :
                CASE a.kind = "call" -> action' = a /\ pc' = "call" /\ UNCHANGED outcome
                  [] a.kind = "surrender" -> Stop("surrendered", "accepted", NoAnswer)
                  [] a.kind = "final" ->
                       IF NeedsCheck(transcript)
                         THEN Stop("surrendered", "evidence", NoAnswer)
                         ELSE Stop("final", "accepted", a.answer)
          BY <4>2 DEF Fallback
        <5>2. a.kind \in {"call", "surrender", "final"}
          BY RuleActionsType, ClosingFields, CallingFields, <1>2 DEF IInv, TypeOK
        <5>3. \/ UNCHANGED outcome
              \/ \E kind, answer : Stop(kind, "accepted", answer)
              \/ \E kind, answer : Stop(kind, "evidence", answer)
          BY <5>1, <5>2
        <5> QED
          BY <5>3, StopFields
      <4>3. CASE SkipRepeat \/ Reject \/ Start
        BY <4>3 DEF SkipRepeat, Reject, Start, Record
      <4>4. CASE Await
        <5>1. CASE Escape
          BY <5>1 DEF Escape, Stop, Outcome
        <5>2. CASE Return \/ Fail \/ Raise \/ TimeOut
          BY <5>2 DEF Return, Fail, Raise, TimeOut, Finish, Record
        <5> QED
          BY <4>4, <5>1, <5>2 DEF Await
      <4> QED
        BY <2>2, <4>1, <4>2, <4>3, <4>4 DEF Next, Gate, Dispatch
    <3> QED
      BY <3>2, <3>3 DEF RepeatsInVain
  <2>3. CASE UNCHANGED vars
    BY <1>2, <2>3 DEF vars, RepeatsInVain, LastAdmitted
  <2> QED
    BY <1>2, <2>1, <2>2, <2>3
<1>3. IInv /\ LastCounted /\ CallChosen /\ Calm /\ RepeatsInVain /\ [Next]_vars
        => LastCounted' /\ CallChosen' /\ Calm' /\ RepeatsInVain'
  BY <1>2, LastCountedKept, CallChosenKept
<1> QED
  BY <1>1, <1>3, Invariance, PTL DEF Spec

-----------------------------------------------------------------------------
(* The run never waits for anything but its own awaits                     *)

(* Of the turns that are sufficient alone, one is the newest.              *)
NewestAlone ==
  SelfSufficient(transcript) # {} => Newest(SelfSufficient(transcript)) # {}

LEMMA NewestAloneKept ==
  ASSUME IInv, NewestAlone, [Next]_vars
  PROVE  NewestAlone'
<1>1. CASE Records
  <2>1. PICK c \in Call, status \in RanStatus \cup SkipStatus, out \in Outputs :
          Recorded(c, status, out)
    BY <1>1 DEF Records
  <2> DEFINE n == Len(transcript) + 1
  <2>2. /\ n \in Nat
        /\ DOMAIN transcript' = DOMAIN transcript \cup {n}
        /\ \A i \in DOMAIN transcript :
             i \in Nat /\ i < n /\ transcript'[i] = transcript[i]
    BY <2>1, RecordedTurn
  <2> HIDE DEF n
  <2>3. \/ SelfSufficient(transcript') = SelfSufficient(transcript)
        \/ SelfSufficient(transcript') = SelfSufficient(transcript) \cup {n}
    BY <2>2 DEF SelfSufficient
  <2>4. Newest(SelfSufficient(transcript) \cup {n}) = {n}
    BY <2>2, NewestGrows DEF SelfSufficient
  <2> QED
    BY <2>3, <2>4 DEF NewestAlone
<1>2. CASE Same
  BY <1>2 DEF Same, NewestAlone
<1> QED
  BY <1>1, <1>2, ControlShape DEF Asks, Analyzes, Redirects, Launches, Rests

(* next_action of the rule controller has an action for every transcript.  *)
LEMMA RuleAnswers ==
  ASSUME NewestAlone, NEW limit
  PROVE  RuleActions(request, transcript, limit) # {}
<1> DEFINE t == transcript
<1>1. CASE SelfSufficient(t) # {}
  BY <1>1 DEF NewestAlone, RuleActions
<1>2. CASE SelfSufficient(t) = {} /\ (Judged(t) \/ MustCheck(t))
  BY <1>2 DEF RuleActions, Judged
<1>3. CASE SelfSufficient(t) = {} /\ ~Judged(t) /\ ~MustCheck(t)
  <2>1. LastResort(t) # {}
    BY DEF LastResort
  <2>2. FollowUps(request, t, limit) # {}
    BY <2>1 DEF FollowUps
  <2> QED
    BY <1>3, <2>2 DEF RuleActions
<1> QED
  BY <1>1, <1>2, <1>3

(* So has the LLM controller's: a model that gives up is told what to do   *)
(* instead, or obeyed.                                                     *)
LEMMA ControllerAnswers ==
  ASSUME NewestAlone
  PROVE  NextActions # {}
<1>1. GiveUp \in Actions
  BY DEF Actions
<1>2. PICK fb : fb \in RuleActions(request, transcript, LLMLimit)
  BY RuleAnswers
<1>3. Obey(request, transcript, fb, GiveUp) # {}
  BY DEF Obey, GiveUp, IsSearch
<1>4. LLMActions(request, transcript, LLMLimit, Actions \cup {Garbage}) # {}
  BY <1>1, <1>2, <1>3 DEF LLMActions
<1> QED
  BY <1>1, <1>4, RuleAnswers, DriverAssumption DEF NextActions

(* What the place in the loop body asks for is there: an action to take, a *)
(* verdict on the action held, a call to skip, stop on or admit, a call to *)
(* await.                                                                  *)
WayOn ==
  /\ pc = "top" => ~CanContinue \/ MustAnalyze \/ NextActions # {}
  /\ pc = "gate" =>
       \/ ResearchDue /\ ResearchTool # {}
       \/ action.kind \in {"final", "surrender"} /\ ~ResearchDue
            /\ (DeadlineNear \/ ~NeedsCheck(transcript) \/ ~CanContinue)
       \/ ~ResearchDue /\ ~DeadlineNear /\ NeedsCheck(transcript) /\ CanContinue
            /\ \E a \in RuleActions(request, transcript, FallbackLimit) :
                 a.kind \in {"call", "surrender", "final"}
  /\ pc = "call" =>
       \E c \in Resolved :
         \/ IsRepeat(c)
         \/ ~IsRepeat(c) /\ last = {c} /\ DupsAfter(c) >= MaxDuplicates
         \/ ~IsRepeat(c) /\ DupsAfter(c) < MaxDuplicates
  /\ pc = "running" => action.kind = "call" /\ action.call \in Call

(* Wherever the run is, short of its end, one of its steps can be taken,   *)
(* whatever the transcript and the budget: with RunWindsDown, what the     *)
(* scheduler owes a coroutine whose await is over is all that termination  *)
(* still needs.                                                            *)
THEOREM RunHasWayOn == Spec => []WayOn
<1>1. Init => NewestAlone
  <2> SUFFICES ASSUME Init PROVE NewestAlone
    OBVIOUS
  <2>1. transcript = <<>>
    BY DEF Init
  <2> QED
    BY <2>1 DEF NewestAlone, SelfSufficient
<1>2. IInv /\ NewestAlone => WayOn
  <2> SUFFICES ASSUME IInv, NewestAlone PROVE WayOn
    OBVIOUS
  <2>1. pc = "top" => NextActions # {}
    BY ControllerAnswers
  <2>2. ASSUME pc = "gate"
        PROVE  action.kind \in {"final", "surrender"}
    BY <2>2, ClosingFields DEF IInv, ActionFits
  <2>3. \E a \in RuleActions(request, transcript, FallbackLimit) :
          a.kind \in {"call", "surrender", "final"}
    <3>1. PICK a : a \in RuleActions(request, transcript, FallbackLimit)
      BY RuleAnswers
    <3>2. a \in Closing \cup Calling
      BY <3>1, RuleActionsType DEF IInv, TypeOK
    <3> QED
      BY <3>1, <3>2, ClosingFields, CallingFields
  <2>4. ResearchDue => ResearchTool # {}
    BY DEF ResearchDue
  <2>5. ASSUME pc = "call"
        PROVE  \E c \in Resolved :
                 \/ IsRepeat(c)
                 \/ ~IsRepeat(c) /\ last = {c} /\ DupsAfter(c) >= MaxDuplicates
                 \/ ~IsRepeat(c) /\ DupsAfter(c) < MaxDuplicates
    <3>1. PICK c : c \in Resolved
      BY DEF Resolved
    <3>2. dups \in Nat /\ MaxDuplicates \in Nat \ {0}
      BY AttemptsAssumption DEF IInv, TypeOK
    <3>3. last # {c} => DupsAfter(c) < MaxDuplicates
      BY <3>2 DEF DupsAfter
    <3>4. DupsAfter(c) \in Nat
      BY <3>2 DEF DupsAfter
    <3> QED
      BY <3>1, <3>2, <3>3, <3>4
  <2>6. pc = "running" => action.kind = "call" /\ action.call \in Call
    BY CallingFields DEF IInv, ActionFits
  <2> QED
    BY <2>1, <2>2, <2>3, <2>4, <2>5, <2>6 DEF WayOn
<1>3. IInv /\ NewestAlone /\ [Next]_vars => NewestAlone'
  BY NewestAloneKept
<1> QED
  BY <1>1, <1>2, <1>3, Invariance, PTL DEF Spec
=============================================================================
