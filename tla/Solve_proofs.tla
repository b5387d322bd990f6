---------------------------- MODULE Solve_proofs ----------------------------
(***************************************************************************)
(* For every set of texts, every turn a tool may record and whatever the   *)
(* language model replies: a refusal wins, a blocked candidate is not      *)
(* promoted, a committed answer is delivered, and what is delivered is a   *)
(* clean answer.                                                           *)
(***************************************************************************)
EXTENDS Solve, SequenceTheorems, TLAPS

-----------------------------------------------------------------------------
(* Turns and the transcript                                                *)

Fields == {"cand", "table", "needs", "span", "page"}
OwnNames == {"synthesize_candidate", "verify_claim", "compose"}

LEMMA BareType ==
  ASSUME NEW n \in OwnNames
  PROVE  /\ Bare(n) \in Turn
         /\ Bare(n).name = n
         /\ \A f \in Fields : Bare(n)[f] \in {NoText, "none"}
BY DEF Bare, Turn, OwnNames, Fields

LEMMA AppendTurn ==
  ASSUME transcript \in Seq(Turn), NEW t \in Turn, transcript' = Append(transcript, t)
  PROVE  /\ transcript' \in Seq(Turn)
         /\ DOMAIN transcript' = DOMAIN transcript \cup {Len(transcript) + 1}
         /\ \A i \in DOMAIN transcript : transcript'[i] = transcript[i]
         /\ transcript'[Len(transcript) + 1] = t
         /\ Len(transcript) + 1 \notin DOMAIN transcript
OBVIOUS

(* A turn of the finalizer's own that only reports changes no reading.     *)
LEMMA ReadingsKept ==
  ASSUME transcript \in Seq(Turn), NEW n \in OwnNames,
         transcript' = Append(transcript, Bare(n)), NEW f \in Fields
  PROVE  /\ Said(f)' = Said(f)
         /\ Newest(f)' = Newest(f)
         /\ Oldest(f)' = Oldest(f)
<1>1. Said(f)' = Said(f)
  <2>1. /\ DOMAIN transcript' = DOMAIN transcript \cup {Len(transcript) + 1}
        /\ \A i \in DOMAIN transcript : transcript'[i] = transcript[i]
        /\ transcript'[Len(transcript) + 1] = Bare(n)
    BY BareType, AppendTurn
  <2>2. Bare(n)[f] \in {NoText, "none"}
    BY BareType
  <2> QED
    BY <2>1, <2>2 DEF Said
<1>2. \A i \in Said(f) : transcript'[i] = transcript[i]
  BY BareType, AppendTurn DEF Said
<1>3. Newest(f)' = Newest(f)
  BY <1>1, <1>2 DEF Newest
<1>4. Oldest(f)' = Oldest(f)
  BY <1>1, <1>2 DEF Oldest
<1> QED
  BY <1>1, <1>3, <1>4

LEMMA GatesKept ==
  ASSUME transcript \in Seq(Turn), NEW n \in OwnNames,
         transcript' = Append(transcript, Bare(n))
  PROVE  /\ ManyRequired' = ManyRequired
         /\ Blocked' = Blocked
         /\ HasSpans' = HasSpans
<1>1. /\ Newest("needs")' = Newest("needs")
      /\ Newest("table")' = Newest("table")
      /\ Said("span")' = Said("span")
      /\ Said("page")' = Said("page")
  BY ReadingsKept DEF Fields
<1> QED
  BY <1>1 DEF ManyRequired, Blocked, HasSpans

LEMMA CandidatesType ==
  ASSUME transcript \in Seq(Turn)
  PROVE  NoteCandidates \subseteq Texts \cup {NoText}
<1>1. \A t \in Turn : t["cand"] \in Texts \cup {NoText}
  BY DEF Turn
<1>2. \A i \in DOMAIN transcript : transcript[i] \in Turn
  OBVIOUS
<1> QED
  BY <1>1, <1>2 DEF NoteCandidates, Newest, Said

LEMMA FirstSpanType ==
  ASSUME transcript \in Seq(Turn)
  PROVE  FirstSpan \subseteq Texts
<1>1. \A t \in Turn : t["span"] \in Texts \cup {NoText} /\ t["page"] \in Texts \cup {NoText}
  BY DEF Turn
<1>2. \A i \in DOMAIN transcript : transcript[i] \in Turn
  OBVIOUS
<1> QED
  BY <1>1, <1>2 DEF FirstSpan, Oldest, Said

(* The fallback always has an answer, and a raw excerpt is none of them    *)
(* once the verdict is unsupported.                                        *)
LEMMA FallbackTexts ==
  ASSUME TypeOK, NEW text \in FallbackAnswers
  PROVE  /\ text \in Texts
         /\ verdict = "unsupported" => text \notin Raw
         /\ candidate = NoText /\ ~HasSpans => text \notin Raw
<1>1. Phrases \subseteq Texts /\ Phrases \cap Raw = {}
  BY TextAssumption
<1>2. FirstSpan \subseteq Texts
  BY FirstSpanType DEF TypeOK
<1>3. \A s \in FirstSpan : Excerpt[s] \in Texts /\ (Excerpt[s] \in Raw => s \in Raw)
  BY <1>2, TextAssumption
<1> QED
  BY <1>1, <1>3 DEF FallbackAnswers, Phrases, TypeOK

-----------------------------------------------------------------------------
(* The inductive invariant                                                 *)

Past == phase \in {"synthesize", "verify", "compose", "postflight", "done"}

(* A dangerous request never enters the loop, and composes a refusal.      *)
Barred ==
  request.danger =>
    /\ phase \notin {"loop", "failed"}
    /\ committed = NoText
    /\ \A i \in DOMAIN transcript : transcript[i].name \in {"verify_claim", "compose"}
    /\ Written => answer = Refusal

(* What the finalizer works on is what the loop committed, unless a model  *)
(* may rewrite it.                                                         *)
Kept ==
  Past /\ committed # NoText /\ (~request.llm \/ committed \in Structured) =>
    candidate = committed

(* Without a model only the gates reject.                                  *)
GatesReject ==
  Verified /\ ~request.llm /\ verdict = "unsupported" => ManyRequired

(* The composed answer is the committed one, in the cases in which the     *)
(* delivered one is to be.                                                 *)
CommitComposed ==
  Written /\ committed # NoText =>
    \/ request.llm /\ committed \notin Structured
    \/ committed \in (NonAnswer \cup Raw) \ Structured
    \/ answer = committed

AnswerWritten == Written => answer \in Texts

IInv ==
  /\ TypeOK
  /\ Barred
  /\ Kept
  /\ GatesReject
  /\ CommitComposed
  /\ AnswerWritten
  /\ RefusalWins
  /\ BlockedIsUnsupported
  /\ NoRawFallback
  /\ RejectedNotRepeated
  /\ CommitDelivered
  /\ AnswerLeavesClean

USE DEF Written, Verified, Past

LEMMA InitInv == Init => IInv
<1> SUFFICES ASSUME Init PROVE IInv
  OBVIOUS
<1> USE DEF Init
<1>1. TypeOK
  BY DEF TypeOK, Phases
<1>2. Barred /\ Kept /\ GatesReject /\ CommitComposed /\ AnswerWritten
  BY DEF Barred, Kept, GatesReject, CommitComposed, AnswerWritten
<1>3. /\ RefusalWins /\ BlockedIsUnsupported /\ NoRawFallback
      /\ RejectedNotRepeated /\ CommitDelivered /\ AnswerLeavesClean
  BY DEF RefusalWins, BlockedIsUnsupported, NoRawFallback, RejectedNotRepeated,
         CommitDelivered, AnswerLeavesClean
<1> QED
  BY <1>1, <1>2, <1>3 DEF IInv

(* Before the verifier has spoken the invariant is about the request and   *)
(* the candidate only.                                                     *)
LEMMA EarlyInv ==
  ASSUME TypeOK', Barred', Kept', ~Verified'
  PROVE  IInv'
<1>1. phase' \notin {"compose", "postflight", "done"}
  OBVIOUS
<1>2. (GatesReject /\ CommitComposed /\ AnswerWritten)'
  BY <1>1 DEF GatesReject, CommitComposed, AnswerWritten
<1>3. RefusalWins'
  BY <1>1 DEF RefusalWins, Barred
<1>4. (/\ BlockedIsUnsupported /\ NoRawFallback
       /\ RejectedNotRepeated /\ CommitDelivered /\ AnswerLeavesClean)'
  BY <1>1 DEF BlockedIsUnsupported, NoRawFallback, RejectedNotRepeated,
         CommitDelivered, AnswerLeavesClean
<1> QED
  BY <1>2, <1>3, <1>4 DEF IInv

-----------------------------------------------------------------------------
(* The policy gate and the loop                                            *)

LEMMA PreflightKeeps == IInv /\ Preflight => IInv'
<1> SUFFICES ASSUME IInv, Preflight PROVE IInv'
  OBVIOUS
<1> USE DEF Preflight, judgement, composed
<1>1. TypeOK'
  BY DEF IInv, TypeOK, Phases
<1>2. Barred' /\ Kept'
  BY DEF IInv, TypeOK, Barred, Kept
<1>3. ~Verified'
  OBVIOUS
<1> QED
  BY <1>1, <1>2, <1>3, EarlyInv

LEMMA LoopKeeps == IInv /\ Loop => IInv'
<1> SUFFICES ASSUME IInv, Loop PROVE IInv'
  OBVIOUS
<1> USE DEF judgement, composed
<1>1. ~request.danger /\ phase = "loop"
  BY DEF IInv, Barred, Loop, LoopTurn, LoopEnd, LoopRaise
<1>2. TypeOK'
  <2>1. CASE LoopTurn
    <3>1. transcript' \in Seq(Turn)
      BY <2>1, TurnAssumption, AppendTurn DEF IInv, TypeOK, LoopTurn
    <3> QED
      BY <2>1, <3>1 DEF IInv, TypeOK, LoopTurn
  <2>2. CASE LoopEnd
    BY <2>2 DEF IInv, TypeOK, LoopEnd, Phases
  <2>3. CASE LoopRaise
    BY <2>3 DEF IInv, TypeOK, LoopRaise, Phases
  <2> QED
    BY <2>1, <2>2, <2>3 DEF Loop
<1>3. ~request'.danger /\ phase' \in {"loop", "gather", "failed"}
  BY <1>1 DEF Loop, LoopTurn, LoopEnd, LoopRaise
<1>4. Barred' /\ Kept' /\ ~Verified'
  BY <1>3 DEF Barred, Kept
<1> QED
  BY <1>2, <1>4, EarlyInv

-----------------------------------------------------------------------------
(* The candidate                                                           *)

LEMMA GatherKeeps == IInv /\ Gather => IInv'
<1> SUFFICES ASSUME IInv, Gather PROVE IInv'
  OBVIOUS
<1> USE DEF Gather, judgement, composed
<1>1. candidate' \in Texts \cup {NoText}
  BY CandidatesType DEF IInv, TypeOK
<1>2. TypeOK'
  BY <1>1 DEF IInv, TypeOK, Phases
<1>3. Barred' /\ Kept' /\ ~Verified'
  BY DEF IInv, Barred, Kept
<1> QED
  BY <1>2, <1>3, EarlyInv

LEMMA SynthesizeKeeps == IInv /\ Synthesize => IInv'
<1> SUFFICES ASSUME IInv, Synthesize PROVE IInv'
  OBVIOUS
<1> USE DEF Synthesize, judgement, composed
<1>1. PICK reply \in Texts \ {candidate} :
        /\ candidate' = reply
        /\ transcript' =
             Append(transcript, [Bare("synthesize_candidate") EXCEPT !.cand = reply])
  OBVIOUS
<1>2. [Bare("synthesize_candidate") EXCEPT !.cand = reply] \in Turn
  BY DEF Bare, Turn
<1>3. TypeOK'
  <2>1. transcript' \in Seq(Turn)
    BY <1>1, <1>2, AppendTurn DEF IInv, TypeOK
  <2> QED
    BY <1>1, <2>1 DEF IInv, TypeOK, Phases
<1>4. Barred' /\ ~Verified'
  BY DEF Barred
<1>5. Kept'
  BY DEF IInv, Kept
<1> QED
  BY <1>3, <1>4, <1>5, EarlyInv

LEMMA KeepCandidateKeeps == IInv /\ KeepCandidate => IInv'
<1> SUFFICES ASSUME IInv, KeepCandidate PROVE IInv'
  OBVIOUS
<1> USE DEF KeepCandidate, judgement, composed
<1>1. TypeOK'
  BY DEF IInv, TypeOK, Phases
<1>2. Barred' /\ Kept' /\ ~Verified'
  BY DEF IInv, Barred, Kept
<1> QED
  BY <1>1, <1>2, EarlyInv

LEMMA MisreadKeeps == IInv /\ Misread => IInv'
<1> SUFFICES ASSUME IInv, Misread PROVE IInv'
  OBVIOUS
<1> USE DEF Misread, judgement, composed
<1>1. TypeOK'
  BY DEF IInv, TypeOK, Phases
<1>2. Barred' /\ Kept' /\ ~Verified'
  BY DEF IInv, Barred, Kept
<1> QED
  BY <1>1, <1>2, EarlyInv

-----------------------------------------------------------------------------
(* The verdict                                                             *)

LEMMA JudgedKeeps ==
  ASSUME IInv, phase = "verify",
         NEW v \in {"supported", "unsupported", "uncertain"}, NEW c \in Levels,
         Judged(v, c),
         Blocked /\ (candidate # NoText \/ HasSpans) => v = "unsupported" /\ c <= Low,
         ~request.llm /\ v = "unsupported" => ManyRequired
  PROVE  IInv'
<1> USE DEF Judged, judgement, composed
<1>1. transcript \in Seq(Turn) /\ transcript' = Append(transcript, Bare("verify_claim"))
  BY DEF IInv, TypeOK
<1>2. Bare("verify_claim") \in Turn /\ Bare("verify_claim").name = "verify_claim"
  BY BareType DEF OwnNames
<1>3. TypeOK'
  <2>1. transcript' \in Seq(Turn)
    BY <1>1, <1>2, AppendTurn
  <2> QED
    BY <2>1 DEF IInv, TypeOK, Phases
<1>4. /\ ManyRequired' = ManyRequired
      /\ Blocked' = Blocked
      /\ HasSpans' = HasSpans
  BY <1>1, GatesKept DEF OwnNames
<1>5. Barred' /\ RefusalWins'
  <2>1. DOMAIN transcript' = DOMAIN transcript \cup {Len(transcript) + 1}
    BY <1>1, <1>2, AppendTurn
  <2>2. \A i \in DOMAIN transcript : transcript'[i] = transcript[i]
    BY <1>1, <1>2, AppendTurn
  <2>3. transcript'[Len(transcript) + 1].name = "verify_claim"
    BY <1>1, <1>2, AppendTurn
  <2> QED
    BY <2>1, <2>2, <2>3 DEF IInv, Barred, RefusalWins
<1>6. Kept'
  BY DEF IInv, Kept
<1>7. BlockedIsUnsupported' /\ GatesReject'
  BY <1>4 DEF BlockedIsUnsupported, GatesReject
<1>8. /\ CommitComposed' /\ AnswerWritten' /\ NoRawFallback'
      /\ RejectedNotRepeated' /\ CommitDelivered' /\ AnswerLeavesClean'
  BY DEF CommitComposed, AnswerWritten, NoRawFallback, RejectedNotRepeated,
         CommitDelivered, AnswerLeavesClean
<1> QED
  BY <1>3, <1>5, <1>6, <1>7, <1>8 DEF IInv

LEMMA RejectKeeps == IInv /\ (RejectUnfit \/ RejectUnmet) => IInv'
<1> SUFFICES ASSUME IInv, RejectUnfit \/ RejectUnmet PROVE IInv'
  OBVIOUS
<1>1. phase = "verify" /\ (Unfit \/ Unmet)
  BY DEF RejectUnfit, RejectUnmet
<1>2. ManyRequired
  BY <1>1 DEF Unfit, Unmet, Blocked
<1>3. PICK c \in {l \in Levels : l <= Low} : Judged("unsupported", c)
  BY DEF RejectUnfit, RejectUnmet
<1> QED
  BY <1>1, <1>2, <1>3, JudgedKeeps

LEMMA JudgeKeeps == IInv /\ Judge => IInv'
<1> SUFFICES ASSUME IInv, Judge PROVE IInv'
  OBVIOUS
<1>1. PICK v \in Verdicts, c \in IF Calculated(candidate) THEN {100} ELSE Levels :
        Judged(v, c)
  BY DEF Judge
<1>2. phase = "verify" /\ ~Unfit /\ ~Unmet
  BY DEF Judge
<1>3. v \in {"supported", "unsupported", "uncertain"} /\ c \in Levels
  BY LevelAssumption DEF Verdicts
<1>4. ~(Blocked /\ (candidate # NoText \/ HasSpans))
  BY <1>2 DEF Unfit, Unmet
<1>5. ~request.llm => v # "unsupported"
  BY DEF Verdicts, AsksModel
<1> QED
  BY <1>1, <1>2, <1>3, <1>4, <1>5, JudgedKeeps

-----------------------------------------------------------------------------
(* The answer                                                              *)

LEMMA ComposedKeeps ==
  ASSUME IInv, phase = "compose", NEW text \in Texts,
         NEW by \in {"policy", "fallback", "llm"}, Composed(text, by),
         request.danger => text = Refusal,
         Blocked /\ by = "fallback" => text \notin Raw \/ text \in Structured,
         ~request.danger /\ verdict = "unsupported" /\ ~ManyRequired =>
           \/ candidate \in Structured
           \/ text = NoEvidence
           \/ <<text, candidate>> \notin Repeats,
         committed # NoText =>
           \/ request.llm /\ committed \notin Structured
           \/ committed \in (NonAnswer \cup Raw) \ Structured
           \/ text = committed
  PROVE  IInv'
<1> USE DEF Composed, judgement, composed
<1>1. transcript \in Seq(Turn) /\ transcript' = Append(transcript, Bare("compose"))
  BY DEF IInv, TypeOK
<1>2. Bare("compose") \in Turn /\ Bare("compose").name = "compose"
  BY BareType DEF OwnNames
<1>3. TypeOK'
  <2>1. transcript' \in Seq(Turn)
    BY <1>1, <1>2, AppendTurn
  <2> QED
    BY <2>1 DEF IInv, TypeOK, Phases
<1>4. /\ ManyRequired' = ManyRequired
      /\ Blocked' = Blocked
      /\ HasSpans' = HasSpans
  BY <1>1, GatesKept DEF OwnNames
<1>5. Barred' /\ RefusalWins'
  <2>1. DOMAIN transcript' = DOMAIN transcript \cup {Len(transcript) + 1}
    BY <1>1, <1>2, AppendTurn
  <2>2. \A i \in DOMAIN transcript : transcript'[i] = transcript[i]
    BY <1>1, <1>2, AppendTurn
  <2>3. transcript'[Len(transcript) + 1].name = "compose"
    BY <1>1, <1>2, AppendTurn
  <2> QED
    BY <2>1, <2>2, <2>3 DEF IInv, Barred, RefusalWins
<1>6. Kept' /\ CommitComposed' /\ AnswerWritten'
  BY DEF IInv, Kept, CommitComposed, AnswerWritten
<1>7. BlockedIsUnsupported' /\ GatesReject'
  BY <1>4 DEF IInv, BlockedIsUnsupported, GatesReject
<1>8. NoRawFallback' /\ RejectedNotRepeated'
  BY <1>4 DEF NoRawFallback, RejectedNotRepeated
<1>9. CommitDelivered' /\ AnswerLeavesClean'
  BY DEF CommitDelivered, AnswerLeavesClean
<1> QED
  BY <1>3, <1>5, <1>6, <1>7, <1>8, <1>9 DEF IInv

LEMMA RefuseKeeps == IInv /\ Refuse => IInv'
<1> SUFFICES ASSUME IInv, Refuse PROVE IInv'
  OBVIOUS
<1>1. Refusal \in Texts /\ phase = "compose" /\ request.danger /\ committed = NoText
  BY TextAssumption DEF Refuse, Phrases, IInv, Barred
<1>2. Composed(Refusal, "policy")
  BY DEF Refuse
<1> QED
  BY <1>1, <1>2, ComposedKeeps

LEMMA CopyStructuredKeeps == IInv /\ CopyStructured => IInv'
<1> SUFFICES ASSUME IInv, CopyStructured PROVE IInv'
  OBVIOUS
<1>1. phase = "compose" /\ ~request.danger /\ candidate \in Structured
  BY DEF CopyStructured
<1>2. candidate \in Texts
  BY <1>1, TextAssumption DEF IInv, TypeOK
<1>3. Composed(candidate, "fallback")
  BY DEF CopyStructured
<1>4. committed # NoText =>
        (request.llm /\ committed \notin Structured) \/ candidate = committed
  BY <1>1 DEF IInv, Kept
<1> QED
  BY <1>1, <1>2, <1>3, <1>4, ComposedKeeps

LEMMA ComposeByModelKeeps == IInv /\ ComposeByModel => IInv'
<1> SUFFICES ASSUME IInv, ComposeByModel PROVE IInv'
  OBVIOUS
<1>1. PICK reply \in Texts : ~Dropped(reply) /\ Composed(reply, "llm")
  BY DEF ComposeByModel
<1>2. /\ phase = "compose" /\ ~request.danger /\ request.llm
      /\ candidate \notin Structured
  BY DEF ComposeByModel
<1>3. committed # NoText => committed \notin Structured
  BY <1>2 DEF IInv, Kept
<1>4. verdict = "unsupported" /\ ~ManyRequired => <<reply, candidate>> \notin Repeats
  BY <1>1 DEF Dropped
<1> QED
  BY <1>1, <1>2, <1>3, <1>4, ComposedKeeps

LEMMA FallBackKeeps == IInv /\ FallBack => IInv'
<1> SUFFICES ASSUME IInv, FallBack PROVE IInv'
  OBVIOUS
<1>1. PICK text \in FallbackAnswers : Composed(text, "fallback")
  BY DEF FallBack
<1>2. phase = "compose" /\ ~request.danger /\ candidate \notin Structured
  BY DEF FallBack
<1>3. /\ text \in Texts
      /\ verdict = "unsupported" => text \notin Raw
      /\ candidate = NoText /\ ~HasSpans => text \notin Raw
  BY FallbackTexts DEF IInv
<1>4. Blocked => text \notin Raw
  BY <1>2, <1>3 DEF IInv, BlockedIsUnsupported
<1>5. verdict = "unsupported" /\ ~ManyRequired => text = NoEvidence
  BY DEF FallbackAnswers, Usable
<1>6. committed # NoText =>
        \/ request.llm /\ committed \notin Structured
        \/ committed \in (NonAnswer \cup Raw) \ Structured
        \/ text = committed
  <2> SUFFICES ASSUME committed # NoText, ~request.llm \/ committed \in Structured,
                      committed \notin (NonAnswer \cup Raw) \ Structured
               PROVE  text = committed
    OBVIOUS
  <2>1. candidate = committed /\ committed \notin Structured
    BY <1>2 DEF IInv, Kept
  <2>2. ~request.llm
    BY <2>1
  <2>3. Usable
    BY <1>2, <2>2 DEF Usable, IInv, GatesReject
  <2> QED
    BY <2>1, <2>3 DEF FallbackAnswers
<1> QED
  BY <1>1, <1>2, <1>3, <1>4, <1>5, <1>6, ComposedKeeps

LEMMA PostflightKeeps == IInv /\ Postflight => IInv'
<1> SUFFICES ASSUME IInv, Postflight PROVE IInv'
  OBVIOUS
<1> USE DEF Postflight, judgement, composed
<1>1. Phrases \subseteq Texts \ Secret
  BY TextAssumption
<1>2. answer \in Texts
  BY DEF IInv, AnswerWritten
<1>3. \/ answer \in Secret /\ delivered' = Redaction /\ flags' = flags \cup {"credential"}
      \/ answer \notin Secret /\ delivered' = answer /\ flags' = flags
  OBVIOUS
<1>4. TypeOK'
  BY <1>1, <1>2, <1>3 DEF IInv, TypeOK, Phases, Phrases
<1>5. ManyRequired' = ManyRequired /\ Blocked' = Blocked /\ HasSpans' = HasSpans
  BY DEF ManyRequired, Blocked, HasSpans, Newest, Said
<1>6. Barred' /\ Kept' /\ CommitComposed' /\ AnswerWritten'
  BY DEF IInv, Barred, Kept, CommitComposed, AnswerWritten
<1>7. GatesReject' /\ BlockedIsUnsupported' /\ NoRawFallback' /\ RejectedNotRepeated'
  BY <1>5 DEF IInv, GatesReject, BlockedIsUnsupported, NoRawFallback, RejectedNotRepeated
<1>8. RefusalWins'
  BY <1>1, <1>3 DEF IInv, Barred, RefusalWins, Phrases
<1>9. AnswerLeavesClean'
  BY <1>1, <1>2, <1>3 DEF AnswerLeavesClean, Phrases
<1>10. CommitDelivered'
  BY <1>3 DEF IInv, CommitComposed, CommitDelivered
<1> QED
  BY <1>4, <1>6, <1>7, <1>8, <1>9, <1>10 DEF IInv

-----------------------------------------------------------------------------
LEMMA StepKeeps == IInv /\ [Next]_vars => IInv'
<1>1. IInv /\ UNCHANGED vars => IInv'
  <2> SUFFICES ASSUME IInv, UNCHANGED vars PROVE IInv'
    OBVIOUS
  <2> USE DEF vars, judgement, composed
  <2>1. TypeOK'
    BY DEF IInv, TypeOK
  <2>2. ManyRequired' = ManyRequired /\ Blocked' = Blocked /\ HasSpans' = HasSpans
    BY DEF ManyRequired, Blocked, HasSpans, Newest, Said
  <2>3. (Barred /\ Kept /\ CommitComposed /\ AnswerWritten /\ RefusalWins)'
    BY DEF IInv, Barred, Kept, CommitComposed, AnswerWritten, RefusalWins
  <2>4. (GatesReject /\ BlockedIsUnsupported /\ NoRawFallback /\ RejectedNotRepeated)'
    BY <2>2 DEF IInv, GatesReject, BlockedIsUnsupported, NoRawFallback, RejectedNotRepeated
  <2>5. (CommitDelivered /\ AnswerLeavesClean)'
    BY DEF IInv, CommitDelivered, AnswerLeavesClean
  <2> QED
    BY <2>1, <2>3, <2>4, <2>5 DEF IInv
<1> QED
  BY <1>1, PreflightKeeps, LoopKeeps, GatherKeeps, SynthesizeKeeps, KeepCandidateKeeps,
     RejectKeeps, JudgeKeeps, MisreadKeeps, RefuseKeeps, CopyStructuredKeeps,
     ComposeByModelKeeps, FallBackKeeps, PostflightKeeps
  DEF Next, Finalize

LEMMA InvHolds == Spec => []IInv
BY InitInv, StepKeeps, PTL DEF Spec

(* The locals of solve and of the finalizer keep their types.              *)
THEOREM TypeCorrect == Spec => []TypeOK
<1>1. IInv => TypeOK
  BY DEF IInv
<1> QED
  BY <1>1, InvHolds, PTL

(* A dangerous request runs no tool, and the refusal is what leaves.       *)
THEOREM RefusalIsFinal == Spec => []RefusalWins
<1>1. IInv => RefusalWins
  BY DEF IInv
<1> QED
  BY <1>1, InvHolds, PTL

(* Nothing gets a candidate past an open coverage table.                   *)
THEOREM OpenTableBlocks == Spec => []BlockedIsUnsupported
<1>1. IInv => BlockedIsUnsupported
  BY DEF IInv
<1> QED
  BY <1>1, InvHolds, PTL

(* Behind an open coverage table the fallback offers no raw excerpt.       *)
THEOREM NoExcerptForAnswer == Spec => []NoRawFallback
<1>1. IInv => NoRawFallback
  BY DEF IInv
<1> QED
  BY <1>1, InvHolds, PTL

(* A rejected candidate is not restated where the test for it applies.     *)
THEOREM RejectedStaysOut == Spec => []RejectedNotRepeated
<1>1. IInv => RejectedNotRepeated
  BY DEF IInv
<1> QED
  BY <1>1, InvHolds, PTL

(* The loop's committed answer is delivered unless a model rewrites it.    *)
THEOREM CommitIsDelivered == Spec => []CommitDelivered
<1>1. IInv => CommitDelivered
  BY DEF IInv
<1> QED
  BY <1>1, InvHolds, PTL

(* What is delivered is an answer without a credential.                    *)
THEOREM DeliveredClean == Spec => []AnswerLeavesClean
<1>1. IInv => AnswerLeavesClean
  BY DEF IInv
<1> QED
  BY <1>1, InvHolds, PTL
=============================================================================
