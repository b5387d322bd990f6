-------------------------------- MODULE Solve --------------------------------
(***************************************************************************)
(* Orchestrator.solve: one request, from the policy gate's preflight over  *)
(* the controller loop and the Finalizer to the gate's postflight.         *)
(*                                                                         *)
(* The loop is an environment here: it records turns of any shape and ends *)
(* in any way (ControllerLoop says more). The Finalizer is modelled branch *)
(* by branch; what the language model replies to it is open. A text is a   *)
(* value, and what the finalizer reads off its words is which of the sets  *)
(* below it belongs to.                                                    *)
(***************************************************************************)
EXTENDS Naturals, Sequences, FiniteSets

CONSTANTS
  Texts,       (* non-empty candidates, spans and answers                  *)
  NoText,
  Structured,  (* _is_structured_github_commit_metadata                    *)
  NonAnswer,   (* _is_insufficient_non_answer                              *)
  Raw,         (* _looks_like_raw_evidence_fallback                        *)
  Secret,      (* texts that match a credential pattern                    *)
  Repeats,     (* the pairs <<answer, candidate>> of                       *)
               (* _answer_repeats_rejected_candidate                       *)
  Excerpt,     (* the beginning of a span that _truncate leaves            *)
  Refusal,     (* what refusal_for says of a request                       *)
  Redaction,   (* what refusal_for says of an answer with a credential     *)
  NoEvidence,  (* the fallback answer on an unsupported verdict            *)
  NoContext,   (* the fallback answer otherwise                            *)
  ToolTurns,   (* the turns the loop may record                            *)
  Levels,      (* confidences, in per cent                                 *)
  Low,         (* the confidence that is left to a rejected candidate      *)
  MaxTurns     (* bound: the turns of the loop                             *)

Phrases == {Refusal, Redaction, NoEvidence, NoContext}

ASSUME TextAssumption ==
  /\ NoText \notin Texts
  /\ Structured \cup NonAnswer \cup Raw \cup Secret \subseteq Texts
  /\ Phrases \subseteq Texts \ (Structured \cup Raw \cup Secret)
  /\ Excerpt \in [Texts -> Texts]
  /\ \A t \in Texts : Excerpt[t] \in Raw => t \in Raw
ASSUME LevelAssumption == Levels \subseteq 0 .. 100 /\ Low \in Levels /\ 100 \in Levels
ASSUME BoundAssumption == MaxTurns \in Nat

(* What the finalizer reads of a turn that succeeded: its candidate, its   *)
(* coverage table (missing, weak or contradicted items leave it open), its *)
(* requirements (many: three that are not optional), the first of its      *)
(* spans, the first page it fetched, and the candidates that its           *)
(* calculations contain.                                                   *)
Turn ==
  [ name  : {"tool", "synthesize_candidate", "verify_claim", "compose"},
    cand  : Texts \cup {NoText},
    table : {"none", "open", "met"},
    needs : {"none", "few", "many"},
    span  : Texts \cup {NoText},
    page  : Texts \cup {NoText},
    sums  : SUBSET Texts ]

Bare(name) ==
  [ name |-> name, cand |-> NoText, table |-> "none", needs |-> "none",
    span |-> NoText, page |-> NoText, sums |-> {} ]

ASSUME TurnAssumption ==
  /\ ToolTurns \subseteq Turn
  /\ \A t \in ToolTurns : t.name = "tool"

VARIABLES
  request,     (* is it dangerous, is a language model configured          *)
  phase,       (* preflight, loop, gather, synthesize, verify, compose,    *)
               (* postflight, done; failed, crashed: an exception left     *)
  transcript,
  committed,   (* loop_outcome.final_answer                                *)
  candidate,
  verdict,
  confidence,
  answer,      (* FinalizationResult.answer                                *)
  source,      (* FinalizationResult.source                                *)
  flags,
  delivered    (* TaskResult.answer                                        *)

vars == <<request, phase, transcript, committed, candidate, verdict, confidence,
          answer, source, flags, delivered>>
judgement == <<verdict, confidence>>
composed == <<answer, source>>

-----------------------------------------------------------------------------
(* What the transcript says                                                *)

(* The turns with a value under key f: latest_output skips empty ones.     *)
Said(f) == {i \in DOMAIN transcript : transcript[i][f] \notin {NoText, "none"}}
Newest(f) == {transcript[i][f] : i \in {k \in Said(f) : \A j \in Said(f) : j <= k}}
Oldest(f) == {transcript[i][f] : i \in {k \in Said(f) : \A j \in Said(f) : k <= j}}

(* Faulty variant: the candidate is read from under another key            *)
NoteCandidates_WrongKey ==
  IF Newest("needs") = {} THEN {NoText} ELSE Newest("needs")

NoteCandidates == IF Newest("cand") = {} THEN {NoText} ELSE Newest("cand")

ManyRequired == "many" \in Newest("needs")
Blocked == ManyRequired /\ "met" \notin Newest("table")

(* The evidence spans: those of the turns, then the fetched pages.         *)
HasSpans == Said("span") \cup Said("page") # {}
FirstSpan == IF Said("span") # {} THEN Oldest("span") ELSE Oldest("page")
Calculated(c) == \E i \in DOMAIN transcript : c \in transcript[i].sums

-----------------------------------------------------------------------------
(* The policy gate and the loop                                            *)

(* Faulty variant: a dangerous request is flagged, and the loop runs       *)
Preflight_Continue ==
  /\ phase = "preflight"
  /\ flags' = flags \cup (IF request.danger THEN {"policy"} ELSE {})
  /\ phase' = "loop"
  /\ UNCHANGED <<request, transcript, committed, candidate, judgement, composed, delivered>>

Preflight ==
  /\ phase = "preflight"
  /\ flags' = flags \cup (IF request.danger THEN {"policy"} ELSE {})
  /\ phase' = IF request.danger THEN "gather" ELSE "loop"
  /\ UNCHANGED <<request, transcript, committed, candidate, judgement, composed, delivered>>

LoopTurn ==
  /\ phase = "loop"
  /\ Len(transcript) < MaxTurns
  /\ \E t \in ToolTurns : transcript' = Append(transcript, t)
  /\ UNCHANGED <<request, phase, committed, candidate, judgement, composed, flags, delivered>>

(* A final may commit an answer; a surrender or a truncation does not.     *)
LoopEnd ==
  /\ phase = "loop"
  /\ \E truncated \in BOOLEAN :
       /\ committed' \in IF truncated THEN {NoText} ELSE Texts \cup {NoText}
       /\ flags' = flags \cup (IF truncated THEN {"budget-truncated"} ELSE {})
  /\ phase' = "gather"
  /\ UNCHANGED <<request, transcript, candidate, judgement, composed, delivered>>

(* An exception of the controller, or of the loop's own timeout handler    *)
LoopRaise ==
  /\ phase = "loop"
  /\ phase' = "failed"
  /\ UNCHANGED <<request, transcript, committed, candidate, judgement, composed,
                 flags, delivered>>

-----------------------------------------------------------------------------
(* The Finalizer                                                           *)

(* Faulty variant: the transcript's candidate is preferred                 *)
Gather_NotesFirst ==
  /\ phase = "gather"
  /\ candidate' \in IF NoteCandidates # {NoText} THEN NoteCandidates ELSE {committed}
  /\ phase' = "synthesize"
  /\ UNCHANGED <<request, transcript, committed, judgement, composed, flags, delivered>>

Gather ==
  /\ phase = "gather"
  /\ candidate' \in IF committed # NoText THEN {committed} ELSE NoteCandidates
  /\ phase' = "synthesize"
  /\ UNCHANGED <<request, transcript, committed, judgement, composed, flags, delivered>>

(* The language model's candidate replaces any other but a structured one. *)
Synthesize ==
  /\ phase = "synthesize"
  /\ ~request.danger /\ request.llm /\ HasSpans
  /\ candidate \notin Structured
  /\ \E reply \in Texts \ {candidate} :
       /\ candidate' = reply
       /\ transcript' =
            Append(transcript, [Bare("synthesize_candidate") EXCEPT !.cand = reply])
  /\ phase' = "verify"
  /\ UNCHANGED <<request, committed, judgement, composed, flags, delivered>>

(* No model, no reply, no new reply, or nothing to synthesize from         *)
KeepCandidate ==
  /\ phase = "synthesize"
  /\ phase' = "verify"
  /\ UNCHANGED <<request, transcript, committed, candidate, judgement, composed,
                 flags, delivered>>

Judged(v, c) ==
  /\ verdict' = v
  /\ confidence' = c
  /\ transcript' = Append(transcript, Bare("verify_claim"))
  /\ phase' = "compose"
  /\ UNCHANGED <<request, committed, candidate, composed, flags, delivered>>

(* The early returns of _verify, before any model is asked                 *)
Unfit ==
  \/ ManyRequired /\ candidate \in NonAnswer
  \/ Blocked /\ candidate = NoText /\ HasSpans
  \/ Blocked /\ candidate \in Raw

(* Faulty variant: a calculated candidate passes the requirement gate      *)
Unmet_Calculated ==
  Blocked /\ candidate # NoText /\ ~Calculated(candidate)

(* Its last gate, after the calculation and the model have been heard      *)
Unmet == Blocked /\ candidate # NoText

RejectUnfit ==
  /\ phase = "verify"
  /\ Unfit
  /\ \E c \in {l \in Levels : l <= Low} : Judged("unsupported", c)

RejectUnmet ==
  /\ phase = "verify"
  /\ ~Unfit /\ Unmet
  /\ \E c \in {l \in Levels : l <= Low} : Judged("unsupported", c)

(* The heuristic on words never decides, a calculation does, and the model *)
(* may say anything.                                                       *)
AsksModel == request.llm /\ candidate # NoText /\ ~Calculated(candidate)
Verdicts ==
  IF Calculated(candidate) THEN {"supported"}
  ELSE IF AsksModel THEN {"supported", "unsupported", "uncertain"}
  ELSE {"uncertain"}

Judge ==
  /\ phase = "verify"
  /\ ~Unfit /\ ~Unmet
  /\ \E v \in Verdicts, c \in IF Calculated(candidate) THEN {100} ELSE Levels :
       Judged(v, c)

(* A verdict that is a JSON list or object cannot be looked up in a set:   *)
(* the TypeError leaves the finalizer.                                     *)
Misread ==
  /\ phase = "verify"
  /\ ~Unfit /\ AsksModel
  /\ phase' = "crashed"
  /\ UNCHANGED <<request, transcript, committed, candidate, judgement, composed,
                 flags, delivered>>

Composed(text, by) ==
  /\ answer' = text
  /\ source' = by
  /\ transcript' = Append(transcript, Bare("compose"))
  /\ phase' = "postflight"
  /\ UNCHANGED <<request, committed, candidate, judgement, flags, delivered>>

Refuse ==
  /\ phase = "compose"
  /\ request.danger
  /\ Composed(Refusal, "policy")

CopyStructured ==
  /\ phase = "compose"
  /\ ~request.danger
  /\ candidate \in Structured
  /\ Composed(candidate, "fallback")

(* Faulty variant: the test is made for the tasks that are exempt from it  *)
Dropped_Inverted(text) ==
  verdict = "unsupported" /\ ManyRequired /\ <<text, candidate>> \in Repeats

(* The composer's text is dropped when it restates a rejected candidate.   *)
Dropped(text) ==
  verdict = "unsupported" /\ ~ManyRequired /\ <<text, candidate>> \in Repeats

ComposeByModel ==
  /\ phase = "compose"
  /\ ~request.danger /\ candidate \notin Structured
  /\ request.llm
  /\ candidate # NoText \/ HasSpans
  /\ \E reply \in Texts : ~Dropped(reply) /\ Composed(reply, "llm")

(* A task with many requirements gets its best effort, supported or not.   *)
Usable == verdict # "unsupported" \/ ManyRequired

(* Faulty variant: the first span is taken as it comes                     *)
FallbackAnswers_AnySpan ==
  IF Usable /\ candidate \notin {NoText} \cup NonAnswer \cup Raw THEN {candidate}
  ELSE IF Usable /\ HasSpans THEN {Excerpt[s] : s \in FirstSpan}
  ELSE IF verdict = "unsupported" THEN {NoEvidence}
  ELSE {NoContext}

FallbackAnswers ==
  IF Usable /\ candidate \notin {NoText} \cup NonAnswer \cup Raw THEN {candidate}
  ELSE IF Usable /\ HasSpans /\ (verdict = "unsupported" => FirstSpan \cap Raw = {})
       THEN {Excerpt[s] : s \in FirstSpan}
  ELSE IF verdict = "unsupported" THEN {NoEvidence}
  ELSE {NoContext}

(* No model, an empty reply, or a reply that was dropped                   *)
FallBack ==
  /\ phase = "compose"
  /\ ~request.danger /\ candidate \notin Structured
  /\ \E text \in FallbackAnswers : Composed(text, "fallback")

(* Faulty variant: only what a model wrote is scanned                      *)
Postflight_ModelOnly ==
  /\ phase = "postflight"
  /\ IF source = "llm" /\ answer \in Secret
     THEN delivered' = Redaction /\ flags' = flags \cup {"credential"}
     ELSE delivered' = answer /\ UNCHANGED flags
  /\ phase' = "done"
  /\ UNCHANGED <<request, transcript, committed, candidate, judgement, composed>>

Postflight ==
  /\ phase = "postflight"
  /\ IF answer \in Secret
     THEN delivered' = Redaction /\ flags' = flags \cup {"credential"}
     ELSE delivered' = answer /\ UNCHANGED flags
  /\ phase' = "done"
  /\ UNCHANGED <<request, transcript, committed, candidate, judgement, composed>>

-----------------------------------------------------------------------------
Init ==
  /\ request \in [danger : BOOLEAN, llm : BOOLEAN]
  /\ phase = "preflight"
  /\ transcript = <<>>
  /\ committed = NoText
  /\ candidate = NoText
  /\ verdict = "none"
  /\ confidence = 0
  /\ answer = NoText
  /\ source = "none"
  /\ flags = IF request.llm THEN {} ELSE {"llm-unavailable"}
  /\ delivered = NoText

Loop == LoopTurn \/ LoopEnd \/ LoopRaise
Finalize ==
  \/ Gather \/ Synthesize \/ KeepCandidate
  \/ RejectUnfit \/ RejectUnmet \/ Judge \/ Misread
  \/ Refuse \/ CopyStructured \/ ComposeByModel \/ FallBack
Next == Preflight \/ Loop \/ Finalize \/ Postflight

Spec == Init /\ [][Next]_vars

-----------------------------------------------------------------------------
(* Properties                                                              *)

Phases ==
  {"preflight", "loop", "gather", "synthesize", "verify", "compose",
   "postflight", "done", "failed", "crashed"}

(* The locals of solve and of Finalizer.run keep their types.              *)
TypeOK ==
  /\ request \in [danger : BOOLEAN, llm : BOOLEAN]
  /\ phase \in Phases
  /\ transcript \in Seq(Turn)
  /\ committed \in Texts \cup {NoText}
  /\ candidate \in Texts \cup {NoText}
  /\ verdict \in {"none", "supported", "unsupported", "uncertain"}
  /\ confidence \in Levels \cup {0}
  /\ answer \in Texts \cup {NoText}
  /\ source \in {"none", "llm", "fallback", "policy"}
  /\ flags \subseteq {"llm-unavailable", "policy", "budget-truncated", "credential"}
  /\ delivered \in Texts \cup {NoText}

Verified == phase \in {"compose", "postflight", "done"}
Written == phase \in {"postflight", "done"}

(* A refusal wins: a dangerous request runs no tool and no synthesis, and  *)
(* whatever verifier and composer record, the refusal is what leaves.      *)
RefusalWins ==
  request.danger =>
    /\ \A i \in DOMAIN transcript : transcript[i].name \in {"verify_claim", "compose"}
    /\ phase = "done" => delivered = Refusal

(* While the newest coverage table of a task with many requirements is     *)
(* open, neither the model nor a calculation gets a candidate past the     *)
(* verifier, and its confidence stays low.                                 *)
BlockedIsUnsupported ==
  Verified /\ Blocked /\ (candidate # NoText \/ HasSpans) =>
    verdict = "unsupported" /\ confidence <= Low

(* While it is open, no answer that the fallback chose is a raw search     *)
(* result or page excerpt, although the fallback reads the verdict only.   *)
NoRawFallback ==
  Written /\ Blocked /\ source = "fallback" =>
    answer \notin Raw \/ answer \in Structured

(* An unsupported candidate of a task with fewer requirements is not       *)
(* restated by the answer, whoever composes it, as far as the test for     *)
(* repetition sees.                                                        *)
RejectedNotRepeated ==
  Written /\ ~request.danger /\ verdict = "unsupported" /\ ~ManyRequired =>
    \/ candidate \in Structured
    \/ answer = NoEvidence
    \/ <<answer, candidate>> \notin Repeats

(* The answer the loop committed is the one that leaves, whatever else the *)
(* transcript holds, if no model rewrites it: an ordinary answer where     *)
(* none is configured, structured metadata always.                         *)
CommitDelivered ==
  phase = "done" /\ committed \notin {NoText} \cup Secret =>
    \/ request.llm /\ committed \notin Structured
    \/ committed \in (NonAnswer \cup Raw) \ Structured
    \/ delivered = committed

(* Every request that is answered gets an answer, without a credential and *)
(* flagged when one had to be removed.                                     *)
AnswerLeavesClean ==
  phase = "done" =>
    /\ delivered \in Texts \ Secret
    /\ delivered # answer => delivered = Redaction /\ "credential" \in flags

-----------------------------------------------------------------------------
(* Documented claims that the code does not keep                           *)

(* README.md:34-35: verify_claim and compose run "always".                 *)
VerifierAlwaysEnds == phase # "crashed"
=============================================================================
