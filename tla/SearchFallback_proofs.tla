------------------------ MODULE SearchFallback_proofs -----------------------
(***************************************************************************)
(* For every web, every task and every limit: a call of web_search repeats *)
(* no query, a call for one site searches sites only, and the fallbacks    *)
(* without priority stay within max_search_fallbacks. A call that searched *)
(* nothing had nothing left, and one that found nothing names a site.      *)
(***************************************************************************)
EXTENDS SearchFallback, SequenceTheorems, FiniteSetTheorems, TLAPS

-----------------------------------------------------------------------------
(* Sequences and their elements                                            *)

LEMMA ElementsType ==
  ASSUME NEW S, NEW s \in Seq(S)
  PROVE  ToSet(s) \subseteq S
BY DEF ToSet

LEMMA ElementsOfSubset ==
  ASSUME NEW S, NEW T, NEW s \in Seq(S), ToSet(s) \subseteq T
  PROVE  s \in Seq(T)
BY DEF ToSet

LEMMA AppendElements ==
  ASSUME NEW S, NEW s \in Seq(S), NEW e \in S
  PROVE  ToSet(Append(s, e)) = ToSet(s) \cup {e}
<1>1. DOMAIN Append(s, e) = DOMAIN s \cup {Len(s) + 1}
  OBVIOUS
<1>2. \A i \in DOMAIN s : Append(s, e)[i] = s[i]
  OBVIOUS
<1>3. Append(s, e)[Len(s) + 1] = e
  OBVIOUS
<1> QED
  BY <1>1, <1>2, <1>3 DEF ToSet

LEMMA AppendNewElement ==
  ASSUME NEW S, NEW s \in Seq(S), NEW e \in S, IsInjective(s), e \notin ToSet(s)
  PROVE  IsInjective(Append(s, e))
<1>1. DOMAIN Append(s, e) = DOMAIN s \cup {Len(s) + 1}
  OBVIOUS
<1>2. \A i \in DOMAIN s : Append(s, e)[i] = s[i] /\ s[i] # e
  BY DEF ToSet
<1>3. Append(s, e)[Len(s) + 1] = e
  OBVIOUS
<1> QED
  BY <1>1, <1>2, <1>3 DEF IsInjective

LEMMA EmptyType == \A S : <<>> \in Seq(S)
OBVIOUS

LEMMA NoElements ==
  /\ ToSet(<<>>) = {}
  /\ IsInjective(<<>>)
BY DEF ToSet, IsInjective

LEMMA OneElement ==
  ASSUME NEW q
  PROVE  /\ ToSet(<<q>>) = {q}
         /\ IsInjective(<<q>>)
BY DEF ToSet, IsInjective

LEMMA OfferAllType ==
  ASSUME NEW S, NEW w \in BOOLEAN, NEW qs \in Seq(S)
  PROVE  OfferAll(w, qs) \in Seq([query : S, wrapper : BOOLEAN])
<1> DEFINE O == [query : S, wrapper : BOOLEAN]
<1>1. DOMAIN qs = 1 .. Len(qs) /\ Len(qs) \in Nat
  OBVIOUS
<1>2. \A i \in DOMAIN qs : Offer(w, qs[i]) \in O
  BY DEF Offer
<1>3. OfferAll(w, qs) \in [1 .. Len(qs) -> O]
  BY <1>1, <1>2 DEF OfferAll
<1> HIDE DEF O
<1>4. OfferAll(w, qs) \in UNION {[1 .. n -> O] : n \in Nat}
  BY <1>1, <1>3
<1>5. OfferAll(w, qs) \in Seq(O)
  BY <1>4, SeqDef
<1> QED
  BY <1>5 DEF O

LEMMA OffersType ==
  ASSUME NEW S, NEW q, NEW wrapped \in Seq(S), q \in Site => Variants[q] \in Seq(S)
  PROVE  Offers(q, wrapped) \in Seq([query : S, wrapper : BOOLEAN])
<1> DEFINE O == [query : S, wrapper : BOOLEAN]
           own == IF q \in Site THEN OfferAll(FALSE, Reverse(Variants[q])) ELSE <<>>
<1>1. OfferAll(TRUE, wrapped) \in Seq(O)
  BY OfferAllType
<1>2. CASE q \in Site
  <2>1. Variants[q] \in Seq(S)
    BY <1>2
  <2>2. Reverse(Variants[q]) \in [1 .. Len(Variants[q]) -> S]
    BY <2>1 DEF Reverse
  <2>3. Reverse(Variants[q]) \in Seq(S)
    BY <2>1, <2>2, SeqDef
  <2>4. own \in Seq(O)
    BY <1>2, <2>3, OfferAllType
  <2> HIDE DEF O, own
  <2>5. own \o OfferAll(TRUE, wrapped) \in Seq(O)
    BY <1>1, <2>4, ConcatProperties
  <2> QED
    BY <2>5 DEF Offers, own, O
<1>3. CASE q \notin Site
  <2>1. Offers(q, wrapped) = <<>> \o OfferAll(TRUE, wrapped)
    BY <1>3 DEF Offers
  <2> HIDE DEF O
  <2>2. Offers(q, wrapped) \in Seq(O)
    BY <1>1, <2>1, ConcatEmptySeq
  <2> QED
    BY <2>2 DEF O
<1> QED
  BY <1>2, <1>3
-----------------------------------------------------------------------------
(* The inductive invariant                                                 *)

(* What was searched is among the queries tried; before the walk, nothing  *)
(* was.                                                                    *)
Tried ==
  /\ ToSet(executed) \subseteq tried
  /\ phase = "primary" => executed = <<>>

(* What earlier calls searched is on record, and a call that was handed    *)
(* the record has it among the queries tried.                              *)
OnRecord ==
  /\ spent \subseteq memory
  /\ phase = "reported" => ToSet(executed) \subseteq memory
  /\ task.multi /\ call.reminded => spent \subseteq tried

(* The queue of a call for one site holds site queries only.               *)
ScopedQueue == original \in Site => queue \in Seq(Site)

(* The fallbacks without priority, beside the original query.              *)
Plain(qs, special, first) == ToSet(qs) \ (special \cup {first})
Counted ==
  /\ IsFiniteSet(ToSet(executed))
  /\ Cardinality(Plain(executed, priority, original)) <= attempts
  /\ BroadBounded

IInv ==
  /\ TypeOK
  /\ Tried
  /\ OnRecord
  /\ SearchedOnce
  /\ ScopedQueue
  /\ SiteStaysScoped
  /\ Counted

-----------------------------------------------------------------------------
(* Facts about one call                                                    *)

LEMMA TaskType ==
  ASSUME TypeOK
  PROVE  /\ task \in Task
         /\ \A w \in Queries \cup {NoQuery} :
              /\ task.broad[w] \in Seq(Queries \ Site)
              /\ ToSet(task.broad[w]) \subseteq Broad(task)
         /\ Broad(task) \subseteq Queries \ Site
         /\ Site \cup Broad(task) \subseteq Queries
<1>1. task \in Task
  BY TaskAssumption DEF TypeOK
<1>2. task.broad \in [Queries \cup {NoQuery} -> Seq(Queries \ Site)]
  BY <1>1 DEF Task
<1>3. ASSUME NEW w \in Queries \cup {NoQuery}
      PROVE  /\ task.broad[w] \in Seq(Queries \ Site)
             /\ ToSet(task.broad[w]) \subseteq Broad(task)
             /\ ToSet(task.broad[w]) \subseteq Queries \ Site
  <2>1. task.broad[w] \in Seq(Queries \ Site)
    BY <1>2
  <2>2. ToSet(task.broad[w]) \subseteq Queries \ Site
    BY <2>1, ElementsType
  <2> QED
    BY <2>1, <2>2 DEF Broad
<1>4. Broad(task) \subseteq Queries \ Site
  BY <1>3 DEF Broad
<1> QED
  BY <1>1, <1>3, <1>4, QueryAssumption

LEMMA CallType ==
  ASSUME NEW c \in Calls
  PROVE  /\ c.given \in Given \cup {NoQuery}
         /\ c.limit \in Nat
         /\ c.prior \subseteq Queries
<1>1. c.limit \in Fallbacks \cup {0}
  BY DEF Calls
<1>2. c.given \in Given \cup {NoQuery} /\ c.prior \in SUBSET Queries
  BY DEF Calls
<1>3. Fallbacks \cup {0} \subseteq Nat
  BY BoundAssumption
<1> QED
  BY <1>1, <1>2, <1>3

LEMMA OriginalsType ==
  ASSUME TypeOK, NEW given \in Given, NEW known
  PROVE  Originals(given, known) \subseteq Queries
<1>1. FirstUnseen(known) \subseteq Queries
  <2>1. task.broad[NoQuery] \in Seq(Queries \ Site)
    BY TaskType
  <2>2. \A i \in DOMAIN task.broad[NoQuery] : task.broad[NoQuery][i] \in Queries
    BY <2>1
  <2> QED
    BY <2>2 DEF FirstUnseen, Unseen
<1> QED
  BY <1>1, QueryAssumption DEF Originals

LEMMA DiscoveredType ==
  ASSUME NEW q, NEW qs, NEW hit
  PROVE  Discovered(q, qs, hit) \subseteq Hosts
<1>1. LastSite(qs) \subseteq Site
  BY DEF LastSite, SiteTurns
<1> QED
  BY <1>1 DEF Discovered, Hosts

LEMMA HeadOfQueue ==
  ASSUME TypeOK, queue # <<>>
  PROVE  /\ Head(queue) \in Site \cup Broad(task)
         /\ Head(queue) \in Queries
         /\ Tail(queue) \in Seq(Site \cup Broad(task))
         /\ queue \in Seq(Site) => Head(queue) \in Site /\ Tail(queue) \in Seq(Site)
<1>1. queue \in Seq(Site \cup Broad(task))
  BY DEF TypeOK
<1> QED
  BY <1>1, TaskType, HeadTailProperties

LEMMA StartQueueType ==
  ASSUME TypeOK, NEW q \in Queries \cup {NoQuery}, NEW wrapped \in Seq(Site)
  PROVE  /\ StartQueue(q, wrapped) \in Seq(Site \cup Broad(task))
         /\ original \in Site => StartQueue(q, wrapped) \in Seq(Site)
<1> DEFINE Q == Site \cup Broad(task)
<1>1. CASE original \in Site
  <2>1. Variants[original] \in Seq(Site)
    BY <1>1, QueryAssumption
  <2>2. Variants[original] \in Seq(Q)
    BY <2>1
  <2> QED
    BY <1>1, <2>1, <2>2 DEF StartQueue
<1>2. CASE original \notin Site
  <2>1. task.broad[q] \in Seq(Q)
    BY TaskType, ElementsOfSubset
  <2>2. wrapped \in Seq(Q)
    OBVIOUS
  <2>3. wrapped \o task.broad[q] \in Seq(Q)
    <3> HIDE DEF Q
    <3> QED
      BY <2>1, <2>2, ConcatProperties
  <2> QED
    BY <1>2, <2>3 DEF StartQueue
<1> QED
  BY <1>1, <1>2

-----------------------------------------------------------------------------
(* Counting fallbacks                                                      *)

LEMMA PlainIsFinite ==
  ASSUME Counted
  PROVE  /\ IsFiniteSet(Plain(executed, priority, original))
         /\ Cardinality(Plain(executed, priority, original)) \in Nat
         /\ Cardinality(Plain(executed, priority, original)) <= call.limit
<1>1. IsFiniteSet(Plain(executed, priority, original))
  BY FS_Difference DEF Counted, Plain
<1> QED
  BY <1>1, FS_CardinalityType DEF Counted, BroadBounded, Plain

LEMMA NothingPlain ==
  ASSUME NEW special, NEW first
  PROVE  /\ Plain(<<>>, special, first) = {}
         /\ Plain(<<first>>, special, first) = {}
         /\ IsFiniteSet(ToSet(<<>>)) /\ IsFiniteSet(ToSet(<<first>>))
         /\ Cardinality({}) = 0
BY NoElements, OneElement, FS_EmptySet, FS_Singleton DEF Plain

(* A search that the limit lets pass keeps the count below it.             *)
LEMMA SearchIsCounted ==
  ASSUME IInv, NEW q \in Queries, q \in priority \/ attempts < call.limit
  PROVE  LET after == Plain(Append(executed, q), priority, original) IN
         /\ IsFiniteSet(ToSet(Append(executed, q)))
         /\ Cardinality(after) <= attempts + 1
         /\ Cardinality(after) <= call.limit
<1> DEFINE before == Plain(executed, priority, original)
           after == Plain(Append(executed, q), priority, original)
<1>1. ToSet(Append(executed, q)) = ToSet(executed) \cup {q}
  BY AppendElements DEF IInv, TypeOK
<1>2. IsFiniteSet(ToSet(Append(executed, q)))
  BY <1>1, FS_AddElement DEF IInv, Counted
<1>3. /\ IsFiniteSet(before)
      /\ Cardinality(before) \in Nat
      /\ Cardinality(before) <= call.limit
      /\ Cardinality(before) <= attempts
  BY PlainIsFinite DEF IInv, Counted
<1>4. attempts \in Nat /\ call.limit \in Nat
  BY CallType DEF IInv, TypeOK
<1>5. CASE q \in priority \cup {original}
  <2>1. after = before
    BY <1>1, <1>5 DEF Plain
  <2> QED
    BY <1>2, <1>3, <1>4, <2>1
<1>6. CASE q \notin priority \cup {original}
  <2>1. after = before \cup {q}
    BY <1>1, <1>6 DEF Plain
  <2> HIDE DEF before, after
  <2>2. Cardinality(after) \in {Cardinality(before), Cardinality(before) + 1}
    BY <1>3, <2>1, FS_AddElement
  <2> QED
    BY <1>2, <1>3, <1>4, <1>6, <2>2 DEF after
<1> QED
  BY <1>5, <1>6

-----------------------------------------------------------------------------
(* Initially                                                               *)

LEMMA InitInv == Init => IInv
<1> SUFFICES ASSUME Init PROVE IInv
  OBVIOUS
<1>1. TypeOK
  <2>1. call \in Calls
    BY DEF Init, NoCall, Calls
  <2>2. discovery \in Hosts
    BY DEF Init, Hosts
  <2>3. calls \in 0 .. MaxCalls /\ attempts \in Nat
    BY BoundAssumption DEF Init
  <2>4. /\ queue \in Seq(Site \cup Broad(task))
        /\ offers \in Seq([query : Site, wrapper : BOOLEAN])
        /\ executed \in Seq(Queries)
    BY EmptyType DEF Init
  <2>5. /\ memory \subseteq Queries /\ spent \subseteq Queries
        /\ tried \subseteq Queries /\ priority \subseteq Site
        /\ original \in Queries \cup {NoQuery}
        /\ task \in TaskSet /\ phase = "ready" /\ found \in BOOLEAN
    BY DEF Init
  <2> QED
    BY <2>1, <2>2, <2>3, <2>4, <2>5 DEF TypeOK
<1>2. Tried /\ OnRecord /\ SearchedOnce /\ ScopedQueue /\ SiteStaysScoped
  BY NoElements
  DEF Init, Tried, OnRecord, SearchedOnce, ScopedQueue, SiteStaysScoped, NoCall
<1>3. Counted
  <2>1. executed = <<>> /\ attempts = 0 /\ call.limit = 0
    BY DEF Init, NoCall
  <2>2. /\ IsFiniteSet(ToSet(executed))
        /\ Cardinality(Plain(executed, priority, original)) = 0
    BY <2>1, NothingPlain
  <2> QED
    BY <2>1, <2>2 DEF Counted, BroadBounded, Plain
<1> QED
  BY <1>1, <1>2, <1>3 DEF IInv

-----------------------------------------------------------------------------
(* The actions                                                             *)

LEMMA CallKeeps == IInv /\ Call => IInv'
<1> SUFFICES ASSUME IInv, Call PROVE IInv'
  OBVIOUS
<1>1. /\ call' \in Calls
      /\ call'.given \in Given
      /\ call'.prior = IF task.multi /\ call'.reminded THEN memory ELSE {}
  BY DEF Call, IInv, TypeOK, Calls
<1>2. original' \in Queries
  BY <1>1, OriginalsType DEF Call, IInv
<1>3. tried' \subseteq Queries
  BY <1>1, CallType DEF Call
<1>4. TypeOK'
  <2>1. ToSet(executed) \subseteq Queries
    BY ElementsType DEF IInv, TypeOK
  <2>2. calls' \in 0 .. MaxCalls
    BY BoundAssumption DEF Call, IInv, TypeOK
  <2>3. discovery' \in Hosts
    BY DEF Call, Hosts
  <2>4. spent' \subseteq Queries
    BY <2>1 DEF Call, IInv, TypeOK
  <2>5. /\ queue' \in Seq(Site \cup Broad(task'))
        /\ offers' \in Seq([query : Site, wrapper : BOOLEAN])
        /\ executed' \in Seq(Queries)
    BY EmptyType DEF Call
  <2>6. /\ task' \in TaskSet /\ memory' \subseteq Queries
        /\ phase' = "primary" /\ priority' = {} /\ attempts' = 0 /\ found' = FALSE
    BY DEF Call, IInv, TypeOK
  <2> QED
    BY <1>1, <1>2, <1>3, <2>2, <2>3, <2>4, <2>5, <2>6 DEF TypeOK
<1>5. /\ executed' = <<>> /\ queue' = <<>> /\ phase' = "primary" /\ attempts' = 0
      /\ task' = task /\ memory' = memory
      /\ tried' = IF task.multi /\ call'.reminded THEN memory ELSE {}
  BY <1>1 DEF Call
<1>6. spent' \subseteq memory
  BY DEF Call, IInv, OnRecord
<1>7. (Tried /\ OnRecord /\ SearchedOnce /\ ScopedQueue /\ SiteStaysScoped)'
  <2>1. ToSet(executed') = {} /\ IsInjective(executed') /\ queue' \in Seq(Site)
    BY <1>5, NoElements, EmptyType
  <2> QED
    BY <1>5, <1>6, <2>1
    DEF Tried, OnRecord, SearchedOnce, ScopedQueue, SiteStaysScoped
<1>8. Counted'
  <2>1. call'.limit \in Nat
    BY <1>1, CallType
  <2>2. /\ IsFiniteSet(ToSet(executed'))
        /\ Cardinality(Plain(executed', priority', original')) = 0
    BY <1>5, NothingPlain
  <2> QED
    BY <1>5, <2>1, <2>2 DEF Counted, BroadBounded, Plain
<1> QED
  BY <1>4, <1>7, <1>8 DEF IInv

LEMMA AnswerKeeps == IInv /\ Answer => IInv'
<1> SUFFICES ASSUME IInv, Answer PROVE IInv'
  OBVIOUS
<1> USE DEF Answer, input
<1>1. TypeOK'
  BY QueryAssumption DEF IInv, TypeOK, Calls
<1>2. executed = <<>> /\ ToSet(executed) = {}
  BY NoElements DEF IInv, Tried
<1>3. (Tried /\ OnRecord)'
  BY <1>2 DEF IInv, Tried, OnRecord
<1>4. (SearchedOnce /\ ScopedQueue /\ SiteStaysScoped /\ Counted)'
  BY DEF IInv, SearchedOnce, ScopedQueue, SiteStaysScoped, Counted, BroadBounded
<1> QED
  BY <1>1, <1>3, <1>4 DEF IInv

LEMMA CutOffKeeps == IInv /\ CutOff => IInv'
<1> SUFFICES ASSUME IInv, CutOff PROVE IInv'
  OBVIOUS
<1> USE DEF CutOff, input
<1>1. TypeOK'
  BY QueryAssumption DEF IInv, TypeOK, Calls
<1>2. (Tried /\ OnRecord)'
  BY DEF IInv, Tried, OnRecord
<1>3. (SearchedOnce /\ ScopedQueue /\ SiteStaysScoped /\ Counted)'
  BY DEF IInv, SearchedOnce, ScopedQueue, SiteStaysScoped, Counted, BroadBounded
<1> QED
  BY <1>1, <1>2, <1>3 DEF IInv

(* The end of a call: what it lists goes on record.                        *)
LEMMA ReportKeeps ==
  ASSUME IInv,
         NEW qs \in Seq(Queries), NEW known \in SUBSET Queries, NEW hit \in BOOLEAN,
         Report(qs, known, hit),
         tried \subseteq known, ToSet(qs) \subseteq known,
         UNCHANGED <<input, offers>>,
         queue' \in Seq(Site \cup Broad(task)),
         priority' \subseteq Site,
         attempts' \in Nat
  PROVE  (TypeOK /\ Tried /\ OnRecord)'
<1> USE DEF Report, input
<1>1. call.given \in Queries \cup {NoQuery}
  BY CallType, QueryAssumption DEF IInv, TypeOK
<1>2. discovery' \in Hosts
  BY DiscoveredType
<1>3. memory' \subseteq Queries
  BY <1>1 DEF IInv, TypeOK
<1>4. TypeOK'
  <2>1. /\ task' \in TaskSet /\ calls' \in 0 .. MaxCalls /\ spent' \subseteq Queries
        /\ call' \in Calls /\ original' \in Queries \cup {NoQuery}
        /\ offers' \in Seq([query : Site, wrapper : BOOLEAN])
    BY DEF IInv, TypeOK
  <2>2. queue' \in Seq(Site \cup Broad(task'))
    OBVIOUS
  <2>3. /\ phase' = "reported" /\ found' \in BOOLEAN /\ executed' \in Seq(Queries)
        /\ tried' \subseteq Queries
    OBVIOUS
  <2> QED
    BY <1>2, <1>3, <2>1, <2>2, <2>3 DEF TypeOK
<1>5. Tried'
  BY DEF Tried
<1>6. OnRecord'
  BY DEF IInv, OnRecord
<1> QED
  BY <1>4, <1>5, <1>6

LEMMA WrappedType ==
  ASSUME NEW wrapped \in Wrapped
  PROVE  wrapped \in Seq(Site) /\ ToSet(wrapped) \subseteq Site
BY QueryAssumption, ElementsType

LEMMA SearchOriginalKeeps == IInv /\ SearchOriginal => IInv'
<1> SUFFICES ASSUME IInv, SearchOriginal PROVE IInv'
  OBVIOUS
<1>1. PICK hit \in BOOLEAN, wrapped \in Wrapped :
        /\ priority' = ToSet(wrapped)
        /\ IF hit
           THEN /\ Report(<<original>>, tried \cup {original}, TRUE)
                /\ UNCHANGED queue
           ELSE /\ StartWalk(original, wrapped)
                /\ executed' = <<original>>
                /\ tried' = tried \cup {original}
  BY DEF SearchOriginal
<1>2. /\ ~SkipsOriginal /\ phase = "primary"
      /\ call' = call /\ original' = original /\ offers' = offers /\ attempts' = attempts
      /\ UNCHANGED input
  BY DEF SearchOriginal, input
<1>3. original \in Queries
  BY <1>2 DEF IInv, TypeOK
<1>4. /\ executed' = <<original>> /\ executed' \in Seq(Queries)
      /\ tried' = tried \cup {original}
      /\ task' = task /\ spent' = spent
  <2>1. <<original>> \in Seq(Queries)
    BY <1>3
  <2>2. /\ executed' = <<original>>
        /\ tried' = tried \cup {original}
        /\ task' = task /\ spent' = spent
    BY <1>1 DEF Report, StartWalk, session
  <2> QED
    BY <2>1, <2>2
<1>5. ToSet(executed') = {original} /\ IsInjective(executed')
  BY <1>4, OneElement
<1>6. wrapped \in Seq(Site) /\ priority' \subseteq Site
  BY <1>1, WrappedType
<1>7. (TypeOK /\ Tried /\ OnRecord /\ ScopedQueue)'
  <2>1. CASE hit
    <3>1. Report(<<original>>, tried \cup {original}, TRUE) /\ queue' = queue
      BY <1>1, <2>1
    <3>2. /\ tried \cup {original} \in SUBSET Queries
          /\ queue' \in Seq(Site \cup Broad(task))
          /\ attempts' \in Nat
      BY <1>2, <1>3, <3>1 DEF IInv, TypeOK
    <3>3. ToSet(<<original>>) \subseteq tried \cup {original}
      BY OneElement
    <3>4. <<original>> \in Seq(Queries)
      BY <1>4
    <3>5. UNCHANGED <<input, offers>>
      BY <1>2
    <3>6. (TypeOK /\ Tried /\ OnRecord)'
      BY <1>6, <3>1, <3>2, <3>3, <3>4, <3>5, ReportKeeps
    <3> QED
      BY <1>2, <3>1, <3>6 DEF IInv, ScopedQueue
  <2>2. CASE ~hit
    <3>1. StartWalk(original, wrapped)
      BY <1>1, <2>2
    <3>2. /\ queue' \in Seq(Site \cup Broad(task))
          /\ original \in Site => queue' \in Seq(Site)
      BY <1>3, <1>6, <3>1, StartQueueType DEF StartWalk, IInv
    <3>3. UNCHANGED <<session, found, discovery>> /\ phase' = "walk"
      BY <3>1 DEF StartWalk
    <3>4. TypeOK'
      BY <1>2, <1>3, <1>4, <1>6, <3>2, <3>3 DEF IInv, TypeOK, session
    <3>5. (Tried /\ OnRecord)'
      BY <1>2, <1>4, <1>5, <3>3 DEF IInv, Tried, OnRecord, session
    <3> QED
      BY <1>2, <3>2, <3>4, <3>5 DEF ScopedQueue
  <2> QED
    BY <2>1, <2>2
<1>8. SearchedOnce'
  <2>1. task.multi /\ call.reminded /\ original \in spent => KeyOf[original] = ""
    BY <1>2 DEF IInv, OnRecord, SkipsOriginal, SeenIn
  <2> QED
    BY <1>2, <1>4, <1>5, <2>1 DEF SearchedOnce
<1>9. SiteStaysScoped'
  BY <1>2, <1>5 DEF SiteStaysScoped
<1>10. Counted'
  <2>1. /\ Plain(executed', priority', original') = {}
        /\ IsFiniteSet(ToSet(executed'))
        /\ Cardinality({}) = 0
    BY <1>2, <1>4, NothingPlain
  <2>2. attempts' \in Nat /\ call'.limit \in Nat
    BY <1>2, CallType DEF IInv, TypeOK
  <2> QED
    BY <2>1, <2>2 DEF Counted, BroadBounded, Plain
<1> QED
  BY <1>7, <1>8, <1>9, <1>10 DEF IInv

LEMMA SkipOriginalKeeps == IInv /\ SkipOriginal => IInv'
<1> SUFFICES ASSUME IInv, SkipOriginal PROVE IInv'
  OBVIOUS
<1>1. /\ phase = "primary"
      /\ tried' = IF SeenIn(original, tried) THEN tried ELSE tried \cup {original}
      /\ StartWalk(NoQuery, <<>>)
      /\ UNCHANGED <<input, offers, priority, attempts, executed>>
  BY DEF SkipOriginal
<1>2. /\ phase' = "walk" /\ queue' = StartQueue(NoQuery, <<>>)
      /\ UNCHANGED <<session, found, discovery>>
  BY <1>1 DEF StartWalk
<1>3. /\ queue' \in Seq(Site \cup Broad(task))
      /\ original \in Site => queue' \in Seq(Site)
  BY <1>2, EmptyType, StartQueueType DEF IInv
<1>4. tried \subseteq tried' /\ tried' \subseteq Queries
  BY <1>1 DEF IInv, TypeOK
<1>5. TypeOK'
  BY <1>1, <1>2, <1>3, <1>4 DEF IInv, TypeOK, input, session
<1>6. (Tried /\ OnRecord)'
  BY <1>1, <1>2, <1>4 DEF IInv, Tried, OnRecord, input, session
<1>7. (SearchedOnce /\ ScopedQueue /\ SiteStaysScoped /\ Counted)'
  BY <1>1, <1>2, <1>3
  DEF IInv, SearchedOnce, ScopedQueue, SiteStaysScoped, Counted, BroadBounded, input, session
<1> QED
  BY <1>5, <1>6, <1>7 DEF IInv

LEMMA PassKeeps == IInv /\ Pass => IInv'
<1> SUFFICES ASSUME IInv, Pass PROVE IInv'
  OBVIOUS
<1>1. /\ queue' = Tail(queue) /\ phase = "walk"
      /\ UNCHANGED <<session, phase, input, tried, offers, priority, attempts,
                     executed, found, discovery>>
  BY DEF Pass
<1>2. /\ queue' \in Seq(Site \cup Broad(task))
      /\ original \in Site => queue' \in Seq(Site)
  BY <1>1, HeadOfQueue DEF Pass, IInv, ScopedQueue
<1>3. TypeOK'
  BY <1>1, <1>2 DEF IInv, TypeOK, input, session
<1>4. (Tried /\ OnRecord)'
  BY <1>1 DEF IInv, Tried, OnRecord, input, session
<1>5. (SearchedOnce /\ ScopedQueue /\ SiteStaysScoped /\ Counted)'
  BY <1>1, <1>2
  DEF IInv, SearchedOnce, ScopedQueue, SiteStaysScoped, Counted, BroadBounded, input, session
<1> QED
  BY <1>3, <1>4, <1>5 DEF IInv

LEMMA ResumeKeeps == IInv /\ Resume => IInv'
<1> SUFFICES ASSUME IInv, Resume PROVE IInv'
  OBVIOUS
<1> USE DEF Resume, session, input
<1>1. TypeOK'
  BY DEF IInv, TypeOK
<1>2. (Tried /\ OnRecord)'
  BY DEF IInv, Tried, OnRecord
<1>3. (SearchedOnce /\ ScopedQueue /\ SiteStaysScoped /\ Counted)'
  BY DEF IInv, SearchedOnce, ScopedQueue, SiteStaysScoped, Counted, BroadBounded
<1> QED
  BY <1>1, <1>2, <1>3 DEF IInv

LEMMA EndWalkKeeps == IInv /\ EndWalk => IInv'
<1> SUFFICES ASSUME IInv, EndWalk PROVE IInv'
  OBVIOUS
<1>1. /\ Report(executed, tried, FALSE)
      /\ UNCHANGED <<input, queue, offers, priority, attempts>>
  BY DEF EndWalk
<1>2. /\ executed \in Seq(Queries) /\ tried \in SUBSET Queries
      /\ ToSet(executed) \subseteq tried
      /\ queue' \in Seq(Site \cup Broad(task))
      /\ priority' \subseteq Site /\ attempts' \in Nat
  BY <1>1 DEF IInv, TypeOK, Tried
<1>3. (TypeOK /\ Tried /\ OnRecord)'
  BY <1>1, <1>2, ReportKeeps
<1>4. executed' = executed /\ task' = task /\ spent' = spent
  BY <1>1 DEF Report
<1>5. (SearchedOnce /\ ScopedQueue /\ SiteStaysScoped /\ Counted)'
  BY <1>1, <1>4
  DEF IInv, SearchedOnce, ScopedQueue, SiteStaysScoped, Counted, BroadBounded, input
<1> QED
  BY <1>3, <1>5 DEF IInv

LEMMA InsertKeeps == IInv /\ Insert => IInv'
<1> SUFFICES ASSUME IInv, Insert PROVE IInv'
  OBVIOUS
<1> DEFINE o == Head(offers)
           Q == Site \cup Broad(task)
<1>1. /\ offers # <<>> /\ phase = "insert"
      /\ offers' = Tail(offers)
      /\ UNCHANGED <<session, phase, input, tried, attempts, executed, found, discovery>>
  BY DEF Insert
<1>2. /\ o.query \in Site
      /\ offers' \in Seq([query : Site, wrapper : BOOLEAN])
  <2>1. offers \in Seq([query : Site, wrapper : BOOLEAN])
    BY DEF IInv, TypeOK
  <2>2. o \in [query : Site, wrapper : BOOLEAN]
    BY <1>1, <2>1, HeadTailProperties
  <2>3. offers' \in Seq([query : Site, wrapper : BOOLEAN])
    BY <1>1, <2>1, HeadTailProperties
  <2> QED
    BY <2>2, <2>3
<1>3. /\ queue' = <<o.query>> \o queue \/ queue' = queue
      /\ priority \subseteq priority'
      /\ priority' \subseteq priority \cup {o.query}
  BY DEF Insert
<1>4. /\ queue' \in Seq(Q)
      /\ original \in Site => queue' \in Seq(Site)
  <2>1. queue \in Seq(Q) /\ (original \in Site => queue \in Seq(Site))
    BY DEF IInv, TypeOK, ScopedQueue
  <2>2. <<o.query>> \in Seq(Q) /\ <<o.query>> \in Seq(Site)
    BY <1>2
  <2> HIDE DEF o, Q
  <2> QED
    BY <1>3, <2>1, <2>2, ConcatProperties
<1>5. priority' \subseteq Site
  BY <1>2, <1>3 DEF IInv, TypeOK
<1>6. TypeOK'
  BY <1>1, <1>2, <1>4, <1>5 DEF IInv, TypeOK, input, session
<1>7. (Tried /\ OnRecord)'
  BY <1>1 DEF IInv, Tried, OnRecord, input, session
<1>8. (SearchedOnce /\ ScopedQueue /\ SiteStaysScoped)'
  BY <1>1, <1>4
  DEF IInv, SearchedOnce, ScopedQueue, SiteStaysScoped, input, session
<1>9. Counted'
  <2> DEFINE before == Plain(executed, priority, original)
             after == Plain(executed, priority', original)
  <2>1. /\ IsFiniteSet(before)
        /\ Cardinality(before) \in Nat
        /\ Cardinality(before) <= call.limit
        /\ Cardinality(before) <= attempts
    BY PlainIsFinite DEF IInv, Counted
  <2>2. after \subseteq before
    BY <1>3 DEF Plain
  <2>3. Cardinality(after) <= Cardinality(before) /\ Cardinality(after) \in Nat
    <3> HIDE DEF before, after
    <3> QED
      BY <2>1, <2>2, FS_Subset, FS_CardinalityType
  <2>4. attempts \in Nat /\ call.limit \in Nat
    BY CallType DEF IInv, TypeOK
  <2>5. Cardinality(after) <= attempts /\ Cardinality(after) <= call.limit
    <3> HIDE DEF before, after
    <3> QED
      BY <2>1, <2>3, <2>4
  <2> QED
    BY <1>1, <2>5 DEF IInv, Counted, BroadBounded, Plain, input, session
<1> QED
  BY <1>6, <1>7, <1>8, <1>9 DEF IInv

(* The query searched on the walk was never tried before in this call.     *)
LEMMA UntriedOnWalk ==
  ASSUME IInv, queue # <<>>, ~Blocked(Head(queue))
  PROVE  Head(queue) \notin tried
<1>1. CASE Head(queue) \in Site
  BY <1>1 DEF Blocked
<1>2. CASE Head(queue) \notin Site
  <2>1. Head(queue) \in Broad(task)
    BY <1>2, HeadOfQueue DEF IInv
  <2>2. KeyOf[Head(queue)] # ""
    BY <2>1, TaskAssumption DEF IInv, TypeOK
  <2> QED
    BY <1>2, <2>2 DEF Blocked, SeenIn
<1> QED
  BY <1>1, <1>2

LEMMA SearchKeeps == IInv /\ Search => IInv'
<1> SUFFICES ASSUME IInv, Search PROVE IInv'
  OBVIOUS
<1> DEFINE q == Head(queue)
<1>1. /\ phase = "walk" /\ queue # <<>> /\ ~AtLimit /\ ~Blocked(q)
      /\ attempts' = attempts + 1 /\ queue' = Tail(queue)
      /\ call' = call /\ original' = original /\ priority' = priority
      /\ UNCHANGED input
  BY DEF Search, input
<1>2. PICK hit \in BOOLEAN, wrapped \in Wrapped :
        IF hit
        THEN /\ Report(Append(executed, q), tried \cup {q}, TRUE)
             /\ UNCHANGED offers
        ELSE /\ tried' = tried \cup {q}
             /\ executed' = Append(executed, q)
             /\ offers' = Offers(q, wrapped)
             /\ phase' = "insert"
             /\ UNCHANGED <<session, found, discovery>>
  BY DEF Search
<1>3. /\ q \in Queries /\ q \notin tried
      /\ queue' \in Seq(Site \cup Broad(task))
      /\ original \in Site => q \in Site /\ queue' \in Seq(Site)
  BY <1>1, HeadOfQueue, UntriedOnWalk DEF IInv, ScopedQueue
<1> HIDE DEF q
<1>4. /\ executed \in Seq(Queries) /\ Append(executed, q) \in Seq(Queries)
      /\ ToSet(Append(executed, q)) = ToSet(executed) \cup {q}
      /\ ToSet(executed) \subseteq tried /\ q \notin ToSet(executed)
  BY <1>3, AppendElements DEF IInv, TypeOK, Tried
<1>5. /\ executed' = Append(executed, q)
      /\ tried' = tried \cup {q}
      /\ task' = task /\ spent' = spent
  BY <1>2 DEF Report, session
<1>6. (TypeOK /\ Tried /\ OnRecord)'
  <2>0. priority' \subseteq Site /\ attempts' \in Nat /\ tried \cup {q} \in SUBSET Queries
    BY <1>1, <1>3 DEF IInv, TypeOK
  <2>1. CASE hit
    <3>1. Report(Append(executed, q), tried \cup {q}, TRUE) /\ UNCHANGED <<input, offers>>
      BY <1>1, <1>2, <2>1
    <3>2. ToSet(Append(executed, q)) \subseteq tried \cup {q}
      BY <1>4
    <3> QED
      BY <1>3, <1>4, <2>0, <3>1, <3>2, ReportKeeps
  <2>2. CASE ~hit
    <3>1. /\ offers' = Offers(q, wrapped) /\ phase' = "insert"
          /\ UNCHANGED <<session, found, discovery>>
      BY <1>2, <2>2
    <3>2. offers' \in Seq([query : Site, wrapper : BOOLEAN])
      BY <3>1, QueryAssumption, WrappedType, OffersType
    <3>3. TypeOK'
      BY <1>1, <1>3, <1>4, <1>5, <2>0, <3>1, <3>2 DEF IInv, TypeOK, session
    <3>4. (Tried /\ OnRecord)'
      BY <1>1, <1>4, <1>5, <3>1 DEF IInv, Tried, OnRecord, session
    <3> QED
      BY <3>3, <3>4
  <2> QED
    BY <2>1, <2>2
<1>7. SearchedOnce'
  <2>1. IsInjective(executed')
    BY <1>3, <1>4, <1>5, AppendNewElement DEF IInv, SearchedOnce
  <2>2. task.multi /\ call.reminded => q \notin spent
    BY <1>3 DEF IInv, OnRecord
  <2> QED
    BY <1>1, <1>4, <1>5, <2>1, <2>2 DEF IInv, SearchedOnce
<1>8. (ScopedQueue /\ SiteStaysScoped)'
  BY <1>1, <1>3, <1>4, <1>5 DEF IInv, ScopedQueue, SiteStaysScoped
<1>9. Counted'
  <2>1. attempts \in Nat /\ call.limit \in Nat
    BY CallType DEF IInv, TypeOK
  <2>2. q \in priority \/ attempts < call.limit
    BY <1>1, <2>1 DEF AtLimit, q
  <2>3. /\ IsFiniteSet(ToSet(executed'))
        /\ Cardinality(Plain(executed', priority', original')) <= attempts'
        /\ Cardinality(Plain(executed', priority', original')) <= call'.limit
    BY <1>1, <1>3, <1>5, <2>2, SearchIsCounted
  <2> QED
    BY <2>3 DEF Counted, BroadBounded, Plain
<1> QED
  BY <1>6, <1>7, <1>8, <1>9 DEF IInv

-----------------------------------------------------------------------------
LEMMA StepKeeps == IInv /\ [Next]_vars => IInv'
<1>1. IInv /\ UNCHANGED vars => IInv'
  <2> SUFFICES ASSUME IInv, UNCHANGED vars PROVE IInv'
    OBVIOUS
  <2> USE DEF vars
  <2>1. TypeOK'
    BY DEF IInv, TypeOK
  <2>2. (Tried /\ OnRecord)'
    BY DEF IInv, Tried, OnRecord
  <2>3. (SearchedOnce /\ ScopedQueue /\ SiteStaysScoped /\ Counted)'
    BY DEF IInv, SearchedOnce, ScopedQueue, SiteStaysScoped, Counted, BroadBounded
  <2> QED
    BY <2>1, <2>2, <2>3 DEF IInv
<1> QED
  BY <1>1, CallKeeps, AnswerKeeps, SearchOriginalKeeps, SkipOriginalKeeps, PassKeeps,
     SearchKeeps, InsertKeeps, ResumeKeeps, EndWalkKeeps, CutOffKeeps
  DEF Next, Work

LEMMA InvHolds == Spec => []IInv
BY InitInv, StepKeeps, PTL DEF Spec

(* The locals of run keep their types, whatever the web answers.           *)
THEOREM TypeCorrect == Spec => []TypeOK
<1>1. IInv => TypeOK
  BY DEF IInv
<1> QED
  BY <1>1, InvHolds, PTL

(* No query is searched twice in a call, nor in a later call that was      *)
(* handed the record, for every web and every set of queries.              *)
THEOREM EachSearchedOnce == Spec => []SearchedOnce
<1>1. IInv => SearchedOnce
  BY DEF IInv
<1> QED
  BY <1>1, InvHolds, PTL

(* A call for one site searches sites only.                                *)
THEOREM SiteSearchStaysScoped == Spec => []SiteStaysScoped
<1>1. IInv => SiteStaysScoped
  BY DEF IInv
<1> QED
  BY <1>1, InvHolds, PTL

(* The fallbacks without priority stay within max_search_fallbacks.        *)
THEOREM FallbacksAreBounded == Spec => []BroadBounded
<1>1. IInv => BroadBounded
  BY DEF IInv, Counted
<1> QED
  BY <1>1, InvHolds, PTL

-----------------------------------------------------------------------------
(* A turn of the task is not left blank                                    *)

(* The queries open to a call beside the one it was made with.             *)
Base == IF original \in Site THEN ToSet(Variants[original])
                            ELSE ToSet(task.broad[NoQuery])

(* While nothing was searched, every open query is still queued or barred. *)
Untouched ==
  /\ phase = "primary" => attempts = 0
  /\ phase = "insert" => executed # <<>>
  /\ phase = "walk" /\ executed = <<>> =>
       /\ attempts = 0
       /\ \A q \in Base : q \in ToSet(queue) \/ Blocked(q)
  /\ NoBlankTurn

LEMMA BlockedStays ==
  ASSUME task' = task, call' = call, tried' = tried, NEW q
  PROVE  Blocked(q)' <=> Blocked(q)
BY DEF Blocked, GroupTried, Exhausted, PriorGroups, SeenIn

LEMMA ElementsOfTail ==
  ASSUME NEW S, NEW s \in Seq(S), s # <<>>
  PROVE  ToSet(s) \subseteq {Head(s)} \cup ToSet(Tail(s))
<1>1. /\ Len(s) \in Nat \ {0} /\ DOMAIN s = 1 .. Len(s)
      /\ Head(s) = s[1]
      /\ DOMAIN Tail(s) = 1 .. Len(s) - 1
      /\ \A i \in 1 .. Len(s) - 1 : Tail(s)[i] = s[i + 1]
  OBVIOUS
<1>2. ASSUME NEW i \in DOMAIN s, i # 1
      PROVE  s[i] \in ToSet(Tail(s))
  <2>1. i - 1 \in DOMAIN Tail(s) /\ Tail(s)[i - 1] = s[i]
    BY <1>1, <1>2
  <2> QED
    BY <2>1 DEF ToSet
<1>3. \A i \in DOMAIN s : s[i] = Head(s) \/ s[i] \in ToSet(Tail(s))
  BY <1>1, <1>2
<1> QED
  BY <1>3 DEF ToSet

LEMMA UntouchedInit == Init => Untouched
BY DEF Init, Untouched, NoBlankTurn

LEMMA UntouchedKept == IInv /\ Untouched /\ [Next]_vars => Untouched'
<1> SUFFICES ASSUME IInv, Untouched, [Next]_vars PROVE Untouched'
  OBVIOUS
<1>1. CASE Call
  BY <1>1 DEF Call, Untouched, NoBlankTurn
<1>2. CASE Answer
  BY <1>2 DEF Answer, Untouched, NoBlankTurn
<1>3. CASE SearchOriginal
  <2>1. executed' = <<original>> /\ phase' \in {"walk", "reported"}
    BY <1>3 DEF SearchOriginal, Report, StartWalk
  <2> QED
    BY <2>1 DEF Untouched, NoBlankTurn
<1>4. CASE SkipOriginal
  <2>1. /\ phase' = "walk" /\ attempts' = 0
        /\ queue' = StartQueue(NoQuery, <<>>)
        /\ task' = task /\ original' = original
    BY <1>4 DEF SkipOriginal, StartWalk, Untouched, session, input
  <2>2. ToSet(queue') = Base'
    <3>1. task.broad[NoQuery] \in Seq(Queries \ Site)
      BY TaskType DEF IInv
    <3>2. <<>> \o task.broad[NoQuery] = task.broad[NoQuery]
      BY <3>1, ConcatEmptySeq
    <3> QED
      BY <2>1, <3>2 DEF StartQueue, Base
  <2> QED
    BY <2>1, <2>2 DEF Untouched, NoBlankTurn
<1>5. CASE Pass
  <2>1. /\ queue # <<>> /\ Blocked(Head(queue)) /\ queue' = Tail(queue)
        /\ phase' = "walk" /\ phase = "walk"
        /\ executed' = executed /\ attempts' = attempts /\ original' = original
        /\ task' = task /\ call' = call /\ tried' = tried
    BY <1>5 DEF Pass, session, input
  <2>2. ToSet(queue) \subseteq {Head(queue)} \cup ToSet(queue')
    BY <2>1, ElementsOfTail DEF IInv, TypeOK
  <2>3. \A q : Blocked(q)' <=> Blocked(q)
    BY <2>1, BlockedStays
  <2>4. Base' = Base
    BY <2>1 DEF Base
  <2>5. ASSUME executed' = <<>>, NEW q \in Base'
        PROVE  q \in ToSet(queue)' \/ Blocked(q)'
    <3>1. q \in ToSet(queue) \/ Blocked(q)
      BY <2>1, <2>4, <2>5 DEF Untouched
    <3> QED
      BY <2>1, <2>2, <2>3, <3>1
  <2> QED
    BY <2>1, <2>5 DEF Untouched, NoBlankTurn
<1>6. CASE Search
  <2>1. /\ executed' = Append(executed, Head(queue))
        /\ phase' \in {"insert", "reported"}
    BY <1>6 DEF Search, Report
  <2>2. executed' # <<>>
    BY <2>1 DEF IInv, TypeOK
  <2> QED
    BY <2>1, <2>2 DEF Untouched, NoBlankTurn
<1>7. CASE Insert \/ Resume
  <2>1. executed # <<>> /\ executed' = executed /\ phase' \in {"insert", "walk"}
    BY <1>7 DEF Insert, Resume, Untouched
  <2> QED
    BY <2>1 DEF Untouched, NoBlankTurn
<1>8. CASE EndWalk
  <2>1. /\ queue = <<>> \/ AtLimit
        /\ phase' = "reported" /\ phase = "walk"
        /\ executed' = executed /\ original' = original
        /\ task' = task /\ call' = call /\ tried' = tried
    BY <1>8 DEF EndWalk, Report, input
  <2>2. Base' = Base /\ \A q : Blocked(q)' <=> Blocked(q)
    BY <2>1, BlockedStays DEF Base
  <2>3. ASSUME executed = <<>>, call.limit > 0, NEW q \in Base
        PROVE  Blocked(q)
    <3>1. attempts = 0 /\ (q \in ToSet(queue) \/ Blocked(q))
      BY <2>1, <2>3 DEF Untouched
    <3>2. queue = <<>>
      BY <2>1, <2>3, <3>1, CallType DEF AtLimit, IInv, TypeOK
    <3> QED
      BY <3>1, <3>2, NoElements
  <2>4. NoBlankTurn'
    BY <2>1, <2>2, <2>3 DEF NoBlankTurn, Base
  <2> QED
    BY <2>1, <2>4 DEF Untouched
<1>9. CASE CutOff
  BY <1>9 DEF CutOff, Untouched, NoBlankTurn
<1>10. CASE UNCHANGED vars
  <2>1. /\ phase' = phase /\ executed' = executed /\ attempts' = attempts
        /\ queue' = queue /\ original' = original /\ found' = found
        /\ task' = task /\ call' = call /\ tried' = tried
    BY <1>10 DEF vars
  <2>2. Base' = Base /\ \A q : Blocked(q)' <=> Blocked(q)
    BY <2>1, BlockedStays DEF Base
  <2> QED
    BY <2>1, <2>2 DEF Untouched, NoBlankTurn, Base
<1> QED
  BY <1>1, <1>2, <1>3, <1>4, <1>5, <1>6, <1>7, <1>8, <1>9, <1>10 DEF Next, Work

(* A call that may fall back and reports that it searched nothing had no   *)
(* query left that it may repeat.                                          *)
THEOREM TurnsNotBlank == Spec => []NoBlankTurn
<1>1. Untouched => NoBlankTurn
  BY DEF Untouched
<1> QED
  BY <1>1, InvHolds, UntouchedInit, UntouchedKept, PTL DEF Spec

-----------------------------------------------------------------------------
(* A site that was searched is surfaced                                    *)

(* The site queries of a domain to look for sources on, and those of the   *)
(* domain of the original query.                                           *)
Hosted == {q \in Site : HostOf[q] # NoHost}
Home == {q \in Site : HostOf[q] = HostOf[original]}

(* What is queued, offered or searched is such a site query, a broad query *)
(* or the original one; the last site query searched exists when one was.  *)
AllHosted ==
  /\ queue \in Seq(Hosted \cup Broad(task))
  /\ offers \in Seq([query : Hosted, wrapper : BOOLEAN])
  /\ executed \in Seq(Hosted \cup (Queries \ Site) \cup {original})
  /\ ToSet(executed) \cap Site # {} => LastSite(executed) # {}

(* Without a domain to look for sources on, a call for one site has no     *)
(* query but its own; with one, the first query searched is of the domain. *)
FirstAtHome ==
  /\ phase = "primary" => queue = <<>> /\ offers = <<>>
  /\ original \in Site /\ HostOf[original] = NoHost =>
       queue = <<>> /\ offers = <<>> /\ ToSet(executed) \subseteq {original}
  /\ original \in Site /\ phase = "walk" /\ executed = <<>> => queue \in Seq(Home)
  /\ original \in Site /\ executed # <<>> => ToSet(executed) \cap Home # {}

Surfaced == AllHosted /\ FirstAtHome /\ SourceSurfaced

LEMMA LastSiteIsSite ==
  ASSUME NEW qs
  PROVE  LastSite(qs) \subseteq ToSet(qs) \cap Site
BY DEF LastSite, SiteTurns, ToSet

LEMMA AppendLastSite ==
  ASSUME NEW S, NEW qs \in Seq(S), NEW q \in S,
         ToSet(qs) \cap Site # {} => LastSite(qs) # {}
  PROVE  ToSet(Append(qs, q)) \cap Site # {} => LastSite(Append(qs, q)) # {}
<1> DEFINE after == Append(qs, q)
           n == Len(qs) + 1
<1>1. /\ Len(qs) \in Nat /\ DOMAIN qs = 1 .. Len(qs)
      /\ DOMAIN after = 1 .. n
      /\ after[n] = q
      /\ \A i \in DOMAIN qs : after[i] = qs[i]
  OBVIOUS
<1> HIDE DEF after
<1>2. CASE q \in Site
  <2>1. n \in SiteTurns(after) /\ \A j \in SiteTurns(after) : j <= n
    BY <1>1, <1>2 DEF SiteTurns
  <2>2. q \in LastSite(after)
    BY <1>1, <2>1 DEF LastSite
  <2> QED
    BY <2>2 DEF after
<1>3. CASE q \notin Site
  <2>1. SiteTurns(after) = SiteTurns(qs)
    BY <1>1, <1>3 DEF SiteTurns
  <2>2. LastSite(qs) \subseteq LastSite(after)
    BY <1>1, <2>1 DEF LastSite, SiteTurns
  <2>3. ToSet(after) \cap Site \subseteq ToSet(qs) \cap Site
    <3>1. ToSet(after) = ToSet(qs) \cup {q}
      BY AppendElements DEF after
    <3> QED
      BY <1>3, <3>1
  <2> QED
    BY <2>2, <2>3 DEF after
<1> QED
  BY <1>2, <1>3

LEMMA HostedVariants ==
  ASSUME NEW q \in Site
  PROVE  /\ Variants[q] \in Seq(Hosted)
         /\ \A v \in ToSet(Variants[q]) : HostOf[v] = HostOf[q]
         /\ HostOf[q] = NoHost => Variants[q] = <<>>
<1>1. Variants[q] \in Seq(Site) /\ ToSet(Variants[q]) \subseteq Site
  BY QueryAssumption, ElementsType
<1>2. CASE HostOf[q] = NoHost
  BY <1>2, SiteAssumption, EmptyType, NoElements
<1>3. CASE HostOf[q] # NoHost
  <2>1. ToSet(Variants[q]) \subseteq Hosted
    BY <1>1, <1>3, SiteAssumption DEF Hosted
  <2> QED
    BY <1>1, <1>3, <2>1, SiteAssumption, ElementsOfSubset
<1> QED
  BY <1>2, <1>3

LEMMA HostedWrapped ==
  ASSUME NEW wrapped \in Wrapped
  PROVE  wrapped \in Seq(Hosted)
<1>1. ToSet(wrapped) \subseteq Hosted
  BY WrappedType, WrappedAssumption DEF Hosted
<1> QED
  BY <1>1, WrappedType, ElementsOfSubset

LEMMA HostedStartQueue ==
  ASSUME TypeOK, NEW q \in Queries \cup {NoQuery}, NEW wrapped \in Seq(Hosted)
  PROVE  /\ StartQueue(q, wrapped) \in Seq(Hosted \cup Broad(task))
         /\ original \in Site => StartQueue(q, wrapped) \in Seq(Home)
         /\ original \in Site /\ HostOf[original] = NoHost => StartQueue(q, wrapped) = <<>>
<1> DEFINE Q == Hosted \cup Broad(task)
<1>1. CASE original \in Site
  <2>1. /\ Variants[original] \in Seq(Hosted)
        /\ HostOf[original] = NoHost => Variants[original] = <<>>
    BY <1>1, HostedVariants
  <2>2. ToSet(Variants[original]) \subseteq Home
    <3>1. ToSet(Variants[original]) \subseteq Site
      BY <1>1, QueryAssumption, ElementsType
    <3>2. \A v \in ToSet(Variants[original]) : HostOf[v] = HostOf[original]
      BY <1>1, HostedVariants
    <3> QED
      BY <3>1, <3>2 DEF Home
  <2>3. Variants[original] \in Seq(Q) /\ Variants[original] \in Seq(Home)
    BY <2>1, <2>2, ElementsOfSubset
  <2> QED
    BY <1>1, <2>1, <2>3 DEF StartQueue
<1>2. CASE original \notin Site
  <2>1. task.broad[q] \in Seq(Q)
    BY TaskType, ElementsOfSubset
  <2>2. wrapped \in Seq(Q)
    OBVIOUS
  <2>3. wrapped \o task.broad[q] \in Seq(Q)
    <3> HIDE DEF Q
    <3> QED
      BY <2>1, <2>2, ConcatProperties
  <2> QED
    BY <1>2, <2>3 DEF StartQueue
<1> QED
  BY <1>1, <1>2

(* A call that ends with nothing found names the domain of a site that it  *)
(* searched, whenever it searched one.                                     *)
LEMMA EndSurfaces ==
  ASSUME AllHosted, FirstAtHome, original \in Queries, task.institution,
         NEW d \in Discovered(original, executed, FALSE),
         NEW q \in ToSet(executed) \cap Site, HostOf[q] # NoHost
  PROVE  d # NoHost /\ d \in {HostOf[p] : p \in ToSet(executed) \cap Site}
<1>1. executed # <<>>
  BY NoElements
<1>2. CASE original \in Site
  <2>1. d = HostOf[original]
    BY <1>2 DEF Discovered
  <2>2. HostOf[original] # NoHost
    BY <1>2 DEF FirstAtHome
  <2>3. PICK p \in ToSet(executed) : p \in Home
    BY <1>1, <1>2 DEF FirstAtHome
  <2> QED
    BY <2>1, <2>2, <2>3 DEF Home
<1>3. CASE original \notin Site
  <2>1. LastSite(executed) # {} /\ LastSite(executed) \subseteq ToSet(executed) \cap Site
    BY LastSiteIsSite DEF AllHosted
  <2>2. PICK p \in LastSite(executed) : d = HostOf[p]
    BY <1>3, <2>1 DEF Discovered
  <2>3. ToSet(executed) \subseteq Hosted \cup (Queries \ Site) \cup {original}
    BY ElementsType DEF AllHosted
  <2>4. p \in ToSet(executed) \cap Site /\ p \in Hosted
    BY <1>3, <2>1, <2>2, <2>3
  <2> QED
    BY <2>2, <2>4 DEF Hosted
<1> QED
  BY <1>2, <1>3

LEMMA SurfacedInit == Init => Surfaced
<1> SUFFICES ASSUME Init PROVE Surfaced
  OBVIOUS
<1>1. queue = <<>> /\ offers = <<>> /\ executed = <<>> /\ phase = "ready"
  BY DEF Init
<1>2. AllHosted
  BY <1>1, EmptyType, NoElements DEF AllHosted
<1>3. FirstAtHome
  BY <1>1, NoElements DEF FirstAtHome
<1> QED
  BY <1>1, <1>2, <1>3 DEF Surfaced, SourceSurfaced

LEMMA SurfacedSearchOriginal == IInv /\ Surfaced /\ SearchOriginal => Surfaced'
<1> SUFFICES ASSUME IInv, Surfaced, SearchOriginal PROVE Surfaced'
  OBVIOUS
<1>1. PICK hit \in BOOLEAN, wrapped \in Wrapped :
        IF hit
        THEN /\ Report(<<original>>, tried \cup {original}, TRUE)
             /\ UNCHANGED queue
        ELSE /\ StartWalk(original, wrapped)
             /\ executed' = <<original>>
  BY DEF SearchOriginal
<1>2. /\ phase = "primary" /\ original' = original /\ offers' = offers
      /\ executed' = <<original>> /\ task' = task
      /\ phase' \in {"walk", "reported"}
      /\ phase' = "reported" => found' = TRUE
  BY <1>1 DEF SearchOriginal, Report, StartWalk, session, input
<1>3. queue = <<>> /\ offers = <<>> /\ original \in Queries
  BY <1>2 DEF Surfaced, FirstAtHome, IInv, TypeOK
<1>4. queue' = <<>> \/ queue' = StartQueue(original, wrapped)
  BY <1>1, <1>3 DEF StartWalk
<1>5. ToSet(executed') = {original} /\ executed' # <<>>
  BY <1>2, OneElement
<1>6. /\ queue' \in Seq(Hosted \cup Broad(task))
      /\ original \in Site /\ HostOf[original] = NoHost => queue' = <<>>
  BY <1>3, <1>4, EmptyType, HostedWrapped, HostedStartQueue DEF IInv
<1>7. AllHosted'
  <2>1. executed' \in Seq(Hosted \cup (Queries \ Site) \cup {original})
    BY <1>2
  <2>2. ToSet(executed') \cap Site # {} => LastSite(executed') # {}
    <3>1. <<>> \in Seq(Queries) /\ Append(<<>>, original) = <<original>>
      OBVIOUS
    <3>2. ToSet(<<>>) \cap Site = {}
      BY NoElements
    <3> QED
      BY <1>2, <1>3, <3>1, <3>2, AppendLastSite
  <2>3. offers' \in Seq([query : Hosted, wrapper : BOOLEAN])
    BY <1>2, <1>3, EmptyType
  <2> QED
    BY <1>2, <1>6, <2>1, <2>2, <2>3 DEF AllHosted, Hosted
<1>8. FirstAtHome'
  BY <1>2, <1>3, <1>5, <1>6 DEF FirstAtHome, Home
<1> QED
  BY <1>2, <1>7, <1>8 DEF Surfaced, SourceSurfaced

LEMMA SurfacedSkipOriginal == IInv /\ Surfaced /\ SkipOriginal => Surfaced'
<1> SUFFICES ASSUME IInv, Surfaced, SkipOriginal PROVE Surfaced'
  OBVIOUS
<1>1. /\ phase = "primary" /\ phase' = "walk" /\ queue' = StartQueue(NoQuery, <<>>)
      /\ original' = original /\ offers' = offers
      /\ executed' = executed /\ task' = task
  BY DEF SkipOriginal, StartWalk, session, input
<1>2. /\ queue' \in Seq(Hosted \cup Broad(task))
      /\ original \in Site => queue' \in Seq(Home)
      /\ original \in Site /\ HostOf[original] = NoHost => queue' = <<>>
  BY <1>1, EmptyType, HostedStartQueue DEF IInv
<1>3. executed = <<>>
  BY <1>1 DEF IInv, Tried
<1>4. AllHosted'
  BY <1>1, <1>2 DEF Surfaced, AllHosted, Hosted
<1>5. FirstAtHome'
  BY <1>1, <1>2, <1>3 DEF Surfaced, FirstAtHome, Home
<1> QED
  BY <1>1, <1>4, <1>5 DEF Surfaced, SourceSurfaced

LEMMA SurfacedPass == IInv /\ Surfaced /\ Pass => Surfaced'
<1> SUFFICES ASSUME IInv, Surfaced, Pass PROVE Surfaced'
  OBVIOUS
<1>1. /\ phase = "walk" /\ phase' = "walk" /\ queue # <<>> /\ queue' = Tail(queue)
      /\ original' = original /\ offers' = offers
      /\ executed' = executed /\ task' = task
  BY DEF Pass, session, input
<1>2. /\ queue' \in Seq(Hosted \cup Broad(task))
      /\ queue \in Seq(Home) => queue' \in Seq(Home)
  BY <1>1, HeadTailProperties DEF Surfaced, AllHosted
<1>3. AllHosted'
  BY <1>1, <1>2 DEF Surfaced, AllHosted, Hosted
<1>4. FirstAtHome'
  BY <1>1, <1>2 DEF Surfaced, FirstAtHome, Home
<1> QED
  BY <1>1, <1>3, <1>4 DEF Surfaced, SourceSurfaced

LEMMA SurfacedSearch == IInv /\ Surfaced /\ Search => Surfaced'
<1> SUFFICES ASSUME IInv, Surfaced, Search PROVE Surfaced'
  OBVIOUS
<1> DEFINE q == Head(queue)
<1>1. PICK hit \in BOOLEAN, wrapped \in Wrapped :
        IF hit
        THEN /\ Report(Append(executed, q), tried \cup {q}, TRUE)
             /\ UNCHANGED offers
        ELSE /\ executed' = Append(executed, q)
             /\ offers' = Offers(q, wrapped)
             /\ phase' = "insert"
             /\ UNCHANGED <<session, found, discovery>>
  BY DEF Search
<1>2. /\ phase = "walk" /\ queue # <<>> /\ queue' = Tail(queue)
      /\ original' = original /\ task' = task
      /\ executed' = Append(executed, q)
      /\ phase' \in {"insert", "reported"}
      /\ phase' = "reported" => found' = TRUE
      /\ offers' = offers \/ offers' = Offers(q, wrapped)
  BY <1>1 DEF Search, Report, session, input
<1>3. /\ q \in Hosted \cup Broad(task)
      /\ queue' \in Seq(Hosted \cup Broad(task))
      /\ queue \in Seq(Home) => q \in Home
  BY <1>2, HeadTailProperties DEF Surfaced, AllHosted
<1>4. q \in Queries
  BY <1>2, HeadOfQueue DEF IInv
<1> HIDE DEF q
<1>5. executed' # <<>> /\ ToSet(executed') = ToSet(executed) \cup {q}
  BY <1>2, <1>4, AppendElements DEF IInv, TypeOK
<1>6. ~(original \in Site /\ HostOf[original] = NoHost)
  BY <1>2 DEF Surfaced, FirstAtHome
<1>7. AllHosted'
  <2>1. executed' \in Seq(Hosted \cup (Queries \ Site) \cup {original})
    <3>1. q \in Hosted \cup (Queries \ Site) \cup {original}
      BY <1>3, TaskType DEF IInv
    <3> QED
      BY <1>2, <3>1 DEF Surfaced, AllHosted
  <2>2. ToSet(executed') \cap Site # {} => LastSite(executed') # {}
    BY <1>2, <1>4, AppendLastSite DEF Surfaced, AllHosted, IInv, TypeOK
  <2>3. offers' \in Seq([query : Hosted, wrapper : BOOLEAN])
    <3>1. offers \in Seq([query : Hosted, wrapper : BOOLEAN])
      BY DEF Surfaced, AllHosted
    <3>2. wrapped \in Seq(Hosted) /\ (q \in Site => Variants[q] \in Seq(Hosted))
      BY HostedWrapped, HostedVariants
    <3>3. Offers(q, wrapped) \in Seq([query : Hosted, wrapper : BOOLEAN])
      BY <3>2, OffersType
    <3> QED
      BY <1>2, <3>1, <3>3
  <2> QED
    BY <1>2, <1>3, <2>1, <2>2, <2>3 DEF AllHosted, Hosted
<1>8. FirstAtHome'
  <2>1. ASSUME original \in Site
        PROVE  ToSet(executed') \cap Home # {}
    <3>1. CASE executed = <<>>
      BY <1>2, <1>3, <1>5, <2>1, <3>1 DEF Surfaced, FirstAtHome
    <3>2. CASE executed # <<>>
      BY <1>5, <2>1, <3>2 DEF Surfaced, FirstAtHome
    <3> QED
      BY <3>1, <3>2
  <2> QED
    BY <1>2, <1>5, <1>6, <2>1 DEF FirstAtHome, Home
<1> QED
  BY <1>2, <1>7, <1>8 DEF Surfaced, SourceSurfaced

LEMMA SurfacedInsert == IInv /\ Untouched /\ Surfaced /\ Insert => Surfaced'
<1> SUFFICES ASSUME IInv, Untouched, Surfaced, Insert PROVE Surfaced'
  OBVIOUS
<1> DEFINE o == Head(offers)
           Q == Hosted \cup Broad(task)
<1>1. /\ phase = "insert" /\ phase' = "insert"
      /\ offers # <<>> /\ offers' = Tail(offers)
      /\ queue' = <<o.query>> \o queue \/ queue' = queue
      /\ original' = original /\ executed' = executed /\ task' = task
  BY DEF Insert, session, input
<1>2. /\ o \in [query : Hosted, wrapper : BOOLEAN]
      /\ offers' \in Seq([query : Hosted, wrapper : BOOLEAN])
  BY <1>1, HeadTailProperties DEF Surfaced, AllHosted
<1>3. queue' \in Seq(Q)
  <2>1. queue \in Seq(Q) /\ <<o.query>> \in Seq(Q)
    BY <1>2 DEF Surfaced, AllHosted
  <2> HIDE DEF o, Q
  <2> QED
    BY <1>1, <2>1, ConcatProperties
<1>4. AllHosted'
  BY <1>1, <1>2, <1>3 DEF Surfaced, AllHosted, Hosted
<1>5. FirstAtHome'
  BY <1>1 DEF Surfaced, FirstAtHome, Home
<1> QED
  BY <1>1, <1>4, <1>5 DEF Surfaced, SourceSurfaced

LEMMA SurfacedEndWalk == IInv /\ Surfaced /\ EndWalk => Surfaced'
<1> SUFFICES ASSUME IInv, Surfaced, EndWalk PROVE Surfaced'
  OBVIOUS
<1>1. /\ phase = "walk" /\ phase' = "reported"
      /\ queue' = queue /\ original' = original /\ offers' = offers
      /\ executed' = executed /\ task' = task
      /\ discovery' \in Discovered(original, executed, FALSE)
  BY DEF EndWalk, Report, input
<1>2. AllHosted' /\ FirstAtHome'
  BY <1>1 DEF Surfaced, AllHosted, FirstAtHome, Hosted, Home
<1>3. SourceSurfaced'
  <2>1. ASSUME task.institution, NEW q \in ToSet(executed) \cap Site, HostOf[q] # NoHost
        PROVE  /\ discovery' # NoHost
               /\ discovery' \in {HostOf[p] : p \in ToSet(executed) \cap Site}
    BY <1>1, <2>1, EndSurfaces DEF Surfaced, IInv, TypeOK
  <2> QED
    BY <1>1, <2>1 DEF SourceSurfaced
<1> QED
  BY <1>2, <1>3 DEF Surfaced

LEMMA SurfacedKept == IInv /\ Untouched /\ Surfaced /\ [Next]_vars => Surfaced'
<1> SUFFICES ASSUME IInv, Untouched, Surfaced, [Next]_vars PROVE Surfaced'
  OBVIOUS
<1>1. CASE Call
  <2>1. /\ queue' = <<>> /\ offers' = <<>> /\ executed' = <<>> /\ phase' = "primary"
    BY <1>1 DEF Call
  <2>2. AllHosted'
    BY <2>1, EmptyType, NoElements DEF AllHosted
  <2>3. FirstAtHome'
    BY <2>1, NoElements DEF FirstAtHome
  <2> QED
    BY <2>1, <2>2, <2>3 DEF Surfaced, SourceSurfaced
<1>2. CASE Answer
  <2>1. /\ queue' = queue /\ offers' = offers /\ executed' = executed
        /\ task' = task /\ original' = original
        /\ phase' = "reported" /\ found' = TRUE
    BY <1>2 DEF Answer, input
  <2>2. AllHosted' /\ FirstAtHome'
    BY <2>1 DEF Surfaced, AllHosted, FirstAtHome, Hosted, Home
  <2> QED
    BY <2>1, <2>2 DEF Surfaced, SourceSurfaced
<1>3. CASE CutOff
  <2>1. /\ queue' = queue /\ offers' = offers /\ executed' = executed
        /\ task' = task /\ original' = original /\ phase' = "ready"
    BY <1>3 DEF CutOff, input
  <2>2. AllHosted' /\ FirstAtHome'
    BY <2>1 DEF Surfaced, AllHosted, FirstAtHome, Hosted, Home
  <2> QED
    BY <2>1, <2>2 DEF Surfaced, SourceSurfaced
<1>4. CASE Resume
  <2>1. /\ queue' = queue /\ offers' = offers /\ executed' = executed
        /\ task' = task /\ original' = original /\ phase' = "walk"
        /\ executed # <<>>
    BY <1>4 DEF Resume, session, input, Untouched
  <2>2. AllHosted' /\ FirstAtHome'
    BY <2>1 DEF Surfaced, AllHosted, FirstAtHome, Hosted, Home
  <2> QED
    BY <2>1, <2>2 DEF Surfaced, SourceSurfaced
<1>5. CASE UNCHANGED vars
  <2>1. /\ queue' = queue /\ offers' = offers /\ executed' = executed
        /\ task' = task /\ original' = original /\ phase' = phase
        /\ found' = found /\ discovery' = discovery
    BY <1>5 DEF vars
  <2>2. AllHosted' /\ FirstAtHome'
    BY <2>1 DEF Surfaced, AllHosted, FirstAtHome, Hosted, Home
  <2> QED
    BY <2>1, <2>2 DEF Surfaced, SourceSurfaced
<1> QED
  BY <1>1, <1>2, <1>3, <1>4, <1>5, SurfacedSearchOriginal, SurfacedSkipOriginal,
     SurfacedPass, SurfacedSearch, SurfacedInsert, SurfacedEndWalk
  DEF Next, Work

(* A call that found nothing names a site it searched, when it searched    *)
(* one that is looked for sources on.                                      *)
THEOREM SourcesSurface == Spec => []SourceSurfaced
<1>1. Surfaced => SourceSurfaced
  BY DEF Surfaced
<1> QED
  BY <1>1, InvHolds, UntouchedInit, UntouchedKept, SurfacedInit, SurfacedKept, PTL
  DEF Spec

-----------------------------------------------------------------------------
(* A call comes to its end                                                 *)

(* What is left of a call: the searches before the walk, the walk, nothing;*)
(* and on the walk the queries queued and the offers not yet looked at.    *)
Stage == [ready |-> 0, primary |-> 2, walk |-> 1, insert |-> 1, reported |-> 0]
Waiting == 2 * Len(offers) + Len(queue) + IF phase = "insert" THEN 1 ELSE 0

(* A step begins one more of the task's calls, brings its call to a later  *)
(* stage, searches a query for the first time in it, or works the queue    *)
(* and the offers off.                                                     *)
WindsDown ==
  \/ calls' = calls + 1 /\ calls' <= MaxCalls
  \/ /\ calls' = calls
     /\ \/ Stage[phase'] < Stage[phase]
        \/ /\ Stage[phase'] = Stage[phase]
           /\ \/ \E q \in Queries \ tried : tried' = tried \cup {q}
              \/ tried' = tried /\ Waiting' < Waiting

LEMMA WaitingType ==
  ASSUME TypeOK
  PROVE  Len(offers) \in Nat /\ Len(queue) \in Nat /\ Waiting \in Nat
<1>1. Len(offers) \in Nat /\ Len(queue) \in Nat
  BY LenProperties DEF TypeOK
<1> QED
  BY <1>1 DEF Waiting

(* The length of the queue is no measure, as the walk adds to it: it adds  *)
(* only where it has searched a query it will not search again.            *)
LEMMA StepWindsDown == IInv /\ Next => WindsDown
<1> SUFFICES ASSUME IInv, Next PROVE WindsDown
  OBVIOUS
<1>0. TypeOK /\ TypeOK'
  BY StepKeeps DEF IInv
<1>1. /\ Len(offers) \in Nat /\ Len(queue) \in Nat /\ Waiting \in Nat
      /\ Len(offers') \in Nat /\ Len(queue') \in Nat
  <2>1. Len(offers') \in Nat /\ Len(queue') \in Nat
    BY <1>0, LenProperties DEF TypeOK
  <2> QED
    BY <1>0, <2>1, WaitingType
<1>2. CASE Call
  BY <1>0, <1>2 DEF Call, TypeOK, WindsDown
<1>3. CASE Answer \/ CutOff
  BY <1>3 DEF Answer, CutOff, WindsDown, Stage
<1>4. CASE SearchOriginal
  <2>1. phase = "primary" /\ phase' \in {"reported", "walk"} /\ calls' = calls
    <3>1. PICK hit \in BOOLEAN, wrapped \in Wrapped :
            IF hit THEN Report(<<original>>, tried \cup {original}, TRUE)
                   ELSE StartWalk(original, wrapped)
      BY <1>4 DEF SearchOriginal
    <3>2. phase = "primary"
      BY <1>4 DEF SearchOriginal
    <3>3. CASE hit
      BY <3>1, <3>2, <3>3 DEF Report
    <3>4. CASE ~hit
      BY <3>1, <3>2, <3>4 DEF StartWalk, session
    <3> QED
      BY <3>3, <3>4
  <2> QED
    BY <2>1 DEF WindsDown, Stage
<1>5. CASE SkipOriginal
  BY <1>5 DEF SkipOriginal, StartWalk, session, WindsDown, Stage
<1>6. CASE EndWalk
  BY <1>6 DEF EndWalk, Report, WindsDown, Stage
<1>7. CASE Pass
  <2>1. /\ phase = "walk" /\ phase' = phase /\ queue # <<>> /\ queue' = Tail(queue)
        /\ UNCHANGED <<calls, tried, offers>>
    BY <1>7 DEF Pass, session
  <2>2. Len(queue') = Len(queue) - 1
    BY <1>0, <2>1, HeadTailProperties DEF TypeOK
  <2>3. Waiting' < Waiting
    BY <1>1, <2>1, <2>2 DEF Waiting
  <2> QED
    BY <2>1, <2>3 DEF WindsDown
<1>8. CASE Search
  <2>1. /\ phase = "walk" /\ queue # <<>> /\ ~Blocked(Head(queue))
        /\ tried' = tried \cup {Head(queue)} /\ calls' = calls
        /\ phase' \in {"reported", "insert"}
    BY <1>8 DEF Search, Report, session
  <2>2. Head(queue) \in Queries \ tried
    BY <1>0, <2>1, HeadOfQueue, UntriedOnWalk
  <2>3. Stage[phase'] < Stage[phase] \/ Stage[phase'] = Stage[phase]
    BY <2>1 DEF Stage
  <2> QED
    BY <2>1, <2>2, <2>3 DEF WindsDown
<1>9. CASE Insert
  <2>1. /\ phase = "insert" /\ phase' = phase /\ offers # <<>> /\ offers' = Tail(offers)
        /\ UNCHANGED <<calls, tried>>
        /\ queue' = <<Head(offers).query>> \o queue \/ queue' = queue
    BY <1>9 DEF Insert, session
  <2>2. Len(offers') = Len(offers) - 1
    BY <1>0, <2>1, HeadTailProperties DEF TypeOK
  <2>3. Len(queue') <= Len(queue) + 1
    <3>1. Head(offers).query \in Site
      <4>1. offers \in Seq([query : Site, wrapper : BOOLEAN])
        BY <1>0 DEF TypeOK
      <4>2. Head(offers) \in [query : Site, wrapper : BOOLEAN]
        BY <2>1, <4>1, HeadTailProperties
      <4> QED
        BY <4>2
    <3>2. <<Head(offers).query>> \in Seq(Site) /\ Len(<<Head(offers).query>>) = 1
      BY <3>1
    <3>3. queue \in Seq(Site \cup Broad(task))
      BY <1>0 DEF TypeOK
    <3>4. <<Head(offers).query>> \in Seq(Site \cup Broad(task))
      BY <3>1
    <3>5. Len(<<Head(offers).query>> \o queue) = 1 + Len(queue)
      BY <3>2, <3>3, <3>4, ConcatProperties
    <3> QED
      BY <1>1, <2>1, <3>5
  <2>4. Waiting' < Waiting
    BY <1>1, <2>1, <2>2, <2>3 DEF Waiting
  <2> QED
    BY <2>1, <2>4 DEF WindsDown
<1>10. CASE Resume
  <2>1. /\ phase = "insert" /\ phase' = "walk" /\ UNCHANGED <<calls, tried, queue, offers>>
    BY <1>10 DEF Resume, session
  <2>2. Waiting' < Waiting
    BY <1>1, <2>1 DEF Waiting
  <2> QED
    BY <2>1, <2>2 DEF WindsDown, Stage
<1> QED
  BY <1>2, <1>3, <1>4, <1>5, <1>6, <1>7, <1>8, <1>9, <1>10 DEF Next, Work

(* Although its queue grows while it is walked, no call goes round: of any *)
(* finite set of queries a task makes finitely many steps.                 *)
THEOREM CallsWindDown == Spec => [](Waiting \in Nat) /\ [][WindsDown]_vars
<1>1. IInv => Waiting \in Nat
  BY WaitingType DEF IInv
<1>2. IInv /\ [Next]_vars => [WindsDown]_vars
  BY StepWindsDown
<1> QED
  BY <1>1, <1>2, InvHolds, PTL DEF Spec
=============================================================================
