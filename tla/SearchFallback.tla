--------------------------- MODULE SearchFallback ---------------------------
(***************************************************************************)
(* WebSearchTool.run: one search for the query it is given and, while no   *)
(* usable result turns up, a walk over a queue of other queries that grows *)
(* while it is walked. A task calls the tool several times and hands it    *)
(* the queries of earlier calls that are on record.                        *)
(*                                                                         *)
(* A query is a value with a host, a key and a clue group: the facts that  *)
(* _is_site_scoped_query, _normalize_query_key and _query_group read off   *)
(* its words. What a search engine answers is open.                        *)
(***************************************************************************)
EXTENDS Naturals, FiniteSets, SequencesExt

CONSTANTS
  Queries,
  Site,        (* the queries of the form site:<domain> ...                *)
  HostOf,      (* the domain of a site query, or NoHost when it is none to *)
               (* look for sources on                                      *)
  KeyOf,       (* a query's comparison key; "" when no word of it counts   *)
  GroupOf,     (* the clue a query is after; "" when none                  *)
  CoreGroups,
  Variants,    (* the variants of a site query on its own domain, in order *)
  Normal,      (* a controller's prose rewritten as a compact query        *)
  Prompt,      (* the prompt itself as a query                             *)
  Wrapped,     (* the site queries one page of results may give away: a    *)
               (* set of sequences                                         *)
  TaskSet,     (* the tasks considered, see Task                           *)
  Given,       (* the queries a controller asks for, NoQuery for none      *)
  Built,       (* the queries the language model makes of the prompt when  *)
               (* there is none to search for                              *)
  Fallbacks,   (* values of max_search_fallbacks                           *)
  MaxCalls,    (* bound: the calls of web_search in a task                 *)
  NoQuery, NoHost

(* multi: a multi-clue entity prompt; institution: the prompt names a kind *)
(* of institution; broad: the fixed broad queries that its clues select    *)
(* together with those of a query; answerer: a web answerer is configured. *)
Task ==
  [multi : BOOLEAN, institution : BOOLEAN, answerer : BOOLEAN,
   broad : [Queries \cup {NoQuery} -> Seq(Queries \ Site)]]
Broad(t) == UNION {ToSet(t.broad[q]) : q \in Queries \cup {NoQuery}}

(* Over Queries a site query always has a key (its domain), its variants   *)
(* are other site queries of its domain, and a barred domain has none.     *)
ASSUME QueryAssumption ==
  /\ Site \subseteq Queries
  /\ NoQuery \notin Queries
  /\ Given \subseteq Queries \cup {NoQuery}
  /\ Built \subseteq Queries
  /\ Prompt \in Queries
  /\ Normal \in [Queries -> Queries]
  /\ DOMAIN KeyOf = Queries
  /\ DOMAIN GroupOf = Queries
  /\ Variants \in [Site -> Seq(Site)]
  /\ Wrapped \subseteq Seq(Site)
ASSUME SiteAssumption ==
  \A q \in Site :
    /\ KeyOf[q] # ""
    /\ HostOf[q] = NoHost => Variants[q] = <<>>
    /\ \A v \in ToSet(Variants[q]) : v # q /\ HostOf[v] = HostOf[q]
ASSUME WrappedAssumption ==
  \A w \in Wrapped : \A q \in ToSet(w) : HostOf[q] # NoHost
ASSUME TaskAssumption ==
  /\ TaskSet \subseteq Task
  /\ \A t \in TaskSet : \A b \in Broad(t) : KeyOf[b] # ""
ASSUME BoundAssumption == Fallbacks \subseteq Nat /\ MaxCalls \in Nat

VARIABLES
  task,
  calls,     (* the calls made so far                                      *)
  memory,    (* the queries on record, as _prior_web_queries collects them *)
  spent,     (* history: the queries that earlier, recorded calls searched *)
  phase,     (* ready, primary, walk, insert, reported                     *)
  call,      (* the arguments of the call                                  *)
  original,  (* original_query                                             *)
  tried,     (* tried_queries                                              *)
  queue,     (* fallback_queue from queue_idx on                           *)
  offers,    (* the queries about to be inserted into the queue            *)
  priority,  (* priority_followups                                         *)
  attempts,  (* fallback_attempts                                          *)
  executed,  (* executed_queries                                           *)
  found,     (* results is not empty                                       *)
  discovery  (* the domain of direct_discovery_urls                        *)

vars == <<task, calls, memory, spent, phase, call, original, tried, queue,
          offers, priority, attempts, executed, found, discovery>>
session == <<task, calls, memory, spent>>
input == <<call, original>>

-----------------------------------------------------------------------------
(* What a call has seen                                                    *)

SeenIn(q, known) == KeyOf[q] # "" /\ \E p \in known : KeyOf[p] = KeyOf[q]

PriorGroups == {GroupOf[p] : p \in call.prior} \ {""}
Exhausted == task.multi /\ CoreGroups \subseteq PriorGroups
GroupTried(q) ==
  /\ GroupOf[q] \in PriorGroups
  /\ q \notin Site
  /\ ~call.retry
  /\ ~Exhausted

(* Faulty variant: the walk leaves what was tried to the clue groups       *)
Blocked_Groups(q) == GroupTried(q) \/ (q \in Site /\ q \in tried)

(* Site queries are compared literally on the walk, others by their keys.  *)
Blocked(q) == GroupTried(q) \/ IF q \in Site THEN q \in tried ELSE SeenIn(q, tried)

(* Without a query the model may make one of the prompt. If it does not, a *)
(* multi-clue task starts from the first broad query not yet seen, and any *)
(* other from the prompt.                                                  *)
Unseen(known) ==
  {i \in DOMAIN task.broad[NoQuery] : ~SeenIn(task.broad[NoQuery][i], known)}
FirstUnseen(known) ==
  {task.broad[NoQuery][i] :
     i \in {k \in Unseen(known) : \A j \in Unseen(known) : k <= j}}
Originals(given, known) ==
  {Normal[q] : q \in IF given # NoQuery THEN {given}
                     ELSE IF task.multi /\ Unseen(known) # {}
                     THEN Built \cup FirstUnseen(known) ELSE Built \cup {Prompt}}

-----------------------------------------------------------------------------
(* The end of a call                                                       *)

(* Faulty variant: only a site query asked for is followed up              *)
Discovered_Asked(q, qs, hit) ==
  IF hit \/ q \notin Site \/ ~task.institution THEN {NoHost} ELSE {HostOf[q]}

(* The domain whose front pages are offered when nothing was found: that   *)
(* of the original query, or of the last site query searched.              *)
SiteTurns(qs) == {i \in DOMAIN qs : qs[i] \in Site}
LastSite(qs) ==
  {qs[i] : i \in {k \in SiteTurns(qs) : \A j \in SiteTurns(qs) : j <= k}}
Discovered(q, qs, hit) ==
  LET probes == IF q \in Site THEN {q} ELSE LastSite(qs)
  IN IF hit \/ probes = {} \/ ~task.institution THEN {NoHost}
                                             ELSE {HostOf[p] : p \in probes}

(* The result is recorded: what it lists, and the query the call named, is *)
(* on record for later calls.                                              *)
Report(qs, known, hit) ==
  /\ phase' = "reported"
  /\ found' = hit
  /\ executed' = qs
  /\ tried' = known
  /\ memory' = memory \cup known \cup ({call.given} \ {NoQuery})
  /\ discovery' \in Discovered(original, qs, hit)
  /\ UNCHANGED <<task, calls, spent>>

-----------------------------------------------------------------------------
(* Actions                                                                 *)

(* A call begins: the controller chooses its arguments.                    *)
Call ==
  /\ phase \in {"ready", "reported"}
  /\ calls < MaxCalls
  /\ calls' = calls + 1
  /\ \E given \in Given, reminded \in BOOLEAN, retry \in BOOLEAN, limit \in Fallbacks :
       call' = [given |-> given, retry |-> retry, limit |-> limit,
                prior |-> IF task.multi /\ reminded THEN memory ELSE {},
                reminded |-> reminded]
  /\ tried' = call'.prior
  /\ original' \in Originals(call'.given, tried')
  /\ phase' = "primary"
  /\ queue' = <<>>
  /\ offers' = <<>>
  /\ priority' = {}
  /\ attempts' = 0
  /\ executed' = <<>>
  /\ found' = FALSE
  /\ discovery' = NoHost
  /\ spent' = IF phase = "reported" THEN spent \cup ToSet(executed) ELSE spent
  /\ UNCHANGED <<task, memory>>

(* The web answerer is asked first, and its answer ends the call. A result *)
(* of it lists no query.                                                   *)
Answer ==
  /\ phase = "primary"
  /\ task.answerer
  /\ phase' = "reported"
  /\ found' = TRUE
  /\ memory' = memory \cup ({call.given} \ {NoQuery})
  /\ UNCHANGED <<task, calls, spent, input, tried, queue, offers, priority,
                 attempts, executed, discovery>>

SkipsOriginal == SeenIn(original, tried) \/ GroupTried(original)

(* Faulty variant: a site query too falls back on the broad queries        *)
StartQueue_Global(q, wrapped) ==
  IF original \in Site THEN Variants[original] \o task.broad[q]
                       ELSE wrapped \o task.broad[q]

(* The queue of a site query holds its variants only; another query's      *)
(* holds the site queries its results gave away, then the broad ones that  *)
(* go with it.                                                             *)
StartQueue(q, wrapped) ==
  IF original \in Site THEN Variants[original] ELSE wrapped \o task.broad[q]

StartWalk(q, wrapped) ==
  /\ phase' = "walk"
  /\ queue' = StartQueue(q, wrapped)
  /\ UNCHANGED <<session, found, discovery>>

SearchOriginal ==
  /\ phase = "primary"
  /\ ~SkipsOriginal
  /\ \E hit \in BOOLEAN, wrapped \in Wrapped :
       /\ priority' = ToSet(wrapped)
       /\ IF hit
          THEN /\ Report(<<original>>, tried \cup {original}, TRUE)
               /\ UNCHANGED queue
          ELSE /\ StartWalk(original, wrapped)
               /\ executed' = <<original>>
               /\ tried' = tried \cup {original}
  /\ UNCHANGED <<input, offers, attempts>>

(* Faulty variant: the query is cleared before it is put on record         *)
SkipOriginal_Cleared ==
  /\ phase = "primary"
  /\ SkipsOriginal
  /\ tried' = IF SeenIn(original, tried) THEN tried ELSE tried \cup {NoQuery}
  /\ StartWalk(NoQuery, <<>>)
  /\ UNCHANGED <<input, offers, priority, attempts, executed>>

(* A query of an exhausted group is put on record although it is not       *)
(* searched, and no longer counts for the broad queries.                   *)
SkipOriginal ==
  /\ phase = "primary"
  /\ SkipsOriginal
  /\ tried' = IF SeenIn(original, tried) THEN tried ELSE tried \cup {original}
  /\ StartWalk(NoQuery, <<>>)
  /\ UNCHANGED <<input, offers, priority, attempts, executed>>

(* Faulty variant: the limit is exceeded by one                            *)
AtLimit_OffByOne ==
  queue # <<>> /\ attempts > call.limit /\ Head(queue) \notin priority

(* The limit counts every query searched on the walk and stops it at one   *)
(* that has no priority.                                                   *)
AtLimit ==
  queue # <<>> /\ attempts >= call.limit /\ Head(queue) \notin priority

(* Faulty variant: the index is advanced only after a search               *)
Pass_Stuck ==
  /\ phase = "walk"
  /\ queue # <<>>
  /\ ~AtLimit
  /\ Blocked(Head(queue))
  /\ UNCHANGED vars

(* Faulty variant: a blocked query ends the walk                           *)
Pass_Stop ==
  /\ phase = "walk"
  /\ queue # <<>>
  /\ ~AtLimit
  /\ Blocked(Head(queue))
  /\ Report(executed, tried, FALSE)
  /\ UNCHANGED <<input, queue, offers, priority, attempts>>

Pass ==
  /\ phase = "walk"
  /\ queue # <<>>
  /\ ~AtLimit
  /\ Blocked(Head(queue))
  /\ queue' = Tail(queue)
  /\ UNCHANGED <<session, phase, input, tried, offers, priority, attempts,
                 executed, found, discovery>>

Offer(wrapper, q) == [query |-> q, wrapper |-> wrapper]
OfferAll(wrapper, qs) == [i \in DOMAIN qs |-> Offer(wrapper, qs[i])]

(* Variants are inserted last first, the queries of wrapper pages in the   *)
(* order of the page, each at the head of what is left.                    *)
Offers(q, wrapped) ==
  (IF q \in Site THEN OfferAll(FALSE, Reverse(Variants[q])) ELSE <<>>)
    \o OfferAll(TRUE, wrapped)

Search ==
  /\ phase = "walk"
  /\ queue # <<>>
  /\ ~AtLimit
  /\ LET q == Head(queue) IN
       /\ ~Blocked(q)
       /\ attempts' = attempts + 1
       /\ queue' = Tail(queue)
       /\ \E hit \in BOOLEAN, wrapped \in Wrapped :
            IF hit
            THEN /\ Report(Append(executed, q), tried \cup {q}, TRUE)
                 /\ UNCHANGED offers
            ELSE /\ tried' = tried \cup {q}
                 /\ executed' = Append(executed, q)
                 /\ offers' = Offers(q, wrapped)
                 /\ phase' = "insert"
                 /\ UNCHANGED <<session, found, discovery>>
  /\ UNCHANGED <<input, priority>>

(* What has left the queue is in tried when it is a site query, so the     *)
(* tests on the whole queue and on tried are tests on the rest and on tried*)
IsNew(o) ==
  /\ o.query \notin ToSet(queue)
  /\ IF o.wrapper THEN ~SeenIn(o.query, tried) ELSE o.query \notin tried

Insert ==
  /\ phase = "insert"
  /\ offers # <<>>
  /\ LET o == Head(offers) IN
       IF IsNew(o)
       THEN /\ queue' = <<o.query>> \o queue
            /\ priority' = IF o.wrapper THEN priority \cup {o.query} ELSE priority
       ELSE UNCHANGED <<queue, priority>>
  /\ offers' = Tail(offers)
  /\ UNCHANGED <<session, phase, input, tried, attempts, executed, found, discovery>>

Resume ==
  /\ phase = "insert"
  /\ offers = <<>>
  /\ phase' = "walk"
  /\ UNCHANGED <<session, input, tried, queue, offers, priority, attempts,
                 executed, found, discovery>>

EndWalk ==
  /\ phase = "walk"
  /\ queue = <<>> \/ AtLimit
  /\ Report(executed, tried, FALSE)
  /\ UNCHANGED <<input, queue, offers, priority, attempts>>

(* The loop's tool timeout cancels the call in one of its awaits. Of its   *)
(* queries only the one it was called with is on record.                   *)
CutOff ==
  /\ phase \in {"primary", "walk"}
  /\ phase' = "ready"
  /\ memory' = memory \cup ({call.given} \ {NoQuery})
  /\ UNCHANGED <<task, calls, spent, input, tried, queue, offers, priority,
                 attempts, executed, found, discovery>>

-----------------------------------------------------------------------------
NoCall ==
  [given |-> NoQuery, retry |-> FALSE, limit |-> 0, prior |-> {}, reminded |-> FALSE]

Init ==
  /\ task \in TaskSet
  /\ calls = 0
  /\ memory = {}
  /\ spent = {}
  /\ phase = "ready"
  /\ call = NoCall
  /\ original = NoQuery
  /\ tried = {}
  /\ queue = <<>>
  /\ offers = <<>>
  /\ priority = {}
  /\ attempts = 0
  /\ executed = <<>>
  /\ found = FALSE
  /\ discovery = NoHost

Work ==
  SearchOriginal \/ SkipOriginal \/ Pass \/ Search \/ Insert \/ Resume \/ EndWalk
Next == Call \/ Answer \/ Work \/ CutOff

(* Every search comes to an end: the client has a timeout of its own.      *)
Spec == Init /\ [][Next]_vars /\ WF_vars(Work)

-----------------------------------------------------------------------------
(* Properties                                                              *)

Hosts == {HostOf[q] : q \in Site} \cup {NoHost}
Calls ==
  [given : Given \cup {NoQuery}, retry : BOOLEAN, limit : Fallbacks \cup {0},
   prior : SUBSET Queries, reminded : BOOLEAN]

(* The locals of run keep their types; site queries alone are offered, and *)
(* the broad queries alone may stand in the queue beside them.             *)
TypeOK ==
  /\ task \in TaskSet
  /\ calls \in 0 .. MaxCalls
  /\ memory \subseteq Queries
  /\ spent \subseteq Queries
  /\ phase \in {"ready", "primary", "walk", "insert", "reported"}
  /\ call \in Calls
  /\ original \in Queries \cup {NoQuery}
  /\ phase \in {"primary", "walk", "insert"} => original \in Queries
  /\ tried \subseteq Queries
  /\ queue \in Seq(Site \cup Broad(task))
  /\ offers \in Seq([query : Site, wrapper : BOOLEAN])
  /\ priority \subseteq Site
  /\ attempts \in Nat
  /\ executed \in Seq(Queries)
  /\ found \in BOOLEAN
  /\ discovery \in Hosts

(* No call searches a query twice, however the queue grows under it, and a *)
(* call that is handed the queries on record repeats none that an earlier  *)
(* call of the task searched and reported. A query without a key is not    *)
(* recognised from one call to the next.                                   *)
SearchedOnce ==
  /\ IsInjective(executed)
  /\ task.multi /\ call.reminded =>
       \A q \in ToSet(executed) \cap spent : KeyOf[q] = ""

(* A call for one site never falls back on a search of the whole web,      *)
(* whatever its results and the wrapper pages among them name.             *)
SiteStaysScoped ==
  original \in Site => ToSet(executed) \subseteq Site

(* Beside the original query and the priority follow-ups, a call searches  *)
(* at most max_search_fallbacks queries.                                   *)
BroadBounded ==
  Cardinality(ToSet(executed) \ (priority \cup {original})) <= call.limit

(* A call that is allowed a fallback reports that it searched nothing only *)
(* when every query open to it is one it must not repeat.                  *)
NoBlankTurn ==
  phase = "reported" /\ ~found /\ executed = <<>> /\ call.limit > 0 =>
    \A q \in IF original \in Site THEN ToSet(Variants[original])
                                   ELSE ToSet(task.broad[NoQuery]) : Blocked(q)

(* A call that found nothing, but searched some site on the way, names a   *)
(* site of those it searched for the controller to fetch from.             *)
SourceSurfaced ==
  phase = "reported" /\ ~found /\ task.institution =>
    LET sites == {HostOf[q] : q \in ToSet(executed) \cap Site}
    IN sites \ {NoHost} # {} => discovery \in sites \ {NoHost}

(* Every call ends, although its queue grows while it is walked.           *)
CallEnds == phase = "primary" ~> phase \in {"ready", "reported"}
=============================================================================
