# A TLA+ verification of the purple agent

The repository is an A2A agent that answers open questions. A message becomes a
task; an orchestrator lets a *controller* call tools (search, fetch, calculate,
check) one at a time under a step and time budget, and a *finalizer* turns what
was found into an answer. This directory models the parts that decide what happens
next and the server that runs them for several messages at once, checks them with TLC
and proves their central properties with TLAPS.

Source paths below are relative to `src/src/`.

## Inventory

| Part | State | Operations | Interacts with |
|---|---|---|---|
| Controller loop, `purple/runtime/loop.py` | the locals of `run`: last call, external calls seen, duplicate counter | one loop body: ask, gate, dispatch, await, record | awaits the controller and the tools; writes the transcript; pays the budget |
| Budget, `purple/budget.py` | steps used, start time | `can_continue`, `record_step`, `snapshot` | the loop |
| Transcript, `purple/runtime/transcript.py` | append-only list of (call, result) | `append`; `latest_output`, `collected`, `notes_view` | read by controllers, gates, tools, finalizer |
| Rule controller, `purple/runtime/rule_controller.py` | a call counter | `next_action`: eight rules on the transcript | the default without an LLM; always the loop's fallback |
| LLM controller, `purple/runtime/llm_controller.py` | a call counter, a rule controller | `next_action`: deterministic follow-ups, the LLM's reply, overrides | the default with an LLM |
| Tools, `purple/tools_api/` | none | `run` of twelve tools | web, LLM, transcript notes |
| Sufficiency check, `purple/tools_api/sufficiency_check.py` | the locals of one `run`: verdict, source, coverage table | overlap, model, table, two guards, each overruling the ones before | its table is read by the LLM controller and the finalizer |
| Web client, `purple/tools/web.py` | the locals of one fetch | `search`, `fetch_text` with GitHub's API behind it | HTTP in a worker thread; `web_fetch`, `web_search` |
| Search fallback queue, `purple/tools_api/web_search.py` | the locals of one call: tried and executed queries, the queue, its priorities | `run`: search, walk the queue, insert, surface | search engine, web answerer; the queries on record of earlier calls |
| Finalizer, `purple/runtime/finalizer.py` | appends its own turns | synthesize, verify, compose, fall back | LLM; the transcript |
| Orchestrator, policy gate, `purple/orchestrator.py`, `purple/runtime/policy.py` | flags of a task | preflight, loop, finalizer, postflight | agent |
| Executor, agent, `executor.py`, `agent.py` | one agent per context id; the A2A task's state | `execute`, `run`, `cancel` (raises) | A2A server, orchestrator |
| Messenger, `messenger.py` | a context id per peer | `talk_to_agent`, `reset` | peers; unused by default |
| LLM clients, profiler, protocols, prompts, legacy specialists, server | - | HTTP, scoring, parsing, wording | - |

What is hard about it, part by part:

- **Loop.** Five ways through the body end in `continue` and eight in `break`;
  each must pay, record and update the duplicate bookkeeping, or must not. Two
  gates, written out twice, decide whether a final or a surrender stands, and
  both ask a second controller. Time passes in the awaits only, and the limit is
  tested only at the top. A tool may answer, fail, raise or time out. What makes
  it correct: the budget is kept, nothing external is paid for twice, caps hold,
  no unchecked answer leaves, the run ends.
- **Rule controller.** Its decisions read the transcript by different rules (what
  is evidence, what is the latest candidate, what was attempted) from the loop's.
  What makes it correct: it commits only what was judged, repeats nothing in vain.
- **LLM controller.** Overrides of overrides; a stale coverage table; a reply of
  the wrong type. Correct when its gates cannot be talked past, do not commit what
  nobody judged in the model's place, and do not let evidence pile up unread.
- **Sufficiency check.** Four judges and a table that overrule one another in turn,
  and readers that look at the table again by a rule of their own. Correct when a yes
  never hides an open requirement.
- **Web client.** A paged list that grows while it is walked; any page may fail.
  Correct when the pages join up, the first commit is not one in the middle and the
  number of commits is one the path has had.
- **Finalizer, orchestrator.** Which candidate survives a surrender, which coverage
  table it is judged by, by which of four paths a rejected one could come back; the
  gates are spread over six exits of the verifier and a fallback that reads only its
  verdict. A refusal must win over everything, a credential must not leave, and a
  committed answer must not get lost on the way.
- **Executor, agent, messenger.** Messages of one context, even of one task,
  interleave over a shared agent; the guard on finished tasks reads an old copy; the
  status calls raise when the task is over; a context id is read before an await and
  written after it. Correct when each execution ends its task once, whatever fails, a
  conversation stays with its agent, and nobody waits for ever.
- **web_search.** A fallback queue that grows at its head while it is walked, with
  two tests for repetition (literal and by key), a limit that some entries are
  exempt from, and a memory of earlier calls that the timeout may cut short. What
  makes it correct: nothing is searched twice, the limit holds, a search for one
  site stays with sites, no call is wasted, the walk ends.

`PROJECT.json` lists each hazard with its line and the property that covers it, or
why none does.

## Modules

| Module | Models |
|---|---|
| `Transcript` | calls, results, turns, and every question the loop and the controllers ask of the transcript |
| `ToolCatalog` | what each tool of the default catalog may answer on a transcript |
| `RuleController` | the set of actions `RuleBasedController.next_action` may return |
| `LLMController` | what `LLMController.next_action` makes of a reply of the model |
| `ControllerLoop` | `ControllerLoop.run` and the `BudgetTracker`: the specification, its properties, and the documented claims it does not keep |
| `BoundedRun` | what a run promises: paid turns, no external call spent twice, one result |
| `SearchFallback` | the calls of `WebSearchTool.run` in one task, with the memory that links them |
| `SufficiencyCheck` | one `SufficiencyCheckTool.run`: how the verdict and the coverage table come about |
| `FetchText` | one `StdlibWebClient.fetch_text`: GitHub's API, the paged commit history, the page itself |
| `Solve` | `Orchestrator.solve`: policy gate, the loop as an environment, the `Finalizer` |
| `Service` | `Executor.execute` and `Agent.run` for several messages at once |
| `Messenger` | a `Messenger` talking to a peer that runs this server, composed with `Service` |
| `MC*` | the small instances for TLC |
| `RuleController_proofs`, `ControllerLoop_proofs`, `LoopLimits_proofs`, `SearchFallback_proofs`, `SufficiencyCheck_proofs`, `FetchText_proofs`, `Solve_proofs`, `Messenger_proofs` | the theorems |

`Transcript`, `ToolCatalog`, `RuleController`, `LLMController` and `ControllerLoop`
extend each other in this order; `ControllerLoop` instantiates `BoundedRun`.
`SearchFallback`, `SufficiencyCheck` and `FetchText` each open up one tool of the
catalog or the client behind it. `Solve` is what happens around a run of the loop,
`Service` what happens around `solve`, and `Messenger` is the far end of `Service`.

### Abstraction

A turn is a call, a *status* and *outputs*. A call is a tool name and a key; the
key stands for the whole argument mapping, as in `_hashable_args`. Two searches
with the same query but different `attempted_queries` are therefore different
calls, in the code as in the model. The status says how the turn came about: the
tool ran (`ok`, `failed`, `raised`, `timeout`) or the loop wrote the turn itself
(`duplicate`, `unknown`, `capped`). Outputs keep the facts that some decision
reads: a candidate, spans, a verdict, `sufficient_alone`, listed URLs, results,
required outputs, a coverage table. The text behind them is left out: which URL scores best, whether
the filters reject all of them and whether a fresh query can be built are open
choices, so what holds of the model holds whatever the text rules decide.
`FollowUps` therefore offers a fetch, a search and the fixed follow-up side by
side; the multi-clue shortcuts of rule 5 only choose among the same actions. A query
already tried is not offered again, except one without a key (`Keyless`): the test of
`rule_controller.py:748` never recognises it.

A request is four facts: is there context text, how does the prompt read to the
research gate, does the controller build queries from the prompt, and which
capabilities does the profiler select.

### The loop body as actions

`pc` is where control is: `top`, `gate` (a final or a surrender in hand), `call`
(a tool call in hand), `running` (awaiting the tool), `done`.

| Action | Code in `loop.py` |
|---|---|
| `Truncate` | 104-106, out of budget |
| `Analyze` | 108-112, the first call is forced |
| `Ask`, `Abort` | 114, the controller answers or its exception leaves `run` |
| `Research` | 117-119, 141-143, the research gate |
| `Accept`, `Fallback` | 120-139, 144-166, the evidence gate |
| `SkipRepeat` | 175-205, a repeated external call is recorded and skipped |
| `StopOnDuplicates` | 206-211 |
| `Reject` | 216-243, unknown tool or cap reached |
| `Start` | 245-255, up to the await |
| `Return`, `Fail`, `Raise`, `TimeOut` | 251-278, the result is recorded |
| `Escape` | 256-263 with timeouts disabled, the handler itself raises |

The swap of a repeated search for a fetch (168-174) is the operator `Resolved`,
evaluated inside every dispatch action. No other task touches a run's locals, so
between two awaits a run is one step of the event loop; splitting it into actions
adds no behaviour. `clock` advances in `Ask` and in the tool's await. Lines 131-132
and 155-156 commit a final of the fallback; the transcript has not changed since
the same predicate sent control there, so they are unreachable, in the model too
(`Fallback` has the branch).

With `Driver = "rule"` the controller is the rule controller with the limits the
orchestrator gives it. With `Driver = "llm"` it is the LLM controller, whose model may
reply any action over a set of calls, or garbage. With `Driver = "any"` it may return
any action over a set of calls, or raise: that covers every controller.

### The LLM controller

`LLMActions` is `next_action` (`llm_controller.py:50-180`) as a set of actions. Before
the model is asked, a multi-clue question has new evidence checked and a directed search
for an open requirement carried out (`FollowUp`, 182-212). The reply is then held back by
the gate on open requirements (`Refused`, 79-91), replaced when it repeats a search
(`Escalate`, 104-133), or sent out with the list of queries tried (`SendSearch`,
134-179). The list makes the argument mapping of a repeated text a new call for the
loop's duplicate guard: `TextOf` keeps text and mapping apart, and `Blanks` are
the mappings of a search without a query, to which the list is added as well. Lines 137-147 ask the
fallback for a directed search; the follow-up has promoted the same search before the
model was asked, on the same transcript, so they are unreachable and left out. A reply
whose action is not a string raises at line 78 (`Abort`); everything else malformed goes
to the fallback. Queries that results report as tried are left out of the record of
texts, so the model may search one of them again where the code would fall back: this
only adds behaviours.

### The sufficiency check

A text is what the code asks of it: is the candidate empty or an admission, does the
overlap suffice, does the prompt speak of commits, repositories, a lineage. The actions
follow `run`: `Overlap` (345-360), `AskModel` (362-406), `Assess` (201-248, 407), `Gate`
(277-307, 410-423), `Offer` (251-274), `CommitGuard` (437-449), `LineageGuard` (451-463).
In `ControllerLoop` the verdict and the table of a check are open (`CheckOutputs`); this
module says which of them go together, and what the readers of the table make of them.

### Fetching

`FetchText` is the dispatch of `_sync_fetch_text` (524-559), the look-ups of a commit and
of a pull request, and the walk over a commit history (592-651). GitHub is external: a
history is the number of its commits, `Push` adds one at any time, any request may fail.
One action is one request. A page of `per_page` is full or ends the walk. What is
answered may be JSON of any shape. For a page, a commit or a pull request the code tests
the outermost shape and goes on without it; the parts of a commit and a profile it reads
untested (704-706, 736, 761), so that `FetchCommit`, `FetchPull` and `Report` may raise.
When `Report` does, in the look-up of the oldest commit (644), the pages listed before are
lost. What the text shows of the list, its first 40 commits as far as the limit allows
(649-651), is left out: the properties are about the count and the oldest commit, which
stand in front of it.

### The service

| Action | Code |
|---|---|
| `Arrive`, in `Submit` and `Send` | external: the library builds the request context and with it a copy of the task |
| `Refuse`, `OpenTask`, `StartWork` | `executor.py:36-52`, the guard, the new task, agent and `start_work` |
| `AnswerShell`, `RejectBroken`, `Profile` | `agent.py:80-89` |
| `Solve`, `SolveRaises`, `AnswerShown` | `agent.py:90-108` |
| `Wrap`, `FailTask` | `executor.py:53-59` |
| `Send`, `Reply`, `TimeOut`, `Reset` | `messenger.py:118-130` |

A step is what lies between two awaits. What the repository uses of the a2a library is
modelled from that use: an updater raises on a status after its own terminal one, a
message names a task, a context or neither. Which messages exist is given; a message
that opens a task or a context gives it its name. `TimeOut` leaves the message being
served, as `httpx` does. A message whose payload cannot be read (`broken`) makes
`Agent.run` raise before anything is reported.

### The search fallback queue

A query is a value with a host (for `site:<domain>` queries), a comparison key and a
clue group: what `_is_site_scoped_query`, `_normalize_query_key` and `_query_group`
read off its words. What a page of results contains is open: usable results or none,
and any of the sequences of site queries that wrapper pages give away. Two calls of
one task are linked by `memory`, the queries on record, from which a call may be
handed `prior`; `spent` remembers, for the properties, which queries earlier calls
really searched. Without a query to search for, the language model may make one of the
prompt (`Built`, 88-91), and which broad queries the walk falls back on depends on the
prompt and on the query it starts from (`task.broad`, 182-190).

| Action | Code in `web_search.py` |
|---|---|
| `Call` | 62-121, arguments, prior queries, the original query |
| `Answer` | 72-85, the web answerer ends the call |
| `SearchOriginal`, `SkipOriginal` | 134-168, the guards against repetition and the first search |
| `Pass`, `Search` | 200-255, one entry of the queue |
| `Insert`, `Resume` | 225-237, variants and wrapper follow-ups go in front, one by one |
| `EndWalk` | 200-203, the queue is empty or the limit is reached |
| `CutOff` | the tool timeout of `loop.py:255` cancels the call at an await |

### One request

A text is a value, and the finalizer's tests on words (`_looks_like_raw...`,
`_is_insufficient_non_answer`, ...) are sets it belongs to. A turn carries what the
finalizer reads: candidate, coverage table, requirements, first span, first page,
calculated candidates. Only the first span is ever an answer, so the others are left
out. The replies of the language model are open, those of the wrong type included.
Confidences are per cent; the heuristic on word overlap is any of `Levels`.

| Action | Code |
|---|---|
| `Preflight` | `orchestrator.py:157-171` |
| `LoopTurn`, `LoopEnd`, `LoopRaise` | `orchestrator.py:173-183`, the loop from outside |
| `Gather`, `Synthesize`, `KeepCandidate` | `finalizer.py:196-224`, the candidate |
| `RejectUnfit`, `RejectUnmet`, `Judge`, `Misread` | `finalizer.py:375-533`, the verdict |
| `Refuse`, `CopyStructured`, `ComposeByModel`, `FallBack` | `finalizer.py:249-295`, the answer |
| `Postflight` | `orchestrator.py:193-209` |

What the loop hands over is any outcome and any turns: the properties of `Solve` do
not rest on those of `ControllerLoop`.

## Runs

Where a run sets `CHECK_DEADLOCK FALSE` the system really stops: a run of the loop, a
fetch, a check or a request returns, and a message is served once.

| Run | Instance | Asks |
|---|---|---|
| `loop_any` | arbitrary controller, four tools and an unregistered name, 4 steps, caps 1 and 2, duplicates 2 | the safety of the loop by itself, and the refinement of `BoundedRun` with its fairness |
| `loop_rule` | rule controller, full catalog, a web answerer, a query that is never recognised, six kinds of request, 6 steps, 3 attempts, duplicates 2, time limit 3, reserve 1, latencies 1, no tool timeout | what the two controllers' bookkeeping amounts to, and what the clock may break |
| `llm_any` | LLM controller, any reply, six tools, four queries, a search without any, three requests, 4 steps | whether an open table can be talked past |
| `search_walk` | three calls, limits 0 and 2, two sites (one with a variant), two broad queries, a query without a key, a prompt that is rewritten or from which the model makes a query, two kinds of task | repetition, bounds, blank calls, the end of the walk |
| `solve_any` | up to three turns of seven shapes, texts of six kinds, with and without a model, dangerous or not | what may and may not leave `solve` |
| `sufficiency` | up to three requirements, tables of up to three rows of which two are read, five kinds of prompt | whether a yes hides an open requirement |
| `history` | up to nine commits in pages of two, at most four pages, pushes at any time | whether a walk has gaps, misses the first commit or miscounts |
| `conversation` | two talks of one Messenger and a message of another client, three kinds of message, debug artifact on | tasks, agents and contexts under interleaving |

The bounds are chosen so that the cases exist. Four steps hold the shortest
histories that matter: analyse, search, search again (skipped or swapped for a
fetch), check; or evidence, check, evidence, final. Caps of 1 and 2 with 4 steps are
reached and exceeded by a controller that insists; a cap above 1 is needed for
external tools because otherwise a cap hides the duplicate guard. Two duplicates
fit in four turns. In `loop_rule` the loop's fallback allows three attempts where the
loop stops on the second duplicate, as the code's four and two do.
The time limit with awaits of up to 1 and 1 can be met exactly, missed by one and overrun by the
maximum. In `llm_any` a blended query, the same text with
a longer record, a site query and a query that names a candidate meet an open and a mixed
table. Three calls of `web_search` let a query be searched, recorded and offered again,
with a call cut off in between; a limit of 2 is reached behind priority follow-ups,
exceeded only by them, and 0 forbids every fallback; a page that names both sites puts
one in front of the other. Three turns hold requirements, a table and evidence in every
order, or two tables of which the newer counts. A table with more rows than are read and
more rows than requirements has rows cut off, doubled, superseded and missing. Nine
commits fill four pages of two and leave one over, with pushes in between. Three messages
are two of one task with a third that joins, or two overlapping talks and a stranger in
their context; messages with structured tools take the path of plain ones without the
artifact and are left out of the run, not of the model. Every property has a mutant of
the code that breaks it under the same configuration.

Properties, by what they defend:

- `BudgetKept`: one step per turn, on all the `continue`s; never above the budget.
- `NoExternalRepeat`: an external call runs once, after failures and timeouts too.
- `CapsHold`, `RowsBounded`: the caps and the repetition limit.
- `CheckedFinal`: away from the deadline, no answer over evidence that no later
  check has seen, nor against the newest verdict.
- `ResearchedStop`: an open question is not closed before some research call.
- `OverrunBounded`: at most one controller await and one tool await beyond the limit.
- `JudgedCommit`: under the rule controller, the answer *is* the candidate of the
  newest check, and that check said yes. It relates three readings of the
  transcript: the newest candidate, the newest check, the newest evidence.
- `RepeatsInVain`: the rule controller's run is stopped for repeating itself only when it
  has no answer to commit, and then on a `sufficiency_check` that does not come back (the
  default one never raises; a registry with another may), on a fetch beyond its cap that
  stands for a repeated search, or on a tool of which the loop's fallback allows more
  attempts than the loop allows duplicates.
- `RunIsBounded`: the run implements `BoundedRun` with its fairness: every run ends.
- `OpenCommitJudged`: while the newest table is open, a committed answer was accepted by
  the newest check or called sufficient by its tool; neither the model's own nor the
  fallback's last resort gets through.
- `NoEarlySurrender`: while it is open, the run is given up only without a candidate and
  with nothing left to try.
- `CheckedBetween`: on a multi-clue question a check runs between any two results that
  carry evidence.
- `ReadersAgree`: what the check calls sufficient, the LLM controller and the finalizer do
  not hold back for a requirement that is really open.
- `NothingPassedOver`, `GuardsWin`: no judge gets a required output, or a guard, past the
  others.
- `NoGap`, `FirstFound`, `CountTrue`: the history has no hole among what was there when
  the walk began, and its reported first commit is the first unless pages were lost or used
  up. The number reported is never above that of the commits there are, although a commit
  pushed down from one page onto the next is counted twice, and a walk that came to the end
  reports no fewer than there were at its beginning.
- `OneAgentPerContext`, `ContinuedBySame`: agents and contexts correspond, from the id a
  reply carried through the Messenger and the server's table to the agent that runs.
- `EndsOnce`, `AllServed`: each execution reports one terminal status, last, on every path
  of failure, and nobody waits for ever.
- `JoinedOnlyLive`: a message is let in on a task only while an execution of it is under
  way, although the guard reads an old copy.
- `ResetForgets`: only a talk that was under way at a reset can bring a context back.
- `SearchedOnce`: neither within a call, though the queue grows under it, nor across
  calls that were handed the record.
- `SiteStaysScoped`: a search for a site never falls back on the whole web. It may
  move to another site that a wrapper page names (see below).
- `BroadBounded`: the limit, for everything that has no priority. Priority follow-ups
  are not limited by it; there are as many as wrapper pages name.
- `NoBlankTurn`: a call that may fall back searches nothing only if it must not
  repeat anything it could search.
- `SourceSurfaced`: a site found on the way is named to the controller when the call
  found nothing.
- `CallEnds`: the walk ends. Every offer is new to queue and record, so the queries
  run out.
- `RefusalWins`, `AnswerLeavesClean`: the policy gate, over every path of the
  finalizer.
- `BlockedIsUnsupported`, `NoRawFallback`: the open coverage table, which six exits of
  the verifier and, through the verdict only, the fallback must respect.
- `RejectedNotRepeated`: through composer, fallback and spans.
- `CommitDelivered`: the loop's answer is the request's answer unless a model may
  rewrite it; with it, what `ControllerLoop` says of a committed answer is said of
  what the user gets.

Fairness of the loop is `WF_vars(Next)`: the event loop resumes a coroutine whose await
has ended, and every await ends (the tool's by `wait_for` or by the client's own timeout,
the controller's by the client's). Nothing is assumed about which action is taken.
`SearchFallback` assumes it of the work of a call only (`WF_vars(Work)`), by the same
reason; that a controller calls again is not assumed. `Messenger` assumes it of each
execution and of the delivery of each reply: an event queue takes an event, `solve` is
bounded by its steps, its limit and the clients' timeouts, and the transport has a timeout
of its own; it is not assumed that a talk is begun or reset. `Solve`,
`SufficiencyCheck` and `FetchText` state no liveness: each is a straight line of
awaits, with one bounded walk.

### Where the code differs from its documentation

Four runs expect a violation; each checks one sentence of the repository. All
counterexamples were reproduced with the Python code.

- `doc_isolation`: "exception isolation" (`loop.py:8`). With timeouts disabled
  (`PURPLE_TOOL_TIMEOUT_S=off`), a tool's own `TimeoutError` reaches the handler at
  256-263, which formats `None` as a float and raises out of `run`.
- `doc_self_sufficient`: "commit that candidate directly" (`rule_controller.py:7`).
  A calculated result is evidence no check has seen; when the main controller stops,
  the fallback commits the result and the loop turns that into a surrender.
- `doc_malformed`: "falls back to ``Surrender`` on any malformed output"
  (`llm_controller.py:4`). A reply such as `{"action": 1}` raises `AttributeError` at
  line 78; the loop isolates tools only, so the run and the task fail. (What is
  malformed otherwise goes to the rule controller, not to a surrender.)
- `doc_verdict`: "verify_claim (LLM or heuristic; always)" (`README.md:34`). A verdict
  that is a JSON list or object is unhashable; the `TypeError` leaves the finalizer,
  and a task whose loop is finished fails.

Smaller differences, met on the way and without a run:

- `loop.py:5`, 206: skipped external duplicates do not interrupt a row of "back-to-back"
  duplicates. `loop.py:171`: the search-to-fetch swap offers URLs whose fetch failed.
- `rule_controller.py:15-16`: "profile-ranked tools that have not yet been attempted". The
  loop builds its fallback with `max_attempts` (`loop.py:101`), which lets it call a tool
  again (`rule_controller.py:253`). With the default limits a document request can go
  `search_docs`, `extract_answer`, `search_docs`, `search_docs` and then be stopped for
  duplicate calls, before the cap of four is reached.
- `rule_controller.py:196`, 235: after a failed first search the rule controller repeats
  the bare prompt.
- `web_search.py:193-195`, 229: variants of a first exposed site go in front of the second
  site's priority probe, without priority, and the limit may stop the walk there, although
  priority is said to protect the probe.
- `web_search.py:110-111`, 1044: a query without a Latin word or digit has an empty key and
  is searched again in a later call. `rule_controller.py:748` has the same gap: the rule
  controller may ask for such a query again and again, with a longer list of tried ones.
- `web_search.py:197`, 236: a wrapper page leads the walk of one site to another.
- `finalizer.py:99`: the test for repetition sees neither words of fewer than three
  characters nor candidates of fewer than twelve, so a rejected `42` can be emitted
  (`docs/mind2web2-gpt55-three-case.md:32`). `finalizer.py:523`: a confidence of `NaN`
  counts as 1.0.
- `sufficiency_check.py:286`, `finalizer.py:107`, `llm_controller.py:477`: a weak row for an
  optional output, or one that a later row overrules, makes the readers of the table block
  a candidate whose check said yes, although only non-optional outputs must be satisfied
  (`analyze_requirements.py:233`). Complete commit metadata give a yes over an open table,
  and without a candidate.
- `executor.py:37`, 52: a slower execution of a task reports it working after a faster one
  has ended it; while that lasts, a further message is let in.
- `web.py:601`: a page parameter that is no number raises out of `fetch_text`; the loop
  isolates it. `web.py:644`, 681: the look-up of one commit's details raises on JSON of an
  unexpected shape (704-706, 736, 761), and the history or the pull request it belongs to is
  lost with it, although every other failed request is passed over. `web.py:641`: at the
  page limit the commit reported as the oldest of the pages need not be the oldest
  listed, when more than a page was pushed during the walk.

## Theorems

`ControllerLoop_proofs` proves, from the named assumptions on the constants only,
for every registry, request set, budget, cap, call set, answer set and latency:

| Theorem | Statement |
|---|---|
| `TypeCorrect` | `Spec => []TypeOK` |
| `BudgetIsKept` | `Spec => []BudgetKept` |
| `ExternalRunsOnce` | `Spec => []NoExternalRepeat` |
| `FinalIsChecked` | `Spec => []CheckedFinal` |
| `StopIsResearched` | `Spec => []ResearchedStop` |
| `OverrunIsBounded` | `Spec => []OverrunBounded` |
| `RunIsSafe` | `Spec => Bounded!Safe` |
| `RunWindsDown` | `Spec => [](Fuel \in Nat) /\ [][Fuel' < Fuel]_vars` |

The inductive invariant `IInv` adds to `TypeOK` and `BudgetKept`:

- `ActionFits`: what is in hand fits where control is (a final or surrender at the
  gate, a call when dispatching or running);
- `Payable`: away from `top` and `done` a step is left, so that the next record
  keeps the budget;
- `StillRunning`: before `done` there is no outcome and the duplicates are below their
  limit;
- `Over`: at `done` there is an outcome;
- `Remembered`: every external call that ran is in `seen`;
- `Fresh`: a call being run is not in `seen`.

`OverrunIsBounded` adds how late the clock can be (`ClockInv`): within a turn by one
controller await, anywhere by one tool await more.

`NoExternalRepeat` is not inductive alone: that an appended call is new follows from
`Fresh` and `Remembered`, and `Fresh` is established at `Start` and carried over the
await. `CheckedFinal` and `ResearchedStop` follow from the guards of the gates and
from the transcript not changing once the run is over. Lemmas about the shapes the
tools and the rule controller produce are in `RuleController_proofs`; one lemma per
action group says what it keeps. `RunIsSafe` maps a recorded turn to `Turn`, each
stop to `End`, everything else to a stutter. `RunWindsDown`: `Fuel` is five for each step
of the budget that is left plus the place in the loop body, so that every way through the
body pays before it comes back to the top. A run has at most `5 * MaxSteps + 4` steps, for
any controller.

`SearchFallback_proofs` proves, for every set of queries, hosts, keys, groups, variants
and pages, every task and every limit:

| Theorem | Statement |
|---|---|
| `TypeCorrect` | `Spec => []TypeOK` |
| `EachSearchedOnce` | `Spec => []SearchedOnce` |
| `SiteSearchStaysScoped` | `Spec => []SiteStaysScoped` |
| `FallbacksAreBounded` | `Spec => []BroadBounded` |
| `TurnsNotBlank` | `Spec => []NoBlankTurn` |
| `SourcesSurface` | `Spec => []SourceSurfaced` |
| `CallsWindDown` | `Spec => [](Waiting \in Nat) /\ [][WindsDown]_vars` |

The invariant adds that what was executed is in `tried` (`Tried`), that what earlier
calls searched is on record and, in a call that was handed the record, in `tried`
(`OnRecord`), that the queue of a site search holds sites (`ScopedQueue`), and that the
executed queries without priority number at most `attempts` and at most the limit
(`Counted`). `SearchedOnce` needs the first two: a query is searched only if
it is not in `tried`, literally or by its key. For `TurnsNotBlank`: while nothing was
searched, every query open to the call is still queued or barred (`Untouched`), so a walk
that ends with nothing searched has only barred ones behind it. For `SourcesSurface`:
whatever is queued, offered or searched is a site query of a domain to look for sources
on, a broad query or the original (`AllHosted`), and the first query searched by a call
for a site is of its domain (`FirstAtHome`). `CallsWindDown` says why the walk ends
although its queue grows at its head: a step that adds offers has just searched a query
that was not in `tried` and never leaves it, and any other shortens what is queued and
offered.

`Solve_proofs` proves, for every set of texts, every predicate on them, every turn a
tool may record and every reply:

| Theorem | Statement |
|---|---|
| `TypeCorrect` | `Spec => []TypeOK` |
| `RefusalIsFinal` | `Spec => []RefusalWins` |
| `OpenTableBlocks` | `Spec => []BlockedIsUnsupported` |
| `NoExcerptForAnswer` | `Spec => []NoRawFallback` |
| `RejectedStaysOut` | `Spec => []RejectedNotRepeated` |
| `CommitIsDelivered` | `Spec => []CommitDelivered` |
| `DeliveredClean` | `Spec => []AnswerLeavesClean` |

The gates read the transcript again at every stage while the finalizer appends to it,
so the proof rests on one lemma: a turn of the finalizer's own that only reports
changes no reading (`ReadingsKept`). The invariant adds that a dangerous request is
never in the loop (`Barred`), that the candidate is the committed answer unless a model
may have replaced it (`Kept`), that without a model only the gates reject
(`GatesReject`), and that the composed answer is the committed one in the same cases
(`CommitComposed`). `NoRawFallback` is proved from `BlockedIsUnsupported`: the fallback
does not read the table, only the verdict that the table forced.

`LoopLimits_proofs` proves what the limits of the loop and the two controllers amount to,
from the assumptions on the constants and those named here:

| Theorem | Statement | Assumes |
|---|---|---|
| `CapsAreHeld` | `Spec => []CapsHold` | |
| `RowsAreBounded` | `Spec => []RowsBounded` | |
| `EvidenceIsChecked` | `Spec => []CheckedBetween` | `Driver = "llm"` |
| `OpenCommitsJudged` | `Spec => []OpenCommitJudged` | `Driver = "llm"` |
| `SurrendersLate` | `Spec => []NoEarlySurrender` | `Driver = "llm"`, `MaxAttempts >= 1` |
| `CommitIsJudged` | `Spec => []JudgedCommit` | `Driver = "rule"` |
| `RepeatsAreInVain` | `Spec => []RepeatsInVain` | `Driver = "rule"` |
| `RunHasWayOn` | `Spec => []WayOn` | |

- `CapsAreHeld` counts the turns of a tool: a call that is started was below its cap
  (`BelowCap`), and nothing is appended between its start and its return.
- `RowsAreBounded` compares the counter with the row the transcript ends in
  (`RowCounted`): the counter may be ahead of it, since skipped repeats do not break a
  row, but never behind.
- `EvidenceIsChecked`: no unchecked evidence is there when the first call, of
  `analyze_requirements`, is made (`Analysing`), and while some is, the only call in hand
  or awaited is a check (`HeldBack`). It needs every way a call comes to be in
  hand (`ControlShape`): the controller's own, a gate's, the swap of a repeated search.
- `OpenCommitsJudged` and `SurrendersLate` rest on `Backed`: with open requirements, what
  stands at the gate under the LLM controller is its fallback's own action, never the
  model's. With the facts about checks (`CheckFacts`: each echoes the candidate it judged,
  none is sufficient by itself), away from the deadline the fallback
  commits only a judged candidate. A
  surrender is put before the loop's own fallback, which has larger limits; what it finds
  exhausted under those is exhausted under the LLM controller's too (`NothingLeft`).
- `CommitIsJudged`: after a result that is sufficient by itself the rule controller calls
  no check (`AloneUnchecked`), so the evidence gate turns its commit into a surrender, and
  what is committed otherwise was judged by the newest check.
- `RepeatsAreInVain` compares the call in hand with the last one admitted. That one is on
  the transcript with nothing but skipped repeats after it, and its tool was attempted more
  often than the counter says it was repeated (`LastCounted`). The call in hand is the first
  analysis, the research gate's, or one that the rule controller or the fallback chose on
  this very transcript (`CallChosen`). Where the two are equal, a forced call is ruled out,
  a check has not come back, and any other tool is below its limit though attempted more
  often than duplicates are allowed. TLC refuted an earlier, stronger statement, that only
  failing checks repeat: see the differences above.
- `RunHasWayOn`: both controllers have an action for every transcript. The one case that is
  not plain is a result sufficient by itself, which must have a newest one among its like
  (`NewestAlone`).

`SufficiencyCheck_proofs` proves, for every set of requirements, tables of any length and
every reply:

| Theorem | Statement |
|---|---|
| `ReadersDoAgree` | `Spec => []ReadersAgree` |
| `NoOutputPassedOver` | `Spec => []NothingPassedOver` |
| `GuardsDoWin` | `Spec => []GuardsWin` |

The invariant follows the order in which the judges overrule each other: after the table
was gated a yes has no required output missing (`Gated`), the guard on commits has had its
say before the one on lineages (`Guarded`), and that one has the last (`Admitted`). The
readers look for any open row, the gate for a satisfied one of each output; a row both see
differently is about an output nobody required, or one of two about the same.

`FetchText_proofs` proves, for every page size, page limit and length of history:

| Theorem | Statement |
|---|---|
| `TypeCorrect` | `Spec => []TypeOK` |
| `PagesJoin` | `Spec => []NoGap` |
| `FirstIsFound` | `Spec => []FirstFound` |
| `CountIsTrue` | `Spec => []CountTrue` |

Pages are numbered from the newest commit, so a push moves every page up. Hence the page
still to come begins no lower than right below the last commit listed (`Joined`): it may
list commits again and passes over none. `Ended` says that a walk which
lost nothing and had pages left stopped at the first commit, `Pending` that nothing is
listed before the walk and nothing reported before its end. `Counted` says that the
pages of a walk under way were full, so that what was collected is what the next page
skips.

`Messenger_proofs` proves, for every number of messages, talks and interleavings:

| Theorem | Statement |
|---|---|
| `TypeCorrect` | `Spec => []TypeOK` |
| `AgentsPerContext` | `Spec => []OneAgentPerContext` |
| `ExecutionsEndOnce` | `Spec => []EndsOnce` |
| `LiveTasksJoined` | `Spec => []JoinedOnlyLive` |
| `ConversationsContinue` | `Spec => []ContinuedBySame` |
| `ResetIsKept` | `Spec => []ResetForgets` |
| `ClosedForGood` | `Spec => [][\A k : Closed(k) => Closed(k)' /\ state'[k] = state[k]]_vars` |
| `ExecutionsMoveOn` | `Spec => [][\A m : Way[pc'[m]] >= Way[pc[m]] /\ (Execute(m) => Way[pc'[m]] > Way[pc[m]])]_vars` |

An execution is quiet, live or settled; it has reported nothing, nothing terminal, or one
terminal status as its last word (`SaidInPlace`). An agent is made for the context it is
kept under and is never replaced (`Kept`). A task that is not over has a live execution,
and a message let in on a task met one when it came (`Joined`): the copy it carries may be
old, but an execution it shows under way was under way at its arrival. The context id that
is stored, and each that was sent, came with the reply of a talk that returned (`Talked`).

`ClosedForGood` is the converse of the reopening listed under the differences: a slower
execution may report a finished task working again, but once those that were let in have
ended, the state stays what it is. A message that comes then carries a copy that is up to
date, and one that came before and found the task over is refused. `ExecutionsMoveOn` ranks
the places of `execute`: nothing sets an execution back, least of all another one.

### Model-checked only

Every invariant of the runs has a theorem. Liveness under fairness is out of the prover's
reach, and with it `CallEnds`, `AllServed` and the fairness half of `RunIsBounded`; the
safety half of the refinement is `RunIsSafe`. What is proved is the argument each of the
three rests on:

- `RunIsBounded`: `RunWindsDown`, a measure that every step lowers, and `RunHasWayOn`, that
  a step can be taken until the run is over. Only "what can be done is done" is left to
  the fairness of the event loop.
- `CallEnds`: `CallsWindDown`. The order it descends in is well-founded when the queries are
  finitely many, as in any instance; nothing in the code bounds how many site queries the
  wrapper pages of a real web give away.
- `AllServed`: `ExecutionsMoveOn`, with finitely many messages.

That a guard is true is stated as such, as `ENABLED` cannot be reasoned about either.

No module declares a recursive operator; walks and counts are by sets and sequences.

## Not modelled

- *LLM clients, searching, HTML and PDF extraction* (`purple/llm.py`, most of
  `purple/tools/`): requests in worker threads and text processing, without a decision that
  is kept. Their answers are open choices, their time is a latency.
- *Protocols, adapter and schema*: the parsing and formatting of one message. What it can
  come to are the kinds of message in `Service`; the wording is nobody's property.
- *Text helpers, prompts, skills, requirement wording*: pure functions of text. Where a
  decision depends on one (is a query a site query, is an answer an admission), the
  decision's outcome is a set or an open choice.
- *Profiler*: scores by keywords; the capabilities selected are part of the request.
- *Trace output and artifacts' layout*: written and never read.
- *Legacy specialists* (`purple/specialists/`): not wired into the orchestrator.
- *Server start-up*: command line and wiring.
- *The a2a library and GitHub* are external; they are modelled from how this code uses
  them, and marked so in `PROJECT.json`.
