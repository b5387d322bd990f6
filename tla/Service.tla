------------------------------ MODULE Service ------------------------------
(***************************************************************************)
(* The A2A server: Executor.execute and the Agent.run it awaits, for       *)
(* several messages at once. Each await lets the others run; what lies     *)
(* between two awaits is one step.                                         *)
(*                                                                         *)
(* The a2a library is not part of the repository. It is modelled from what *)
(* the executor does with it: a request context holds the task the message *)
(* refers to as it was when the context was built; TaskUpdater raises when *)
(* a status is reported after a terminal one. A message that opens a task  *)
(* or a context gives it its name.                                         *)
(***************************************************************************)
EXTENDS Naturals, Sequences, FiniteSets

CONSTANTS
  Messages,
  None,      (* no task, no context, no agent                              *)
  Offered,   (* the kinds of message considered                            *)
  Debug      (* PURPLE_ENABLE_DEBUG_ARTIFACT                               *)

ASSUME MessagesAssumption == None \notin Messages
ASSUME DebugAssumption == Debug \in BOOLEAN

(* "shell" is a payload of the shell-loop protocol, "broken" one whose kind*)
(* cannot be looked up in a set; "tools" advertises structured tools.      *)
Kinds == {"shell", "broken", "plain", "tools"}
ASSUME OfferedAssumption == Offered \subseteq Kinds
Terminal == {"completed", "failed"}
States == {"submitted", "working"} \cup Terminal
ASSUME NoneAssumption == None \notin States

VARIABLES
  pc,      (* where the execution of a message is                          *)
  kind,    (* what the message is                                          *)
  task,    (* the task it runs on, named after the message that opened it  *)
  context, (* its context, named likewise                                  *)
  found,   (* the state of current_task when the request was built         *)
  met,     (* the executions under way at that time (history)              *)
  agents,  (* Executor.agents: context to the message it was made for      *)
  agent,   (* the agent an execution runs                                  *)
  state,   (* task store: the state of a task                              *)
  said     (* the events an execution has put on the queue                 *)

serviceVars == <<pc, kind, task, context, found, met, agents, agent, state, said>>

Reached(m) == \E i \in DOMAIN said[m] : said[m][i] \in Terminal
Running == {m \in Messages : pc[m] \notin {"idle", "done", "refused", "escaped"}}

(* An event and the state it puts the task in                              *)
Report(m, event) ==
  /\ said' = [said EXCEPT ![m] = Append(@, event)]
  /\ state' = IF event \in States THEN [state EXCEPT ![task[m]] = event] ELSE state
Go(m, place) == pc' = [pc EXCEPT ![m] = place]

(* The library builds the request context; `on' is a task known to the     *)
(* store or None, `in' a context or None.                                  *)
Arrive(m, k, on, in) ==
  /\ pc[m] = "idle"
  /\ Go(m, "built")
  /\ kind' = [kind EXCEPT ![m] = k]
  /\ task' = [task EXCEPT ![m] = IF on = None THEN m ELSE on]
  /\ context' = [context EXCEPT ![m] =
                   IF on # None THEN context[on] ELSE IF in # None THEN in ELSE m]
  /\ found' = [found EXCEPT ![m] = IF on = None THEN None ELSE state[on]]
  /\ met' = [met EXCEPT ![m] = Running]
  /\ UNCHANGED <<agents, agent, state, said>>

-----------------------------------------------------------------------------
(* Executor.execute                                                        *)

(* Faulty variant: a failed task is run again                              *)
Processed_Completed(m) == found[m] = "completed"

Processed(m) == found[m] \in Terminal

Refuse(m) ==
  /\ pc[m] = "built" /\ Processed(m)
  /\ Go(m, "refused")
  /\ UNCHANGED <<kind, task, context, found, met, agents, agent, state, said>>

OpenTask(m) ==
  /\ pc[m] = "built" /\ found[m] = None
  /\ Report(m, "submitted")
  /\ Go(m, "opened")
  /\ UNCHANGED <<kind, task, context, found, met, agents, agent>>

(* Faulty variant: agents are kept by task                                 *)
StartWork_ByTask(m) ==
  /\ \/ pc[m] = "opened"
     \/ pc[m] = "built" /\ found[m] # None /\ ~Processed(m)
  /\ agents' = [agents EXCEPT ![task[m]] = IF @ = None THEN m ELSE @]
  /\ agent' = [agent EXCEPT ![m] = agents'[task[m]]]
  /\ Report(m, "working")
  /\ Go(m, "agent")
  /\ UNCHANGED <<kind, task, context, found, met>>

(* The context's agent is looked up, or made and kept, and start_work is   *)
(* awaited: no await comes between the look-up and the assignment.         *)
StartWork(m) ==
  /\ \/ pc[m] = "opened"
     \/ pc[m] = "built" /\ found[m] # None /\ ~Processed(m)
  /\ agents' = [agents EXCEPT ![context[m]] = IF @ = None THEN m ELSE @]
  /\ agent' = [agent EXCEPT ![m] = agents'[context[m]]]
  /\ Report(m, "working")
  /\ Go(m, "agent")
  /\ UNCHANGED <<kind, task, context, found, met>>

(* Faulty variants: completed whether or not the agent did so, and never   *)
(* left after it did                                                       *)
Wrap_Always(m) ==
  /\ pc[m] = "returned"
  /\ IF Reached(m) THEN Go(m, "failing") /\ UNCHANGED <<said, state>>
                   ELSE Report(m, "completed") /\ Go(m, "done")
  /\ UNCHANGED <<kind, task, context, found, met, agents, agent>>

Wrap_Unreached(m) ==
  /\ pc[m] = "returned" /\ ~Reached(m)
  /\ Report(m, "completed") /\ Go(m, "done")
  /\ UNCHANGED <<kind, task, context, found, met, agents, agent>>

(* The agent has returned: complete the task unless it is over.            *)
Wrap(m) ==
  /\ pc[m] = "returned"
  /\ IF Reached(m) THEN UNCHANGED <<said, state>> ELSE Report(m, "completed")
  /\ Go(m, "done")
  /\ UNCHANGED <<kind, task, context, found, met, agents, agent>>

(* The agent has raised: failed() itself raises when the task is over.     *)
FailTask(m) ==
  /\ pc[m] = "failing"
  /\ IF Reached(m) THEN Go(m, "escaped") /\ UNCHANGED <<said, state>>
                   ELSE Go(m, "done") /\ Report(m, "failed")
  /\ UNCHANGED <<kind, task, context, found, met, agents, agent>>

-----------------------------------------------------------------------------
(* Agent.run                                                               *)

Local == UNCHANGED <<kind, task, context, found, met, agents, agent>>

RaiseIn(m, places) ==
  /\ pc[m] \in places
  /\ Go(m, "failing")
  /\ Local /\ UNCHANGED <<said, state>>

AnswerShell(m) ==
  /\ pc[m] = "agent" /\ kind[m] = "shell"
  /\ Report(m, "completed")
  /\ Go(m, "returned")
  /\ Local

RejectBroken(m) == kind[m] = "broken" /\ RaiseIn(m, {"agent"})

(* The request is read and "Profiling task..." reported.                   *)
Profile(m) ==
  /\ pc[m] = "agent" /\ kind[m] \in {"plain", "tools"}
  /\ Report(m, "working")
  /\ Go(m, "solving")
  /\ Local

(* solve returns; a message with tools is answered by a tool call, another *)
(* by the answer, after the debug artifact if there is to be one.          *)
Solve(m) ==
  /\ pc[m] = "solving"
  /\ IF Debug /\ kind[m] = "plain"
       THEN Report(m, "artifact") /\ Go(m, "shown")
       ELSE Report(m, "completed") /\ Go(m, "returned")
  /\ Local

SolveRaises(m) == RaiseIn(m, {"solving"})

AnswerShown(m) ==
  /\ pc[m] = "shown"
  /\ Report(m, "completed")
  /\ Go(m, "returned")
  /\ Local

-----------------------------------------------------------------------------
ServiceInit ==
  /\ pc = [m \in Messages |-> "idle"]
  /\ kind = [m \in Messages |-> "plain"]
  /\ task = [m \in Messages |-> None]
  /\ context = [m \in Messages |-> None]
  /\ found = [m \in Messages |-> None]
  /\ met = [m \in Messages |-> {}]
  /\ agents = [m \in Messages |-> None]
  /\ agent = [m \in Messages |-> None]
  /\ state = [m \in Messages |-> None]
  /\ said = [m \in Messages |-> <<>>]

(* A client's message: on a task of the store, in a context, or neither    *)
Submit(m) ==
  \E k \in Offered :
    \/ Arrive(m, k, None, None)
    \/ \E on \in {n \in Messages : state[n] # None} : Arrive(m, k, on, None)
    \/ \E in \in {context[n] : n \in {l \in Messages : state[l] # None}} :
         Arrive(m, k, None, in)

Execute(m) ==
  \/ Refuse(m) \/ OpenTask(m) \/ StartWork(m) \/ Wrap(m) \/ FailTask(m)
  \/ AnswerShell(m) \/ RejectBroken(m) \/ Profile(m)
  \/ Solve(m) \/ SolveRaises(m) \/ AnswerShown(m)
-----------------------------------------------------------------------------
(* Properties                                                              *)

Places ==
  {"idle", "built", "opened", "agent", "solving", "shown", "returned",
   "failing", "done", "refused", "escaped"}
ServiceTypeOK ==
  /\ pc \in [Messages -> Places]
  /\ kind \in [Messages -> Kinds]
  /\ task \in [Messages -> Messages \cup {None}]
  /\ context \in [Messages -> Messages \cup {None}]
  /\ found \in [Messages -> States \cup {None}]
  /\ met \in [Messages -> SUBSET Messages]
  /\ agents \in [Messages -> Messages \cup {None}]
  /\ agent \in [Messages -> Messages \cup {None}]
  /\ state \in [Messages -> States \cup {None}]
  /\ said \in [Messages -> Seq(States \cup {"artifact"})]

(* Two messages run the same Agent exactly when they are of one context,   *)
(* however their executions interleave.                                    *)
OneAgentPerContext ==
  \A m, n \in Messages :
    agent[m] # None /\ agent[n] # None =>
      (agent[m] = agent[n] <=> context[m] = context[n])

(* An execution that was let in reports exactly one terminal status, as its*)
(* last event, and no exception leaves it; one that was refused reports    *)
(* nothing.                                                                *)
EndsOnce ==
  \A m \in Messages :
    /\ pc[m] # "escaped"
    /\ pc[m] = "refused" => said[m] = <<>>
    /\ pc[m] = "done" => Reached(m)
    /\ \A i \in DOMAIN said[m] : said[m][i] \in Terminal => i = Len(said[m])

(* A message is let in on an existing task only while an execution of that *)
(* task is under way: the guard reads the task as it was when the request  *)
(* was built, and a slower execution may reopen what a faster one ended,   *)
(* but once all have ended the task stays as it is.                        *)
JoinedOnlyLive ==
  \A n \in Messages :
    said[n] # <<>> /\ task[n] # n =>
      \E l \in met[n] : task[l] = task[n] /\ pc[l] # "refused"
=============================================================================
