----------------------------- MODULE Messenger -----------------------------
(***************************************************************************)
(* One Messenger talking to a peer that runs this very server, next to     *)
(* other clients of the server. talk_to_agent reads the peer's context id  *)
(* before its await and writes it after; in between the other talks, reset *)
(* and the server go on.                                                   *)
(*                                                                         *)
(* The peer is one URL, so _context_ids is one value. A talk is named by   *)
(* the message it sends. The transport is external: a reply carries the    *)
(* task's context and status, and a talk may time out at any time while    *)
(* its message goes on being served.                                       *)
(***************************************************************************)
EXTENDS Service

CONSTANT Talks (* the messages this Messenger sends *)

ASSUME TalksAssumption == Talks \subseteq Messages

VARIABLES
  stored,  (* _context_ids[url], or None                                   *)
  talk,    (* where a talk is                                              *)
  sent,    (* the context id a talk sent                                   *)
  since    (* the talks under way at the last reset or begun after it      *)
           (* (history)                                                    *)

vars == <<serviceVars, stored, talk, sent, since>>

(* send_message: without a context id the server opens a new context.      *)
Send(t, fresh) ==
  /\ talk[t] = "idle"
  /\ LET in == IF fresh THEN None ELSE stored
     IN  sent' = [sent EXCEPT ![t] = in] /\ Arrive(t, "plain", None, in)
  /\ talk' = [talk EXCEPT ![t] = "waiting"]
  /\ since' = since \cup {t}
  /\ UNCHANGED stored

(* Faulty variant: the id is kept before the status is tested              *)
Reply_Early(t) ==
  /\ talk[t] = "waiting" /\ pc[t] = "done"
  /\ talk' = [talk EXCEPT ![t] =
               IF said[t][Len(said[t])] = "completed" THEN "returned" ELSE "raised"]
  /\ stored' = context[t]
  /\ UNCHANGED <<serviceVars, sent, since>>

(* The reply's status: a talk that did not complete raises and leaves the  *)
(* conversation where it was.                                              *)
Reply(t) ==
  /\ talk[t] = "waiting" /\ pc[t] = "done"
  /\ IF said[t][Len(said[t])] = "completed"
       THEN talk' = [talk EXCEPT ![t] = "returned"] /\ stored' = context[t]
       ELSE talk' = [talk EXCEPT ![t] = "raised"] /\ UNCHANGED stored
  /\ UNCHANGED <<serviceVars, sent, since>>

TimeOut(t) ==
  /\ talk[t] = "waiting"
  /\ talk' = [talk EXCEPT ![t] = "raised"]
  /\ UNCHANGED <<serviceVars, stored, sent, since>>

(* Faulty variant: nothing is forgotten                                    *)
Reset_Lazy ==
  /\ since' = {t \in Talks : talk[t] = "waiting"}
  /\ UNCHANGED <<serviceVars, stored, talk, sent>>

Reset ==
  /\ stored' = None
  /\ since' = {t \in Talks : talk[t] = "waiting"}
  /\ UNCHANGED <<serviceVars, talk, sent>>

-----------------------------------------------------------------------------
Init ==
  /\ ServiceInit
  /\ stored = None
  /\ talk = [t \in Talks |-> "idle"]
  /\ sent = [t \in Talks |-> None]
  /\ since = {}

Client ==
  \/ \E t \in Talks : \E fresh \in BOOLEAN : Send(t, fresh)
  \/ \E t \in Talks : Reply(t) \/ TimeOut(t)
  \/ Reset
Elsewhere ==
  /\ \E m \in Messages \ Talks : Submit(m)
  /\ UNCHANGED <<stored, talk, sent, since>>
Serve ==
  /\ \E m \in Messages : Execute(m)
  /\ UNCHANGED <<stored, talk, sent, since>>

Next == Client \/ Elsewhere \/ Serve

(* Every await of an execution ends: the event queue takes an event, and   *)
(* solve is bounded by its steps, its time limit and the clients' timeouts.*)
(* The transport delivers a reply or times out.                            *)
Spec ==
  /\ Init /\ [][Next]_vars
  /\ \A m \in Messages :
       WF_vars(Execute(m) /\ UNCHANGED <<stored, talk, sent, since>>)
  /\ \A t \in Talks : WF_vars(Reply(t))
-----------------------------------------------------------------------------
(* Properties                                                              *)

TypeOK ==
  /\ ServiceTypeOK
  /\ stored \in Messages \cup {None}
  /\ talk \in [Talks -> {"idle", "waiting", "returned", "raised"}]
  /\ sent \in [Talks -> Messages \cup {None}]
  /\ since \subseteq Talks

(* A continued conversation reaches the very Agent that answered before:   *)
(* from the id one reply carried, through the Messenger and the server's   *)
(* table of agents, to the agent that runs.                                *)
ContinuedBySame ==
  \A t \in Talks :
    sent[t] # None /\ agent[t] # None =>
      \E u \in Talks \ {t} : talk[u] = "returned" /\ agent[u] = agent[t]

(* What reset forgot comes back only through a talk that was under way at  *)
(* the time.                                                               *)
ResetForgets ==
  stored # None => \E t \in since : talk[t] = "returned" /\ context[t] = stored

(* Messages are finite and none comes twice, so in the end each one given  *)
(* to the server is refused or its task reported over, and each talk has   *)
(* returned or raised: no execution and no caller hangs.                   *)
AllServed ==
  <>[](/\ \A m \in Messages : pc[m] \in {"idle", "done", "refused"}
       /\ \A t \in Talks : talk[t] # "waiting")
=============================================================================
