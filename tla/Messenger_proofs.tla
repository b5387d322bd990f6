--------------------------- MODULE Messenger_proofs ---------------------------
(***************************************************************************)
(* The server and the Messenger, for any number of messages, contexts and  *)
(* talks. The argument runs along the life of an execution: quiet before it*)
(* is let in, live until it reports its task over, settled after that.     *)
(***************************************************************************)
EXTENDS Messenger, SequenceTheorems, TLAPS

Quiet == {"idle", "built", "refused"}
Live == {"opened", "agent", "solving", "shown", "failing"}
Settled == {"returned", "done"}
Events == States \cup {"artifact"}

(* Nothing is said before an execution is let in, nothing terminal while it*)
(* is live, and the last thing said is the first that is terminal.         *)
SaidInPlace ==
  \A m \in Messages :
    /\ pc[m] # "escaped"
    /\ pc[m] \in Quiet => said[m] = <<>>
    /\ pc[m] \in Live => \A i \in DOMAIN said[m] : said[m][i] \notin Terminal
    /\ pc[m] \in Settled =>
         /\ said[m] # <<>> /\ said[m][Len(said[m])] \in Terminal
         /\ \A i \in DOMAIN said[m] : said[m][i] \in Terminal => i = Len(said[m])

(* What a message is about is known from its arrival on.                   *)
Named ==
  /\ \A m \in Messages : pc[m] # "idle" =>
       /\ task[m] \in Messages /\ pc[task[m]] # "idle"
       /\ context[m] \in Messages
  /\ \A m \in Messages : state[m] # None => pc[m] # "idle"

(* Agents are made for the context they are kept under.                    *)
Kept ==
  /\ \A m \in Messages : agent[m] # None =>
       pc[m] # "idle" /\ agents[context[m]] = agent[m]
  /\ \A c \in Messages : agents[c] # None =>
       agents[c] \in Messages /\ pc[agents[c]] # "idle" /\ context[agents[c]] = c
  /\ \A m \in Messages :
       pc[m] \in (Live \ {"opened"}) \cup Settled => agent[m] # None

(* A task that is not over has a live execution; one that was joined had   *)
(* one when the message came.                                              *)
Joined ==
  /\ \A k \in Messages : state[k] \in {"submitted", "working"} =>
       \E l \in Messages : task[l] = k /\ pc[l] \in Live
  /\ \A m \in Messages : pc[m] \in Live \cup Settled => found[m] \notin Terminal
  /\ \A n \in Messages : pc[n] # "idle" /\ task[n] # n /\ found[n] \notin Terminal =>
       \E l \in met[n] : task[l] = task[n] /\ pc[l] \notin Quiet

ServiceInv == ServiceTypeOK /\ SaidInPlace /\ Named /\ Kept /\ Joined

(* The id that is stored, and each one that was sent, came with the reply  *)
(* of a talk that returned.                                                *)
Talked ==
  /\ stored \in Messages \cup {None} /\ since \subseteq Talks
  /\ talk \in [Talks -> {"idle", "waiting", "returned", "raised"}]
  /\ sent \in [Talks -> Messages \cup {None}]
  /\ \A t \in Talks : talk[t] = "waiting" => t \in since
  /\ \A t \in Talks : talk[t] = "returned" => pc[t] = "done"
  /\ stored # None => \E t \in since : talk[t] = "returned" /\ context[t] = stored
  /\ \A t \in Talks : sent[t] # None =>
       /\ pc[t] # "idle" /\ context[t] = sent[t]
       /\ \E u \in Talks \ {t} : talk[u] = "returned" /\ context[u] = sent[t]

IInv == ServiceInv /\ Talked

(* What no step of the server takes back                                   *)
Onward ==
  \A n \in Messages : pc[n] # "idle" =>
    /\ pc'[n] # "idle" /\ context'[n] = context[n]
    /\ pc[n] = "done" => pc'[n] = "done"

-----------------------------------------------------------------------------
LEMMA Said ==
  ASSUME NEW s \in Seq(Events), NEW e \in Events
  PROVE  /\ Append(s, e) \in Seq(Events) /\ Append(s, e) # <<>>
         /\ Len(Append(s, e)) = Len(s) + 1
         /\ DOMAIN Append(s, e) = 1 .. Len(s) + 1
         /\ DOMAIN s = 1 .. Len(s) /\ Len(s) \in Nat
         /\ Append(s, e)[Len(s) + 1] = e
         /\ \A i \in 1 .. Len(s) : Append(s, e)[i] = s[i]
<1>1. /\ Append(s, e) \in Seq(Events)
      /\ Len(Append(s, e)) = Len(s) + 1
      /\ \A i \in 1 .. Len(s) : Append(s, e)[i] = s[i]
      /\ Append(s, e)[Len(s) + 1] = e
  BY AppendProperties
<1>2. /\ DOMAIN Append(s, e) = 1 .. Len(Append(s, e))
      /\ DOMAIN s = 1 .. Len(s) /\ Len(s) \in Nat
  BY <1>1, LenProperties
<1>3. Append(s, e) # <<>>
  BY <1>1, <1>2, EmptySeq
<1> QED
  BY <1>1, <1>2, <1>3

LEMMA InitService == ServiceInit => ServiceInv
<1> SUFFICES ASSUME ServiceInit PROVE ServiceInv
  OBVIOUS
<1>1. ServiceTypeOK
  <2>1. said \in [Messages -> Seq(States \cup {"artifact"})]
    BY EmptySeq DEF ServiceInit
  <2> QED
    BY <2>1 DEF ServiceInit, ServiceTypeOK, Places, Kinds
<1>2. SaidInPlace
  BY DEF ServiceInit, SaidInPlace, Quiet, Live, Settled
<1>3. \A m \in Messages : /\ pc[m] = "idle" /\ agent[m] = None /\ agents[m] = None
                           /\ state[m] = None
  BY DEF ServiceInit
<1>4. Named /\ Kept
  BY <1>3 DEF Named, Kept, Live, Settled
<1>5. None \notin {"submitted", "working"}
  BY NoneAssumption DEF States
<1>6. Joined
  BY <1>3, <1>5 DEF Joined, Live, Settled
<1> QED
  BY <1>1, <1>2, <1>4, <1>6 DEF ServiceInv

(* A message arrives.                                                      *)
LEMMA ArriveKeeps ==
  ASSUME ServiceInv, NEW m \in Messages, NEW k \in Kinds,
         NEW on \in Messages \cup {None}, on # None => state[on] # None,
         NEW in \in Messages \cup {None},
         Arrive(m, k, on, in)
  PROVE  ServiceInv' /\ Onward
<1>0. ServiceTypeOK /\ SaidInPlace /\ Named /\ Kept /\ Joined /\ None \notin Messages
  BY MessagesAssumption DEF ServiceInv
<1>1. /\ pc[m] = "idle"
      /\ pc' = [pc EXCEPT ![m] = "built"]
      /\ kind' = [kind EXCEPT ![m] = k]
      /\ task' = [task EXCEPT ![m] = IF on = None THEN m ELSE on]
      /\ context' = [context EXCEPT ![m] =
                       IF on # None THEN context[on] ELSE IF in # None THEN in ELSE m]
      /\ found' = [found EXCEPT ![m] = IF on = None THEN None ELSE state[on]]
      /\ met' = [met EXCEPT ![m] = Running]
      /\ UNCHANGED <<agents, agent, state, said>>
  BY DEF Arrive, Go
<1>2. on # None => on \in Messages /\ on # m /\ pc[on] # "idle" /\ context[on] \in Messages
  BY <1>0, <1>1 DEF Named
<1>3. Running \subseteq Messages
  BY DEF Running
<1>4. ServiceTypeOK'
  <2>1. context'[m] \in Messages /\ task'[m] \in Messages
    BY <1>0, <1>1, <1>2 DEF ServiceTypeOK
  <2> QED
    BY <1>0, <1>1, <1>2, <1>3, <2>1 DEF ServiceTypeOK, Places
<1>5. SaidInPlace'
  <2> SUFFICES ASSUME NEW n \in Messages
      PROVE  /\ pc'[n] # "escaped"
             /\ pc'[n] \in Quiet => said'[n] = <<>>
             /\ pc'[n] \in Live => \A i \in DOMAIN said'[n] : said'[n][i] \notin Terminal
             /\ pc'[n] \in Settled =>
                  /\ said'[n] # <<>> /\ said'[n][Len(said'[n])] \in Terminal
                  /\ \A i \in DOMAIN said'[n] :
                       said'[n][i] \in Terminal => i = Len(said'[n])
    BY DEF SaidInPlace
  <2>1. said' = said
    BY <1>1
  <2>2. CASE n = m
    <3>1. said[m] = <<>> /\ pc'[m] = "built"
      BY <1>0, <1>1 DEF SaidInPlace, Quiet, ServiceTypeOK
    <3> QED
      BY <2>1, <2>2, <3>1 DEF Live, Settled
  <2>3. CASE n # m
    <3>1. pc'[n] = pc[n]
      BY <1>0, <1>1, <2>3 DEF ServiceTypeOK
    <3> QED
      BY <1>0, <2>1, <3>1 DEF SaidInPlace
  <2> QED
    BY <2>2, <2>3
<1>6. /\ \A n \in Messages : n # m =>
           /\ pc'[n] = pc[n] /\ task'[n] = task[n] /\ context'[n] = context[n]
           /\ found'[n] = found[n] /\ met'[n] = met[n]
      /\ pc'[m] = "built" /\ task'[m] = IF on = None THEN m ELSE on
      /\ context'[m] = IF on # None THEN context[on] ELSE IF in # None THEN in ELSE m
      /\ found'[m] = IF on = None THEN None ELSE state[on]
      /\ met'[m] = Running
  BY <1>0, <1>1 DEF ServiceTypeOK
<1>7. Named'
  BY <1>0, <1>1, <1>2, <1>6 DEF Named
<1>8. Kept'
  <2>1. agent[m] = None /\ \A c \in Messages : agents[c] # m
    BY <1>0, <1>1 DEF Kept
  <2> QED
    BY <1>0, <1>1, <1>6, <2>1 DEF Kept, Live, Settled
<1>9. Joined'
  <2>1. \A l \in Messages : pc[l] \in Live \/ pc[l] \notin Quiet =>
          l # m /\ task'[l] = task[l] /\ pc'[l] = pc[l]
    BY <1>1, <1>6 DEF Live, Quiet
  <2>2. \A j \in Messages : state'[j] \in {"submitted", "working"} =>
          \E l \in Messages : task'[l] = j /\ pc'[l] \in Live
    BY <1>0, <1>1, <2>1 DEF Joined
  <2>3. \A n \in Messages : pc'[n] \in Live \cup Settled => found'[n] \notin Terminal
    BY <1>0, <1>6 DEF Joined, Live, Settled
  <2>4. ASSUME NEW n \in Messages, pc'[n] # "idle", task'[n] # n, found'[n] \notin Terminal
        PROVE  \E l \in met'[n] : task'[l] = task'[n] /\ pc'[l] \notin Quiet
    <3>1. CASE n = m
      <4>1. on # None /\ state[on] \in {"submitted", "working"}
        BY <1>0, <1>2, <1>6, <2>4, <3>1 DEF ServiceTypeOK, States, Terminal
      <4>2. PICK l \in Messages : task[l] = on /\ pc[l] \in Live
        BY <1>0, <1>2, <4>1 DEF Joined
      <4>3. l \in Running
        BY <4>2 DEF Running, Live
      <4> QED
        BY <1>6, <2>1, <3>1, <4>1, <4>2, <4>3 DEF Live, Quiet
    <3>2. CASE n # m
      <4>1. PICK l \in met[n] : task[l] = task[n] /\ pc[l] \notin Quiet
        BY <1>0, <1>6, <2>4, <3>2 DEF Joined
      <4>2. l \in Messages
        BY <1>0 DEF ServiceTypeOK
      <4> QED
        BY <1>6, <2>1, <3>2, <4>1, <4>2
    <3> QED
      BY <3>1, <3>2
  <2> QED
    BY <2>2, <2>3, <2>4 DEF Joined
<1>10. Onward
  BY <1>1, <1>6 DEF Onward
<1> QED
  BY <1>4, <1>5, <1>7, <1>8, <1>9, <1>10 DEF ServiceInv

(* What a step of an execution does: it is turned away, speaks, fails, ends*)
(* its task or leaves.                                                     *)
Turned(m) == pc[m] = "built" /\ pc' = [pc EXCEPT ![m] = "refused"] /\ UNCHANGED <<said, state>>
Speaks(m) ==
  /\ pc[m] \in Live \cup {"built"} /\ found[m] \notin Terminal
  /\ \E p \in Live : pc' = [pc EXCEPT ![m] = p]
  /\ \E e \in Events \ Terminal : Report(m, e)
Fails(m) == pc[m] \in Live /\ pc' = [pc EXCEPT ![m] = "failing"] /\ UNCHANGED <<said, state>>
Ends(m) ==
  /\ pc[m] \in Live
  /\ \E p \in Settled : pc' = [pc EXCEPT ![m] = p]
  /\ \E e \in Terminal : Report(m, e)
Leaves(m) == pc[m] = "returned" /\ pc' = [pc EXCEPT ![m] = "done"] /\ UNCHANGED <<said, state>>

Takes(m) ==
  /\ agents' = [agents EXCEPT ![context[m]] = IF @ = None THEN m ELSE @]
  /\ agent' = [agent EXCEPT ![m] = agents'[context[m]]]
Served == (Live \ {"opened"}) \cup Settled

LEMMA ExecuteSummary ==
  ASSUME ServiceInv, NEW m \in Messages, Execute(m)
  PROVE  /\ UNCHANGED <<kind, task, context, found, met>> /\ pc[m] # "idle"
         /\ Turned(m) \/ Speaks(m) \/ Fails(m) \/ Ends(m) \/ Leaves(m)
         /\ \/ Takes(m)
            \/ UNCHANGED <<agents, agent>> /\ (pc'[m] \in Served => pc[m] \in Served)
<1>0. ServiceTypeOK /\ SaidInPlace /\ Joined
  BY DEF ServiceInv
<1>1. CASE Refuse(m)
  BY <1>0, <1>1 DEF Refuse, Go, Turned, Served, Live, Settled, ServiceTypeOK
<1>2. CASE OpenTask(m)
  BY <1>0, <1>2, NoneAssumption
     DEF OpenTask, Go, Speaks, Served, Live, Settled, ServiceTypeOK, Events, States, Terminal
<1>3. CASE StartWork(m)
  <2>1. found[m] \notin Terminal
    BY <1>0, <1>3 DEF StartWork, Processed, Joined, Live
  <2> QED
    BY <1>0, <1>3, <2>1 DEF StartWork, Go, Speaks, Takes, Live, Events, States, Terminal
<1>4. CASE Wrap(m)
  <2>1. Reached(m)
    BY <1>0, <1>4, LenProperties DEF Wrap, Reached, SaidInPlace, Settled, ServiceTypeOK
  <2> QED
    BY <1>0, <1>4, <2>1 DEF Wrap, Go, Leaves, Served, Live, Settled, ServiceTypeOK
<1>5. CASE FailTask(m)
  <2>1. ~Reached(m)
    BY <1>0, <1>5 DEF FailTask, Reached, SaidInPlace, Live
  <2> QED
    BY <1>0, <1>5, <2>1
       DEF FailTask, Go, Ends, Served, Live, Settled, ServiceTypeOK, Terminal
<1>6. CASE AnswerShell(m) \/ AnswerShown(m)
  BY <1>0, <1>6 DEF AnswerShell, AnswerShown, Local, Go, Ends, Served, Live, Settled,
                    ServiceTypeOK, Terminal
<1>7. CASE RejectBroken(m) \/ SolveRaises(m)
  BY <1>0, <1>7 DEF RejectBroken, SolveRaises, RaiseIn, Local, Go, Fails, Served, Live,
                    Settled, ServiceTypeOK
<1>8. CASE Profile(m)
  <2>1. found[m] \notin Terminal
    BY <1>0, <1>8 DEF Profile, Joined, Live
  <2> QED
    BY <1>0, <1>8, <2>1 DEF Profile, Local, Go, Speaks, Served, Live, Settled,
                            ServiceTypeOK, Events, States, Terminal
<1>9. CASE Solve(m)
  <2>1. found[m] \notin Terminal
    BY <1>0, <1>9 DEF Solve, Joined, Live
  <2>2. Speaks(m) \/ Ends(m)
    BY <1>0, <1>9, <2>1 DEF Solve, Go, Speaks, Ends, Live, Settled,
                            ServiceTypeOK, Events, States, Terminal
  <2>3. pc[m] \in Served /\ pc[m] # "idle"
    BY <1>9 DEF Solve, Served, Live
  <2>4. UNCHANGED <<kind, task, context, found, met, agents, agent>>
    BY <1>9 DEF Solve, Local
  <2> QED
    BY <2>2, <2>3, <2>4
<1> QED
  BY <1>1, <1>2, <1>3, <1>4, <1>5, <1>6, <1>7, <1>8, <1>9 DEF Execute

(* An execution takes a step.                                              *)
LEMMA ExecuteKeeps ==
  ASSUME ServiceInv, NEW m \in Messages, Execute(m)
  PROVE  ServiceInv' /\ Onward
<1>0. ServiceTypeOK /\ SaidInPlace /\ Named /\ Kept /\ Joined /\ None \notin Messages
  BY MessagesAssumption DEF ServiceInv
<1>1. /\ UNCHANGED <<kind, task, context, found, met>> /\ pc[m] # "idle"
      /\ Turned(m) \/ Speaks(m) \/ Fails(m) \/ Ends(m) \/ Leaves(m)
      /\ \/ Takes(m)
         \/ UNCHANGED <<agents, agent>> /\ (pc'[m] \in Served => pc[m] \in Served)
  BY ExecuteSummary
<1>2. task[m] \in Messages /\ context[m] \in Messages /\ pc[task[m]] # "idle"
  BY <1>0, <1>1 DEF Named
<1>3. /\ pc' \in [Messages -> Places] /\ pc'[m] # "idle"
      /\ \A n \in Messages : n # m => pc'[n] = pc[n]
  BY <1>0, <1>1 DEF ServiceTypeOK, Turned, Speaks, Fails, Ends, Leaves, Live, Settled, Places
<1>4. /\ said' \in [Messages -> Seq(Events)] /\ state' \in [Messages -> States \cup {None}]
      /\ \A n \in Messages : n # m => said'[n] = said[n]
      /\ \A k \in Messages : k # task[m] => state'[k] = state[k]
  <2>1. CASE UNCHANGED <<said, state>>
    BY <1>0, <2>1 DEF ServiceTypeOK, Events
  <2>2. ASSUME NEW e \in Events, Report(m, e)
        PROVE  /\ said' \in [Messages -> Seq(Events)]
               /\ state' \in [Messages -> States \cup {None}]
               /\ \A n \in Messages : n # m => said'[n] = said[n]
               /\ \A k \in Messages : k # task[m] => state'[k] = state[k]
    <3>1. said[m] \in Seq(Events)
      BY <1>0 DEF ServiceTypeOK, Events
    <3>2. Append(said[m], e) \in Seq(Events)
      BY <3>1, Said
    <3> QED
      BY <1>0, <2>2, <3>2 DEF Report, ServiceTypeOK, Events
  <2> QED
    BY <1>1, <2>1, <2>2 DEF Turned, Speaks, Fails, Ends, Leaves, Events, States
<1>5. ServiceTypeOK'
  <2>1. agents' \in [Messages -> Messages \cup {None}] /\ agent' \in [Messages -> Messages \cup {None}]
    <3>1. CASE Takes(m)
      <4>1. agents' \in [Messages -> Messages \cup {None}]
        BY <1>0, <1>2, <3>1 DEF ServiceTypeOK, Takes
      <4> QED
        BY <1>0, <1>2, <3>1, <4>1 DEF ServiceTypeOK, Takes
    <3> QED
      BY <1>0, <1>1, <3>1 DEF ServiceTypeOK
  <2> QED
    BY <1>0, <1>1, <1>3, <1>4, <2>1 DEF ServiceTypeOK, Events
<1>6. SaidInPlace'
  <2> SUFFICES ASSUME NEW n \in Messages
      PROVE  /\ pc'[n] # "escaped"
             /\ pc'[n] \in Quiet => said'[n] = <<>>
             /\ pc'[n] \in Live => \A i \in DOMAIN said'[n] : said'[n][i] \notin Terminal
             /\ pc'[n] \in Settled =>
                  /\ said'[n] # <<>> /\ said'[n][Len(said'[n])] \in Terminal
                  /\ \A i \in DOMAIN said'[n] :
                       said'[n][i] \in Terminal => i = Len(said'[n])
    BY DEF SaidInPlace
  <2>1. CASE n # m
    BY <1>0, <1>3, <1>4, <2>1 DEF SaidInPlace
  <2>2. CASE n = m /\ (Turned(m) \/ Fails(m) \/ Leaves(m))
    <3>1. said' = said
      BY <2>2 DEF Turned, Fails, Leaves
    <3>2. \/ pc[m] = "built" /\ pc'[m] = "refused"
          \/ pc[m] \in Live /\ pc'[m] = "failing"
          \/ pc[m] = "returned" /\ pc'[m] = "done"
      BY <1>0, <2>2 DEF Turned, Fails, Leaves, ServiceTypeOK
    <3> QED
      BY <1>0, <2>2, <3>1, <3>2 DEF SaidInPlace, Quiet, Live, Settled
  <2>3. CASE n = m /\ (Speaks(m) \/ Ends(m))
    <3>1. PICK e \in Events : /\ said' = [said EXCEPT ![m] = Append(@, e)]
                              /\ \/ e \notin Terminal /\ pc'[m] \in Live
                                 \/ e \in Terminal /\ pc'[m] \in Settled
      BY <1>0, <2>3 DEF Speaks, Ends, Report, ServiceTypeOK, Events, States
    <3>2. said'[m] = Append(said[m], e) /\ said[m] \in Seq(Events)
      BY <1>0, <3>1 DEF ServiceTypeOK, Events
    <3>3. /\ said'[m] # <<>> /\ Len(said'[m]) = Len(said[m]) + 1
          /\ DOMAIN said'[m] = 1 .. Len(said[m]) + 1
          /\ DOMAIN said[m] = 1 .. Len(said[m]) /\ Len(said[m]) \in Nat
          /\ said'[m][Len(said[m]) + 1] = e
          /\ \A i \in 1 .. Len(said[m]) : said'[m][i] = said[m][i]
      BY <3>2, Said
    <3>4. \A i \in DOMAIN said[m] : said[m][i] \notin Terminal
      <4>1. pc[m] \in Live \/ (pc[m] \in Quiet /\ said[m] = <<>>)
        BY <1>0, <2>3 DEF Speaks, Ends, SaidInPlace, Quiet
      <4> QED
        BY <1>0, <4>1 DEF SaidInPlace
    <3>5. \A i \in DOMAIN said'[m] : i # Len(said'[m]) => said'[m][i] \notin Terminal
      BY <3>3, <3>4
    <3>6. pc'[m] \notin Quiet /\ pc'[m] # "escaped"
      BY <3>1 DEF Quiet, Live, Settled
    <3>7. CASE e \notin Terminal /\ pc'[m] \in Live
      BY <2>3, <3>3, <3>5, <3>6, <3>7 DEF Live, Settled
    <3>8. CASE e \in Terminal /\ pc'[m] \in Settled
      BY <2>3, <3>3, <3>5, <3>6, <3>8 DEF Live, Settled
    <3> QED
      BY <3>1, <3>7, <3>8
  <2> QED
    BY <1>1, <2>1, <2>2, <2>3
<1>7. Named'
  <2>1. \A n \in Messages : pc[n] # "idle" => pc'[n] # "idle"
    BY <1>3
  <2>2. \A n \in Messages : pc'[n] # "idle" => pc[n] # "idle"
    BY <1>1, <1>3
  <2>3. \A k \in Messages : state'[k] # None => pc'[k] # "idle"
    BY <1>0, <1>2, <1>4, <2>1 DEF Named
  <2>4. task' = task /\ context' = context
    BY <1>1
  <2>5. \A n \in Messages : pc'[n] # "idle" =>
          task'[n] \in Messages /\ pc'[task'[n]] # "idle" /\ context'[n] \in Messages
    BY <1>0, <2>1, <2>2, <2>4 DEF Named
  <2> QED
    BY <2>3, <2>5 DEF Named
<1>8. Kept'
  <2>1. \A n \in Messages : pc[n] # "idle" => pc'[n] # "idle"
    BY <1>3
  <2>2. context' = context
    BY <1>1
  <2>3. CASE Takes(m)
    <3>1. /\ agents'[context[m]] = IF agents[context[m]] = None THEN m ELSE agents[context[m]]
          /\ \A c \in Messages : c # context[m] => agents'[c] = agents[c]
          /\ agent'[m] = agents'[context[m]]
          /\ \A n \in Messages : n # m => agent'[n] = agent[n]
      BY <1>0, <1>2, <2>3 DEF Takes, ServiceTypeOK
    <3>2. \A n \in Messages : agent'[n] # None =>
            pc'[n] # "idle" /\ agents'[context'[n]] = agent'[n]
      <4> SUFFICES ASSUME NEW n \in Messages, agent'[n] # None
          PROVE  pc'[n] # "idle" /\ agents'[context[n]] = agent'[n]
        BY <2>2
      <4>1. CASE n = m
        BY <1>3, <3>1, <4>1
      <4>2. CASE n # m
        <5>1. agent[n] # None /\ agent'[n] = agent[n]
          BY <3>1, <4>2
        <5>2. pc[n] # "idle" /\ agents[context[n]] = agent[n]
          BY <1>0, <5>1 DEF Kept
        <5>3. context[n] \in Messages
          BY <1>0, <5>2 DEF Named
        <5> QED
          BY <2>1, <3>1, <5>1, <5>2, <5>3
      <4> QED
        BY <4>1, <4>2
    <3>3. \A c \in Messages : agents'[c] # None =>
            /\ agents'[c] \in Messages /\ pc'[agents'[c]] # "idle"
            /\ context'[agents'[c]] = c
      BY <1>0, <1>1, <1>2, <2>1, <2>2, <3>1 DEF Kept
    <3>4. \A n \in Messages : pc'[n] \in Served => agent'[n] # None
      BY <1>0, <1>3, <3>1 DEF Kept, Served
    <3> QED
      BY <3>2, <3>3, <3>4 DEF Kept, Served
  <2>4. CASE UNCHANGED <<agents, agent>> /\ (pc'[m] \in Served => pc[m] \in Served)
    <3>1. \A n \in Messages : pc'[n] \in Served => agent'[n] # None
      BY <1>0, <1>3, <2>4 DEF Kept, Served
    <3> QED
      BY <1>0, <2>1, <2>2, <2>4, <3>1 DEF Kept, Served
  <2> QED
    BY <1>1, <2>3, <2>4
<1>9. Joined'
  <2>1. UNCHANGED <<task, found, met>>
    BY <1>1
  <2>2. /\ pc'[m] \in Live \cup Settled => found[m] \notin Terminal
        /\ pc[m] \notin Quiet => pc'[m] \notin Quiet
        /\ pc[m] \in Live => pc'[m] \in Live \/ state'[task[m]] \in Terminal
        /\ pc'[m] \in Live \/ state'[task[m]] \in Terminal \/ state' = state
    BY <1>0, <1>1, <1>2 DEF Turned, Speaks, Fails, Ends, Leaves, Report, Joined, ServiceTypeOK,
                            Live, Settled, Quiet, Terminal, States
  <2>3. ASSUME NEW k \in Messages, state'[k] \in {"submitted", "working"}
        PROVE  \E l \in Messages : task'[l] = k /\ pc'[l] \in Live
    <3>1. CASE k = task[m] /\ pc'[m] \in Live
      BY <2>1, <3>1
    <3>2. CASE ~(k = task[m] /\ pc'[m] \in Live)
      <4>1. state'[k] = state[k] /\ (k = task[m] => pc[m] \notin Live)
        BY <1>4, <2>2, <2>3, <3>2 DEF Terminal
      <4>2. PICK l \in Messages : task[l] = k /\ pc[l] \in Live
        BY <1>0, <2>3, <4>1 DEF Joined
      <4> QED
        BY <1>3, <2>1, <4>1, <4>2
    <3> QED
      BY <3>1, <3>2
  <2>4. \A n \in Messages : pc'[n] \in Live \cup Settled => found'[n] \notin Terminal
    BY <1>0, <1>3, <2>1, <2>2 DEF Joined
  <2>5. ASSUME NEW n \in Messages, pc'[n] # "idle", task'[n] # n, found'[n] \notin Terminal
        PROVE  \E l \in met'[n] : task'[l] = task'[n] /\ pc'[l] \notin Quiet
    <3>1. pc[n] # "idle"
      BY <1>1, <1>3, <2>5
    <3>2. PICK l \in met[n] : task[l] = task[n] /\ pc[l] \notin Quiet
      BY <1>0, <2>1, <2>5, <3>1 DEF Joined
    <3>3. l \in Messages
      BY <1>0 DEF ServiceTypeOK
    <3> QED
      BY <1>3, <2>1, <2>2, <3>2, <3>3
  <2> QED
    BY <2>3, <2>4, <2>5 DEF Joined
<1>10. Onward
  <2>1. pc[m] # "done"
    BY <1>1 DEF Turned, Speaks, Fails, Ends, Leaves, Live
  <2> QED
    BY <1>1, <1>3, <2>1 DEF Onward
<1> QED
  BY <1>5, <1>6, <1>7, <1>8, <1>9, <1>10 DEF ServiceInv

-----------------------------------------------------------------------------
LEMMA InitIInv == Init => IInv
<1> SUFFICES ASSUME Init PROVE IInv
  OBVIOUS
<1>1. ServiceInv
  BY InitService DEF Init
<1>2. Talked
  BY DEF Init, Talked
<1> QED
  BY <1>1, <1>2 DEF IInv

LEMMA SubmitKeeps ==
  ASSUME ServiceInv, NEW m \in Messages, Submit(m)
  PROVE  ServiceInv' /\ Onward
<1>0. Named /\ None \notin Messages
  BY MessagesAssumption DEF ServiceInv
<1>1. PICK k \in Offered :
        \/ Arrive(m, k, None, None)
        \/ \E on \in {n \in Messages : state[n] # None} : Arrive(m, k, on, None)
        \/ \E in \in {context[n] : n \in {l \in Messages : state[l] # None}} :
             Arrive(m, k, None, in)
  BY DEF Submit
<1>2. k \in Kinds
  BY OfferedAssumption
<1>3. CASE Arrive(m, k, None, None)
  BY <1>2, <1>3, ArriveKeeps
<1>4. CASE \E on \in {n \in Messages : state[n] # None} : Arrive(m, k, on, None)
  BY <1>2, <1>4, ArriveKeeps
<1>5. CASE \E in \in {context[n] : n \in {l \in Messages : state[l] # None}} :
             Arrive(m, k, None, in)
  <2>1. PICK n \in Messages : state[n] # None /\ Arrive(m, k, None, context[n])
    BY <1>5
  <2>2. context[n] \in Messages
    BY <1>0, <2>1 DEF Named
  <2> QED
    BY <1>2, <2>1, <2>2, ArriveKeeps
<1> QED
  BY <1>1, <1>3, <1>4, <1>5

(* The server's steps leave the conversations as they are.                 *)
LEMMA TalkedKept ==
  ASSUME Talked, Onward, UNCHANGED <<stored, talk, sent, since>>
  PROVE  Talked'
<1>1. Talks \subseteq Messages
  BY TalksAssumption
<1>2. \A t \in Talks : talk[t] = "returned" => pc'[t] = "done" /\ context'[t] = context[t]
  BY <1>1 DEF Talked, Onward
<1>3. \A t \in Talks : sent[t] # None => pc'[t] # "idle" /\ context'[t] = context[t]
  BY <1>1 DEF Talked, Onward
<1>4. stored' # None => \E t \in since' : talk'[t] = "returned" /\ context'[t] = stored'
  BY <1>2 DEF Talked
<1>5. \A t \in Talks : sent'[t] # None =>
        /\ pc'[t] # "idle" /\ context'[t] = sent'[t]
        /\ \E u \in Talks \ {t} : talk'[u] = "returned" /\ context'[u] = sent'[t]
  BY <1>2, <1>3 DEF Talked
<1> QED
  BY <1>2, <1>4, <1>5 DEF Talked

LEMMA SendKeeps ==
  ASSUME IInv, NEW t \in Talks, NEW fresh \in BOOLEAN, Send(t, fresh)
  PROVE  IInv'
<1>0. ServiceInv /\ Talked /\ t \in Messages /\ None \notin Messages
  BY TalksAssumption, MessagesAssumption DEF IInv
<1> DEFINE in == IF fresh THEN None ELSE stored
<1>1. /\ talk[t] = "idle" /\ Arrive(t, "plain", None, in)
      /\ sent' = [sent EXCEPT ![t] = in] /\ talk' = [talk EXCEPT ![t] = "waiting"]
      /\ since' = since \cup {t} /\ stored' = stored
  BY DEF Send
<1>2. in \in Messages \cup {None} /\ (in # None => in = stored)
  BY <1>0 DEF Talked
<1> HIDE DEF in
<1>3. ServiceInv' /\ Onward
  BY <1>0, <1>1, <1>2, ArriveKeeps DEF Kinds
<1>4. pc'[t] # "idle" /\ (in # None => context'[t] = in)
  BY <1>0, <1>1, <1>2 DEF Arrive, Go, ServiceInv, ServiceTypeOK
<1>5. \A u \in Talks : talk[u] = "returned" =>
        u # t /\ talk'[u] = "returned" /\ pc'[u] = "done" /\ context'[u] = context[u]
  BY <1>0, <1>1, <1>3, TalksAssumption DEF Talked, Onward
<1>6. \A u \in Talks : u # t => talk'[u] = talk[u] /\ sent'[u] = sent[u]
  BY <1>0, <1>1 DEF Talked
<1>7. talk'[t] = "waiting" /\ sent'[t] = in
  BY <1>0, <1>1 DEF Talked
<1>8. /\ talk' \in [Talks -> {"idle", "waiting", "returned", "raised"}]
      /\ sent' \in [Talks -> Messages \cup {None}] /\ since' \subseteq Talks
      /\ stored' \in Messages \cup {None}
  BY <1>0, <1>1, <1>2 DEF Talked
<1>9. \A u \in Talks : talk'[u] = "waiting" => u \in since'
  BY <1>0, <1>1, <1>6 DEF Talked
<1>10. \A u \in Talks : talk'[u] = "returned" => pc'[u] = "done"
  BY <1>5, <1>6, <1>7
<1>11. stored' # None => \E u \in since' : talk'[u] = "returned" /\ context'[u] = stored'
  BY <1>0, <1>1, <1>5 DEF Talked
<1>12. ASSUME NEW u \in Talks, sent'[u] # None
       PROVE  /\ pc'[u] # "idle" /\ context'[u] = sent'[u]
              /\ \E v \in Talks \ {u} : talk'[v] = "returned" /\ context'[v] = sent'[u]
  <2>1. CASE u = t
    <3>1. in # None /\ in = stored
      BY <1>2, <1>7, <1>12, <2>1
    <3>2. PICK v \in since : talk[v] = "returned" /\ context[v] = stored
      BY <1>0, <3>1 DEF Talked
    <3>3. v \in Talks
      BY <1>0 DEF Talked
    <3> QED
      BY <1>4, <1>5, <1>7, <2>1, <3>1, <3>2, <3>3
  <2>2. CASE u # t
    <3>1. /\ pc[u] # "idle" /\ context[u] = sent[u] /\ sent'[u] = sent[u]
          /\ \E v \in Talks \ {u} : talk[v] = "returned" /\ context[v] = sent[u]
      BY <1>0, <1>6, <1>12, <2>2 DEF Talked
    <3>2. pc'[u] # "idle" /\ context'[u] = context[u]
      BY <1>3, <3>1, TalksAssumption DEF Onward
    <3> QED
      BY <1>5, <3>1, <3>2
  <2> QED
    BY <2>1, <2>2
<1>13. Talked'
  BY <1>8, <1>9, <1>10, <1>11, <1>12 DEF Talked
<1> QED
  BY <1>3, <1>13 DEF IInv

LEMMA StepKeeps == IInv /\ [Next]_vars => IInv'
<1> SUFFICES ASSUME IInv, [Next]_vars PROVE IInv'
  OBVIOUS
<1>0. ServiceInv /\ Talked
  BY DEF IInv
<1>1. CASE \E t \in Talks : \E fresh \in BOOLEAN : Send(t, fresh)
  BY <1>1, SendKeeps
<1>2. ASSUME NEW t \in Talks, Reply(t)
      PROVE  IInv'
  <2>1. /\ talk[t] = "waiting" /\ pc[t] = "done" /\ t \in since
        /\ UNCHANGED <<serviceVars, sent, since>>
        /\ \/ talk' = [talk EXCEPT ![t] = "returned"] /\ stored' = context[t]
           \/ talk' = [talk EXCEPT ![t] = "raised"] /\ stored' = stored
    BY <1>0, <1>2 DEF Reply, Talked
  <2>2. t \in Messages /\ context[t] \in Messages
    BY <1>0, <2>1, TalksAssumption DEF ServiceInv, Named
  <2>3. ServiceInv'
    BY <1>0, <2>1 DEF ServiceInv, serviceVars, ServiceTypeOK, SaidInPlace, Named, Kept, Joined
  <2>4. UNCHANGED <<pc, context, sent, since>>
    BY <2>1 DEF serviceVars
  <2>5. \A u \in Talks : talk[u] = "returned" => talk'[u] = "returned"
    BY <1>0, <2>1 DEF Talked
  <2>6. /\ talk' \in [Talks -> {"idle", "waiting", "returned", "raised"}]
        /\ stored' \in Messages \cup {None}
        /\ \A u \in Talks : u # t => talk'[u] = talk[u]
        /\ talk'[t] # "waiting"
        /\ stored' = stored \/ (stored' = context[t] /\ talk'[t] = "returned")
    BY <1>0, <2>1, <2>2 DEF Talked
  <2>7. stored' # None => \E u \in since : talk'[u] = "returned" /\ context[u] = stored'
    BY <1>0, <2>1, <2>5, <2>6 DEF Talked
  <2>8. \A u \in Talks : talk'[u] = "returned" => pc[u] = "done"
    BY <1>0, <2>1, <2>6 DEF Talked
  <2>9. Talked'
    BY <1>0, <2>4, <2>5, <2>6, <2>7, <2>8 DEF Talked
  <2> QED
    BY <2>3, <2>9 DEF IInv
<1>3. ASSUME NEW t \in Talks, TimeOut(t)
      PROVE  IInv'
  <2>1. /\ talk[t] = "waiting" /\ talk' = [talk EXCEPT ![t] = "raised"]
        /\ UNCHANGED <<serviceVars, stored, sent, since>>
    BY <1>3 DEF TimeOut
  <2>2. ServiceInv'
    BY <1>0, <2>1 DEF ServiceInv, serviceVars, ServiceTypeOK, SaidInPlace, Named, Kept, Joined
  <2>3. /\ talk' \in [Talks -> {"idle", "waiting", "returned", "raised"}]
        /\ \A u \in Talks : talk[u] = "returned" <=> talk'[u] = "returned"
        /\ \A u \in Talks : talk'[u] = "waiting" => talk[u] = "waiting"
    BY <1>0, <2>1 DEF Talked
  <2>4. UNCHANGED <<pc, context, sent, since, stored>>
    BY <2>1 DEF serviceVars
  <2>5. Talked'
    BY <1>0, <2>3, <2>4 DEF Talked
  <2> QED
    BY <2>2, <2>5 DEF IInv
<1>4. CASE Reset
  <2>1. /\ stored' = None /\ since' = {t \in Talks : talk[t] = "waiting"}
        /\ UNCHANGED <<serviceVars, talk, sent>>
    BY <1>4 DEF Reset
  <2>2. ServiceInv'
    BY <1>0, <2>1 DEF ServiceInv, serviceVars, ServiceTypeOK, SaidInPlace, Named, Kept, Joined
  <2>3. UNCHANGED <<pc, context, talk, sent>>
    BY <2>1 DEF serviceVars
  <2>4. Talked'
    BY <1>0, <2>1, <2>3 DEF Talked
  <2> QED
    BY <2>2, <2>4 DEF IInv
<1>5. CASE Elsewhere
  <2>1. PICK m \in Messages : Submit(m) /\ UNCHANGED <<stored, talk, sent, since>>
    BY <1>5 DEF Elsewhere
  <2> QED
    BY <1>0, <2>1, SubmitKeeps, TalkedKept DEF IInv
<1>6. CASE Serve
  <2>1. PICK m \in Messages : Execute(m) /\ UNCHANGED <<stored, talk, sent, since>>
    BY <1>6 DEF Serve
  <2> QED
    BY <1>0, <2>1, ExecuteKeeps, TalkedKept DEF IInv
<1>7. CASE UNCHANGED vars
  <2>1. ServiceInv'
    BY <1>0, <1>7 DEF vars, ServiceInv, serviceVars, ServiceTypeOK, SaidInPlace, Named, Kept, Joined
  <2>2. Talked'
    BY <1>0, <1>7 DEF vars, serviceVars, Talked
  <2> QED
    BY <2>1, <2>2 DEF IInv
<1> QED
  BY <1>1, <1>2, <1>3, <1>4, <1>5, <1>6, <1>7 DEF Next, Client

-----------------------------------------------------------------------------
(* The inductive invariant of the server and its Messenger holds throughout*)
THEOREM Invariance == Spec => []IInv
<1> QED
  BY InitIInv, StepKeeps, PTL DEF Spec

LEMMA AgentsMatch == ServiceInv => OneAgentPerContext
<1> SUFFICES ASSUME ServiceInv, NEW m \in Messages, NEW n \in Messages,
                    agent[m] # None, agent[n] # None
             PROVE  agent[m] = agent[n] <=> context[m] = context[n]
  BY DEF OneAgentPerContext
<1>1. Named /\ Kept
  BY DEF ServiceInv
<1>2. /\ context[m] \in Messages /\ agents[context[m]] = agent[m]
      /\ context[n] \in Messages /\ agents[context[n]] = agent[n]
  BY <1>1 DEF Named, Kept
<1>3. context[agent[m]] = context[m] /\ context[agent[n]] = context[n]
  BY <1>1, <1>2 DEF Kept
<1> QED
  BY <1>2, <1>3

(* The types of the server's and the Messenger's state.                    *)
THEOREM TypeCorrect == Spec => []TypeOK
<1>1. IInv => TypeOK
  BY Zenon DEF IInv, ServiceInv, Talked, TypeOK
<1> QED
  BY Invariance, <1>1, PTL

(* For any number of messages and contexts, an Agent is shared exactly by  *)
(* the executions of one context.                                          *)
THEOREM AgentsPerContext == Spec => []OneAgentPerContext
<1>1. IInv => OneAgentPerContext
  BY AgentsMatch DEF IInv
<1> QED
  BY Invariance, <1>1, PTL

(* No exception leaves an execution, and its one terminal status is the    *)
(* last thing it reports.                                                  *)
THEOREM ExecutionsEndOnce == Spec => []EndsOnce
<1>1. IInv => EndsOnce
  <2> SUFFICES ASSUME IInv, NEW m \in Messages
      PROVE  /\ pc[m] # "escaped"
             /\ pc[m] = "refused" => said[m] = <<>>
             /\ pc[m] = "done" => Reached(m)
             /\ \A i \in DOMAIN said[m] : said[m][i] \in Terminal => i = Len(said[m])
    BY DEF EndsOnce
  <2>1. SaidInPlace /\ ServiceTypeOK
    BY DEF IInv, ServiceInv
  <2>2. said[m] \in Seq(Events)
    BY <2>1 DEF ServiceTypeOK, Events
  <2>3. said[m] # <<>> => Len(said[m]) \in DOMAIN said[m]
    BY <2>2, EmptySeq, LenProperties
  <2>4. pc[m] = "done" => Reached(m)
    BY <2>1, <2>3 DEF SaidInPlace, Settled, Reached
  <2>5. pc[m] \in Quiet \cup Live \cup Settled
    BY <2>1 DEF ServiceTypeOK, Places, SaidInPlace, Quiet, Live, Settled
  <2>6. \A i \in DOMAIN said[m] : said[m][i] \in Terminal => i = Len(said[m])
    BY <2>1, <2>5 DEF SaidInPlace
  <2> QED
    BY <2>1, <2>4, <2>6 DEF SaidInPlace, Quiet
<1> QED
  BY Invariance, <1>1, PTL

(* An existing task is joined only while it is under way.                  *)
THEOREM LiveTasksJoined == Spec => []JoinedOnlyLive
<1>1. IInv => JoinedOnlyLive
  <2> SUFFICES ASSUME IInv, NEW n \in Messages, said[n] # <<>>, task[n] # n
      PROVE  \E l \in met[n] : task[l] = task[n] /\ pc[l] # "refused"
    BY DEF JoinedOnlyLive
  <2>1. SaidInPlace /\ ServiceTypeOK /\ Joined
    BY DEF IInv, ServiceInv
  <2>2. pc[n] \in Live \cup Settled /\ pc[n] # "idle"
    BY <2>1 DEF ServiceTypeOK, Places, SaidInPlace, Quiet, Live, Settled
  <2>3. \E l \in met[n] : task[l] = task[n] /\ pc[l] \notin Quiet
    BY <2>1, <2>2 DEF Joined
  <2> QED
    BY <2>3 DEF Quiet
<1> QED
  BY Invariance, <1>1, PTL

(* A continued conversation is answered by the Agent that answered before. *)
THEOREM ConversationsContinue == Spec => []ContinuedBySame
<1>1. IInv => ContinuedBySame
  <2> SUFFICES ASSUME IInv, NEW t \in Talks, sent[t] # None, agent[t] # None
      PROVE  \E u \in Talks \ {t} : talk[u] = "returned" /\ agent[u] = agent[t]
    BY DEF ContinuedBySame
  <2>1. ServiceInv /\ Talked /\ Kept
    BY DEF IInv, ServiceInv
  <2>2. PICK u \in Talks \ {t} : talk[u] = "returned" /\ context[u] = context[t]
    BY <2>1 DEF Talked
  <2>3. pc[u] = "done" /\ u \in Messages /\ t \in Messages
    BY <2>1, <2>2, TalksAssumption DEF Talked
  <2>4. agent[u] # None
    BY <2>1, <2>3 DEF Kept, Settled
  <2> QED
    BY <2>1, <2>2, <2>3, <2>4, AgentsMatch DEF OneAgentPerContext
<1> QED
  BY Invariance, <1>1, PTL

(* After a reset only a talk that was under way can bring a context back.  *)
THEOREM ResetIsKept == Spec => []ResetForgets
<1>1. IInv => ResetForgets
  BY DEF IInv, Talked, ResetForgets
<1> QED
  BY Invariance, <1>1, PTL

-----------------------------------------------------------------------------
(* What the server's steps are to a task that is over and to an execution  *)

(* A task is over for good: every execution of it that is still under way  *)
(* found it over when its message came.                                    *)
Closed(k) ==
  /\ state[k] \in Terminal
  /\ \A m \in Running : task[m] = k => found[m] \in Terminal

LEMMA ClosedByArrival ==
  ASSUME ServiceInv, NEW m \in Messages, NEW kd \in Kinds,
         NEW on \in Messages \cup {None}, on # None => state[on] # None,
         NEW in \in Messages \cup {None},
         Arrive(m, kd, on, in),
         NEW k \in Messages, Closed(k)
  PROVE  Closed(k)' /\ state'[k] = state[k]
<1>0. ServiceTypeOK /\ Named /\ None \notin Messages
  BY MessagesAssumption DEF ServiceInv
<1>1. /\ pc[m] = "idle" /\ UNCHANGED state
      /\ \A n \in Messages : n # m =>
           pc'[n] = pc[n] /\ task'[n] = task[n] /\ found'[n] = found[n]
      /\ task'[m] = IF on = None THEN m ELSE on
      /\ found'[m] = IF on = None THEN None ELSE state[on]
  BY <1>0 DEF Arrive, Go, ServiceTypeOK
<1>2. state[k] \in Terminal /\ k # m
  BY <1>0, <1>1, NoneAssumption DEF Closed, Named, States
<1>3. ASSUME NEW n \in Running', task'[n] = k
      PROVE  found'[n] \in Terminal
  <2>1. n \in Messages /\ pc'[n] \notin {"idle", "done", "refused", "escaped"}
    BY <1>3 DEF Running
  <2>2. CASE n = m
    BY <1>1, <1>2, <1>3, <2>2
  <2>3. CASE n # m
    <3>1. n \in Running /\ task[n] = k /\ found'[n] = found[n]
      BY <1>1, <1>3, <2>1, <2>3 DEF Running
    <3> QED
      BY <3>1 DEF Closed
  <2> QED
    BY <2>2, <2>3
<1> QED
  BY <1>1, <1>2, <1>3 DEF Closed

LEMMA ClosedByExecution ==
  ASSUME ServiceInv, NEW m \in Messages, Execute(m), NEW k \in Messages, Closed(k)
  PROVE  Closed(k)' /\ state'[k] = state[k]
<1>0. ServiceTypeOK /\ SaidInPlace /\ Joined
  BY DEF ServiceInv
<1>1. /\ UNCHANGED <<task, found>>
      /\ Turned(m) \/ Speaks(m) \/ Fails(m) \/ Ends(m) \/ Leaves(m)
  BY ExecuteSummary
<1>2. pc[m] \in Live \cup {"built", "returned"}
  BY <1>1 DEF Turned, Speaks, Fails, Ends, Leaves
<1>3. m \in Running /\ \A n \in Messages : n # m => pc'[n] = pc[n]
  BY <1>0, <1>1, <1>2
     DEF Running, Live, Turned, Speaks, Fails, Ends, Leaves, ServiceTypeOK
<1>4. CASE task[m] # k
  <2>1. state'[k] = state[k]
    BY <1>0, <1>1, <1>4
       DEF Turned, Speaks, Fails, Ends, Leaves, Report, ServiceTypeOK
  <2>2. \A n \in Running' : task[n] = k => n \in Running
    BY <1>3, <1>4 DEF Running
  <2> QED
    BY <1>1, <2>1, <2>2 DEF Closed
<1>5. CASE task[m] = k
  <2>1. found[m] \in Terminal
    BY <1>3, <1>5 DEF Closed
  <2>2. pc[m] \notin Live \cup Settled
    BY <1>0, <2>1 DEF Joined
  <2>3. Turned(m)
    BY <1>1, <2>1, <2>2 DEF Speaks, Fails, Ends, Leaves, Settled
  <2>4. state' = state /\ Running' \subseteq Running
    BY <1>3, <2>3 DEF Turned, Running
  <2> QED
    BY <1>1, <2>4 DEF Closed
<1> QED
  BY <1>4, <1>5

(* Once a task is over and no execution that was let in is under way, it   *)
(* stays over with the very state it ended in: the processed check of      *)
(* execute reads a stale state, and that is the most it can miss.          *)
THEOREM ClosedForGood ==
  Spec => [][\A k \in Messages : Closed(k) => Closed(k)' /\ state'[k] = state[k]]_vars
<1> DEFINE Stays == \A k \in Messages : Closed(k) => Closed(k)' /\ state'[k] = state[k]
<1>1. IInv /\ [Next]_vars => [Stays]_vars
  <2> SUFFICES ASSUME IInv, Next, NEW k \in Messages, Closed(k)
      PROVE  Closed(k)' /\ state'[k] = state[k]
    OBVIOUS
  <2>0. ServiceInv /\ Named /\ Talked
    BY DEF IInv, ServiceInv
  <2>1. CASE UNCHANGED serviceVars
    BY <2>1 DEF serviceVars, Closed, Running
  <2>2. ASSUME NEW t \in Talks, NEW fresh \in BOOLEAN, Send(t, fresh)
        PROVE  Closed(k)' /\ state'[k] = state[k]
    <3>1. PICK in \in Messages \cup {None} : Arrive(t, "plain", None, in)
      BY <2>0, <2>2 DEF Send, Talked
    <3> QED
      BY <2>0, <3>1, ClosedByArrival, TalksAssumption DEF Kinds
  <2>3. CASE Elsewhere
    <3>1. PICK m \in Messages, kd \in Kinds :
            \/ Arrive(m, kd, None, None)
            \/ \E on \in {n \in Messages : state[n] # None} : Arrive(m, kd, on, None)
            \/ \E in \in {context[n] : n \in {l \in Messages : state[l] # None}} :
                 Arrive(m, kd, None, in)
      BY <2>3, OfferedAssumption DEF Elsewhere, Submit
    <3>2. CASE Arrive(m, kd, None, None)
      BY <2>0, <3>2, ClosedByArrival
    <3>3. CASE \E on \in {n \in Messages : state[n] # None} : Arrive(m, kd, on, None)
      BY <2>0, <3>3, ClosedByArrival
    <3>4. CASE \E in \in {context[n] : n \in {l \in Messages : state[l] # None}} :
                 Arrive(m, kd, None, in)
      <4>1. PICK n \in Messages : state[n] # None /\ Arrive(m, kd, None, context[n])
        BY <3>4
      <4>2. context[n] \in Messages
        BY <2>0, <4>1 DEF Named
      <4> QED
        BY <2>0, <4>1, <4>2, ClosedByArrival
    <3> QED
      BY <3>1, <3>2, <3>3, <3>4
  <2>4. CASE Serve
    BY <2>0, <2>4, ClosedByExecution DEF Serve
  <2>5. CASE Reset \/ \E t \in Talks : Reply(t) \/ TimeOut(t)
    BY <2>1, <2>5 DEF Reset, Reply, TimeOut
  <2> QED
    BY <2>2, <2>3, <2>4, <2>5 DEF Next, Client
<1> QED
  BY Invariance, <1>1, PTL DEF Spec

(* How far an execution is: no way through execute goes back.              *)
Way ==
  [ idle |-> 0, built |-> 1, opened |-> 2, agent |-> 3, solving |-> 4,
    shown |-> 5, returned |-> 6, failing |-> 6, done |-> 7, refused |-> 7,
    escaped |-> 7 ]

(* Every step of an execution brings it closer to its end, and no step of  *)
(* any other, of a client or of a reset sets it back: it is over after at  *)
(* most six of its own steps, whatever else the server has to do.          *)
THEOREM ExecutionsMoveOn ==
  Spec => [][\A m \in Messages : /\ Way[pc'[m]] >= Way[pc[m]]
                                 /\ Execute(m) => Way[pc'[m]] > Way[pc[m]]]_vars
<1> DEFINE Moves == \A m \in Messages : /\ Way[pc'[m]] >= Way[pc[m]]
                                        /\ Execute(m) => Way[pc'[m]] > Way[pc[m]]
<1>1. ASSUME ServiceInv, NEW m \in Messages, Execute(m)
      PROVE  /\ Way[pc'[m]] > Way[pc[m]]
             /\ \A n \in Messages : n # m => pc'[n] = pc[n]
  <2>1. pc \in [Messages -> Places]
    BY <1>1 DEF ServiceInv, ServiceTypeOK
  <2>2. CASE Refuse(m) \/ OpenTask(m) \/ StartWork(m) \/ Wrap(m)
    BY <2>1, <2>2 DEF Refuse, OpenTask, StartWork, Wrap, Go, Way
  <2>3. CASE FailTask(m)
    BY <2>1, <2>3 DEF FailTask, Go, Way
  <2>4. CASE AnswerShell(m) \/ RejectBroken(m) \/ Profile(m)
    BY <2>1, <2>4 DEF AnswerShell, RejectBroken, RaiseIn, Profile, Go, Way
  <2>5. CASE Solve(m) \/ SolveRaises(m) \/ AnswerShown(m)
    BY <2>1, <2>5 DEF Solve, SolveRaises, RaiseIn, AnswerShown, Go, Way
  <2> QED
    BY <1>1, <2>2, <2>3, <2>4, <2>5 DEF Execute
<1>2. ASSUME NEW m \in Messages, NEW kd, NEW on, NEW in, Arrive(m, kd, on, in), ServiceInv
      PROVE  /\ pc[m] = "idle" /\ pc'[m] = "built"
             /\ \A n \in Messages : n # m => pc'[n] = pc[n]
  BY <1>2 DEF Arrive, Go, ServiceInv, ServiceTypeOK
<1>3. \A m \in Messages : pc[m] = "idle" => ~Execute(m)
  BY DEF Execute, Refuse, OpenTask, StartWork, Wrap, FailTask, AnswerShell, RejectBroken,
         RaiseIn, Profile, Solve, SolveRaises, AnswerShown
<1>4. IInv /\ [Next]_vars => [Moves]_vars
  <2> SUFFICES ASSUME IInv, Next, NEW n \in Messages
      PROVE  /\ Way[pc'[n]] >= Way[pc[n]]
             /\ Execute(n) => Way[pc'[n]] > Way[pc[n]]
    OBVIOUS
  <2>0. ServiceInv /\ Way[pc[n]] \in Nat /\ Way[pc'[n]] \in Nat
    <3>1. pc[n] \in Places /\ pc'[n] \in Places
      BY StepKeeps DEF IInv, ServiceInv, ServiceTypeOK
    <3> QED
      BY <3>1 DEF IInv, Places, Way
  <2>1. CASE Execute(n)
    BY <1>1, <2>0, <2>1
  <2>2. CASE ~Execute(n) /\ pc' = pc
    BY <2>0, <2>2
  <2>3. ASSUME ~Execute(n), NEW m \in Messages, Execute(m)
        PROVE  pc'[n] = pc[n]
    BY <1>1, <2>0, <2>3
  <2>4. ASSUME NEW m \in Messages, NEW kd, NEW on, NEW in, Arrive(m, kd, on, in)
        PROVE  Way[pc'[n]] >= Way[pc[n]]
    BY <1>2, <2>0, <2>4 DEF Way
  <2>5. CASE Serve
    BY <2>0, <2>1, <2>3, <2>5 DEF Serve
  <2>6. CASE Elsewhere
    <3>1. \E m \in Messages : \E kd, on, in : Arrive(m, kd, on, in)
      BY <2>6 DEF Elsewhere, Submit
    <3> QED
      BY <2>1, <2>4, <3>1
  <2>7. CASE \E t \in Talks : \E fresh \in BOOLEAN : Send(t, fresh)
    <3>1. PICK t \in Talks, in \in {None, stored} : Arrive(t, "plain", None, in)
      BY <2>7 DEF Send
    <3> QED
      BY <2>1, <2>4, <3>1, TalksAssumption
  <2>8. CASE Reset \/ \E t \in Talks : Reply(t) \/ TimeOut(t)
    BY <2>1, <2>2, <2>8 DEF Reset, Reply, TimeOut, serviceVars
  <2> QED
    BY <2>5, <2>6, <2>7, <2>8 DEF Next, Client
<1> QED
  BY Invariance, <1>4, PTL DEF Spec
=============================================================================
