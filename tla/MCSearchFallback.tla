-------------------------- MODULE MCSearchFallback --------------------------
(* A small web for SearchFallback: two sites, one of which has a variant   *)
(* of its query, two broad queries, a query without a key and a prompt     *)
(* that is rewritten as a compact query.                                   *)
EXTENDS SearchFallback

CONSTANTS broad1, broad2, site1, variant1, site2, keyless, compact, prompt, host1, host2

AllQueries == {broad1, broad2, site1, variant1, site2, keyless, compact, prompt}
SiteQueries == {site1, variant1, site2}
Host == [q \in SiteQueries |-> IF q = site2 THEN host2 ELSE host1]

(* A site query and its variant have the same words.                       *)
Key ==
  [q \in AllQueries |->
     CASE q \in {site1, variant1} -> "site1"
       [] q = site2 -> "site2"
       [] q = broad1 -> "broad1"
       [] q = broad2 -> "broad2"
       [] q = compact -> "compact"
       [] q = prompt -> "prompt"
       [] q = keyless -> ""]
Clue ==
  [q \in AllQueries |->
     CASE q \in {broad1, compact, prompt, site1} -> "plant"
       [] q = broad2 -> "bank"
       [] OTHER -> ""]
Clues == {"plant", "bank"}

Variant == (site1 :> <<variant1>>) @@ (variant1 :> <<site1>>) @@ (site2 :> <<>>)
Rewritten == [q \in AllQueries |-> IF q = prompt THEN compact ELSE q]
Pages == {<<>>, <<site1>>, <<site1, site2>>}
AskedFor == {NoQuery, broad1, site1, keyless}

Rewrites == {keyless}

(* The clues of one prompt select both broad queries whatever the query;   *)
(* the other selects one only together with the first broad query.         *)
MultiClue ==
  [multi |-> TRUE, institution |-> TRUE, answerer |-> FALSE,
   broad |-> [q \in AllQueries \cup {NoQuery} |-> <<broad1, broad2>>]]
PlainTask ==
  [multi |-> FALSE, institution |-> FALSE, answerer |-> TRUE,
   broad |-> [q \in AllQueries \cup {NoQuery} |->
                IF q = broad1 THEN <<broad2>> ELSE <<>>]]
BothTasks == {MultiClue, PlainTask}
=============================================================================
