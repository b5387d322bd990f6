-------------------------- MODULE FetchText_proofs --------------------------
(***************************************************************************)
(* The walk over a history, for pages of any size and any number of them.  *)
(* What holds it together is Joined: a page still to come begins no lower  *)
(* than right below the last commit listed, as pushes move it upwards only.*)
(* Counted says the same of the number of commits listed: the pages before *)
(* it were full.                                                           *)
(***************************************************************************)
EXTENDS FetchText, TLAPS

Joined ==
  /\ (got = {}) <=> (first = 0)
  /\ got # {} => oldest \in got
  /\ pc = "list" => url \in Lists /\ url.page \in Nat \ {0} /\ page = url.page + pages
  /\ pc = "list" /\ got # {} => Top >= oldest - 1

Counted ==
  /\ first <= size
  /\ Walks => count <= size
  /\ pc = "list" /\ Walks => count = (page - 1) * PerPage

Ended ==
  pc = "listed" /\ got # {} /\ Walks /\ ~lost /\ pages < MaxPages =>
    oldest = 1 /\ first <= count

Pending ==
  /\ pc # "done" => text = "none"
  /\ pc \in {"start", "open"} => got = {}
  /\ pc = "start" => pages = 0 /\ count = 0

IInv == TypeOK /\ Joined /\ Counted /\ Ended /\ Pending /\ NoGap /\ FirstFound /\ CountTrue

USE PerPageAssumption, PagesAssumption, LongestAssumption

(* The commits a page skips                                                *)
LEMMA Skipped ==
  ASSUME NEW p \in Nat \ {0}
  PROVE  /\ (p - 1) * PerPage \in Nat
         /\ ((p + 1) - 1) * PerPage = (p - 1) * PerPage + PerPage
<1>1. PICK k \in Nat : k = p - 1
  OBVIOUS
<1>2. k * PerPage \in Nat /\ (k + 1) * PerPage = k * PerPage + PerPage
  BY PerPageAssumption
<1> QED
  BY <1>1, <1>2

LEMMA PageNumbers == url \in Lists /\ url.page # NotANumber => url.page \in Nat \ {0}
<1>1. ASSUME url \in [kind : {"list"}, filtered : BOOLEAN,
                       page : PagesAsked \cup {NotANumber}],
             url.page # NotANumber
      PROVE  url.page \in Nat \ {0}
  BY <1>1, AskedAssumption
<1>2. ASSUME url = [kind |-> "history", filtered |-> TRUE, page |-> 1]
      PROVE  url.page \in Nat \ {0}
  BY <1>2
<1> QED
  BY <1>1, <1>2 DEF Lists

(* A page that is not empty: its newest commit is Top, its oldest one lies *)
(* PerPage below, or is the first of all.                                  *)
LEMMA PageBounds ==
  ASSUME TypeOK, page # 0, Top > 0
  PROVE  /\ Top \in 1 .. Longest
         /\ Top \in Listed
         /\ \A c \in Listed : (\A d \in Listed : c <= d) =>
              /\ c \in 1 .. Longest
              /\ c = 1 \/ (Top >= PerPage /\ c = Top - PerPage + 1)
              /\ Top < PerPage => c = 1
              /\ Listed = c .. Top
<1>1. Top \in Int /\ Top <= size
  <2>1. page \in Nat \ {0} /\ size \in Nat
    BY DEF TypeOK
  <2>2. PICK k \in Nat : k = (page - 1) * PerPage
    BY <2>1, Skipped
  <2>3. Top = size - k
    BY <2>2 DEF Top
  <2> QED
    BY <2>1, <2>3
<1>2. Top \in 1 .. Longest /\ Top \in Listed
  <2>1. size \in 0 .. Longest
    BY DEF TypeOK
  <2>2. Top \in 1 .. Longest
    BY <1>1, <2>1
  <2> QED
    BY <2>2 DEF Listed
<1>3. ASSUME NEW c \in Listed, \A d \in Listed : c <= d
      PROVE  /\ c \in 1 .. Longest
             /\ c = 1 \/ (Top >= PerPage /\ c = Top - PerPage + 1)
             /\ Top < PerPage => c = 1
             /\ Listed = c .. Top
  <2>1. c \in 1 .. Longest /\ c <= Top /\ c + PerPage > Top
    BY DEF Listed
  <2>2. c = 1 \/ c = Top - PerPage + 1
    <3> SUFFICES ASSUME c # 1, c # Top - PerPage + 1 PROVE FALSE
      OBVIOUS
    <3>1. c - 1 \in Listed
      BY <1>1, <1>2, <2>1 DEF Listed
    <3> QED
      BY <1>3, <2>1, <3>1
  <2>3. Listed = c .. Top
    <3>1. ASSUME NEW d \in Listed PROVE d \in c .. Top
      BY <1>1, <1>2, <1>3, <2>1 DEF Listed
    <3>2. ASSUME NEW d \in c .. Top PROVE d \in Listed
      BY <1>1, <1>2, <2>1 DEF Listed
    <3> QED
      BY <3>1, <3>2
  <2> QED
    BY <1>1, <1>2, <2>1, <2>2, <2>3
<1> QED
  BY <1>2, <1>3

LEMMA InitIInv == Init => IInv
<1> SUFFICES ASSUME Init PROVE IInv
  OBVIOUS
<1>1. TypeOK
  <2>1. got \subseteq 1 .. Longest /\ url \in Plain \cup Lists /\ size \in 0 .. Longest
    BY DEF Init
  <2>2. /\ pc = "start" /\ page = 0 /\ pages = 0 /\ count = 0 /\ oldest = 0 /\ first = 0
        /\ lost = FALSE /\ text = "none"
    BY DEF Init
  <2>3. /\ page \in Nat /\ pages \in Nat /\ count \in Nat
        /\ oldest \in 0 .. Longest /\ first \in 0 .. Longest
    BY <2>2
  <2> QED
    BY <2>1, <2>2, <2>3, Zenon DEF TypeOK
<1>2. Joined /\ Counted /\ Ended /\ Pending
  BY DEF Init, Joined, Counted, Ended, Pending
<1>3. NoGap /\ FirstFound /\ CountTrue
  BY DEF Init, NoGap, FirstFound, CountTrue
<1> QED
  BY <1>1, <1>2, <1>3 DEF IInv

(* A page arrives.                                                         *)
LEMMA PageKeeps == IInv /\ GetPage => IInv'
<1> SUFFICES ASSUME IInv, GetPage PROVE IInv'
  OBVIOUS
<1>0. TypeOK /\ Joined /\ Counted /\ Ended /\ Pending /\ NoGap /\ FirstFound /\ CountTrue
  BY DEF IInv
<1>1. /\ page \in Nat \ {0} /\ size \in Nat /\ pages \in Nat /\ pc = "list"
      /\ (page - 1) * PerPage \in Nat /\ Top \in Int
  <2>1. page \in Nat /\ size \in Nat /\ pages \in Nat /\ pc = "list"
    BY <1>0 DEF GetPage, TypeOK
  <2>2. page \in Nat \ {0}
    BY <1>0, <2>1 DEF Joined
  <2>3. PICK k \in Nat : k = (page - 1) * PerPage
    BY <2>2, Skipped
  <2>4. Top = size - k
    BY <2>3 DEF Top
  <2> QED
    BY <2>1, <2>2, <2>3, <2>4
<1> USE <1>0
<1>2. PICK c \in Listed : (\A d \in Listed : c <= d) /\ oldest' = c
  BY DEF GetPage, Extend
<1>3. /\ Top \in 1 .. Longest /\ Top \in Listed
      /\ c \in 1 .. Longest
      /\ c = 1 \/ (Top >= PerPage /\ c = Top - PerPage + 1)
      /\ Top < PerPage => c = 1
      /\ Listed = c .. Top
  BY <1>1, <1>2, PageBounds DEF GetPage
<1>4. /\ got' = got \cup Listed /\ pages' = pages + 1 /\ page' = page + 1
      /\ count' = count + (IF Top < PerPage THEN Top ELSE PerPage)
      /\ first' = IF first = 0 THEN Top ELSE first
      /\ pc' = IF Top < PerPage THEN "listed" ELSE "list"
      /\ UNCHANGED <<url, size, lost, text>>
  BY DEF GetPage, Extend
<1>5. TypeOK'
  BY <1>1, <1>2, <1>3, <1>4 DEF TypeOK
<1>6. Top' = Top - PerPage
  <2>1. PICK k \in Nat : k = (page - 1) * PerPage
    BY <1>1
  <2>2. ((page + 1) - 1) * PerPage = k + PerPage
    BY <1>1, <2>1, Skipped
  <2>3. Top = size - k /\ Top' = size - (k + PerPage)
    BY <1>4, <2>1, <2>2 DEF Top
  <2> QED
    BY <1>1, <2>1, <2>3
<1>7. Joined'
  <2>1. got' # {} /\ oldest' \in got'
    BY <1>2, <1>4
  <2>0. first' # 0
    BY <1>3, <1>4
  <2>2. url' \in Lists /\ url'.page \in Nat \ {0} /\ page' = url'.page + pages'
    BY <1>1, <1>4 DEF Joined
  <2>3. pc' = "list" => Top' >= oldest' - 1
    BY <1>1, <1>2, <1>3, <1>4, <1>6
  <2> QED
    BY <2>0, <2>1, <2>2, <2>3 DEF Joined
<1>8. Counted' /\ Ended'
  <2>1. PICK k \in Nat : k = (page - 1) * PerPage
    BY <1>1
  <2>2. ((page + 1) - 1) * PerPage = k + PerPage
    BY <1>1, <2>1, Skipped
  <2>3. Top = size - k /\ size' = size /\ Walks' = Walks
    BY <1>4, <2>1 DEF Top, Walks
  <2>4. first' <= size'
    BY <1>1, <1>4, <2>1, <2>3 DEF Counted
  <2>5. count \in Nat /\ (Walks => count = k)
    BY <1>1, <2>1 DEF Counted, TypeOK
  <2>6. Walks => count' <= size' /\ (pc' = "listed" => count' = size')
    BY <1>1, <1>4, <2>1, <2>3, <2>5
  <2>7. pc' = "list" /\ Walks => count' = (page' - 1) * PerPage
    BY <1>1, <1>4, <2>2, <2>5
  <2>8. Counted'
    BY <2>3, <2>4, <2>6, <2>7 DEF Counted
  <2>9. pc' = "listed" => oldest' = 1
    BY <1>2, <1>3, <1>4
  <2> QED
    BY <2>3, <2>4, <2>6, <2>8, <2>9 DEF Ended
<1>9. NoGap'
  <2> SUFFICES ASSUME NEW a \in got', NEW e \in a .. first' PROVE e \in got'
    BY DEF NoGap
  <2>1. a \in Int /\ e \in Int /\ first' \in Int /\ a <= e /\ e <= first'
    BY <1>5 DEF TypeOK
  <2>2. CASE got = {}
    BY <1>3, <1>4, <2>1, <2>2 DEF Joined
  <2>3. CASE got # {}
    <3>1. first' = first /\ oldest \in got /\ Top >= oldest - 1
      BY <1>1, <1>4, <2>3 DEF Joined
    <3>2. oldest \in Int
      BY DEF TypeOK
    <3>3. CASE a \in got
      BY <1>4, <2>1, <3>1, <3>3 DEF NoGap
    <3>4. CASE a \notin got
      <4>1. a \in c .. Top
        BY <1>3, <1>4, <3>4
      <4>2. CASE e <= Top
        BY <1>3, <1>4, <2>1, <4>1, <4>2
      <4>3. CASE e > Top
        <5>1. e \in oldest .. first
          BY <1>1, <2>1, <3>1, <3>2, <4>3
        <5> QED
          BY <1>4, <3>1, <5>1 DEF NoGap
      <4> QED
        BY <1>1, <2>1, <4>2, <4>3
    <3> QED
      BY <3>3, <3>4
  <2> QED
    BY <2>2, <2>3
<1>10. Pending' /\ FirstFound' /\ CountTrue'
  BY <1>1, <1>4 DEF Pending, FirstFound, CountTrue
<1> QED
  BY <1>5, <1>7, <1>8, <1>9, <1>10 DEF IInv

(* Every other step leaves what was listed as it is.                       *)
LEMMA OthersKeep == IInv /\ [Push \/ FetchCommit \/ FetchPull \/ FetchPage
  \/ BeginList \/ GetEmpty \/ LosePage \/ OutOfPages \/ Report \/ Open]_vars => IInv'
<1> SUFFICES ASSUME IInv, [Push \/ FetchCommit \/ FetchPull \/ FetchPage
      \/ BeginList \/ GetEmpty \/ LosePage \/ OutOfPages \/ Report \/ Open]_vars
    PROVE IInv'
  OBVIOUS
<1>0. TypeOK /\ Joined /\ Counted /\ Ended /\ Pending /\ NoGap /\ FirstFound /\ CountTrue
  BY DEF IInv
<1> USE <1>0
<1>1. CASE Push
  <2>1. TypeOK'
    BY <1>1 DEF Push, walk, TypeOK
  <2>2. UNCHANGED <<url, pc, text, page, pages, got, count, oldest, first, lost>> /\ size' = size + 1
    BY <1>1 DEF Push, walk
  <2>3. pc = "list" => Top \in Int /\ Top' = Top + 1
    <3> SUFFICES ASSUME pc = "list" PROVE Top \in Int /\ Top' = Top + 1
      OBVIOUS
    <3>1. page \in Nat \ {0} /\ size \in Nat
      BY DEF TypeOK, Joined
    <3>2. PICK k \in Nat : k = (page - 1) * PerPage
      BY <3>1, Skipped
    <3>3. page' = page /\ size' = size + 1
      BY <2>2
    <3>4. Top = size - k
      BY <3>2 DEF Top
    <3>5. Top' = size' - k
      BY <3>2, <3>3 DEF Top
    <3> QED
      BY <3>1, <3>3, <3>4, <3>5
  <2>4. Joined'
    <3>1. oldest \in Int
      BY DEF TypeOK
    <3> QED
      BY <2>2, <2>3, <3>1 DEF Joined
  <2>5. Ended' /\ Pending' /\ NoGap' /\ FirstFound'
    BY <2>2 DEF Ended, Pending, NoGap, FirstFound, Walks
  <2>6. Counted' /\ CountTrue'
    <3>1. size \in Nat /\ count \in Nat /\ first \in Nat
      BY DEF TypeOK
    <3> QED
      BY <2>2, <3>1 DEF Counted, CountTrue, Walks
  <2> QED
    BY <2>1, <2>4, <2>5, <2>6 DEF IInv
<1>2. CASE FetchCommit \/ FetchPull \/ FetchPage \/ Open
  <2>1. /\ UNCHANGED <<url, size, page, pages, got, count, oldest, first, lost>>
        /\ got = {} /\ pc \in {"start", "open"} /\ pc' \in {"open", "done", "raised"}
        /\ text' \in {"none", "commit", "pull", "merged", "page"}
        /\ pc' # "done" => text' = text
    BY <1>2 DEF FetchCommit, FetchPull, FetchPage, Open, Answer, walk, Pending
  <2>2. TypeOK'
    BY <2>1 DEF TypeOK
  <2>3. Joined' /\ Counted' /\ Ended' /\ Pending'
    BY <2>1 DEF Joined, Counted, Ended, Pending, Walks
  <2>4. NoGap' /\ FirstFound' /\ CountTrue'
    BY <2>1 DEF NoGap, FirstFound, CountTrue, Pending
  <2> QED
    BY <2>2, <2>3, <2>4 DEF IInv
<1>3. CASE BeginList
  <2>1. /\ UNCHANGED <<url, size, pages, got, count, oldest, first, lost, text>>
        /\ pc = "start" /\ got = {} /\ url.kind \in {"history", "list"}
        /\ \/ pc' = "raised" /\ page' = page
           \/ pc' = "list" /\ page' = url.page /\ url.page # NotANumber
    BY <1>3 DEF BeginList, Pending
  <2>2. url \in Lists
    BY <2>1 DEF TypeOK, Plain
  <2>3. url.page = NotANumber \/ url.page \in Nat \ {0}
    BY <2>2, PageNumbers
  <2>4. TypeOK'
    BY <2>1, <2>3 DEF TypeOK
  <2>5. pages = 0 /\ count = 0
    BY <2>1 DEF Pending
  <2>6. Joined' /\ Counted'
    <3>1. (1 - 1) * PerPage = 0
      BY Skipped
    <3> QED
      BY <2>1, <2>2, <2>3, <2>5, <3>1 DEF Joined, Counted, Walks
  <2>7. Ended' /\ Pending' /\ NoGap' /\ FirstFound' /\ CountTrue'
    BY <2>1 DEF Ended, Pending, NoGap, FirstFound, CountTrue
  <2> QED
    BY <2>4, <2>6, <2>7 DEF IInv
<1>4. CASE GetEmpty \/ LosePage \/ OutOfPages
  <2>1. /\ UNCHANGED <<url, size, page, pages, got, count, oldest, first, text>>
        /\ pc = "list" /\ pc' = "listed" /\ lost' \in BOOLEAN
    BY <1>4 DEF GetEmpty, LosePage, OutOfPages, walk, TypeOK
  <2>2. TypeOK'
    BY <2>1 DEF TypeOK
  <2>3. Joined' /\ Counted' /\ Pending'
    BY <2>1 DEF Joined, Counted, Pending, Walks
  <2>4. NoGap' /\ FirstFound' /\ CountTrue'
    BY <2>1 DEF NoGap, FirstFound, CountTrue, Pending
  <2>5. Ended'
    <3>1. CASE GetEmpty
      <4>1. page \in Nat \ {0} /\ size \in Nat
        BY <2>1 DEF TypeOK, Joined
      <4>2. PICK k \in Nat : k = (page - 1) * PerPage
        BY <4>1, Skipped
      <4>3. Top = size - k
        BY <4>2 DEF Top
      <4>4. got # {} => Top >= oldest - 1 /\ oldest \in 1 .. Longest
        BY <2>1 DEF Joined, TypeOK
      <4>5. got # {} => oldest = 1
        BY <3>1, <4>1, <4>3, <4>4 DEF GetEmpty
      <4>6. Walks => first <= count
        <5>1. Walks => count = k /\ first <= size /\ size <= k
          BY <2>1, <3>1, <4>1, <4>2, <4>3 DEF GetEmpty, Counted
        <5> QED
          BY <4>1, <5>1 DEF TypeOK
      <4> QED
        BY <2>1, <4>5, <4>6 DEF Ended, Walks
    <3>2. CASE LosePage
      BY <3>2 DEF Ended, LosePage
    <3>3. CASE OutOfPages
      <4>1. Walks => page > MaxPages /\ page = 1 + pages
        BY <2>1, <3>3 DEF OutOfPages, LastPage, Walks, Joined
      <4>2. Walks => ~(pages < MaxPages)
        BY <4>1 DEF TypeOK
      <4> QED
        BY <2>1, <4>2 DEF Ended, Walks
    <3> QED
      BY <1>4, <3>1, <3>2, <3>3
  <2> QED
    BY <2>2, <2>3, <2>4, <2>5 DEF IInv
<1>5. CASE Report
  <2>1. /\ UNCHANGED <<url, size, page, pages, got, count, oldest, first, lost>>
        /\ pc = "listed"
        /\ \/ got = {} /\ pc' = "open" /\ text' = text
           \/ got # {} /\ pc' = "raised" /\ text' = text
           \/ got # {} /\ pc' = "done" /\ text' \in {"list", "detailed"}
    BY <1>5 DEF Report, Answer, walk
  <2>2. TypeOK'
    BY <2>1 DEF TypeOK
  <2>3. Joined' /\ Counted' /\ Ended' /\ Pending'
    BY <2>1 DEF Joined, Counted, Ended, Pending, Walks
  <2>4. NoGap'
    BY <2>1 DEF NoGap
  <2>5. FirstFound' /\ CountTrue'
    BY <2>1 DEF FirstFound, CountTrue, Ended, Counted, Pending, Walks
  <2> QED
    BY <2>2, <2>3, <2>4, <2>5 DEF IInv
<1>6. CASE UNCHANGED vars
  <2>1. TypeOK' /\ Joined' /\ Counted' /\ Ended' /\ Pending'
    BY <1>6 DEF vars, TypeOK, Joined, Counted, Ended, Pending, Walks, Top
  <2>2. NoGap' /\ FirstFound' /\ CountTrue'
    BY <1>6 DEF vars, NoGap, FirstFound, CountTrue, Walks
  <2> QED
    BY <2>1, <2>2 DEF IInv
<1> QED
  BY <1>1, <1>2, <1>3, <1>4, <1>5, <1>6

(* The inductive invariant of the walk holds throughout.                  *)
THEOREM Invariance == Spec => []IInv
<1>1. IInv /\ [Next]_vars => IInv'
  BY PageKeeps, OthersKeep DEF Next, Fetch
<1> QED
  BY InitIInv, <1>1, PTL DEF Spec

(* The walk's locals keep their types.                                     *)
THEOREM TypeCorrect == Spec => []TypeOK
<1>1. IInv => TypeOK
  BY DEF IInv
<1> QED
  BY Invariance, <1>1, PTL

(* For pages of any size and however many commits are pushed meanwhile, no *)
(* commit is missing above one that was listed.                            *)
THEOREM PagesJoin == Spec => []NoGap
<1>1. IInv => NoGap
  BY DEF IInv
<1> QED
  BY Invariance, <1>1, PTL

(* A walk that lost no page and had pages left reports the commit that     *)
(* started the path.                                                       *)
THEOREM FirstIsFound == Spec => []FirstFound
<1>1. IInv => FirstFound
  BY DEF IInv
<1> QED
  BY Invariance, <1>1, PTL

(* For pages of any size, the number of commits a walk reports is never    *)
(* more than there are, and at the end of the path no fewer than there were*)
(* when it began, however often pushes made it list a commit twice.        *)
THEOREM CountIsTrue == Spec => []CountTrue
<1>1. IInv => CountTrue
  BY DEF IInv
<1> QED
  BY Invariance, <1>1, PTL
=============================================================================
