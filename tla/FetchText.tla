------------------------------ MODULE FetchText ------------------------------
(***************************************************************************)
(* StdlibWebClient._sync_fetch_text: a URL of GitHub is answered through   *)
(* its API, and by the page itself when the API gives nothing. The history *)
(* of a path is walked page by page, newest commit first, to find the      *)
(* commit that started it.                                                 *)
(*                                                                         *)
(* GitHub is external. A history is the number of its commits, which are   *)
(* numbered from the oldest; commits are pushed while it is walked, and    *)
(* none is taken back. Any request may fail, and the JSON it answers with  *)
(* may have any shape.                                                     *)
(***************************************************************************)
EXTENDS Integers

CONSTANTS
  PerPage,   (* per_page: 100 for a history page, up to 100 for an API URL *)
  MaxPages,  (* pages of a walk: 10                                        *)
  PagesAsked,(* the values of a URL's page parameter considered            *)
  NotANumber,(* one that is not an integer                                 *)
  Longest    (* bound of the model: commits of a history                   *)

ASSUME PerPageAssumption == PerPage \in Nat \ {0}
ASSUME PagesAssumption == MaxPages \in Nat \ {0}
ASSUME AskedAssumption == NotANumber \notin Nat /\ PagesAsked \subseteq Nat \ {0}
ASSUME LongestAssumption == Longest \in Nat

(* "commit": a commit, "pull": a pull request, "history": the history of a *)
(* path as GitHub shows it, "list": the API's list of commits, "page":     *)
(* anything else.                                                          *)
Plain == [kind : {"commit", "pull", "page"}]
Lists ==
  {[kind |-> "history", filtered |-> TRUE, page |-> 1]} \cup
  [kind : {"list"}, filtered : BOOLEAN, page : PagesAsked \cup {NotANumber}]

VARIABLES
  url,
  pc,
  size,    (* commits of the history by now                                *)
  page,    (* the page to be asked for next                                *)
  pages,   (* pages_fetched                                                *)
  got,     (* data, as a set                                               *)
  count,   (* len(data): a commit on two pages counts twice                *)
  oldest,  (* data[-1], or 0                                               *)
  first,   (* the newest commit of the first page that came, or 0 (history *)
           (* variable)                                                    *)
  lost,    (* a page asked for did not come (history variable)             *)
  text     (* what the text returned is about                              *)

vars == <<url, pc, size, page, pages, got, count, oldest, first, lost, text>>
walk == <<page, pages, got, count, oldest, first, lost>>

Answer(t) == pc' = "done" /\ text' = t

-----------------------------------------------------------------------------
Init ==
  /\ url \in Plain \cup Lists
  /\ pc = "start"
  /\ size \in 0 .. Longest
  /\ page = 0 /\ pages = 0
  /\ got = {} /\ count = 0 /\ oldest = 0 /\ first = 0 /\ lost = FALSE
  /\ text = "none"

(* Others push to the branch.                                              *)
Push ==
  /\ size < Longest
  /\ size' = size + 1
  /\ UNCHANGED <<url, pc, text, walk>>

(* A request for the commit and one for each profile it names. When the    *)
(* first one brings no JSON object the page is opened instead. An object   *)
(* whose parts have another shape, or a profile that is no object, raises  *)
(* outside any try.                                                        *)
FetchCommit ==
  /\ pc = "start" /\ url.kind = "commit"
  /\ \/ Answer("commit")
     \/ pc' \in {"open", "raised"} /\ UNCHANGED text
  /\ UNCHANGED <<url, size, walk>>

(* A merged pull request has the metadata of its merge commit added, by the*)
(* same look-up, which may raise.                                          *)
FetchPull ==
  /\ pc = "start" /\ url.kind = "pull"
  /\ \/ Answer("pull") \/ Answer("merged")
     \/ pc' \in {"open", "raised"} /\ UNCHANGED text
  /\ UNCHANGED <<url, size, walk>>

FetchPage ==
  /\ pc = "start" /\ url.kind = "page"
  /\ pc' = "open"
  /\ UNCHANGED <<url, size, text, walk>>

(* int() raises on a page that is no number, outside any try.              *)
BeginList ==
  /\ pc = "start" /\ url.kind \in {"history", "list"}
  /\ IF url.page = NotANumber THEN pc' = "raised" /\ UNCHANGED page
                              ELSE pc' = "list" /\ page' = url.page
  /\ UNCHANGED <<url, size, pages, got, count, oldest, first, lost, text>>

(* Newest first: page p skips (p - 1) * PerPage commits.                   *)
Top == size - (page - 1) * PerPage
Listed == {c \in 1 .. Longest : c <= Top /\ c + PerPage > Top}

(* data.extend, by a page of n commits                                     *)
Extend(n) ==
  /\ got' = got \cup Listed
  /\ count' = count + n
  /\ \E c \in Listed : (\A d \in Listed : c <= d) /\ oldest' = c
  /\ first' = IF first = 0 THEN Top ELSE first
  /\ pages' = pages + 1 /\ page' = page + 1

Walks == url.filtered /\ url.page = 1
LastPage == IF Walks THEN MaxPages ELSE url.page

(* Faulty variants: the first page is taken for the whole history, or every*)
(* page for a full one                                                     *)
GetPage_Once ==
  /\ pc = "list" /\ page <= LastPage /\ Top > 0
  /\ Extend(IF Top < PerPage THEN Top ELSE PerPage)
  /\ pc' = "listed"
  /\ UNCHANGED <<url, size, lost, text>>
GetPage_Full ==
  /\ pc = "list" /\ page <= LastPage /\ Top > 0
  /\ Extend(PerPage)
  /\ pc' = IF Top < PerPage THEN "listed" ELSE "list"
  /\ UNCHANGED <<url, size, lost, text>>

(* A page arrives; one that is not full ends the walk.                     *)
GetPage ==
  /\ pc = "list" /\ page <= LastPage /\ Top > 0
  /\ Extend(IF Top < PerPage THEN Top ELSE PerPage)
  /\ pc' = IF Top < PerPage THEN "listed" ELSE "list"
  /\ UNCHANGED <<url, size, lost, text>>

GetEmpty ==
  /\ pc = "list" /\ page <= LastPage /\ Top <= 0
  /\ pc' = "listed"
  /\ UNCHANGED <<url, size, text, walk>>

(* Faulty variant: the walk goes on behind a page that failed              *)
LosePage_Continue ==
  /\ pc = "list" /\ page <= LastPage
  /\ page' = page + 1 /\ lost' = TRUE
  /\ UNCHANGED <<url, pc, size, pages, got, count, oldest, first, text>>

(* The request fails, or answers with something that is no list.           *)
LosePage ==
  /\ pc = "list" /\ page <= LastPage
  /\ pc' = "listed" /\ lost' = TRUE
  /\ UNCHANGED <<url, size, page, pages, got, count, oldest, first, text>>

OutOfPages ==
  /\ pc = "list" /\ page > LastPage
  /\ pc' = "listed"
  /\ UNCHANGED <<url, size, text, walk>>

(* Without any commit the URL itself is opened. Otherwise the text gives   *)
(* the count and the oldest commit, its details if they can be had, and the*)
(* beginning of the list as far as the limit on the text reaches. The      *)
(* look-up of the details may raise, and then all that was listed is lost. *)
Report ==
  /\ pc = "listed"
  /\ \/ got = {} /\ pc' = "open" /\ UNCHANGED text
     \/ got # {} /\ (Answer("list") \/ Answer("detailed"))
     \/ got # {} /\ pc' = "raised" /\ UNCHANGED text
  /\ UNCHANGED <<url, size, walk>>

(* _open: the page as text, or nothing                                     *)
Open ==
  /\ pc = "open"
  /\ Answer("page") \/ Answer("none")
  /\ UNCHANGED <<url, size, walk>>

Fetch ==
  FetchCommit \/ FetchPull \/ FetchPage \/ BeginList
  \/ GetPage \/ GetEmpty \/ LosePage \/ OutOfPages \/ Report \/ Open
Next == Push \/ Fetch

Spec == Init /\ [][Next]_vars

-----------------------------------------------------------------------------
(* Properties                                                              *)

TypeOK ==
  /\ url \in Plain \cup Lists
  /\ pc \in {"start", "list", "listed", "open", "done", "raised"}
  /\ size \in 0 .. Longest
  /\ page \in Nat
  /\ pages \in Nat
  /\ got \subseteq 1 .. Longest
  /\ count \in Nat
  /\ oldest \in 0 .. Longest
  /\ first \in 0 .. Longest
  /\ lost \in BOOLEAN
  /\ text \in {"none", "commit", "pull", "merged", "list",
               "detailed", "page"}

(* The pages of a walk join up, although commits are pushed between two of *)
(* them and every push shifts the pages that are still to come: of what was*)
(* there when the walk began, no commit is missing above one that was      *)
(* listed.                                                                 *)
NoGap == \A c \in got : \A e \in c .. first : e \in got

(* The commit a walk reports as the oldest is the one that started the     *)
(* path, unless a page was lost or the walk used up its pages.             *)
FirstFound ==
  text \in {"list", "detailed"} /\ Walks /\ ~lost /\ pages < MaxPages =>
    oldest = 1

(* The number of commits a walk reports is never more than the path has,   *)
(* although a push makes a commit appear on two pages and count twice. A   *)
(* walk that came to the end reports how many there were at one moment of  *)
(* it: no fewer than when it began.                                        *)
CountTrue ==
  text \in {"list", "detailed"} /\ Walks =>
    /\ count <= size
    /\ ~lost /\ pages < MaxPages => first <= count
=============================================================================
