------------------------------- MODULE ListPages -------------------------------
(***************************************************************************)
(* The paged lists of the console: a search box, filters, a pager, and the *)
(* query they make together.  Ten pages do this ten times over; each is a  *)
(* row that says which of the variants it is, and one of them is open.     *)
(*                                                                         *)
(* A search is empty or not, the filters are clear or not, and of an       *)
(* answer only its number of pages is kept, which any write on the backend *)
(* may change between two answers.                                         *)
(***************************************************************************)
EXTENDS Naturals

CONSTANT MaxPages    \* bound: pages an answer has

ASSUME PagesBound == MaxPages \in Nat \ {0}

(* searches: "never", "at once", "after a pause" of 250 ms, or "in the page"*)
(* (within the rows of one page).  pager: when Next is disabled, and what   *)
(* it sets.  hides: no pager while there is one page or no answer.          *)
(* views: saved views replace search and filters.                           *)
List(searches, pager, hides, views) ==
  [searches |-> searches, pager |-> pager, hides |-> hides, views |-> views]

Users        == List("at once", "bounded", TRUE, FALSE)
Endpoints    == List("at once", "bounded", TRUE, FALSE)
Activity     == List("never", "bounded", TRUE, FALSE)
DlpSearch    == List("at once", "clamped", FALSE, FALSE)
PuppetFacts  == List("after a pause", "bounded", FALSE, TRUE)
LinuxAudit   == List("after a pause", "unequal", TRUE, FALSE)
ProxyAudit   == List("after a pause", "unequal", TRUE, FALSE)
Vulnerable   == List("after a pause", "clamped", TRUE, FALSE)
AuditLog     == List("in the page", "bounded", FALSE, FALSE)
ChangeLog    == List("never", "bounded", FALSE, FALSE)

Lists == {Users, Endpoints, Activity, DlpSearch, PuppetFacts, LinuxAudit,
          ProxyAudit, Vulnerable, AuditLog, ChangeLog}

VARIABLES list,      \* the page that is open
          box,       \* the text of its search box
          timer,     \* the debounce timer is running
          term,      \* the search the query is keyed by
          filtered,  \* whether the filters narrow
          page, pages,
          promised,  \* the most pages shown for this search and filters
          offer      \* the default view: "unread", then "applied" or "none"

listVars == <<list, box, timer, term, filtered, page, pages, promised, offer>>

Larger(a, b) == IF a > b THEN a ELSE b

ListsTypeOK ==
  /\ list \in Lists
  /\ box \in BOOLEAN /\ timer \in BOOLEAN /\ term \in BOOLEAN /\ filtered \in BOOLEAN
  /\ page \in 1..(MaxPages + 1) /\ pages \in 1..MaxPages /\ promised \in 1..MaxPages
  /\ offer \in {"unread", "applied", "none"}

ListsInit ==
  /\ list \in Lists
  /\ box = FALSE /\ timer = FALSE /\ term = FALSE
  /\ filtered \in BOOLEAN        \* some filters come from the address
  /\ page = 1 /\ pages = 1 /\ promised = 1
  /\ offer = "unread"

(* The rows of another query: one that is loading has one page, and so has  *)
(* an empty one.                                                            *)
Rows == pages' \in 1..MaxPages

(* useEffect(() => setPage(1), [...]), or setPage beside the setter.        *)
ResetPage == page' = 1 /\ Rows /\ promised' = pages'

\* Mutant: the page the user was on is kept.
KeepPage == page' = page /\ Rows /\ promised' = pages'

(* A key in the search box, or the cross that empties it.                   *)
Type ==
  /\ list.searches # "never"
  /\ box' = ~box
  /\ CASE list.searches = "after a pause" ->
            timer' = TRUE /\ UNCHANGED <<term, page, pages, promised>>
       [] list.searches = "at once" ->
            term' = box' /\ ResetPage /\ UNCHANGED timer
       [] list.searches = "in the page" ->
            /\ term' = box' /\ UNCHANGED timer
            /\ \/ page' = 1 /\ Rows /\ promised' = Larger(promised, pages')
               \/ box /\ UNCHANGED <<page, pages, promised>>
  /\ UNCHANGED <<list, filtered, offer>>

(* The timer fires; the text is trimmed, and may be the old search again.   *)
Settle ==
  /\ timer /\ timer' = FALSE
  /\ term' = box
  /\ IF term' = term THEN UNCHANGED <<page, pages, promised>> ELSE ResetPage
  /\ UNCHANGED <<list, box, filtered, offer>>

\* Mutant: a filter that does not reset the page.
ChooseFilterKeepsPage ==
  /\ filtered' \in BOOLEAN /\ KeepPage
  /\ UNCHANGED <<list, box, timer, term, offer>>

(* Any filter, and the orders and page sizes that are part of the query.    *)
ChooseFilter ==
  /\ filtered' \in BOOLEAN /\ ResetPage
  /\ UNCHANGED <<list, box, timer, term, offer>>

\* Mutant: the search box is not set along with the search.
ApplyDefinitionBesideBox(search) ==
  /\ term' = search /\ filtered' \in BOOLEAN /\ ResetPage
  /\ UNCHANGED <<box, timer>>

(* applyDefinition: everything at once, the box and the search included.    *)
(* The effect on the box starts the timer again if the text changed.        *)
ApplyDefinition(search) ==
  /\ box' = search /\ term' = search /\ timer' = (timer \/ box # search)
  /\ filtered' \in BOOLEAN /\ ResetPage

ChooseView ==
  /\ list.views
  /\ \E search \in BOOLEAN : ApplyDefinition(search)
  /\ UNCHANGED <<list, offer>>

(* The first answer of the saved views, however late it comes.              *)
DefaultView ==
  /\ list.views /\ offer = "unread"
  /\ \/ /\ \E search \in BOOLEAN : ApplyDefinition(search)
        /\ offer' = "applied"
     \/ offer' = "none" /\ UNCHANGED <<box, timer, term, filtered, page, pages, promised>>
  /\ UNCHANGED list

PagerShown == list.hides => pages > 1

Turn ==
  /\ Rows /\ promised' = Larger(promised, pages')
  /\ UNCHANGED <<list, box, timer, term, filtered, offer>>

Previous == PagerShown /\ page > 1 /\ page' = page - 1 /\ Turn

(* "unequal" pagers are disabled on the last page only, and do not clamp.   *)
NextPage ==
  /\ PagerShown
  /\ \/ list.pager = "bounded" /\ page < pages /\ page' = page + 1
     \/ list.pager = "unequal" /\ page # pages /\ page <= MaxPages /\ page' = page + 1
     \/ list.pager = "clamped" /\ page # pages /\ page' = (IF page > pages THEN pages ELSE page + 1)
  /\ Turn

(* The answer of the query shown, or a refetch of it.                       *)
RowsArrive ==
  /\ Rows /\ promised' = Larger(promised, pages')
  /\ UNCHANGED <<list, box, timer, term, filtered, page, offer>>

ListsNext ==
  \/ Type \/ Settle \/ ChooseFilter \/ ChooseView \/ DefaultView
  \/ Previous \/ NextPage \/ RowsArrive

ListsSpec == ListsInit /\ [][ListsNext]_listVars

-----------------------------------------------------------------------------
(* Safety: a page number beyond every page count shown for this search and  *)
(* these filters is never asked for, so rows are not missed by starting     *)
(* past the end.  The pagers of the Linux and proxy lists do not keep to    *)
(* it: they compare with #, and count on after the list has shrunk.         *)
PagePromised == list.pager # "unequal" => page <= promised

(* Safety: when no timer runs, the rows are those of the text in the box,   *)
(* also after a saved view has replaced both.                               *)
SearchSettles == ~timer => term = box

=============================================================================
