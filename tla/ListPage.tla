------------------------------- MODULE ListPage -------------------------------
(***************************************************************************)
(* A page of the web client that shows a filtered list: the problem        *)
(* catalogue, the global standings, or the contests hub.                   *)
(*                                                                         *)
(* Two loops run side by side.  The search field of the top bar holds what *)
(* is typed and moves it into the address when typing pauses; the address  *)
(* and the page's own filters make the request parameters.  The page's     *)
(* hook (useProblems, useStandings, useContests) reloads from page 1 when  *)
(* the parameters change and appends pages as the reader scrolls; its      *)
(* requests may land, or fail, in any order.                               *)
(*                                                                         *)
(* The three hooks differ: two of them wipe what they show the moment the  *)
(* parameters change, the catalogue keeps it until the answer is in.       *)
(* The rows the server has for given parameters do not change meanwhile.   *)
(***************************************************************************)
EXTENDS Integers, FiniteSets, Sequences, SequencesExt

CONSTANTS Hooks,       \* which hooks are looked at
          PageSize,    \* rows of one page
          MaxChanges,  \* bound: keystrokes, back steps and filter changes
          MaxFails     \* bound: requests that fail

VARIABLES hook,        \* the page's hook
          draft,       \* SearchField: the text being typed
          timer,       \* SearchField: a debounced report is due
          moving,      \* router: the term of a navigation not yet rendered
          term,        \* useSearchTerm: the term in the address
          cut, sort,   \* the page's filter (tier, tab, difficulty...) and order
          list,        \* the hook's state
          calls,       \* the hook's requests in flight
          refused,     \* ghost: page 1 of the current parameters failed
          changes, fails

search == <<draft, timer, moving, term>>
vars == <<hook, search, cut, sort, list, calls, refused, changes, fails>>

Drafts == {"", " ", "a"}
NoMove == "none"
Cuts == {"all", "some"}
Sorts == [col : {"none", "c1", "c2"}, dir : {"asc", "desc"}]

\* The standings are never unsorted, the other two lists may be.
DefaultSort(h) == [col |-> IF h = "standings" THEN "c1" ELSE "none", dir |-> "desc"]

\* A term of nothing but spaces drops the parameter.
Norm(text) == IF text = " " THEN "" ELSE text

Params == [term |-> term, cut |-> cut, sort |-> sort]

\* The server: each way of narrowing leaves fewer rows.
RowCount(p) == 3 - (IF p.term = "" THEN 0 ELSE 2) - (IF p.cut = "all" THEN 0 ELSE 1)
Answer(p, page) == [i \in 1..Min({PageSize, RowCount(p) - PageSize * (page - 1)}) |->
                      [of |-> p, row |-> PageSize * (page - 1) + i]]
HasNext(p, page) == RowCount(p) > PageSize * page

Blank == [items |-> <<>>, hasMore |-> FALSE, loading |-> TRUE, error |-> FALSE,
          page |-> 1, fetching |-> FALSE]

-----------------------------------------------------------------------------
(* The hook. *)

\* Slip: the rows go, "there is more" stays.
WipedSlip(h, l) ==
  IF h = "problems" THEN l
  ELSE [l EXCEPT !.items = <<>>, !.loading = TRUE, !.error = FALSE]

\* What the hooks for the standings and the contests drop while they render
\* with new parameters.
Wiped(h, l) ==
  IF h = "problems" THEN l
  ELSE [l EXCEPT !.items = <<>>, !.hasMore = FALSE, !.loading = TRUE, !.error = FALSE]

\* The effect on [params]: a new generation asks for page 1.  The lock of
\* loadMore is not released here.
Reload ==
  IF Params' = Params THEN UNCHANGED <<list, calls, refused>>
  ELSE /\ list' = [Wiped(hook, list) EXCEPT !.page = 1]
       /\ calls' = {[c EXCEPT !.mine = FALSE] : c \in calls}
                   \cup {[kind |-> "first", of |-> Params', page |-> 1, mine |-> TRUE]}
       /\ refused' = FALSE

\* What each page draws.  Only the rows on screen decide between them and a notice.
CatalogueView ==
  CASE list.items # <<>> -> "list"
    [] list.items = <<>> /\ list.loading -> "nothing"
    [] list.items = <<>> /\ ~list.loading /\ list.error -> "failed"
    [] OTHER -> "empty"

BoardView ==
  CASE list.items = <<>> /\ list.error -> "failed"
    [] list.items = <<>> /\ ~list.error /\ ~list.loading -> "empty"
    [] OTHER -> "list"

HubView ==
  CASE list.items # <<>> -> "list"
    [] list.items = <<>> /\ list.loading -> "nothing"
    [] OTHER -> IF list.error THEN "failed" ELSE "empty"

View == CASE hook = "problems" -> CatalogueView
          [] hook = "standings" -> BoardView
          [] hook = "contests" -> HubView

\* The catalogue draws its sentinel below whatever it shows.
Sentinel == list.hasMore /\ (hook = "problems" \/ View = "list")

LoadMore ==
  /\ Sentinel /\ ~list.fetching
  /\ list' = [list EXCEPT !.fetching = TRUE]
  /\ calls' = calls \cup {[kind |-> "more", of |-> Params, page |-> list.page + 1,
                           mine |-> TRUE]}
  /\ UNCHANGED <<hook, search, cut, sort, refused, changes, fails>>

\* An answer of an earlier generation is dropped; its lock is released.
Arrive(c) ==
  /\ calls' = calls \ {c}
  /\ list' = CASE c.kind = "first" /\ c.mine ->
                    [list EXCEPT !.items = Answer(c.of, 1), !.hasMore = HasNext(c.of, 1),
                                 !.loading = FALSE]
               [] c.kind = "more" /\ c.mine ->
                    [list EXCEPT !.items = @ \o Answer(c.of, c.page), !.page = c.page,
                                 !.hasMore = HasNext(c.of, c.page), !.fetching = FALSE]
               [] c.kind = "more" /\ ~c.mine -> [list EXCEPT !.fetching = FALSE]
               [] OTHER -> list
  /\ UNCHANGED <<hook, search, cut, sort, refused, changes, fails>>

\* The standings stop offering more after a failed page, the others do not.
Fail(c) ==
  /\ fails < MaxFails /\ fails' = fails + 1
  /\ calls' = calls \ {c}
  /\ list' = CASE c.kind = "first" /\ c.mine ->
                    [list EXCEPT !.error = TRUE, !.loading = FALSE]
               [] c.kind = "more" /\ c.mine ->
                    [list EXCEPT !.error = TRUE, !.fetching = FALSE,
                                 !.hasMore = @ /\ hook # "standings"]
               [] c.kind = "more" /\ ~c.mine -> [list EXCEPT !.fetching = FALSE]
               [] OTHER -> list
  /\ refused' = (refused \/ (c.kind = "first" /\ c.mine))
  /\ UNCHANGED <<hook, search, cut, sort, changes>>

-----------------------------------------------------------------------------
(* The page's filters. *)

Filter(c) ==
  /\ changes < MaxChanges /\ changes' = changes + 1
  /\ c # cut /\ cut' = c
  /\ UNCHANGED <<hook, search, sort, fails>>
  /\ Reload

\* The catalogue's toolbar, the standings' tiers and the hub's tabs.
PickFilter(c) == hook = "problems" /\ Filter(c)
PickTier(c) == hook = "standings" /\ Filter(c)
PickTab(c) == hook = "contests" /\ Filter(c)

\* The click cycle of a column.  The catalogue goes asc, desc, off.
CycleSort(s, col) ==
  CASE s.col # col -> [col |-> col, dir |-> "asc"]
    [] s = [col |-> col, dir |-> "asc"] -> [col |-> col, dir |-> "desc"]
    [] OTHER -> DefaultSort("problems")

\* The standings go desc, asc and back to best rating first.
OnSort(s, col) ==
  CASE s.col # col -> [col |-> col, dir |-> "desc"]
    [] s = [col |-> col, dir |-> "desc"] -> [col |-> col, dir |-> "asc"]
    [] OTHER -> DefaultSort("standings")

Order(next) ==
  /\ changes < MaxChanges /\ changes' = changes + 1
  /\ sort' = next
  /\ UNCHANGED <<hook, search, cut, fails>>
  /\ Reload

SortProblems(col) == hook = "problems" /\ Order(CycleSort(sort, col))
SortStandings(col) == hook = "standings" /\ Order(OnSort(sort, col))

-----------------------------------------------------------------------------
(* The search field. *)

\* A keystroke restarts the timer; text equal to the page's term needs none.
Type(text) ==
  /\ changes < MaxChanges /\ changes' = changes + 1
  /\ text # draft /\ draft' = text
  /\ timer' = (text # term)
  /\ UNCHANGED <<hook, moving, term, cut, sort, list, calls, refused, fails>>

\* Slip: only a term that is not empty is reported.
ReportSlip ==
  /\ timer /\ timer' = FALSE
  /\ moving' = IF draft = "a" THEN draft ELSE moving
  /\ UNCHANGED <<hook, draft, term, cut, sort, list, calls, refused, changes, fails>>

\* The timer: the draft goes to setTerm, which starts a navigation.
Report ==
  /\ timer /\ timer' = FALSE
  /\ moving' = Norm(draft)
  /\ UNCHANGED <<hook, draft, term, cut, sort, list, calls, refused, changes, fails>>

\* Clearing (the cross, Escape, "Clear search") reports at once.
Clear ==
  /\ changes < MaxChanges /\ changes' = changes + 1
  /\ draft # "" \/ term # ""
  /\ draft' = ""
  /\ timer' = (term # "")
  /\ moving' = ""
  /\ UNCHANGED <<hook, term, cut, sort, list, calls, refused, fails>>

\* A back step changes the address without the field.
Back(t) ==
  /\ changes < MaxChanges /\ changes' = changes + 1
  /\ moving = NoMove /\ t # term /\ moving' = t
  /\ UNCHANGED <<hook, draft, timer, term, cut, sort, list, calls, refused, fails>>

\* The page renders with the new address.  When the term moved, the field
\* follows it, whatever was typed since.
Navigate ==
  /\ moving # NoMove /\ moving' = NoMove
  /\ term' = moving
  /\ draft' = IF moving # term THEN moving ELSE draft
  /\ timer' = (timer /\ moving = term)
  /\ UNCHANGED <<hook, cut, sort, changes, fails>>
  /\ Reload

-----------------------------------------------------------------------------
Init ==
  /\ hook \in Hooks
  /\ draft = "" /\ timer = FALSE /\ moving = NoMove /\ term = ""
  /\ cut = "all" /\ sort = DefaultSort(hook)
  /\ list = Blank /\ refused = FALSE
  /\ calls = {[kind |-> "first", of |-> Params, page |-> 1, mine |-> TRUE]}
  /\ changes = 0 /\ fails = 0

Next ==
  \/ LoadMore \/ Report \/ Clear \/ Navigate
  \/ \E c \in calls : Arrive(c) \/ Fail(c)
  \/ \E c \in Cuts : PickFilter(c) \/ PickTier(c) \/ PickTab(c)
  \/ \E col \in {"c1", "c2"} : SortProblems(col) \/ SortStandings(col)
  \/ \E text \in Drafts : Type(text) \/ Back(Norm(text))

Fairness == WF_vars(Report) /\ WF_vars(Navigate) /\ WF_vars(\E c \in calls : Arrive(c))

Spec == Init /\ [][Next]_vars /\ Fairness

-----------------------------------------------------------------------------
(* Properties *)

TypeOK ==
  /\ hook \in Hooks /\ draft \in Drafts /\ timer \in BOOLEAN
  /\ moving \in {NoMove, "", "a"} /\ term \in {"", "a"}
  /\ cut \in Cuts /\ sort \in Sorts
  /\ DOMAIN list = DOMAIN Blank /\ list.page \in Nat
  /\ \A c \in calls : c.kind \in {"first", "more"}
  /\ refused \in BOOLEAN /\ changes \in 0..MaxChanges /\ fails \in 0..MaxFails

\* The rows on screen are, in order and without a gap, the first rows of what
\* the server has for the parameters on screen; a list read to its end has them
\* all.
RowsAreAPrefix ==
  /\ \A i \in DOMAIN list.items : list.items[i] = [of |-> Params, row |-> i]
  /\ (~list.hasMore /\ ~list.loading /\ ~list.error)
       => Len(list.items) = RowCount(Params)

\* "Nothing found" is said only when the server has no row for the parameters,
\* "unavailable" only when their own first page failed.
NoticeIsTrue ==
  /\ View = "empty" => RowCount(Params) = 0
  /\ View = "failed" => refused

\* The standings and the contests hub tell the truth about the filter on screen,
\* through any interleaving of filter changes, late pages and failures: no row
\* is skipped, and no rows, error or "more" of the previous filter answer for
\* this one (the generation, the page counter and the wipe of useStandings and
\* useContests).  The catalogue promises less: it keeps the rows of the old
\* filter on screen and offers "more" below them, and a page asked for then
\* skips rows for good.
ListTellsTheTruth ==
  hook \in {"standings", "contests"} => RowsAreAPrefix /\ NoticeIsTrue

\* When the reader stops, the page shows the term that is in the field, spaces
\* aside: no report is lost between the timer, the address and a back step.
SearchSettles == <>[](term = Norm(draft))
=============================================================================
