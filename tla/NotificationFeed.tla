--------------------------- MODULE NotificationFeed ---------------------------
(***************************************************************************)
(* The open panel of the bell: the feed it lists (useNotificationFeed.js)  *)
(* and the controls it offers (NotificationPanel.jsx), with the part of    *)
(* the server that answers with pages.                                     *)
(*                                                                         *)
(* The account's rows are 1..created, a larger id is newer.  Pages are     *)
(* slices of the rows, newest first, so a new row pushes the older ones    *)
(* down the pages while the reader scrolls; a ring fetches page 1 again.   *)
(* The server may serve the requests in any order, the answers may land in *)
(* any order, a request or its answer may be lost.                         *)
(***************************************************************************)
EXTENDS Integers, FiniteSets, Sequences, SequencesExt, ArrayOps

CONSTANTS MaxRows,     \* bound: rows ever created
          PageSize,    \* rows of one page
          MaxPages,    \* bound: page requests in flight
          MaxFails     \* bound: requests that fail

VARIABLES created,     \* server: the rows that exist
          seen,        \* server: the rows marked as seen
          panel,       \* the open panel's state
          pages,       \* page requests in flight, in the order of sending
          fails

vars == <<created, seen, panel, pages, fails>>
server == <<created, seen>>

Rows == 1..MaxRows

\* A panel that is not mounted, and one that has just been.  base (ghost) is what
\* existed when its first page was taken.
Closed == [open |-> FALSE, items |-> <<>>, loading |-> FALSE, error |-> FALSE,
           hasMore |-> FALSE, page |-> 1, fetching |-> FALSE, base |-> 0]
Mounted == [Closed EXCEPT !.open = TRUE, !.loading = TRUE]

\* A request for a page.  mine: the generation it was sent in is current.
Request(kind, page) == [kind |-> kind, page |-> page, mine |-> TRUE, done |-> FALSE,
                        rows |-> <<>>, next |-> FALSE, base |-> 0]

Ids(items) == {items[k].id : k \in DOMAIN items}

-----------------------------------------------------------------------------
(* The server. *)

CreateRow ==
  /\ created < MaxRows /\ created' = created + 1
  /\ UNCHANGED <<seen, panel, pages, fails>>

\* The tracker of this panel, or another tab, marks a row.
MarkRow ==
  /\ \E id \in 1..created \ seen : seen' = seen \cup {id}
  /\ UNCHANGED <<created, panel, pages, fails>>

\* A page is a slice of the feed, next says whether a later one exists.
Serve(i) ==
  LET before == PageSize * (pages[i].page - 1) IN
  /\ i \in DOMAIN pages /\ ~pages[i].done
  /\ pages' = [pages EXCEPT ![i].done = TRUE,
        ![i].rows = [k \in 1..Min({PageSize, created - before}) |->
                       [id |-> created - before + 1 - k,
                        fresh |-> created - before + 1 - k \notin seen]],
        ![i].next = created > before + PageSize,
        ![i].base = created]
  /\ UNCHANGED <<server, panel, fails>>

-----------------------------------------------------------------------------
(* The panel. *)

\* What the panel draws below its title.
View == CASE panel.loading -> "loading"
          [] ~panel.loading /\ panel.error /\ panel.items = <<>> -> "unavailable"
          [] ~panel.loading /\ ~panel.error /\ panel.items = <<>> -> "nothing yet"
          [] OTHER -> "rows"

\* The bell opens the panel, which asks for the newest page.
Open ==
  /\ ~panel.open
  /\ panel' = Mounted
  /\ pages' = <<Request("first", 1)>>
  /\ UNCHANGED <<server, fails>>

\* Closing drops the list; answers to an unmounted panel set the state of
\* nothing, so its requests are forgotten.
Close ==
  /\ panel.open
  /\ panel' = Closed /\ pages' = <<>>
  /\ UNCHANGED <<server, fails>>

\* The counter of rings moved while the panel is open.
Ring ==
  /\ panel.open /\ Len(pages) < MaxPages
  /\ pages' = Append(pages, Request("ring", 1))
  /\ UNCHANGED <<server, panel, fails>>

\* The sentinel below the rows came into view; after a failed page the reader
\* pressed "Try again" there.
LoadMore ==
  /\ panel.open /\ View = "rows" /\ panel.hasMore /\ ~panel.fetching
  /\ Len(pages) < MaxPages
  /\ panel' = [panel EXCEPT !.fetching = TRUE]
  /\ pages' = Append(pages, Request("more", panel.page + 1))
  /\ UNCHANGED <<server, fails>>

\* "Try again" of a panel that has nothing: a new generation starts.
Reload ==
  /\ panel.open /\ View = "unavailable" /\ Len(pages) < MaxPages
  /\ panel' = Mounted
  /\ pages' = Append([i \in DOMAIN pages |-> [pages[i] EXCEPT !.mine = FALSE]],
                     Request("first", 1))
  /\ UNCHANGED <<server, fails>>

\* Slip: a row that comes again is moved and marked anew.
MergeMovesSlip(list, rows, atTop) ==
  LET kept == Filtered(list, {k \in DOMAIN list : list[k].id \notin Ids(rows)})
  IN  IF atTop THEN rows \o kept ELSE kept \o rows

\* merge(): rows that are not on the list yet go on top or at the end.
Merge(list, rows, atTop) ==
  LET added == Filtered(rows, {k \in DOMAIN rows : rows[k].id \notin Ids(list)})
  IN  IF atTop THEN added \o list ELSE list \o added

\* Slip: the page counter is taken from the length of the list, where rows that
\* rings put on top count too.
LandedSlip(p, c) ==
  LET q == [p EXCEPT !.items = Merge(p.items, c.rows, c.kind = "ring")]
      r == [q EXCEPT !.page = Max({1, Len(q.items) \div PageSize})]
  IN  CASE c.kind = "ring"  -> r
        [] c.kind = "first" -> [r EXCEPT !.hasMore = c.next, !.loading = FALSE,
                                         !.base = c.base]
        [] c.kind = "more"  -> [r EXCEPT !.hasMore = c.next, !.error = FALSE,
                                         !.fetching = FALSE]

\* What an answer of the current generation does.
Landed(p, c) ==
  LET q == [p EXCEPT !.items = Merge(p.items, c.rows, c.kind = "ring")]
  IN  CASE c.kind = "ring"  -> q
        [] c.kind = "first" -> [q EXCEPT !.hasMore = c.next, !.loading = FALSE,
                                         !.base = c.base]
        [] c.kind = "more"  -> [q EXCEPT !.hasMore = c.next, !.error = FALSE,
                                         !.page = c.page, !.fetching = FALSE]

Arrive(i) ==
  /\ i \in DOMAIN pages /\ pages[i].done
  /\ pages' = RemoveAt(pages, i)
  /\ panel' = IF pages[i].mine THEN Landed(panel, pages[i]) ELSE panel
  /\ UNCHANGED <<server, fails>>

\* A failed page leaves an error, a failed ring leaves nothing.
Failed(p, kind) ==
  CASE kind = "ring"  -> p
    [] kind = "first" -> [p EXCEPT !.error = TRUE, !.loading = FALSE]
    [] kind = "more"  -> [p EXCEPT !.error = TRUE, !.fetching = FALSE]

Fail(i) ==
  /\ i \in DOMAIN pages /\ fails < MaxFails
  /\ fails' = fails + 1
  /\ pages' = RemoveAt(pages, i)
  /\ panel' = IF pages[i].mine THEN Failed(panel, pages[i].kind) ELSE panel
  /\ UNCHANGED server

-----------------------------------------------------------------------------
Init ==
  /\ created \in 0..MaxRows /\ seen = {}
  /\ panel = Closed /\ pages = <<>> /\ fails = 0

Next ==
  \/ CreateRow \/ MarkRow
  \/ Open \/ Close \/ Ring \/ LoadMore \/ Reload
  \/ \E i \in 1..MaxPages : Serve(i) \/ Arrive(i) \/ Fail(i)

Spec == Init /\ [][Next]_vars

-----------------------------------------------------------------------------
(* Properties *)

\* The list holds no row twice.
TypeOK ==
  /\ created \in 0..MaxRows /\ seen \subseteq 1..created /\ fails \in 0..MaxFails
  /\ DOMAIN panel = DOMAIN Closed /\ Len(pages) <= MaxPages
  /\ \A k \in DOMAIN panel.items : panel.items[k] \in [id : Rows, fresh : BOOLEAN]
  /\ Cardinality(Ids(panel.items)) = Len(panel.items)

\* A list read to its end holds every row that existed when its first page was
\* taken, whatever new rows, rings and late answers came in between
\* (the two directions of merge(), the generation and the page counter).
FeedSkipsNothing ==
  (panel.open /\ ~panel.loading /\ ~panel.error /\ ~panel.hasMore)
    => 1..panel.base \subseteq Ids(panel.items)

\* What is on screen is not touched: as long as the panel is open, rows come
\* on top or at the end and no row loses its place or its mark.
FeedKeepsItsPlace ==
  [][(panel.open /\ panel'.open) =>
        \E k \in 0..Len(panel'.items) :
           /\ k + Len(panel.items) <= Len(panel'.items)
           /\ \A j \in DOMAIN panel.items : panel'.items[k + j] = panel.items[j]]_vars
=============================================================================
