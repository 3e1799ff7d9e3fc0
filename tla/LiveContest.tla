----------------------------- MODULE LiveContest -----------------------------
(***************************************************************************)
(* A page that follows a running contest: the contest page with its panel  *)
(* (ContestPage), or the workspace with the standings in a rail            *)
(* (ContestProblemPage); and what it follows on the server.                *)
(*                                                                         *)
(* The socket carries no data, it says that something changed: an update   *)
(* arms a timer, the timer refetches what the panel has loaded, and the    *)
(* end of the round, sent once after the rating, refetches once more.  A   *)
(* socket that reconnects after the rating is told the end on connecting.  *)
(*                                                                         *)
(* The page is one of a participant and stays on one contest.  The table   *)
(* is a version number.  A request is answered with a version between the  *)
(* last one signalled when it was sent and the one there is when the       *)
(* answer arrives: that is what LeaderboardCache.tla is checked for.       *)
(***************************************************************************)
EXTENDS Integers, Sequences, SequencesExt, ArrayOps

CONSTANTS Viewers,     \* "page", "rail"
          Pages,       \* pages of one row that each slice has
          MaxEvents    \* bound: accepted verdicts, clicks on the panel and the
                       \* pill, and requests, connections, broadcasts that fail

VARIABLES viewer,      \* which of the two pages
          clock,       \* contestState: before, during or after the round
          table,       \* server: the version of the standings
          final,       \* server: the version that has the ratings, 0 before
          untold,      \* server: the version each writer has yet to signal, or 0
          signalled,   \* server: the newest version that was signalled
          open,        \* showPanel, showLb
          socket,      \* [stage, inbox]
          armed,       \* useThrottledSignal: the timer runs
          ended,       \* useLeaderboardSignal: contest_ended came
          panel,       \* useContestPanel
          calls,       \* requests in flight
          told,        \* ghost: the newest version a fetch was promised for
          crossed,     \* ghost: a refetch was in flight together with another
                       \* request for the panel
          unheard,     \* ghost: the end was sent before the cache was dropped,
                       \* or could not be sent
          events

server == <<clock, table, final, untold, signalled>>
vars == <<viewer, server, open, socket, armed, ended, panel, calls, told,
          crossed, unheard, events>>

Later(v, w) == IF v > w THEN v ELSE w

\* The rail is closed at first and needs a click more, and one to close.
Bound == IF viewer = "rail" THEN MaxEvents + 2 ELSE MaxEvents

\* The channel is worth a socket from the start on, on the page until the end is
\* heard, in the rail while the round runs.
Enabled(o, c) == o /\ (c = "live" \/ (viewer = "page" /\ c = "over"))
Off == [stage |-> "off", inbox |-> <<>>]
Connecting == [stage |-> "connecting", inbox |-> <<>>]
Connected == socket.stage \in {"joined", "open"}

\* kind of useContestPanel, "none" for null.
Slice(o, c) ==
  CASE viewer = "rail" -> IF o THEN "leaderboard" ELSE "none"
    [] viewer = "page" -> IF c = "soon" THEN "registrants" ELSE "leaderboard"

Call(kind, slice, upTo) ==
  [kind |-> kind, slice |-> slice, upTo |-> upTo, mine |-> TRUE, floor |-> signalled]

\* A new generation: whatever the older requests bring is dropped when it comes, so
\* only loadMore, whose answer still releases its lock, is kept in sight.
Disowned ==
  LET locks == Filtered(calls, {i \in DOMAIN calls : calls[i].kind = "more"})
  IN  [i \in DOMAIN locks |-> [locks[i] EXCEPT !.mine = FALSE]]

Awaited(kinds) == \E i \in DOMAIN calls : calls[i].mine /\ calls[i].kind \in kinds

Row(slice, place, v) == [slice |-> slice, place |-> place, version |-> v]

-----------------------------------------------------------------------------
(* The panel's requests. *)

\* The effect on [id, kind, reloadKey]: a new generation, from page 1.
FirstPage(slice) ==
  Disowned \o IF slice = "none" THEN <<>> ELSE <<Call("first", slice, 1)>>

\* reloadLoaded: every page loaded so far, within the generation.
Batch(slice) == <<Call("batch", slice, panel.page)>>

\* The panel rendered with another slice.
Emptied == [panel EXCEPT !.rows = <<>>, !.hasMore = FALSE, !.loading = TRUE,
                         !.error = FALSE]

Rekey(slice) ==
  IF slice = Slice(open, clock) THEN UNCHANGED <<panel, calls, crossed>>
  ELSE /\ panel' = [Emptied EXCEPT !.page = IF slice = "none" THEN @ ELSE 1]
       /\ calls' = FirstPage(slice)
       /\ crossed' = FALSE

\* Opening and closing the channel with what it depends on.
Rewire(o, c) ==
  socket' = IF Enabled(o, c) = Enabled(open, clock) THEN socket
            ELSE IF Enabled(o, c) THEN Connecting ELSE Off

-----------------------------------------------------------------------------
(* The server. *)

Solve ==
  /\ clock # "soon" /\ untold.update = 0
  /\ events < Bound /\ events' = events + 1
  /\ table' = table + 1 /\ untold' = [untold EXCEPT !.update = table + 1]
  /\ UNCHANGED <<viewer, clock, final, signalled, open, socket, armed, ended, panel,
                 calls, told, crossed, unheard>>

Rate ==
  /\ clock = "over" /\ final = 0
  /\ table' = table + 1 /\ final' = table + 1
  /\ untold' = [untold EXCEPT !.ended = table + 1]
  /\ UNCHANGED <<viewer, clock, signalled, open, socket, armed, ended, panel, calls, told,
                 crossed, unheard, events>>

\* The generation was bumped, the broadcast goes to the sockets that are in.
Tell(w) ==
  /\ untold[w] # 0 /\ untold' = [untold EXCEPT ![w] = 0]
  /\ signalled' = Later(signalled, untold[w])
  /\ socket' = IF Connected
               THEN [socket EXCEPT
                       !.inbox = Append(@, [type |-> w, version |-> untold[w]])]
               ELSE socket
  /\ UNCHANGED <<viewer, clock, table, final, open, armed, ended, panel, calls,
                 told, crossed, unheard, events>>

\* Redis refuses the broadcast; nobody sends it again.
TellFails(w) ==
  /\ untold[w] # 0 /\ untold' = [untold EXCEPT ![w] = 0]
  /\ events < Bound /\ events' = events + 1
  /\ signalled' = Later(signalled, untold[w])
  /\ unheard' = (unheard \/ (w = "ended" /\ Connected))
  /\ UNCHANGED <<viewer, clock, table, final, open, socket, armed, ended, panel, calls,
                 told, crossed>>

-----------------------------------------------------------------------------
(* The socket. *)

\* A ticket, the handshake, group_add.  The retries until it works are this step's
\* not being taken.
Join ==
  /\ socket.stage = "connecting"
  /\ socket' = [socket EXCEPT !.stage = "joined"]
  /\ UNCHANGED <<viewer, server, open, armed, ended, panel, calls, told,
                 crossed, unheard, events>>

\* Slip: the end is not replayed.
ReplaySlip == <<>>

\* A socket that joins a rated contest is told so.
Replay == IF final = 0 THEN <<>> ELSE <<[type |-> "ended", version |-> signalled]>>

Check ==
  /\ socket.stage = "joined"
  /\ socket' = [socket EXCEPT !.stage = "open", !.inbox = @ \o Replay]
  /\ unheard' = (unheard \/ (Replay # <<>> /\ untold.ended # 0))
  /\ UNCHANGED <<viewer, server, open, armed, ended, panel, calls, told,
                 crossed, events>>

\* A lost connection takes with it what was on its way, and reconnects.
Drop ==
  /\ Connected /\ events < Bound /\ events' = events + 1
  /\ socket' = Connecting
  /\ UNCHANGED <<viewer, server, open, armed, ended, panel, calls, told,
                 crossed, unheard>>

\* leaderboard_update: a timer that runs already takes this one along.
HearUpdate ==
  /\ Connected /\ socket.inbox # <<>> /\ Head(socket.inbox).type = "update"
  /\ socket' = [socket EXCEPT !.inbox = Tail(@)]
  /\ armed' = TRUE
  /\ told' = Later(told, Head(socket.inbox).version)
  /\ UNCHANGED <<viewer, server, open, ended, panel, calls, crossed, unheard,
                 events>>

\* contest_ended: the first one refetches on the page; the server closes and the
\* hook does not reconnect.
HearEnd ==
  /\ Connected /\ socket.inbox # <<>> /\ Head(socket.inbox).type = "ended"
  /\ socket' = [stage |-> "done", inbox |-> <<>>]
  /\ ended' = TRUE
  /\ IF viewer = "page" /\ ~ended
     THEN /\ calls' = calls \o Batch("leaderboard")
          /\ crossed' = Awaited({"first", "batch", "more"})
          /\ told' = Later(told, Head(socket.inbox).version)
     ELSE UNCHANGED <<calls, crossed, told>>
  /\ UNCHANGED <<viewer, server, open, armed, panel, unheard, events>>

\* The timer: the page refetches what it has in place, the rail starts over at
\* page 1.
Fire ==
  /\ armed /\ armed' = FALSE
  /\ LET slice == Slice(open, clock) IN
     calls' = IF viewer = "page" THEN calls \o Batch(slice) ELSE FirstPage(slice)
  /\ panel' = IF viewer = "rail" /\ open THEN [panel EXCEPT !.page = 1] ELSE panel
  /\ crossed' = (viewer = "page" /\ Awaited({"first", "batch", "more"}))
  /\ UNCHANGED <<viewer, server, open, socket, ended, told, unheard, events>>

-----------------------------------------------------------------------------
(* The reader, and the clock. *)

\* What the panel's list shows: an error hides the rows, even rows that are there.
StandingsList == CASE panel.loading -> "loading"
                   [] ~panel.loading /\ panel.error -> "failed"
                   [] ~panel.loading /\ ~panel.error /\ panel.rows = <<>> -> "nobody"
                   [] OTHER -> "rows"

\* The page's panel folds to a tab, the rail goes away.
ContestAside == IF open THEN StandingsList ELSE "tab"
ContestLeaderboard == IF open THEN StandingsList ELSE "nothing"
View == IF viewer = "page" THEN ContestAside ELSE ContestLeaderboard

LoadMore ==
  /\ View = "rows" /\ panel.hasMore /\ ~panel.fetching
  /\ panel' = [panel EXCEPT !.fetching = TRUE]
  /\ calls' = Append(calls, Call("more", Slice(open, clock), panel.page + 1))
  /\ crossed' = (crossed \/ Awaited({"first", "batch"}))
  /\ UNCHANGED <<viewer, server, open, socket, armed, ended, told, unheard,
                 events>>

Toggle ==
  /\ events < Bound /\ events' = events + 1
  /\ open' = ~open
  /\ Rewire(~open, clock) /\ Rekey(Slice(~open, clock))
  /\ UNCHANGED <<viewer, server, armed, ended, told, unheard>>

\* A registration went through: page 1 again, the rows stay until it is in.
Registered ==
  /\ viewer = "page" /\ clock = "soon"
  /\ events < Bound /\ events' = events + 1
  /\ calls' = FirstPage("registrants") /\ crossed' = FALSE
  /\ panel' = [panel EXCEPT !.page = 1]
  /\ UNCHANGED <<viewer, server, open, socket, armed, ended, told, unheard>>

\* The start swaps the panel's slice.
Start ==
  /\ clock = "soon" /\ clock' = "live"
  /\ Rewire(open, "live")
  /\ panel' = [Emptied EXCEPT !.page = 1]
  /\ calls' = FirstPage("leaderboard")
  /\ crossed' = FALSE
  /\ UNCHANGED <<viewer, table, final, untold, signalled, open, armed, ended,
                 told, unheard, events>>

End ==
  /\ clock = "live" /\ clock' = "over"
  /\ Rewire(open, "over")
  /\ UNCHANGED <<viewer, table, final, untold, signalled, open, armed, ended, panel,
                 calls, told, crossed, unheard, events>>

-----------------------------------------------------------------------------
(* Answers. *)

\* The oldest and the newest version an answer may have; the properties only tell
\* older from newer.  A page past the last is not found.
Versions(c) == IF c.slice = "registrants" THEN {0} ELSE {c.floor, table}
Exists(c) == c.kind # "more" \/ c.upTo <= Pages

\* Slip: loadMore does not look at the generation.
OwnSlip(c) == c.mine \/ c.kind = "more"

\* gen === genRef.current
Own(c) == c.mine

Landed(c, v) ==
  CASE ~Own(c) -> IF c.kind = "more" THEN [panel EXCEPT !.fetching = FALSE] ELSE panel
    [] Own(c) /\ c.kind = "first" ->
         [panel EXCEPT !.rows = <<Row(c.slice, 1, v[1])>>, !.hasMore = Pages > 1,
                       !.loading = FALSE]
    [] Own(c) /\ c.kind = "batch" ->
         [panel EXCEPT !.rows = [p \in 1..c.upTo |-> Row(c.slice, p, v[p])],
                       !.hasMore = Pages > c.upTo]
    [] Own(c) /\ c.kind = "more" ->
         [panel EXCEPT !.rows = Append(@, Row(c.slice, c.upTo, v[c.upTo])),
                       !.hasMore = Pages > c.upTo, !.page = c.upTo, !.fetching = FALSE]

Arrive(i) ==
  /\ i \in DOMAIN calls /\ Exists(calls[i])
  /\ calls' = RemoveAt(calls, i)
  /\ \E v \in [1..calls[i].upTo -> Versions(calls[i])] :
       panel' = Landed(calls[i], v)
  /\ UNCHANGED <<viewer, server, open, socket, armed, ended, told, crossed, unheard,
                 events>>

Fail(i) ==
  /\ i \in DOMAIN calls
  /\ IF Exists(calls[i])
     THEN events < Bound /\ events' = events + 1
     ELSE UNCHANGED events
  /\ LET c == calls[i] IN
     /\ calls' = RemoveAt(calls, i)
     /\ panel' = [panel EXCEPT
          !.error = @ \/ c.mine,
          !.loading = @ /\ ~(c.mine /\ c.kind = "first"),
          !.fetching = @ /\ c.kind # "more"]
  /\ UNCHANGED <<viewer, server, open, socket, armed, ended, told, crossed,
                 unheard>>

-----------------------------------------------------------------------------
Init ==
  /\ viewer \in Viewers
  /\ clock = IF viewer = "page" THEN "soon" ELSE "live"
  /\ table = 0 /\ final = 0 /\ untold = [update |-> 0, ended |-> 0] /\ signalled = 0
  /\ open = (viewer = "page") /\ socket = Off /\ armed = FALSE /\ ended = FALSE
  /\ panel = [rows |-> <<>>, hasMore |-> FALSE, loading |-> TRUE, error |-> FALSE,
              page |-> 1, fetching |-> FALSE]
  /\ calls = IF viewer = "page" THEN <<Call("first", "registrants", 1)>> ELSE <<>>
  /\ told = 0 /\ crossed = FALSE /\ unheard = FALSE /\ events = 0

\* The next thing the socket does.
Proceed == Join \/ Check \/ HearUpdate \/ HearEnd
Answer == \E i \in DOMAIN calls : Arrive(i) \/ (~Exists(calls[i]) /\ Fail(i))

Next ==
  \/ Solve \/ Rate \/ (\E w \in {"update", "ended"} : Tell(w) \/ TellFails(w))
  \/ Proceed \/ Drop \/ Fire
  \/ LoadMore \/ Toggle \/ Registered \/ Start \/ End
  \/ \E i \in DOMAIN calls : Arrive(i) \/ Fail(i)

Fairness ==
  WF_vars(Tell("ended")) /\ WF_vars(Proceed) /\ WF_vars(Fire) /\ WF_vars(Answer)

Spec == Init /\ [][Next]_vars /\ Fairness

-----------------------------------------------------------------------------
(* Properties *)

TypeOK ==
  /\ viewer \in Viewers /\ clock \in {"soon", "live", "over"}
  /\ table \in 0..(MaxEvents + 1) /\ final \in 0..table /\ signalled \in 0..table
  /\ socket.stage \in {"off", "connecting", "joined", "open", "done"}
  /\ told \in 0..table /\ panel.page \in 1..(Pages + 1)
  /\ {armed, ended, open, crossed, unheard} \subseteq BOOLEAN

Settled == calls = <<>> /\ ~armed

\* When the page has nothing under way, it shows what the socket has told it of:
\* the first pages of its own slice, one after the other, none older than the
\* last update or end it heard; however updates were coalesced, slices swapped
\* and panels closed meanwhile.  Answers that crossed each other, and a failure,
\* can leave it otherwise.
ShownIsAsTold ==
  (Settled /\ ~crossed /\ ~panel.error /\ Slice(open, clock) # "none") =>
    /\ Len(panel.rows) = panel.page
    /\ \A p \in DOMAIN panel.rows :
         /\ panel.rows[p].place = p /\ panel.rows[p].slice = Slice(open, clock)
         /\ panel.rows[p].slice = "leaderboard" => panel.rows[p].version >= told

\* A contest page that stays open gets the final table without a manual refresh:
\* the end is broadcast once, and a socket that was down then is told on joining.
FinalTableShown ==
  /\ View = "rows"
  /\ \A p \in DOMAIN panel.rows : panel.rows[p].version >= final
FinalTableArrives ==
  (viewer = "page" /\ final # 0)
    ~> (~open \/ FinalTableShown \/ crossed \/ unheard \/ panel.error)

\* A refresh leaves the reader where they were: "a viewer who scrolled down is not
\* thrown back to page 1: the rows they were reading are updated in place"
\* (useContestPanel.js).
RefreshKeepsThePlace ==
  [][\A i \in DOMAIN calls :
       (calls[i].kind = "batch" /\ calls[i].mine /\ calls' = RemoveAt(calls, i))
         => Len(panel'.rows) >= Len(panel.rows)]_vars
=============================================================================
