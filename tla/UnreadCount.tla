------------------------------ MODULE UnreadCount -----------------------------
(***************************************************************************)
(* The number on the bell of the web client, and the seen tracker of the   *)
(* open panel, with the part of the server they talk to.                   *)
(*                                                                         *)
(* One account, Owner, has rows 1..created on the server.  Another account *)
(* may sign in after it in the same tab and has no rows, or take its place *)
(* without a sign-out: on the page a provider sends the reader back to     *)
(* (OAuthCallbackPage.jsx), the tokens another tab stored may already have *)
(* brought up a session when the ticket of this one is exchanged.  Two     *)
(* kinds of requests write the number (notificationsStore.js): refetches, and the   *)
(* answers to "I saw these" (useSeenTracker.js), which leave in batches.   *)
(* Requests are in asks in the order of sending.  The server may serve     *)
(* them, and the answers may land, in any order; a request or its answer   *)
(* may be lost.  The numbers of the tickets are kept only as an order:     *)
(* live says that no later-sent request was applied.  Which rows the panel   *)
(* lists is the subject of NotificationFeed; here it may list every row.   *)
(***************************************************************************)
EXTENDS Integers, FiniteSets, Sequences, SequencesExt

CONSTANTS Owner, Other,      \* the accounts
          None,              \* nobody is signed in, or there is no value
          MaxRows,           \* bound: rows ever created
          MaxBatch,          \* ids of one "seen" request
          MaxCounts,         \* bound: count refetches in flight
          MaxSeens,          \* bound: "seen" requests in flight
          MaxFails,          \* bound: requests that fail
          MaxSignOuts        \* bound: sessions that end

VARIABLES created, seen,     \* server: the rows, and those marked as seen
          user, count,       \* the session and the number on the bell
          asks,              \* requests that carry a ticket, not settled
          tracker,           \* the open panel's seen tracker
          landing,           \* the page is the one that exchanges the ticket
          fails, signOuts,   \* the bounds' counters
          settled,           \* ghost: what the last ticket's request answered
          dropped,           \* ghost: a batch was lost after its panel was gone
          replaced           \* ghost: the account changed with no sign-out, and
                             \* no answer meant for it was applied since

vars == <<created, seen, user, count, asks, tracker, landing, fails, signOuts,
          settled, dropped, replaced>>
server == <<created, seen>>
bounds == <<fails, signOuts>>
page == <<landing, replaced>>

Rows == 1..MaxRows
Users == {Owner, Other, None}

\* The tracker of a panel that is not mounted, and of one that is.
Closed == [open |-> FALSE, pending |-> <<>>, sent |-> {}]

\* A request with a ticket.  live: ticket > applied.  mine: its tracker is
\* still mounted.  last (ghost): no later ticket was issued.
Ask(kind, ids) == [kind |-> kind, by |-> user, ids |-> ids, done |-> FALSE,
                   num |-> 0, live |-> TRUE, last |-> TRUE, mine |-> kind = "seen"]
Refetch == Ask("count", <<>>)

\* Sends new requests after those in flight, in the order of their tickets.
Send(before, new) ==
  LET all == before \o new
  IN  IF new = <<>> THEN before
      ELSE [i \in DOMAIN all |-> [all[i] EXCEPT !.last = i = Len(all)]]

InFlight(kind) == Len(SelectSeq(asks, LAMBDA c : c.kind = kind))

-----------------------------------------------------------------------------
(* The server: what the three endpoints answer. *)

IdsOf(u) == IF u = Owner THEN 1..created ELSE {}
Unread(u, marked) == Cardinality(IdsOf(u) \ marked)

\* unread-count/ and seen/: only the caller's rows are marked, and both answer
\* with the unread count that is left.
ServeAsk(i) ==
  LET c == asks[i] IN
  /\ i \in DOMAIN asks /\ ~c.done
  /\ seen' = seen \cup (ToSet(c.ids) \cap IdsOf(c.by))
  /\ asks' = [asks EXCEPT ![i].done = TRUE, ![i].num = Unread(c.by, seen')]
  /\ UNCHANGED <<created, user, count, tracker, bounds, settled, dropped, page>>

\* A new row for Owner.  Its ring is a separate step, or never comes.
CreateRow ==
  /\ created < MaxRows
  /\ created' = created + 1
  /\ UNCHANGED <<seen, user, count, asks, tracker, bounds, settled, dropped, page>>

-----------------------------------------------------------------------------
(* The session and the sync hook. *)

\* useUnreadCountSync: the effect runs, the count is asked for right away.  On the
\* landing page either the stored tokens or the ticket bring the session.
SignIn(u) ==
  /\ user = None /\ InFlight("count") < MaxCounts
  /\ user' = u /\ landing' \in {landing, FALSE}
  /\ asks' = Send(asks, <<[Refetch EXCEPT !.by = u]>>)
  /\ settled' = None
  /\ UNCHANGED <<server, count, tracker, bounds, dropped, replaced>>

\* The ticket is exchanged, or turned down, while a session is up.  The account
\* may be another one, but the auth flag never falls: nothing is reset, nothing is
\* asked for, and the answers in flight stay good.
Exchange(u) ==
  /\ landing /\ user # None
  /\ user' = u /\ landing' = FALSE
  /\ replaced' = (u # user)
  /\ UNCHANGED <<server, count, asks, tracker, bounds, settled, dropped>>

\* Slip: the number is cleared, the tickets in flight stay good.
ResetSlip(cs) == cs

\* reset(): every ticket issued so far is too old to be applied.
Reset(cs) == [i \in DOMAIN cs |-> [cs[i] EXCEPT !.live = FALSE]]

\* Unmounting takes the tracker away from the requests in flight.
Orphan(cs) == [i \in DOMAIN cs |-> [cs[i] EXCEPT !.mine = FALSE]]

\* The panel unmounts too.  The tokens are gone by then, so its last batch is
\* turned down: logout() clears them before it clears the user.
SignOut ==
  /\ user # None /\ signOuts < MaxSignOuts
  /\ user' = None /\ count' = 0 /\ settled' = None
  /\ asks' = Orphan(Reset(asks))
  /\ dropped' = (dropped \/ tracker.pending # <<>>)
  /\ tracker' = Closed /\ landing' = FALSE /\ replaced' = FALSE
  /\ signOuts' = signOuts + 1
  /\ UNCHANGED <<server, fails>>

\* A paced ring or a reconnect, every 90 seconds, and whenever the tab comes
\* back on screen: the count is asked for again.
Poll ==
  /\ user # None /\ InFlight("count") < MaxCounts
  /\ asks' = Send(asks, <<Refetch>>)
  /\ settled' = None
  /\ UNCHANGED <<server, user, count, tracker, bounds, dropped, page>>

-----------------------------------------------------------------------------
(* The panel's seen tracker. *)

\* The other account has nothing to read: its panel is left out.
OpenPanel ==
  /\ user = Owner /\ ~landing /\ ~tracker.open
  /\ tracker' = [Closed EXCEPT !.open = TRUE]
  /\ UNCHANGED <<server, user, count, asks, bounds, settled, dropped, page>>

\* Half of a row that arrived unseen was in view; a second time changes nothing.
\* Another tab, or a batch of an earlier panel, may have marked the row since.
OnScreen(id) ==
  /\ tracker.open /\ id <= created
  /\ id \notin tracker.sent \cup ToSet(tracker.pending)
  /\ tracker' = [tracker EXCEPT !.pending = Append(@, id)]
  /\ UNCHANGED <<server, user, count, asks, bounds, settled, dropped, page>>

\* The pending ids in batches of the server's limit, one request each.
Batches(ids) ==
  [b \in 1..((Len(ids) + MaxBatch - 1) \div MaxBatch) |->
     Ask("seen", SubSeq(ids, MaxBatch * (b - 1) + 1, Min({MaxBatch * b, Len(ids)})))]
Flushed == Send(asks, Batches(tracker.pending))
FlushFits == InFlight("seen") + Len(Batches(tracker.pending)) <= MaxSeens

Flush ==
  /\ tracker.open /\ tracker.pending # <<>> /\ FlushFits
  /\ asks' = Flushed
  /\ settled' = None
  /\ tracker' = [tracker EXCEPT !.pending = <<>>, !.sent = @ \cup ToSet(tracker.pending)]
  /\ UNCHANGED <<server, user, count, bounds, dropped, page>>

ClosePanel ==
  /\ tracker.open /\ FlushFits
  /\ asks' = Orphan(Flushed)
  /\ settled' = IF tracker.pending = <<>> THEN settled ELSE None
  /\ tracker' = Closed
  /\ UNCHANGED <<server, user, count, bounds, dropped, page>>

-----------------------------------------------------------------------------
(* Answers. *)

\* Slip: the answer to "I saw these" is applied whenever it lands.
AppliesSlip(c) == c.live \/ c.kind = "seen"

\* Slip: tickets start at 1 again in a new session, the highest applied one does not.
AppliesOnceSlip(c) == c.live /\ signOuts = 0

\* apply(): an answer counts only if no later-sent request was applied already.
Applies(c) == c.live

\* After apply(ticket), that ticket and the earlier ones are spent.
Spent(cs, i) == [k \in DOMAIN cs |-> IF k <= i THEN [cs[k] EXCEPT !.live = FALSE] ELSE cs[k]]

ArriveAsk(i) ==
  LET c == asks[i] IN
  /\ i \in DOMAIN asks /\ c.done
  /\ count' = IF Applies(c) THEN c.num ELSE count
  /\ settled' = IF c.last /\ c.live THEN c.num ELSE settled
  /\ asks' = RemoveAt(IF Applies(c) THEN Spent(asks, i) ELSE asks, i)
  /\ replaced' = (replaced /\ ~(Applies(c) /\ c.by = user))
  /\ UNCHANGED <<server, user, tracker, landing, bounds, dropped>>

\* Slip: a failed batch may be watched again, but nobody offers it.
OfferedSlip(p, ids) == [p EXCEPT !.sent = @ \ ToSet(ids)]

\* The tracker offers the ids of a failed batch again.  They were in sent, so none
\* of them is pending already.
Offered(p, ids) == [p EXCEPT !.sent = @ \ ToSet(ids), !.pending = @ \o ids]

\* The request, or the answer the server already gave, is lost.
FailAsk(i) ==
  LET c == asks[i] IN
  /\ i \in DOMAIN asks /\ fails < MaxFails
  /\ fails' = fails + 1
  /\ asks' = RemoveAt(asks, i)
  /\ tracker' = IF c.mine THEN Offered(tracker, c.ids) ELSE tracker
  /\ dropped' = (dropped \/ (c.kind = "seen" /\ ~c.mine))
  /\ UNCHANGED <<server, user, count, signOuts, settled, page>>

-----------------------------------------------------------------------------
Init ==
  /\ created \in 0..MaxRows /\ seen = {}
  /\ user = None /\ count = 0 /\ asks = <<>> /\ tracker = Closed
  /\ fails = 0 /\ signOuts = 0 /\ settled = None /\ dropped = FALSE
  /\ landing \in BOOLEAN /\ replaced = FALSE

Tickets == 1..(MaxCounts + MaxSeens)

Next ==
  \/ CreateRow
  \/ \E u \in {Owner, Other} : SignIn(u) \/ Exchange(u)
  \/ SignOut \/ Poll
  \/ OpenPanel \/ Flush \/ ClosePanel
  \/ \E id \in Rows : OnScreen(id)
  \/ \E i \in Tickets : ServeAsk(i) \/ ArriveAsk(i) \/ FailAsk(i)

\* The server answers, answers land, and the two timers of the client fire.
Fairness ==
  /\ \A i \in Tickets : WF_vars(ServeAsk(i)) /\ WF_vars(ArriveAsk(i))
  /\ WF_vars(Poll) /\ WF_vars(Flush)

Spec == Init /\ [][Next]_vars /\ Fairness

-----------------------------------------------------------------------------
(* Properties *)

\* Every variable stays in its range, and no id waits twice for its batch.
TypeOK ==
  /\ created \in 0..MaxRows /\ seen \subseteq Rows
  /\ {dropped, landing, replaced} \subseteq BOOLEAN
  /\ user \in Users /\ count \in 0..MaxRows
  /\ settled \in {None} \cup 0..MaxRows
  /\ fails \in 0..MaxFails /\ signOuts \in 0..MaxSignOuts
  /\ DOMAIN tracker = DOMAIN Closed /\ IsInjective(tracker.pending)
  /\ InFlight("count") <= MaxCounts /\ InFlight("seen") <= MaxSeens

\* The next account never inherits the number of the one before it, however
\* late the answers of the old session land (reset() in notificationsStore.js).  An
\* account that took over with no sign-out has it only until the first answer to a
\* request of its own is applied.
NextAccountInheritsNothing == user # Owner /\ ~replaced => count = 0

\* Two kinds of request write the number and race: once the answer to the
\* request sent last has landed, the bell shows that answer and no late answer
\* to an earlier request replaces it (the tickets of notificationsStore.js).
LastAskedWins == settled # None => count = settled

\* What was on screen reaches the server: the ids leave in batches, a failed
\* batch is offered again, and only a failure after the panel is gone loses it
\* (flush and its catch in useSeenTracker.js).
ShownRowsReachTheServer ==
  \A id \in Rows : (id \in ToSet(tracker.pending)) ~> (id \in seen \/ dropped)

\* A bell that stays signed in shows the true count again and again, whatever
\* rings, requests and answers are lost: a refetch every 90 seconds is enough.
CountCatchesUp ==
  <>[](user = Owner) => []<>(count = Unread(Owner, seen))
=============================================================================
