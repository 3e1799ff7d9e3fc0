---------------------------- MODULE ClientSession ----------------------------
(***************************************************************************)
(* The session of one tab of the web client: the token pair in             *)
(* localStorage, the refresh shared by all requests that were turned down  *)
(* (client.js), the signed-in user (authStore.js), with the server's       *)
(* rotation and revocation of refresh tokens.                              *)
(*                                                                         *)
(* The pairs ever minted are pairs[1], pairs[2], ...; an access token is   *)
(* named by the pair it came with.  A refresh mints a new pair and kills   *)
(* the refresh token it used.  A second tab shares localStorage and        *)
(* nothing else.                                                           *)
(***************************************************************************)
EXTENDS Integers, Sequences, FiniteSets

CONSTANTS Accounts,
          None,          \* nobody is signed in
          MaxPairs,      \* bound: token pairs ever minted
          MaxCalls,      \* bound: requests of the tab in flight
          MaxMishaps     \* bound: failed requests, acts of the other tab, reloads

VARIABLES pairs,         \* server: [owner, live, fresh] of every pair
          access, refresh,         \* localStorage: pairs' numbers, 0 if empty
          user, hydrating,         \* authStore
          blend,         \* authStore: whose fields setUser() merged into that user
          calls,         \* requests in flight
          refreshing,    \* refreshPromise: the refresh under way
          other,         \* the pair the other tab's refresh was answered with
          fails, others, reloads,
          out,           \* ghost: the reader signed out and not in again
          left,          \* ghost: the reader ever asked to sign out
          kicked,        \* ghost: a refused refresh threw the reader out
          changed,       \* ghost: a password was changed
          straggler,     \* ghost: answers with tokens were on their way when it was cleared
          overdue        \* ghost: an edit was under way when the reader was signed out

storage == <<access, refresh>>
store == <<user, blend, hydrating>>
bounds == <<fails, others, reloads>>
ghosts == <<out, left, kicked, changed, straggler, overdue>>
vars == <<pairs, storage, store, calls, refreshing, other, bounds, ghosts>>

NoRefresh == [stage |-> "none", with |-> 0, got |-> 0]

\* A request; with is the access token of its header.  stage: "sent", "denied"
\* (a 401 is on its way back), "waiting" for the refresh, "answered" with got.
Call(kind, who) == [kind |-> kind, who |-> who, with |-> access, retry |-> FALSE,
                    stage |-> "sent", got |-> 0,
                    body |-> IF kind = "logout" THEN refresh ELSE 0]

Room == fails + others + reloads < MaxMishaps
Fails == Room /\ fails' = fails + 1
InFlight(kinds) == \E c \in calls : c.kind \in kinds

SignIns == {"login", "redeem"}

\* A 401 of login or register never starts a refresh.
IsAuthPath(kind) == kind = "login"

-----------------------------------------------------------------------------
(* The server. *)

CanMint == Len(pairs) < MaxPairs
Minted(ps, u) == Append(ps, [owner |-> u, live |-> TRUE, fresh |-> TRUE])
Killed(ps, k) == [i \in DOMAIN ps |-> [ps[i] EXCEPT !.live = @ /\ i # k]]

\* revoke_refresh_tokens: every outstanding refresh token of u.
Revoked(ps, u) == [i \in DOMAIN ps |-> [ps[i] EXCEPT !.live = @ /\ ps[i].owner # u]]

\* 15 minutes are over, for a token this tab still has a use for.
Expire(k) ==
  /\ k \in DOMAIN pairs /\ pairs[k].fresh
  /\ k = access \/ \E c \in calls : c.with = k /\ c.stage = "sent"
  /\ pairs' = [pairs EXCEPT ![k].fresh = FALSE]
  /\ UNCHANGED <<storage, store, calls, refreshing, other, bounds, ghosts>>

\* LoginView reads no token, redeem rejects a stale one only.
Authorized(c) ==
  \/ c.kind = "login"
  \/ c.with # 0 /\ pairs[c.with].fresh
  \/ c.kind = "redeem" /\ c.with = 0

\* Request c goes on as d.
Turned(c, d) == calls' = (calls \ {c}) \cup {d}

Serve(c) ==
  LET answer(n) == Turned(c, [c EXCEPT !.stage = "answered", !.got = n]) IN
  /\ c.stage = "sent"
  /\ CASE ~Authorized(c) ->
            /\ Turned(c, [c EXCEPT !.stage = "denied"])
            /\ UNCHANGED <<pairs, changed>>
       [] c.kind \in SignIns /\ Authorized(c) ->
            /\ CanMint
            /\ pairs' = Minted(pairs, c.who) /\ answer(Len(pairs'))
            /\ UNCHANGED changed
       [] c.kind = "password" /\ Authorized(c) ->
            LET u == pairs[c.with].owner IN
            /\ CanMint
            /\ pairs' = Minted(Revoked(pairs, u), u) /\ answer(Len(pairs'))
            /\ changed' = TRUE
       [] c.kind = "logout" /\ Authorized(c) ->
            pairs' = Killed(pairs, c.body) /\ answer(0) /\ UNCHANGED changed
       [] OTHER -> answer(c.with) /\ UNCHANGED <<pairs, changed>>
  /\ UNCHANGED <<storage, store, refreshing, other, bounds, out, left, kicked, straggler, overdue>>

-----------------------------------------------------------------------------
(* The tab: starting, calling. *)

\* The user is set as a whole: nothing of the one before remains.
SetUser(u) == user' = u /\ blend' = {}

\* A page load: hydrate() asks who the stored token belongs to.
Loaded(acc) ==
  /\ SetUser(None) /\ refreshing' = NoRefresh
  /\ hydrating' = (acc # 0)
  /\ calls' = IF acc = 0 THEN {} ELSE {[Call("me", None) EXCEPT !.with = acc]}

\* A reload forgets the requests; a refresh under way may have been served.
Reload ==
  /\ Room /\ reloads' = reloads + 1
  /\ Loaded(access)
  /\ UNCHANGED <<pairs, storage, other, fails, others, ghosts>>

Send(c) == Cardinality(calls) < MaxCalls /\ c \notin calls /\ calls' = calls \cup {c}

\* A page's request, a profile edit, or a password change.
Request(kind) ==
  /\ user # None /\ Send(Call(kind, None))
  /\ UNCHANGED <<pairs, storage, store, refreshing, other, bounds, ghosts>>

\* The form of a guest; its button is dead until loadUser() is done.
SignIn(u) ==
  /\ user = None /\ ~hydrating /\ ~InFlight(SignIns \cup {"me"})
  /\ Send(Call("login", u))
  /\ out' = FALSE
  /\ UNCHANGED <<pairs, storage, store, refreshing, other, bounds, left, kicked,
                 changed, straggler, overdue>>

\* A guest comes back from a provider: a page load that redeems the ticket.
Callback(u) ==
  /\ user = None /\ ~hydrating /\ ~InFlight(SignIns \cup {"me"})
  /\ out' = FALSE
  /\ SetUser(None) /\ refreshing' = NoRefresh /\ hydrating' = (access # 0)
  /\ calls' = {Call("redeem", u)} \cup {c \in {Call("me", None)} : access # 0}
  /\ UNCHANGED <<pairs, storage, other, bounds, left, kicked, changed, straggler, overdue>>

-----------------------------------------------------------------------------
(* Answers. *)

Done(c) == calls' = calls \ {c}
Cleared == access' = 0 /\ refresh' = 0

\* loadUser() when me/ fails: the tokens are rolled back.
LoadFails ==
  /\ Cleared /\ SetUser(None) /\ hydrating' = FALSE
  /\ straggler' = (straggler \/ refreshing.stage # "none")
  /\ UNCHANGED overdue

\* The end of logout(), whatever the server said.
SignedOut(rest) ==
  /\ Cleared /\ SetUser(None)
  /\ out' = TRUE
  /\ overdue' = (overdue \/ \E c \in rest : c.kind = "edit")
  /\ straggler' = (straggler \/ refreshing.stage # "none"
                     \/ \E c \in rest : c.kind \in {"password", "me"} \cup SignIns)
  /\ UNCHANGED hydrating

\* logout(): the server first, if there is a refresh token to name.
SignOut ==
  /\ user # None /\ ~InFlight({"logout"})
  /\ left' = TRUE
  /\ IF refresh = 0 THEN SignedOut(calls) /\ UNCHANGED calls
     ELSE Send(Call("logout", None)) /\ UNCHANGED <<storage, store, out, straggler, overdue>>
  /\ UNCHANGED <<pairs, refreshing, other, bounds, kicked, changed>>

\* Slip: an edit's answer becomes the user, signed in or not.
EditedSlip(c) == user' = pairs[c.got].owner /\ UNCHANGED blend

\* setUser(): ignored while signed out, else merged into whoever is signed in now.
Edited(c) ==
  /\ blend' = IF user = None THEN {} ELSE blend \cup {pairs[c.got].owner}
  /\ UNCHANGED user

\* A rejected request: what its caller does.
Rejected(c) ==
  CASE c.kind = "me" ->
         LoadFails /\ Done(c) /\ UNCHANGED out
    [] c.kind = "logout" ->
         SignedOut(calls \ {c}) /\ Done(c)
    [] OTHER -> Done(c) /\ UNCHANGED <<storage, store, out, straggler, overdue>>

Arrive(c) ==
  /\ c.stage = "answered"
  /\ CASE c.kind \in SignIns ->    \* the pair is stored, then me/ is asked
            /\ access' = c.got /\ refresh' = c.got
            /\ Turned(c, [Call("me", None) EXCEPT !.with = c.got])
            /\ UNCHANGED <<store, out, straggler, overdue>>
       [] c.kind = "me" ->
            /\ SetUser(pairs[c.got].owner) /\ hydrating' = FALSE
            /\ Done(c) /\ UNCHANGED <<storage, out, straggler, overdue>>
       [] c.kind = "password" ->
            /\ access' = c.got /\ refresh' = c.got
            /\ Done(c) /\ UNCHANGED <<store, out, straggler, overdue>>
       [] c.kind = "logout" -> SignedOut(calls \ {c}) /\ Done(c)
       [] c.kind = "edit" ->
            Edited(c) /\ Done(c) /\ UNCHANGED <<storage, hydrating, out, straggler, overdue>>
  /\ UNCHANGED <<pairs, refreshing, other, bounds, left, kicked, changed>>

\* The request or its answer is lost, or the server fails.
Fail(c) ==
  /\ c.stage \in {"sent", "answered"} /\ Fails
  /\ Rejected(c)
  /\ UNCHANGED <<pairs, refreshing, other, others, reloads, left, kicked, changed>>

-----------------------------------------------------------------------------
(* The interceptor. *)

ShouldRefresh(c) == ~c.retry /\ ~IsAuthPath(c.kind) /\ refresh # 0

\* Slip: every request that was turned down starts a refresh of its own.
JoinedSlip == [stage |-> "sent", with |-> refresh, got |-> 0]

\* refreshPromise ?? refreshAccessToken()
Joined == IF refreshing.stage = "none" THEN [stage |-> "sent", with |-> refresh, got |-> 0]
          ELSE refreshing

Denied(c) ==
  /\ c.stage = "denied"
  /\ IF ShouldRefresh(c)
     THEN /\ refreshing' = Joined
          /\ Turned(c, [c EXCEPT !.stage = "waiting", !.retry = TRUE])
          /\ UNCHANGED <<storage, store, out, straggler, overdue>>
     ELSE Rejected(c) /\ UNCHANGED refreshing
  /\ UNCHANGED <<pairs, other, bounds, left, kicked, changed>>

\* token/refresh/: rotation.
ServeRefresh ==
  /\ refreshing.stage = "sent"
  /\ IF pairs[refreshing.with].live
     THEN /\ CanMint
          /\ pairs' = Minted(Killed(pairs, refreshing.with), pairs[refreshing.with].owner)
          /\ refreshing' = [refreshing EXCEPT !.stage = "ok", !.got = Len(pairs')]
     ELSE /\ refreshing' = [refreshing EXCEPT !.stage = "refused"]
          /\ UNCHANGED pairs
  /\ UNCHANGED <<storage, store, calls, other, bounds, ghosts>>

\* The pair is stored, everyone who waited sends again with it, and the promise
\* is forgotten.
RefreshArrives ==
  /\ refreshing.stage = "ok"
  /\ access' = refreshing.got /\ refresh' = refreshing.got
  /\ calls' = {IF c.stage = "waiting"
               THEN [c EXCEPT !.stage = "sent", !.with = refreshing.got] ELSE c : c \in calls}
  /\ refreshing' = NoRefresh
  /\ UNCHANGED <<pairs, store, other, bounds, ghosts>>

\* Slip: the tokens go, the page stays.
ThrownOutSlip ==
  /\ Cleared
  /\ kicked' = TRUE
  /\ calls' = {c \in calls : c.stage # "waiting"}
  /\ refreshing' = NoRefresh
  /\ UNCHANGED <<pairs, store, other, others, reloads, out, left, changed, straggler, overdue>>

\* The tokens are cleared and the browser goes to /login, a page load, unless
\* it is there already: then those who waited are rejected.
ThrownOut ==
  /\ Cleared
  /\ kicked' = TRUE
  /\ \/ Loaded(0)
     \/ /\ user = None /\ ~hydrating
        /\ calls' = {c \in calls : c.stage # "waiting"}
        /\ refreshing' = NoRefresh /\ UNCHANGED store
  /\ UNCHANGED <<pairs, other, others, reloads, out, left, changed, straggler, overdue>>

RefreshRefused == refreshing.stage = "refused" /\ ThrownOut /\ UNCHANGED fails
RefreshFails == refreshing.stage \in {"sent", "ok"} /\ Fails /\ ThrownOut

-----------------------------------------------------------------------------
(* The other tab. *)

Others == Room /\ others' = others + 1

\* It refreshes too: its own refreshPromise knows nothing of this tab's.
OtherRefreshes ==
  /\ Others /\ other = 0 /\ refresh # 0 /\ pairs[refresh].live /\ CanMint
  /\ pairs' = Minted(Killed(pairs, refresh), pairs[refresh].owner)
  /\ other' = Len(pairs')
  /\ UNCHANGED <<storage, store, calls, refreshing, fails, reloads, ghosts>>

OtherStores ==
  /\ other # 0 /\ other' = 0
  /\ access' = other /\ refresh' = other
  /\ UNCHANGED <<pairs, store, calls, refreshing, bounds, ghosts>>

OtherSignsOut ==
  /\ Others /\ refresh # 0 /\ Cleared
  /\ pairs' = Killed(pairs, refresh)
  /\ UNCHANGED <<store, calls, refreshing, other, fails, reloads, ghosts>>

-----------------------------------------------------------------------------
Init ==
  /\ \E u \in Accounts, f \in BOOLEAN :
       pairs = <<[owner |-> u, live |-> TRUE, fresh |-> f]>>
  /\ access \in {0, 1} /\ refresh = access
  /\ user = None /\ refreshing = NoRefresh /\ hydrating = (access # 0)
  /\ calls = {c \in {Call("me", None)} : access # 0}
  /\ other = 0 /\ fails = 0 /\ others = 0 /\ reloads = 0
  /\ out = FALSE /\ left = FALSE /\ kicked = FALSE /\ changed = FALSE /\ straggler = FALSE
  /\ blend = {} /\ overdue = FALSE

Next ==
  \/ \E k \in 1..MaxPairs : Expire(k)
  \/ \E c \in calls : Serve(c) \/ Arrive(c) \/ Fail(c) \/ Denied(c)
  \/ Reload \/ SignOut
  \/ \E kind \in {"edit", "password"} : Request(kind)
  \/ \E u \in Accounts : SignIn(u) \/ Callback(u)
  \/ ServeRefresh \/ RefreshArrives \/ RefreshRefused \/ RefreshFails
  \/ OtherRefreshes \/ OtherStores \/ OtherSignsOut

Spec == Init /\ [][Next]_vars

-----------------------------------------------------------------------------
(* Properties *)

TypeOK ==
  /\ access \in 0..Len(pairs) /\ refresh \in 0..Len(pairs) /\ other \in 0..Len(pairs)
  /\ user \in Accounts \cup {None} /\ hydrating \in BOOLEAN
  /\ Cardinality(calls) <= MaxCalls /\ refreshing.with \in 0..Len(pairs)
  /\ {fails, others, reloads} \subseteq 0..MaxMishaps
  /\ {out, left, kicked, changed, straggler, overdue} \subseteq BOOLEAN
  /\ blend \subseteq Accounts

\* An expired access token never costs the session, however many requests it
\* turns down at once: only a lost request, a second tab, a reload during the
\* refresh, or a password change or sign-out that overlaps it can
\* (the shared refreshPromise of client.js).
SessionSurvivesExpiry ==
  kicked => (fails > 0 \/ others > 0 \/ reloads > 0 \/ changed \/ left)

\* After a sign-out the tab stays signed out: no late answer brings the user
\* back, and only an answer with tokens that was on its way can leave tokens
\* behind (setUser and logout of authStore.js).
SignedOutStaysOut ==
  (out /\ others = 0) => (user = None \/ straggler) /\ (access = 0 \/ straggler)

\* The account on screen is the one the requests are made as, once no sign-in
\* is under way, unless an answer with tokens outlived the session it was for; and
\* every field on screen is that account's, unless the answer of an edit did
\* (loadUser and setUser of authStore.js).
ShownIsSignedIn ==
  (user # None /\ others = 0 /\ ~straggler /\ fails = 0 /\ ~InFlight(SignIns \cup {"me"}))
    => /\ access # 0 /\ pairs[access].owner = user
       /\ overdue \/ blend \subseteq {user}
=============================================================================
