----------------------------- MODULE SignInPages -----------------------------
(***************************************************************************)
(* How a reader gets to the page they asked for: the route guards, the     *)
(* sign-in page with its two forms and the providers' buttons, the journey *)
(* through a provider, and the callback page.                              *)
(*                                                                         *)
(* Private stands for any page behind PrivateRoute, Deep for the same page *)
(* with a search or a hash in its address.  A sign-in is modelled by how   *)
(* it ends; ClientSession has the tokens.                                  *)
(***************************************************************************)
EXTENDS Integers, FiniteSets

CONSTANTS None,
          MaxTries,      \* bound: sign-ins begun
          MaxMoves       \* bound: links, reloads and steps back

VARIABLES path, from,    \* the address; location.state.from of its entry
          auth, hydrating,           \* authStore
          loading, banner,           \* the mounted AuthPage: buttons dead, form error
          tries,         \* submits and provider starts in flight
          stash,         \* sessionStorage: oauth_from
          away,          \* at the provider: the entry that was left, or None
          begun, moves,
          goal,          \* ghost: where the reader was turned away
          missed         \* ghost: that was by a session that had expired

page == <<loading, banner>>
route == <<path, from>>
vars == <<route, auth, hydrating, page, tries, stash, away, begun, moves, goal, missed>>

Private == "/private"
Deep == "/private?q"
PrivatePages == {Private, Deep}
GuestPaths == {"/login", "/register"}
Home == "/"

\* The pathname of a location.
PathOf(loc) == IF loc = Deep THEN Private ELSE loc

\* from in AuthPage: the path of the page the reader was sent here from.
Origin == IF from = None THEN Home ELSE PathOf(from)

\* A page that mounts has live buttons and no error.
Clean == loading' = FALSE /\ banner' = FALSE
Goto(p, f) == path' = p /\ from' = f

\* The forms on screen are left: their requests go on without them.
Detached == {[t EXCEPT !.form = FALSE] : t \in tries}

AtForms == away = None /\ path \in GuestPaths /\ ~hydrating /\ ~auth

-----------------------------------------------------------------------------
(* The guards. *)

\* main.jsx restores the session before the first paint, or learns that there is
\* none; an expired one leaves the reader where they are on /login only.
Hydrated(ok) ==
  /\ away = None /\ hydrating /\ hydrating' = FALSE /\ auth' = ok
  /\ UNCHANGED <<route, page, tries, stash, away, begun, moves, goal, missed>>

\* A refused refresh of client.js, while the session is restored or later: /login
\* is loaded anew, an entry without state.
Expired ==
  /\ away = None /\ (hydrating \/ auth) /\ path # "/login"
  /\ hydrating' = FALSE /\ auth' = FALSE /\ tries' = {}
  /\ Goto("/login", None) /\ Clean
  /\ goal' = IF path \in PrivatePages THEN path ELSE None
  /\ missed' = (path \in PrivatePages)
  /\ UNCHANGED <<stash, away, begun, moves>>

PrivateRoute ==
  /\ away = None /\ path \in PrivatePages /\ ~hydrating /\ ~auth
  /\ Goto("/login", path) /\ Clean /\ goal' = path /\ missed' = FALSE
  /\ UNCHANGED <<auth, hydrating, tries, stash, away, begun, moves>>

GuestRoute ==
  /\ away = None /\ path \in GuestPaths /\ ~hydrating /\ auth
  /\ Goto(Home, None) /\ Clean /\ tries' = Detached
  /\ UNCHANGED <<auth, hydrating, stash, away, begun, moves, goal, missed>>

-----------------------------------------------------------------------------
(* The forms. *)

Begin(kind) ==
  /\ AtForms /\ ~loading /\ begun < MaxTries
  /\ begun' = begun + 1 /\ loading' = TRUE /\ banner' = FALSE
  /\ tries' = tries \cup {[kind |-> kind, nr |-> begun, from |-> Origin, form |-> TRUE]}
  /\ UNCHANGED <<route, auth, hydrating, away, moves, goal, missed>>

\* wrap(): handleLogin and handleRegister.
LoginForm == path = "/login" /\ Begin("form")
RegisterForm == path = "/register" /\ Begin("form")
Submit == (LoginForm \/ RegisterForm) /\ UNCHANGED stash

\* The store has the user: its listeners are flushed first, so GuestRoute
\* draws its Navigate home, and wrap() goes to the origin over it, in one turn.
Accepted(t) ==
  /\ away = None /\ t.kind = "form"
  /\ auth' = TRUE
  /\ Goto(t.from, None) /\ Clean
  /\ tries' = Detached \ {[t EXCEPT !.form = FALSE]}
  /\ UNCHANGED <<hydrating, stash, away, begun, moves, goal, missed>>

\* A form that was left is not told.
Rejected(t) ==
  /\ away = None
  /\ tries' = tries \ {t}
  /\ loading' = (loading /\ ~t.form) /\ banner' = (banner \/ t.form)
  /\ UNCHANGED <<route, auth, hydrating, stash, away, begun, moves, goal, missed>>

\* Slip: nothing is stashed.
StashedSlip(p) == UNCHANGED stash

\* stashOAuthFrom()
Stashed(p) == stash' = p

\* popOAuthFrom()
Popped == IF stash = None THEN Home ELSE stash

\* handleOAuth(): the origin is stashed, then the provider's address asked for.
OAuthButtons == Begin("start")
StartOAuth == OAuthButtons /\ Stashed(Origin)

\* redirectToProvider(): the page is left as it is, its buttons dead.
Redirected(t) ==
  /\ away = None /\ t.kind = "start"
  /\ away' = [path |-> path, from |-> from, loading |-> loading, banner |-> banner]
  /\ tries' = {}
  /\ UNCHANGED <<route, auth, hydrating, page, stash, begun, moves, goal, missed>>

-----------------------------------------------------------------------------
(* The provider. *)

\* pageshow: the buttons live again.
Restored(e) == loading' = FALSE

\* "Back": the page comes from the cache, or is loaded again.
Back ==
  /\ away # None /\ moves < MaxMoves /\ moves' = moves + 1
  /\ away' = None /\ Goto(away.path, away.from)
  /\ \/ Restored(away) /\ banner' = away.banner
     \/ Clean
  /\ UNCHANGED <<auth, hydrating, tries, stash, begun, goal, missed>>

\* The provider's answer: a ticket, or a failure named in the address of /login.
Returned ==
  /\ away # None /\ away' = None
  /\ \/ Goto("/callback", None) /\ Clean /\ UNCHANGED goal
     \/ Goto("/login", None) /\ loading' = FALSE /\ banner' = TRUE /\ goal' = None
  /\ UNCHANGED <<auth, hydrating, tries, stash, begun, moves, missed>>

\* OAuthCallbackPage: the one exchange of the ticket.
Redeemed ==
  /\ away = None /\ path = "/callback" /\ auth' = TRUE
  /\ Goto(Popped, None) /\ stash' = None /\ Clean
  /\ UNCHANGED <<hydrating, tries, away, begun, moves, goal, missed>>

RedeemFails ==
  /\ away = None /\ path = "/callback"
  /\ Goto("/login", None) /\ loading' = FALSE /\ banner' = TRUE /\ goal' = None
  /\ UNCHANGED <<auth, hydrating, tries, stash, away, begun, moves, missed>>

-----------------------------------------------------------------------------
(* The reader. *)

Moves == away = None /\ moves < MaxMoves /\ moves' = moves + 1

\* From one form to the other: the entry has no state.
Switch ==
  /\ Moves /\ AtForms
  /\ Goto(IF path = "/login" THEN "/register" ELSE "/login", None) /\ Clean
  /\ tries' = Detached /\ goal' = None
  /\ UNCHANGED <<auth, hydrating, stash, away, begun, missed>>

\* The entry's state outlives a reload, the requests do not.
Reload ==
  /\ Moves /\ path # "/callback"
  /\ UNCHANGED route /\ Clean /\ tries' = {}
  /\ hydrating' = auth /\ auth' = FALSE
  /\ UNCHANGED <<stash, away, begun, goal, missed>>

\* Links of the landing page, and of the shell.
Follow(p) ==
  /\ Moves /\ path \in {Home} \cup PrivatePages /\ ~hydrating /\ p # path
  /\ p \in GuestPaths => ~auth
  /\ Goto(p, None) /\ Clean /\ goal' = None
  /\ UNCHANGED <<auth, hydrating, tries, stash, away, begun, missed>>

\* UserMenu: logout(), then /login, which replaces what PrivateRoute did.
Logout ==
  /\ Moves /\ auth /\ path \in {Home} \cup PrivatePages /\ auth' = FALSE
  /\ Goto("/login", None) /\ Clean /\ goal' = None
  /\ UNCHANGED <<hydrating, tries, stash, away, begun, missed>>

-----------------------------------------------------------------------------
Init ==
  /\ path \in GuestPaths \cup PrivatePages \cup {Home} /\ from = None
  /\ auth = FALSE /\ hydrating \in BOOLEAN
  /\ loading = FALSE /\ banner = FALSE /\ tries = {}
  /\ stash = None /\ away = None /\ begun = 0 /\ moves = 0
  /\ goal = None /\ missed = FALSE

Next ==
  \/ \E ok \in BOOLEAN : Hydrated(ok)
  \/ Expired
  \/ PrivateRoute \/ GuestRoute \/ Submit \/ StartOAuth
  \/ \E t \in tries : Accepted(t) \/ Rejected(t) \/ Redirected(t)
  \/ Back \/ Returned \/ Redeemed \/ RedeemFails
  \/ Switch \/ Reload \/ Logout
  \/ \E p \in GuestPaths \cup PrivatePages \cup {Home} : Follow(p)

Spec == Init /\ [][Next]_vars

-----------------------------------------------------------------------------
(* Properties *)

TypeOK ==
  /\ path \in GuestPaths \cup PrivatePages \cup {Home, "/callback"}
  /\ from \in {None} \cup PrivatePages /\ stash \in {None, Home, Private}
  /\ {auth, hydrating, loading, banner, missed} \subseteq BOOLEAN
  /\ Cardinality(tries) <= MaxTries /\ goal \in {None} \cup PrivatePages
  /\ begun \in 0..MaxTries /\ moves \in 0..MaxMoves

\* A sign-in is over: the reader is in, and nothing of it is under way.
SignedIn == auth /\ ~hydrating /\ tries = {} /\ away = None

\* A reader whom PrivateRoute turned away from a page ends there once signed in, by
\* a form or through a provider, unless they went another way or the sign-in
\* failed.  It is the page without the search and hash of the address, and a reader
\* whose session had expired is the exception (PrivateRoute's state, AuthPage's
\* from, oauthReturn.js, the order of GuestRoute and wrap(), client.js:73).
LandsWhereItStarted ==
  (SignedIn /\ goal # None /\ ~missed) => PathOf(path) = PathOf(goal)
=============================================================================
