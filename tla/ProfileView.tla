----------------------------- MODULE ProfileView -----------------------------
(***************************************************************************)
(* The profile page of the web client: useProfile and one of the blocks    *)
(* that load their own slice by username, while the reader moves from one  *)
(* profile to the next, and the owner's editing: the settings dialog with  *)
(* its two forms and the avatar upload.                                    *)
(*                                                                         *)
(* The router keeps ProfilePage mounted when only the username changes, so *)
(* its state is carried along; another route in between mounts it anew.    *)
(* A version number stands for a profile's fields, another for its picture.*)
(***************************************************************************)
EXTENDS Integers, FiniteSets

CONSTANTS Members,       \* usernames that exist
          Me,            \* the signed-in member
          Ghost,         \* a username nobody has
          None,
          MaxVisits,     \* bound: changes of the address
          MaxEdits,      \* bound: saves, password changes and uploads
          MaxFails       \* bound: requests that fail

VARIABLES acct,          \* server: the versions of Me's fields and picture
          shell,         \* authStore.user: the same, as the page shell shows them
          at,            \* the username in the address
          kind,          \* who asks the slice followed: the page, or a card below it
          page, slice,   \* [data, error, loading] of useProfile and of the slice
          loads,         \* requests of the two whose effect is still there
          dialog,        \* settings: [tab, err, done]
          toast,         \* the avatar's error card
          edits,         \* edits in flight
          visits, edited, fails,
          crossed,       \* ghost: two edits of a kind were in flight at once
          stranded,      \* ghost: an edit was in flight when its page went away
          overwritten    \* ghost: a save wrote an older picture back

loaders == <<at, kind, page, slice, loads>>
forms == <<dialog, toast, edits>>
counters == <<visits, edited, fails>>
ghosts == <<crossed, stranded, overwritten>>
vars == <<acct, shell, loaders, forms, counters, ghosts>>

Kinds == {"page", "card"}
Missing == "missing"     \* a 404
Broken == "broken"       \* any other failure

\* What a load brings: whose data, in which version, or none and an error.
Blank == [fields |-> 0, pic |-> 0]
Answer(who, ver, error) == [who |-> who, ver |-> ver, error |-> error]
Nothing == Answer(None, Blank, None)

Fresh == [data |-> Nothing, error |-> None, loading |-> TRUE]
Shut == [tab |-> "shut", err |-> FALSE, done |-> FALSE]

Load(block, u) == [block |-> block, of |-> u, served |-> FALSE, got |-> Nothing]
Loading(block) == \E l \in loads : l.block = block

-----------------------------------------------------------------------------
(* What is drawn. *)

NotFound == page.error = Missing

\* The header: the last profile that came, whatever became of a later request.
Header == IF NotFound THEN Nothing ELSE page.data
Owns(p) == p.error # Missing /\ p.data.who = Me
IsOwner == Owns(page)

\* The blocks appear with the header; the streak is asked by the page itself.
Mounts(p) == kind = "page" \/ (p.data # Nothing /\ p.error # Missing)

\* The blocks of one slice: figures, or a card that says where it stands.  Members
\* are taken to have rows; for an empty slice two cards draw an invitation instead.
StatsStrip(b) == IF b.data = Nothing THEN "dashes" ELSE b.data.who
DifficultyBreakdown(b) == IF b.data = Nothing THEN "zeros" ELSE b.data.who
Card(b) == {x \in {"loading"} : b.loading} \cup {x \in {Broken} : b.error # None}
             \cup ({b.data.who} \ {None})
ActivityHeatmap(b) == Card(b)
RecentSubmissions(b) == Card(b)
PastContests(b) == Card(b)

\* Max streak, among the figures of the strip.
ExtraStats(b) == IF b.data = Nothing THEN "dash" ELSE b.data.who

\* Every block that may hold the slice shows the figures of u.
Figures(b, u) ==
  /\ StatsStrip(b) = u /\ DifficultyBreakdown(b) = u /\ ExtraStats(b) = u
  /\ {ActivityHeatmap(b), RecentSubmissions(b), PastContests(b)} = {{u}}

-----------------------------------------------------------------------------
(* Loading. *)

\* Slip: the cleanup forgets to switch the answer off.
KilledSlip(ls, blocks) == ls

\* The cleanup of an effect: its answer will be ignored, so it is forgotten.
Killed(ls, blocks) == {l \in ls : l.block \notin blocks}

\* The forms and the upload button that have gone: their answers still come.
Orphaned(es, kinds) == {IF e.kind \in kinds THEN [e EXCEPT !.form = FALSE] ELSE e : e \in es}

\* The page's state is now p: what appears below it starts to load, what goes
\* takes its state along.
Redrawn(p, ls) ==
  /\ page' = p
  /\ IF Mounts(p)
     THEN IF Mounts(page) THEN loads' = ls /\ UNCHANGED slice
          ELSE slice' = Fresh /\ loads' = ls \cup {Load("slice", at)}
     ELSE slice' = Fresh /\ loads' = Killed(ls, {"slice"})
  /\ dialog' = IF p.error = Missing THEN Shut ELSE dialog
  /\ edits' = Orphaned(edits, (IF p.error = Missing THEN {"save", "password"} ELSE {})
                              \cup (IF Owns(p) THEN {} ELSE {"avatar"}))
  /\ toast' = (toast /\ Owns(p))

\* A link to another profile: the two effects run again over the old state.
Visit(u) ==
  /\ visits < MaxVisits /\ visits' = visits + 1
  /\ u # at /\ at' = u
  /\ loads' = Killed(loads, {"page", "slice"}) \cup {Load("page", u)}
              \cup {l \in {Load("slice", u)} : Mounts(page)}
  /\ UNCHANGED <<acct, shell, kind, page, slice, forms, edited, fails, ghosts>>

\* Another route, and from there to a profile.
Return(u) ==
  /\ visits < MaxVisits /\ visits' = visits + 1
  /\ at' = u /\ page' = Fresh /\ slice' = Fresh
  /\ loads' = Killed(loads, {"page", "slice"}) \cup {Load("page", u)}
              \cup {l \in {Load("slice", u)} : kind = "page"}
  /\ dialog' = Shut /\ toast' = FALSE
  /\ edits' = {[e EXCEPT !.form = FALSE, !.home = FALSE] : e \in edits}
  /\ stranded' = (stranded \/ edits # {})
  /\ UNCHANGED <<acct, shell, kind, edited, fails, crossed, overwritten>>

ServeLoad(l) ==
  /\ ~l.served
  /\ loads' = (loads \ {l}) \cup
       {[l EXCEPT !.served = TRUE,
                  !.got = IF l.of = Ghost THEN Answer(None, Blank, Missing)
                          ELSE Answer(l.of, IF l.of = Me THEN acct ELSE Blank, None)]}
  /\ UNCHANGED <<acct, shell, at, kind, page, slice, forms, counters, ghosts>>

\* then / catch / finally of an effect: nothing clears an earlier error.
Settled(b, got) ==
  IF got.error # None THEN [b EXCEPT !.error = got.error, !.loading = FALSE]
  ELSE [b EXCEPT !.data = got, !.loading = FALSE]

Land(l, got) ==
  IF l.block = "page" THEN Redrawn(Settled(page, got), loads \ {l})
  ELSE slice' = Settled(slice, got) /\ loads' = loads \ {l} /\ UNCHANGED <<page, forms>>

ArriveLoad(l) ==
  /\ l.served /\ Land(l, l.got)
  /\ UNCHANGED <<acct, shell, at, kind, counters, ghosts>>

FailLoad(l) ==
  /\ fails < MaxFails /\ fails' = fails + 1
  /\ Land(l, Answer(None, Blank, Broken))
  /\ UNCHANGED <<acct, shell, at, kind, visits, edited, ghosts>>

-----------------------------------------------------------------------------
(* The settings dialog and the avatar. *)

Busy(k) == \E e \in edits : e.kind = k /\ e.form
Leaving == Orphaned(edits, {"save", "password"})

OpenSettings ==
  /\ IsOwner /\ dialog = Shut
  /\ dialog' = [Shut EXCEPT !.tab = "profile"]
  /\ UNCHANGED <<acct, shell, loaders, toast, edits, counters, ghosts>>

SwitchTab ==
  /\ dialog # Shut
  /\ dialog' = [Shut EXCEPT !.tab = IF dialog.tab = "profile" THEN "password" ELSE "profile"]
  /\ edits' = Leaving
  /\ UNCHANGED <<acct, shell, loaders, toast, counters, ghosts>>

\* Escape, the backdrop or the cross, whatever the form is doing.
CloseSettings ==
  /\ dialog # Shut
  /\ dialog' = Shut /\ edits' = Leaving
  /\ UNCHANGED <<acct, shell, loaders, toast, counters, ghosts>>

Send(k) ==
  /\ edited < MaxEdits /\ edited' = edited + 1
  /\ edits' = edits \cup {[kind |-> k, nr |-> edited, form |-> TRUE, home |-> TRUE,
                           row |-> None, served |-> FALSE, got |-> 0]}
  /\ crossed' = (crossed \/ \E e \in edits : e.kind = k)
  /\ UNCHANGED <<acct, shell, loaders, visits, fails, stranded, overwritten>>

SaveProfile ==
  /\ dialog.tab = "profile" /\ ~Busy("save")
  /\ dialog' = [dialog EXCEPT !.err = FALSE]
  /\ UNCHANGED toast
  /\ Send("save")

ChangePassword ==
  /\ dialog.tab = "password" /\ ~dialog.done /\ ~Busy("password")
  /\ \/ /\ dialog' = [dialog EXCEPT !.err = FALSE]
        /\ UNCHANGED toast
        /\ Send("password")
     \/ /\ dialog' = [dialog EXCEPT !.err = TRUE]       \* they do not match
        /\ UNCHANGED <<acct, shell, loaders, toast, edits, counters, ghosts>>

PickPhoto ==
  /\ IsOwner /\ ~Busy("avatar")
  /\ \/ toast' = FALSE /\ UNCHANGED dialog /\ Send("avatar")
     \/ toast' = TRUE                                    \* larger than 5 MB
        /\ UNCHANGED <<acct, shell, loaders, dialog, edits, counters, ghosts>>

DismissToast ==
  /\ toast /\ toast' = FALSE
  /\ UNCHANGED <<acct, shell, loaders, dialog, edits, counters, ghosts>>

\* MeView: the row is read when the request is authenticated.
ReadRow(e) ==
  /\ e.kind = "save" /\ e.row = None
  /\ edits' = (edits \ {e}) \cup {[e EXCEPT !.row = acct]}
  /\ UNCHANGED <<acct, shell, loaders, dialog, toast, counters, ghosts>>

\* What an edit leaves in the row: a save writes all of the row it read, an upload
\* and a password change their own columns.
Written(e) ==
  CASE e.kind = "save" -> [e.row EXCEPT !.fields = e.nr + 1]
    [] e.kind = "avatar" -> [acct EXCEPT !.pic = e.nr + 1]
    [] e.kind = "password" -> acct

ServeEdit(e) ==
  /\ ~e.served /\ (e.kind = "save" => e.row # None)
  /\ acct' = Written(e)
  /\ edits' = (edits \ {e}) \cup {[e EXCEPT !.served = TRUE, !.got = e.nr + 1]}
  /\ overwritten' = (overwritten \/ (e.kind = "save" /\ acct'.pic # acct.pic))
  /\ UNCHANGED <<shell, loaders, dialog, toast, counters, crossed, stranded>>

\* Slip: no reload while one is under way.
RefetchedSlip == IF Loading("page") THEN loads
                 ELSE Killed(loads, {"page"}) \cup {Load("page", at)}

\* refetch(): the effect of useProfile runs again.
Refetched == Killed(loads, {"page"}) \cup {Load("page", at)}

\* A save tells the page and closes the dialog, an upload tells the page, and a
\* password change shows that it is done.
ArriveEdit(e) ==
  /\ e.served
  /\ CASE e.kind = "save" ->
            /\ shell' = [shell EXCEPT !.fields = e.got]
            /\ loads' = IF e.home THEN Refetched ELSE loads
            /\ dialog' = IF e.home THEN Shut ELSE dialog
            /\ edits' = IF e.home THEN Orphaned(edits \ {e}, {"save", "password"})
                        ELSE edits \ {e}
       [] e.kind = "avatar" ->
            /\ shell' = [shell EXCEPT !.pic = e.got]
            /\ loads' = IF e.home THEN Refetched ELSE loads
            /\ edits' = edits \ {e} /\ UNCHANGED dialog
       [] e.kind = "password" ->
            /\ dialog' = [dialog EXCEPT !.done = @ \/ e.form]
            /\ edits' = edits \ {e} /\ UNCHANGED <<shell, loads>>
  /\ UNCHANGED <<acct, at, kind, page, slice, toast, counters, ghosts>>

\* The request or its answer is lost, or it is refused.
FailEdit(e) ==
  /\ fails < MaxFails /\ fails' = fails + 1
  /\ edits' = edits \ {e}
  /\ dialog' = [dialog EXCEPT !.err = @ \/ (e.form /\ e.kind # "avatar")]
  /\ toast' = (toast \/ (e.form /\ e.kind = "avatar"))
  /\ UNCHANGED <<acct, shell, loaders, visits, edited, ghosts>>

-----------------------------------------------------------------------------
Init ==
  /\ acct = Blank /\ shell = acct
  /\ at \in Members \cup {Ghost} /\ kind \in Kinds
  /\ page = Fresh /\ slice = Fresh
  /\ loads = {Load("page", at)} \cup {l \in {Load("slice", at)} : kind = "page"}
  /\ dialog = Shut /\ toast = FALSE /\ edits = {}
  /\ visits = 0 /\ edited = 0 /\ fails = 0 /\ crossed = FALSE /\ stranded = FALSE
  /\ overwritten = FALSE

Next ==
  \/ \E u \in Members \cup {Ghost} : Visit(u) \/ Return(u)
  \/ \E l \in loads : ServeLoad(l) \/ ArriveLoad(l) \/ FailLoad(l)
  \/ OpenSettings \/ SwitchTab \/ CloseSettings
  \/ SaveProfile \/ ChangePassword \/ PickPhoto \/ DismissToast
  \/ \E e \in edits : ReadRow(e) \/ ServeEdit(e) \/ ArriveEdit(e) \/ FailEdit(e)

Spec == Init /\ [][Next]_vars

-----------------------------------------------------------------------------
(* Properties *)

TypeOK ==
  /\ acct \in [fields : 0..MaxEdits, pic : 0..MaxEdits]
  /\ shell \in [fields : 0..MaxEdits, pic : 0..MaxEdits]
  /\ at \in Members \cup {Ghost} /\ kind \in Kinds
  /\ Cardinality(loads) <= 2
  /\ dialog.tab \in {"shut", "profile", "password"} /\ toast \in BOOLEAN
  /\ visits \in 0..MaxVisits /\ edited \in 0..MaxEdits /\ fails \in 0..MaxFails

\* Once nothing is loading, every block without an error is about the member in
\* the address: no answer about an earlier one has landed over it (the active
\* flags of useProfile and of the slices' hooks).
BlocksAgree ==
  /\ (~Loading("page") /\ page.error = None) => page.data.who = at
  /\ (Mounts(page) /\ ~Loading("slice") /\ slice.error = None) => Figures(slice, at)

\* Once nothing is under way, the owner's page and the shell around it show what
\* the server holds, however edits, reloads and visits overlapped.  An edit whose
\* page went away tells nobody, two of a kind at once may be answered in the
\* other order, and a save that read the row before an upload was stored takes the
\* old picture back, which the shell is not told (setUser, onSaved, MeView).
ProfileIsCurrent ==
  (edits = {} /\ fails = 0) =>
    /\ (IsOwner /\ ~Loading("page") /\ page.error = None /\ ~stranded)
         => page.data.ver = acct
    /\ ~crossed => /\ shell.fields = acct.fields
                   /\ ~overwritten => shell.pic = acct.pic

\* The page says "User not found" only of a user who does not exist, once the
\* answer about them is there (what NotFoundPage says, ProfilePage.jsx).
NotFoundIsTrue == (NotFound /\ ~Loading("page")) => at = Ghost
=============================================================================
