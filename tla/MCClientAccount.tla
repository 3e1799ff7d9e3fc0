--------------------------- MODULE MCClientAccount ---------------------------
(***************************************************************************)
(* What the web client keeps of its user, in five parts checked in one     *)
(* run: the session, the sign-in pages, the profile page, the notification *)
(* feed and the editor's drafts.  Which part moves is chosen once, at the  *)
(* start, and the others stand still.                                      *)
(***************************************************************************)
EXTENDS Naturals, TLC

CONSTANTS Accounts, None, MaxPairs, MaxCalls, MaxMishaps,
          MaxTries, MaxMoves,
          Members, Me, Ghost, MaxVisits, MaxEdits, MaxFails,
          PageSize, MaxRows, MaxPages,
          Slots, Gone, Typed, MaxSubmits, MaxForeign

VARIABLES part,
          pairs, access, refresh, user, hydrating, calls, refreshing, other, fails,
          others, reloads, blend, out, left, kicked, changed, straggler, overdue, \* ClientSession
          path, from, auth, starting, loading, banner, tries, stash, away, begun,
          moves, goal, missed,                                             \* SignInPages
          acct, shell, at, kind, page, slice, loads, dialog, toast, edits, visits,
          edited, lost, crossed, stranded, overwritten,            \* ProfileView
          created, seen, panel, pages, feedFails,                  \* NotificationFeed
          drafts, remembered, storage, sent, slot, language, codes, startCodes,
          models, typed, submits, foreign                          \* EditorDrafts

\* Nobody is an account, and no origin is a page.
ASSUME AccountAssumption == None \notin Accounts \cup {"/private", "/private?q"}

\* Nor is anybody nobody, and no failure looks like none.
ASSUME MemberAssumption ==
  Me \in Members /\ None \notin Members \cup {Ghost, "missing", "broken"}

\* No text is taken for a missing draft, and no language for a missing one.
ASSUME DraftAssumption ==
  None \notin Typed \cup {Gone, "py", "cpp", "template", "sent", "theirs"}

\* A page of the feed has room for a row.
ASSUME PageAssumption == PageSize \in Nat \ {0}

Session == INSTANCE ClientSession
SignIn == INSTANCE SignInPages WITH hydrating <- starting
Profile == INSTANCE ProfileView WITH fails <- lost
Feed == INSTANCE NotificationFeed WITH fails <- feedFails
Editor == INSTANCE EditorDrafts
            WITH Langs <- <<"py", "cpp">>, rows <- sent, at <- slot, edits <- typed

sessionVars == <<pairs, access, refresh, user, hydrating, calls, refreshing, other, fails,
                 others, reloads, blend, out, left, kicked, changed, straggler, overdue>>
signInVars == <<path, from, auth, starting, loading, banner, tries, stash, away, begun,
                moves, goal, missed>>
profileVars == <<acct, shell, at, kind, page, slice, loads, dialog, toast, edits, visits,
                 edited, lost, crossed, stranded, overwritten>>
feedVars == <<created, seen, panel, pages, feedFails>>
editorVars == <<drafts, remembered, storage, sent, slot, language, codes, startCodes,
                models, typed, submits, foreign>>

Init ==
  /\ part \in {"session", "signin", "profile", "feed", "editor"}
  /\ Session!Init /\ SignIn!Init /\ Profile!Init /\ Feed!Init /\ Editor!Init
  /\ part # "session" => access = 0 /\ \A k \in DOMAIN pairs : pairs[k].fresh
  /\ part # "signin" => path = "/" /\ starting
  /\ part # "profile" => at = Me /\ kind = "page"
  /\ part # "feed" => created = 0
  /\ part # "editor" => storage = "ok" /\ \A s \in Slots : sent[s] = <<>>

\* Bound: a session is followed until all that is claimed of it is excused for
\* good, because the other tab has acted, or tokens have outlived their session and
\* the reader has signed out, changed the password, reloaded or lost a request.
Undecided ==
  /\ others > 0 => other # 0
  /\ ~(straggler /\ (left \/ changed \/ fails + reloads > 0))

Next ==
  /\ UNCHANGED part
  /\ \/ /\ part = "session" /\ Undecided /\ Session!Next
        /\ UNCHANGED <<signInVars, profileVars, feedVars, editorVars>>
     \/ /\ part = "signin" /\ SignIn!Next
        /\ UNCHANGED <<sessionVars, profileVars, feedVars, editorVars>>
     \/ /\ part = "profile" /\ Profile!Next
        /\ UNCHANGED <<sessionVars, signInVars, feedVars, editorVars>>
     \/ /\ part = "feed" /\ Feed!Next
        /\ UNCHANGED <<sessionVars, signInVars, profileVars, editorVars>>
     \/ /\ part = "editor" /\ Editor!Next
        /\ UNCHANGED <<sessionVars, signInVars, profileVars, feedVars>>

Spec ==
  Init /\ [][Next]_<<part, sessionVars, signInVars, profileVars, feedVars, editorVars>>

AccountSymmetry == Permutations(Accounts)

\* See the modules: how long a session lasts and whose it is; where a sign-in
\* ends; what the profile page shows; what the feed skips and that it keeps its
\* place; what is submitted and what a reload keeps.
SessionSurvivesExpiry == Session!SessionSurvivesExpiry
SignedOutStaysOut == Session!SignedOutStaysOut
ShownIsSignedIn == Session!ShownIsSignedIn
LandsWhereItStarted == SignIn!LandsWhereItStarted
BlocksAgree == Profile!BlocksAgree
ProfileIsCurrent == Profile!ProfileIsCurrent
FeedSkipsNothing == Feed!FeedSkipsNothing
FeedKeepsItsPlace == Feed!FeedKeepsItsPlace
ShownIsSubmitted == Editor!ShownIsSubmitted
ReloadKeepsWork == Editor!ReloadKeepsWork
=============================================================================
