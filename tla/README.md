# Codegard: a verification project

Codegard is a judge for programming exercises and contests: a Django backend, a
fleet of judge workers that run submitted code in Docker sandboxes, a Redis
instance between them, and a React client. This directory holds TLA+ modules
translated from the source, TLC configurations that check them on small
instances, and theorems proved with TLAPS for every instance.

Paths below are relative to `src/`; `apps/` stands for
`backend/django_app/apps/`.

## 1. Inventory

| Component | State | Operations | Talks to | What is hard |
|---|---|---|---|---|
| Submission intake (`apps/submissions/views.py`, `tasks.py`) | row with no verdict | create: save, then push to `judge:queue` | DB, Redis | the push is not atomic with the commit |
| Judge worker fleet (`judge/app/worker.py`, `app_factory.py`, `core/sandbox.py`) | `judge:queue`, a `judge:processing:<worker>` list, heartbeat key and sandbox per worker, attempt counters, dead letters | take, judge, answer, drop; announce, recover, sweep; start, stop | Redis, Docker | crashes between any two calls, siblings taking over, poison submissions |
| Results consumer (`consume_judge_results.py`, `apps/submissions/signals.py`) | `judge:results`, `judge:results:processing` shared by all consumers, failure counters, the row | recover, take, apply under a row lock, broadcast, requeue, give up | Redis, DB, channel layer | redelivery, overlapping consumers, failing hooks |
| Verdict algorithm (`judge/app/core/verdict.py`) | none | classify one run, aggregate a submission | | order of the checks |
| Scoring, ranking, Elo (`apps/contests/services.py`, `apps/users/services.py`) | `ContestScore`, `rating_applied`, Elo | recalculate on AC, rate once | signals, tasks | verdicts out of submission order, lost updates |
| Leaderboard cache (`apps/contests/cache.py`) | generation, pages, predicted deltas | read or fill, bust | Redis cache | a fill racing a bust |
| Contest lifecycle (`apps/contests/tasks.py`, `views.py`) | status, participants, rating and announcement | periodic tasks, join, leave | Celery, sockets | overlapping runs, partial failure, stale checks |
| Notifications (`apps/notifications/`) | rows unique per user, type and dedup key; `seen_at` | notify, ring, mark seen | DB, channel layer | concurrent workers, rings after commit |
| Realtime sockets (`apps/realtime/`) | group membership, tickets | connect, replay, deliver, redeem | channel layer, cache | state read before the group is joined |
| Problems, daily problem, reports, streaks (`apps/problems/`) | one daily problem per date, reports | assign, report, compute streaks | Celery, DB | overlapping runs, check-then-create |
| Accounts and sessions (`apps/users/`) | refresh tokens, one-time states and tickets, passwords | rotate, revoke, redeem, reset | DB, cache | two requests with one token |
| Client requests and session (`frontend/src/api/`, `store/authStore.js`) | token pair in localStorage, the shared refresh, the signed-in user | call, refresh, sign in, sign out, hydrate | HTTP, other tabs | several 401 at once, answers of an old session |
| Client sign-in pages (`router.jsx`, `pages/AuthPage.jsx`, `OAuthCallbackPage.jsx`, `utils/oauthReturn.js`) | address, `location.state`, `sessionStorage` | guard, submit, start OAuth, redeem, back | router, provider | pages restored from the cache, two sign-ins at once |
| Client lists (`useProblems`, `useStandings`, `useContests`, `SearchField`) | rows, page counter, generation; draft and address | filter, sort, search, load more | HTTP, router | answers of older filters |
| Client notifications (`notificationsStore.js`, `useNotificationFeed.js`, `useSeenTracker.js`) | the count, the feed, ids seen and not sent | refetch, ring, page, mark seen | HTTP, socket | two kinds of answer write one number, pages shift |
| Client contest pages (`useContestPanel.js`, `signalSocket.js`, `useLeaderboardSignal.js`, `ContestsPage.jsx`) | loaded pages, socket, throttle, pill | refetch on a signal, load more, switch slice, register | sockets, HTTP | signals lost while the socket is down, answers that cross |
| Client workspace (`useSubmitFlow.js`, `verdict.js`, `useProblemSubmissions.js`, `useCodeDraft.js`, `CodeEditor.jsx`) | the submission waited for, toast, list, drafts, editor models | submit, wait, poll, edit, reset, load | sockets, HTTP, localStorage | a verdict that falls between the channels, stale models |
| Client profile (`ProfilePage.jsx`, `useProfile.js`, the cards' hooks, settings forms) | profile and slices by username, dialog, uploads | visit, edit, refetch | HTTP | state carried from one profile to the next |
| Landing and legal pages, icons, charts, infrastructure, admin, migrations, email text | | | | no behaviour of their own |

What makes each one correct:

- intake, fleet and consumer: a submission that was pushed is in somebody's hands
  until it has a verdict, gets exactly one, and its author hears of it at most
  once; live work is not taken away; poison does not loop for ever;
- scoring and ranking: the table is the one the submissions define, a contest is
  rated once;
- cache: a page filled from older data does not outlive a bust by more than its TTL;
- notifications: one row per user and key, a ring only after the commit, the count
  never goes back to an older answer;
- sockets: a verdict reaches the page that waits for it, by replay, event or polling;
- sessions: an expired token costs nobody the session, a revoked or ended one stays
  ended, the account on screen is the one that asks;
- client pages: what is on screen belongs to the address, the filter and the account
  on screen, whatever answers are still on their way, and becomes current in the end.

The hazards behind these properties are listed with their lines in `PROJECT.json`.

## 2. Modules

| Module | Models |
|---|---|
| `JudgeWorker` | the fleet |
| `ResultsConsumer` | the consumers and the submission row |
| `JudgePipeline` | intake, fleet and consumers composed over the shared lists |
| `SubmissionLifecycle` | what the chain promises, abstractly |
| `ContestScoring` | the scores of a round and its rating run |
| `LeaderboardCache` | the cached standings, their readers and writers |
| `LiveContest` | a contest page that follows its round, with the contest socket |
| `Registration` | the registration pill of an upcoming round |
| `SubmitFlow` | the problem page from the button to the verdict, with the submission socket |
| `EditorDrafts` | the code drafts and the editor's models |
| `UnreadCount` | the number on the bell and the seen tracker, with the endpoints they call |
| `NotificationFeed` | the list in the bell's panel |
| `ListPage` | the catalogue, the standings and the contests hub, with the search field |
| `ClientSession` | token pairs, the shared refresh, the signed-in user |
| `SignInPages` | route guards, sign-in forms, the journey through a provider |
| `ProfileView` | the profile page, the blocks it loads, the settings dialog |
| `MCJudgeWorker`, `MCResultsConsumer`, `MCJudgePipeline` | instances of the judging chain for TLC |
| `MCContest` | `ContestScoring`, `LeaderboardCache`, `LiveContest` and `Registration` in one run |
| `MCClientPages` | `ListPage`, `UnreadCount` and `SubmitFlow` in one run |
| `MCClientAccount` | `ClientSession`, `SignInPages`, `ProfileView`, `NotificationFeed` and `EditorDrafts` in one run |
| `MCContestScoring`, `MCLiveContest`, `MCSubmitFlow`, `MCProfileView` | a module alone, for a run that refutes a comment |
| `ArrayOps` | filtering, as an array's `filter` or the filter of a query does it |
| `QueueLemmas` | what appending, taking, pushing back and removing do to the range of a queue and to the copies in it, and what filtering leaves of a list |
| `JudgeWorkerProofs`, `ResultsConsumerProofs`, `ContestScoringProofs` | theorems about the three |
| `JudgePipelineProofs` | that the composed chain loses nothing and implements `SubmissionLifecycle` |
| `ContestPagesProofs` | theorems about `LeaderboardCache`, `Registration` and `LiveContest` |
| `ClientPagesProofs` | theorems about `UnreadCount`, `ListPage` and `SubmitFlow` |
| `ClientAccountProofs` | theorems about `ClientSession`, `SignInPages`, `ProfileView`, `NotificationFeed` and `EditorDrafts` |

`MCContest`, `MCClientPages` and `MCClientAccount` hold components that share no
state. A variable `part`, chosen in the initial state and never changed, says which
of them moves; the others keep one initial state. A behaviour of such a module is a
behaviour of one component. The session has the largest state space of them, so
`MCClientAccount` follows it only as long as something is claimed of it (`Undecided`):
once the other tab has acted and stored its pair, or tokens have outlived their session and the
other excuses hold too, the three properties of the session are true for good, since
their excuses are never withdrawn.

Operators whose comment begins with `Slip:` are not part of a model. Each is an
operator with a plausible mistake in it, kept to show that the property it goes
with notices (`PROJECT.json`, "mutants").

### 2.1 JudgeWorker

The Redis keys are variables of their own: `queue`, `processing[w]`, `results`,
`dead`, `attempts`, `heartbeat` (the set of workers whose key exists). `boxes` is
the set of workers that own a container. `pc`, `hand` and `answer` are the local
state of `worker_loop`, `sweep` that of `maintenance_loop`.

`pc` names what has been done last:

    idle -> picked -> judging -> boxed -> judged -> pushed -> dropped -> idle
              |-> refused -> idle                (unreadable payload)
              |-> exhausted -> judged            (too many attempts)

so every Redis call of `handle_one` and `_finish` is one action (`Take`, `Refuse`,
`CountAttempt`, `DeadLetter`, `PushResult`, `Drop`, `ClearAttempts`). A call can
raise before Redis runs it (`CallFails`) or after (`Reply`'s second case); both
end in `BackOff`, the `except` branch of `worker_loop`, which forgets the message
in hand. `Crash` leaves everything behind; `Stop` is the `finally` of `lifespan`,
which withdraws the heartbeat. It does not cancel the thread in
`run_submission`: its container may be removed in time, stay, or still be
created. Docker may refuse to remove a container, which is logged and no more: one can
outlive its run (`Judge`) and a pass that came for it (`RemovalRefused`).

One maintenance pass is `Announce`, `FindSilent` and `Drain`, `RemoveBox` or
`RemovalRefused`. The pass decides on one list or container at a time, from a heartbeat it read
earlier: `sweep` is that stale knowledge. `Drain` is one `lmove`.

A worker identity is made at process start and never used again
(`config.py:11-26`), so a restart is the start of another member of `Worker`.

### 2.2 ResultsConsumer

`inflight` is the one processing list all consumers share. `Apply` is the
transaction of `apply_result`: it locks the row first, so no other transaction
sees it half done. It does nothing on a row that is gone or has its verdict.
`Broadcast` stands for the `on_commit` hooks, `ApplyFails` for a rollback or for a
hook that raises after the commit, before or after the verdict was sent.
`CountFailure`, `Requeue`, `GiveUp`, `Drop` and `ClearTries` are the calls of
`process_message` in their order, which differs between the outcomes: a settled
result loses its counter before it is dropped, one given up after.
`RecoverOrphans` runs at the start only, and empties the shared list whatever a
running consumer holds of it.

### 2.3 JudgePipeline and SubmissionLifecycle

The two components share `results`; `emitted` is the history of what was pushed
there. `Push` may succeed and still be answered with `queue_error` when only the
reply is lost; `PushFails` is an exception before Redis ran the command, or the
death of the web process after the commit: nothing ever pushes that submission
again, and the code promises nothing about it.

`SubmissionLifecycle` has three variables: the row, who was asked, who was told. The
refinement maps `asked` to what was ever pushed to `judge:queue`, and `told` to the
number of broadcasts, as the consumers count them. `Tell` needs a verdict that was
committed and a submission not told of yet, and adds one: a second broadcast is a step
the abstract specification does not have. So the refinement says that no author is told
of a verdict that does not stand, none twice, and that no verdict is given to a
submission nobody asked about.

### 2.4 ContestScoring

A consumer's transaction about an accepted verdict is `Accept`, where
`calculate_score` reads the contestant's submissions and its own uncommitted
verdict, and `Write`, the `update_or_create` and the commit. In between, other
transactions commit: the database runs them at READ COMMITTED. What holds them
back is in the guards. A submission being judged is locked (`Free`); a new
`ContestScore` refers to the contest, whose row the rating run has locked
`FOR UPDATE`, so its insert waits; an update of an existing score does not.
`Reject` is any other verdict, which touches no score (`signals.py:45`).

The rating run is `Pick` (the task's query), `Lock` (`select_for_update` and the flag
again), `Collect` (who submitted, and the rows as they are read) and `Apply` (Elo,
deltas, announcement and flag in one commit). `FailRun` is an exception anywhere in
it. `save(update_fields=...)` writes the delta into the row that is there, not the
row that was read: `RatedRow`. Points and minutes follow from the set of first
accepted submissions, which stands for them.

### 2.5 LeaderboardCache and LiveContest

In `LeaderboardCache` every call to the cache or the database is a step: `Ask`,
`GetGeneration`, `Seed`, `Look`, `Query` and `Store` for a request, `Commit`, `Bust` and
`Tell` for a writer, in the order of `_publish` (`signals.py:55`) or of the rating
task. The table is a version number. What it is checked for,
`SignalledPagesAreFresh`, is what `LiveContest` assumes of an answer: a version no older
than the last one signalled when the request was sent, and no newer than the table
when the answer arrives. It is enumerated by its two extremes (`Versions`).

`LiveContest` is one page of a participant on one contest. `socket` goes
`off -> connecting -> joined -> open` with `ContestConsumer.connect` split where it
awaits: `Join` (the group), `Check` and `Replay` (a round that is rated is told to end
on connecting). `HearUpdate` arms `useThrottledSignal`'s timer, `Fire` refetches what is
loaded, `HearEnd` refetches once more. `Rekey` and `Rewire` are the effects of
`useContestPanel` and `useLeaderboardSignal` when their inputs change: they are part of
whatever action changes the input. `StandingsList`, `ContestAside` and
`ContestLeaderboard` say what is drawn.

### 2.6 SubmitFlow and EditorDrafts

`SubmitFlow` has both ends of a submission. The client: `Press`, the answer to the
post, a ticket, the socket, `SocketTimeout` after 45 seconds, polling (`PollFinds`,
`PollLate`, `ReadFails`), the toast. The server: `SaveRow`, `Judge`, `Broadcast`, and
`SubmissionConsumer.connect` in two steps, `ReadRow` and `JoinGroup`, with an await
between them. `RoundEnds`, `Move` and the answers about statement and languages
decide what the page draws and whether the button is there. The list of submissions
is reloaded by the flow's callbacks (`Reloaded`).

`EditorDrafts` has localStorage (`drafts`, `remembered`), the hook's state and the
Monaco models, which outlive the page. `CaughtUp` is `catchUp` in `CodeEditor.jsx`:
the model takes the hook's code when the editor returns to it. A second tab writes
the same keys; storage can be full or blocked. The undo stack of Monaco is modelled
from how `UndoRedo.jsx` uses it and is marked external in the map.

### 2.7 UnreadCount, NotificationFeed, ListPage, Registration

Requests in flight are sequences or sets of records; the server answers them, and
the answers land, in any order, and some are lost. Tickets and generations are
kept as what they decide: `live` says that no later request was applied, `mine` that
the request's generation is the current one. In `ListPage` one `hook` variable picks
which of the three hooks, with their different ways of resetting, is on screen, and
the search field's debounced report (`Report`) runs against the router (`Navigate`,
`Back`).

In `UnreadCount` a page that comes back from a provider is `landing`: the stored tokens,
perhaps of an account another tab signed in, may bring a session before the ticket is
exchanged. `Exchange` then changes the account while the auth flag stays up, so
`useUnreadCountSync` neither resets nor asks.

`Registration` has the server's refusals in the order of `contests/views.py`: an address
that is not verified (join only), a round that has started, a second join, a leave of
somebody who is not in.

### 2.8 ClientSession, SignInPages, ProfileView

`ClientSession` numbers the token pairs ever minted; the server's part is
`ServeRefresh`, which kills the refresh token it honours, and `Serve`, which knows
sign-in, `me/`, edits, logout and password change. `Joined` is the shared
`refreshPromise` of `client.js`. `SignInPages` is the router with its guards and a page
that may come back from the browser's cache (`Back`). A session that ends by a refused
refresh (`Expired`) leaves by a page load and not by the router, so the entry it lands on
has no `location.state`. `ProfileView` follows `useProfile` and one block at a time of
those that load by username (`kind`), since the blocks do not know of each other.

`SetUser` of `ClientSession` is the user set as a whole; `Edited` is `setUser` of the store,
which merges an edit's answer into whoever is signed in by then. `blend` is the set of
accounts whose fields were merged in. In `ProfileView` a save is two steps on the server,
`ReadRow` (the row as authentication read it) and `ServeEdit`, which writes all of it; an
upload and a password change write their own columns (`Written`).

## 3. Runs

| Run | Checks | Instance |
|---|---|---|
| `judge_fleet` | `TypeOK`, `NoSubmissionLost`, `WorkInHandIsKept`, `OneJudge`, `PoisonBounded` | 2 worker identities, a readable and an unreadable submission, 1 raised call, 1 silent live worker, 1 expired counter, `max_attempts` 1 |
| `judge_live` | `EveryoneAnswered`, `BoxesSwept` | the same without faults, under `FairSpec` |
| `own_list` | `OwnListIsInHand`, violated | 1 worker, 1 raised call |
| `results_consumer` | `TypeOK`, `NoResultLost`, `ToldOnce`, `GivenUpOnlyAfterRetries`, `VerdictFinal`, `EveryResultSettled` | 2 consumers, 1 submission, 2 results out of 3 verdicts (one unknown to the backend), 2 failures, 1 fault, 1 exit, `MAX_ATTEMPTS` 1 |
| `pipeline` | `NothingLost`, `ImplementsLifecycle`, `EverySubmissionSettled` | 1 submission, 1 verdict, 2 workers, 1 consumer that may exit once, 1 failed push, 1 failed transaction or hook, under `FairSpec` |
| `client_pages` | `ListTellsTheTruth`, `SearchSettles`; `NextAccountInheritsNothing`, `LastAskedWins`, `ShownRowsReachTheServer`, `CountCatchesUp`; `EverySubmitIsAnswered`, `ListIsCurrent` | 3 hooks, 3 keystrokes or filter changes, pages of 1 row; 2 rows, 1 refetch and 1 batch in flight, 1 sign-out; 2 problems, 1 submission, 1 change of problem; 1 failure in each |
| `contest` | `RatedOnceAndTold`, `ScoreCountsSolved`; `SignalledPagesAreFresh`; `ShownIsAsTold`, `FinalTableArrives`; `DoubleClickSettles` | 2 contestants, 2 problems, 3 submissions, 2 consumers, 2 rating runs, 1 rollback; 2 readers, 2 writers, 2 commits, 3 requests; 2 kinds of page, 2 events; 3 clicks, 1 lost request |
| `client_account` | `SessionSurvivesExpiry`, `SignedOutStaysOut`, `ShownIsSignedIn`; `LandsWhereItStarted`; `BlocksAgree`, `ProfileIsCurrent`; `FeedSkipsNothing`, `FeedKeepsItsPlace`; `ShownIsSubmitted`, `ReloadKeepsWork` | 2 accounts, 3 pairs, 2 requests, 1 mishap; 2 sign-ins, 3 moves; 2 members, 1 visit, 2 edits; 3 rows, 2 page requests; 2 slots, 2 languages, 2 edits, 1 submission, 1 write of another tab |
| `panel_refresh` | `RefreshKeepsThePlace`, violated | 2 pages of a panel, 1 accepted verdict |
| `verdict_missed` | `SocketMissesNothing`, violated | 1 submission |
| `profile_not_found` | `NotFoundIsTrue`, violated | 2 members, 1 unknown name, 1 change of the address |
| `penalty` | `PenaltyIsTheFormula`, violated | 1 contestant, 2 submissions, 1 consumer |

The type invariants of the client modules and of `ContestScoring` are not among the
properties of these runs; that of `ContestScoring` is proved, and so is what the
inductive invariants of section 5.3 say of the types of the client's variables.

**Bounds.** `MaxFaults`, `MaxStalls`, `MaxLapses`, `MaxFailures`, `MaxExits`,
`MaxPushFaults` count events that nothing else bounds; `MaxArrivals` bounds the
judge's answers where the judge is not modelled; `MaxRuns` bounds the runs of one
submission, which a drain by a slow sibling can repeat without end. Crashes need
no bound: an identity dies once. `MaxAttempts = 1` is the smallest value for
which there is both a legal run and an exhausted submission, and with two
identities the second worker meets what the first left, in every state it can
leave it in. Two consumers suffice for the shared list, since a consumer interacts
with the others only through the lists, the counter and the row. The theorems of
section 5 hold for every value of them.

`pipeline` has no raised call and one verdict, to keep its liveness within reach: raised
calls are in `judge_fleet` and `results_consumer`, a second answer that differs in
`results_consumer`, and the theorems about the chain (5.1) allow both.

In `ContestScoring` three submissions are the fewest for which a second accepted
verdict of one contestant meets a rating run that rates anybody (it needs two
contestants). In `SubmitFlow` one submission suffices: the button is dead until the
first is answered, and a list of one row already distinguishes before, after and
wrong problem. In `LiveContest`, `MaxEvents` is one budget for verdicts, clicks and
failures: two of them cover each pair that can cross (an update while a page loads, a
drop before the end, a slice swapped during a refetch), and each slice has two
pages, the fewest with something to load. In `LeaderboardCache` two readers and two
writers with two commits have every pair of operations side by side. In
`ClientSession` three pairs allow a refresh and a sign-in, or two refreshes, after the
first; two requests are the fewest that share one. `MaxChanges`, `MaxMoves`, `MaxVisits`,
`MaxEdits` and `MaxClicks` count acts of the reader, one more than the shortest
sequence that a slip in the code needs.

**Fairness.** `JudgeWorker!Fairness`: a worker's loop goes on (a `blmove` blocks
for `worker_poll_timeout` at most, the sandbox wait has a timeout), a worker that
is not running is started (`restart: unless-stopped`), the key of a dead worker
expires, a drain or removal that was begun goes on, and Docker does not refuse one removal
for ever (strong fairness of `RemoveBox`, which each pass tries again). `FindSilent` has strong
fairness: `maintenance_loop` repeats the pass every `heartbeat_sec` and each pass
visits every list and container, so one that is silent again and again is found,
although being seen silent is not continuous (the finder is busy with another list
in between). `ResultsConsumer!Fairness`: the loop goes on, a consumer that ended is
started. Nothing is assumed about faults, crashes, failures, exits or new
submissions.

In the client, weak fairness is given to timers and to answers, never to what a
reader does. `ListPage`: the debounced report, the router, an answer. `UnreadCount`: each
request is answered or fails, the 90 second poll and the tracker's flush go off
(the poll only while the tab is visible: the model has a tab that stays so).
`SubmitFlow`: a step of the submission under way happens, since each of its waits has
a timeout (45 seconds for the socket, 90 for polling); a broadcast or a verdict is not
among them. `LiveContest`: the end, once rated, is told or the telling fails; the
reconnecting socket goes on; timer and answers come.

The liveness properties of the judging chain excuse runs with a raised Redis call, because
such a call really can leave a message where nobody looks until its owner ends
(next paragraph), and runs in which the last worker identity is gone, because the
instance then has no restart left to give.

**What `own_list` shows.** `worker.py:106` justifies skipping a worker's own list
in `recover_orphans`: "Our own list is what we are judging this second." After a
Redis exception in `worker_loop` that is no longer so. The message was moved to the
worker's own list, the reply was lost, the loop goes on with the next one; the
message stays there, judged by nobody, until that worker ends. It is not lost
(`NoSubmissionLost` holds with faults), it waits. The consumer has the same gap: a
result that a raised call leaves in `judge:results:processing` waits for the next
start of a consumer, which is where its recovery is documented to happen.

**What the other refuted comments show.** `panel_refresh`: `useContestPanel.js:65` promises
that a live refresh refetches every loaded page. The number of pages is read before
the requests go out (line 72); a `loadMore` that lands first is then wiped out by the
shorter list, while the page counter stays where it was. `verdict_missed`: `verdict.js:9`
promises that a verdict from before the socket opened is not missed. The consumer
reads the row, then joins the group; a verdict that commits and is broadcast in
between is in neither. The page waits out its 45 seconds and polls, which
`EverySubmitIsAnswered` shows to be enough. `profile_not_found`: `useProfile` never clears
its error, and the page stays mounted when the username changes, so a member who
exists is shown as one who does not. `penalty`: the formula in `contests/services.py`
counts every wrong attempt before the accepted one; scores are recalculated on
accepted verdicts only, so an attempt that is judged late is never counted.

**Comments that do not hold, met while modelling.** They have no run of their own; the
steps are in the modules. The rating task calls the results final once the ratings have
committed (`contests/tasks.py:155`), but nobody waits for the submissions still with the
judge, and an accepted verdict that comes later moves the table. The registration pill
reverts on failure (`ContestsPage.jsx:76`), to what it showed before the failed click: with two
clicks of a reader whose address is not verified both requests fail, and the second
revert brings back the optimistic "registered" of the first. `PrivateRoute` promises that a
reader is returned after signing in; a session that has expired leaves through
`client.js:73`, a page load that forgets where the reader was, and the sign-in page keeps
the path only (`AuthPage.jsx:376`), so a search or an anchor is lost on every way. `MeView`
says that a save updates the three editable fields; it writes the whole row it read, and
with it the avatar from before an upload stored in between.

**What the properties excuse.** Where a property names a ghost, the code really can
do what it excludes, and the run reaches it:

- `overlapped`: two consumers score one contestant side by side, and the second writes
  what it calculated before the first committed (`services.py:98`);
- `undone`: two readers seed a generation that does not exist yet, and one seed
  overwrites a bust (`cache.py:35`);
- `crossed` in `LiveContest`: a refetch and another request for the panel in flight
  together; the later answer wins, whichever it is;
- `unheard`: the end of the round was broadcast before a late verdict's bust, or the
  broadcast failed, and the page was connected at the time;
- `straggler`: an answer with tokens was on its way when the reader signed out, or when
  a failed `me/` rolled the tokens back;
- `crossed`, `stranded` in `ProfileView`: two saves of one kind answered in the other
  order; a save whose page went away before the answer;
- `overwritten` in `ProfileView`: a save wrote an older picture back, of which the shell
  around the page is not told (`users/views.py:508`);
- `overdue` in `ClientSession`: an edit was under way at a sign-out; its answer is merged
  into the account signed in next (`authStore.js:44-47`);
- `missed` in `SignInPages`: the reader was turned away by a session that had expired (`client.js:73`);
- `replaced` in `UnreadCount`: the account was exchanged with no sign-out in between and no
  answer meant for the new one has been applied: the bell still shows the old number;
- `late`: polling ended before there was a verdict;
- `dropped`: a batch of seen ids failed after its panel was gone.

## 4. Abstractions

- A payload is its submission's key, an answer its key and verdict; two answers
  with the same verdict count as the same bytes, so an `lrem` may hit either copy.
  Real answers also carry times and memory, which make copies differ more often.
- The verdict of a run is an arbitrary choice: two runs of one submission may
  answer differently. One container stands for those of all test cases.
- `dead` and `buried` are sets: how often something was put there is not told apart.
- `expire` is left out as a call, since it changes no value; the expiry it arms is
  `AttemptsExpire`, `TriesExpire` and `Expire`.
- Redis does not lose what it acknowledged (`--appendonly yes`, `noeviction` in
  `docker-compose.prod.yml`); its restarts are raised calls.
- A failing `announce` in `lifespan` is `Start` followed by `Crash`; a failing
  `recover_orphans` of a starting consumer is `Exit`.
- Saving a submission and the check that its round is running are one step, as is a
  request that reads several rows in one query.
- A ticket, a generation or an `active` flag is kept as what it decides. A request that
  can change nothing any more is forgotten, except `loadMore`'s, which holds a lock.
- Rows, tables and profiles are version numbers or identities. The catalogue's rows
  do not change while it is on screen.
- One contest, one problem slot or one profile is on screen at a time; moving from
  one contest to another remounts the page and is left out, moving between problems
  and profiles does not and is modelled.
- An `announce` of the maintenance loop is placed between lists too, which allows
  more interleavings than the code has.

## 5. Proofs

TLAPS proves the following for every value of the constants: any number of workers,
consumers, contestants, readers, accounts, submissions and requests, and whatever the
bounds of the runs are. What is assumed of the constants are the named assumptions
of the modules, which TLC evaluates in every run: `None` and the words of the code are
not submissions, verdicts, accounts, usernames or texts of code; `InternalError` and AC are verdicts;
the signed-in member is a member; a page of a list has room for a row, and the standings have a number of pages; a contest
is followed on its page or in the rail; bounds are naturals.

| Module | Theorem | States |
|---|---|---|
| `JudgeWorkerProofs` | `TypeCorrect` | `Spec => []TypeOK` |
| | `NothingIsLost` | `Spec => []NoSubmissionLost` |
| | `NobodyTakesLiveWork` | `Spec => []WorkInHandIsKept` |
| | `NobodyJudgesTwice` | `Spec => []OneJudge` |
| | `PoisonIsContained` | `Spec => []PoisonBounded` |
| `ResultsConsumerProofs` | `TypeCorrect` | `Spec => []TypeOK` |
| | `VerdictsAreFinal` | `Spec => VerdictFinal` |
| | `NobodyIsToldTwice` | `Spec => []ToldOnce` |
| | `NothingIsGivenUpEarly` | `Spec => []GivenUpOnlyAfterRetries` |
| | `ResultsAreKept` | `Spec => []NoResultLost` |
| `JudgePipelineProofs` | `ChainLosesNothing` | `Spec => []NothingLost` |
| | `ChainKeepsItsPromise` | `Spec => ImplementsLifecycle` |
| `ContestScoringProofs` | `TypeCorrect` | `Spec => []TypeOK` |
| | `RatedOnce` | `Spec => []RatedOnceAndTold` |
| | `ScoresCount` | `Spec => []ScoreCountsSolved` |
| `ContestPagesProofs` | `NoStalePage` | `RoundSpec => []SignalledPagesAreFresh` |
| | `TwoClicksSettle` | `RoundSpec => []DoubleClickSettles` |
| | `PanelIsAsTold` | `RoundSpec => []ShownIsAsTold` |
| `ClientPagesProofs` | `BellIsTheAccounts` | `Spec => []NextAccountInheritsNothing` |
| | `LatestTicketWins` | `Spec => []LastAskedWins` |
| | `ListsAreTrue` | `Spec => []ListTellsTheTruth` |
| | `SubmissionsAreCurrent` | `Spec => []ListIsCurrent` |
| `ClientAccountProofs` | `WhatYouSeeIsSent` | `Spec => []ShownIsSubmitted` |
| | `BackWhereYouWanted` | `Spec => []LandsWhereItStarted` |
| | `SignOutLasts` | `Spec => []SignedOutStaysOut` |
| | `ScreenAndTokensAgree` | `Spec => []ShownIsSignedIn` |
| | `ExpiryCostsNothing` | `Spec => []SessionSurvivesExpiry` |
| | `BlocksAreAboutOne` | `Spec => []BlocksAgree` |
| | `OwnPageIsCurrent` | `Spec => []ProfileIsCurrent` |
| | `WorkOutlivesReload` | `Spec => []ReloadKeepsWork` |
| | `FeedReadsOn` | `Spec => []FeedSkipsNothing` |
| | `PlaceIsKept` | `Spec => FeedKeepsItsPlace` |

The last three modules extend the MC module whose run checks the property, in which
one component moves at a time (section 2). Their invariants are about the component's
variables only, and a step of another component leaves those alone.

### 5.1 The judging chain

**TypeCorrect.** `TypeOK` is not inductive: it allows a loop in `picked` with
nothing in hand, and `Append` would then leave the type. `Typed` adds `LoopTyped`,
which says what `hand` and `answer` are where they are used. `HandsTyped` does the
same for the consumer's `msg`.

**NothingIsLost.** A `Drop` removes a submission from a list, so the invariant must
know why it may. `Honest(w)` says that a loop in `pushed` has answered what it
holds, and one in `refused` has put an unreadable payload with the dead.
`Kept` adds this to `NoSubmissionLost`. The proof splits in two: no step undoes an
answer or a refusal, and the only step that shrinks the queue and the lists taken
together is `Drop`, by the element in hand (`QueueLemmas` says what `RemoveFirst`
does to the range of a sequence).

**NobodyTakesLiveWork.** `WorkInHandIsKept` depends on what siblings believe. While
no live worker has gone silent, `Orderly` holds: every live worker has its
heartbeat key, every worker that is being cleaned up after is gone for good, a
worker that has not started owns nothing, and what a loop holds is on its list. The
second part is the heart of it: a stale snapshot is harmless because identities
are never used again.

**NobodyJudgesTwice.** Two loops with one submission in hand would both have it on
their lists, by the invariant before. So the invariant (`Sole`) speaks of copies:
`OneEntry(s)` says that the queue and all the lists together hold `s` at most once, and
`DoneWith(w)` that a loop which has dropped its submission, and still has it in hand to
clear its counter, is the only one, and that the submission is on no list. The lemmas
on `Copies` in `QueueLemmas` say how taking, pushing back and removing change the
number of occurrences.

**PoisonIsContained.** The number of runs of a submission is to stay within
`max_attempts`, but the counter that limits it is deleted in the end. `Covered(s)` says
that the counter is at least the number of runs as long as the submission waits
anywhere or was not pushed yet. `ClearAttempts` needs `Sole`: what it deletes the counter
of is on no list and comes back to none.

**VerdictsAreFinal.** `RowSteps` lists who writes the row: a creation, a deletion, and
a transaction that finds it pending. No verdict is `pending` (`ConsumerAssumption`),
so the last cannot meet a row that has one.

**NobodyIsToldTwice.** `ToldOnce` says nothing of the consumer between its commit and
its hooks. `AtMostOnce` does: whoever stands there (`Telling`) is alone with that
submission, nobody was told yet, and the row is settled. A transaction makes a
teller only of a row that is pending, for which there was none.

**NothingIsGivenUpEarly.** The counter `tries` is shared, is deleted and expires, so it
proves nothing by itself. `Retried` bounds it from above: the counter and the consumers
that have failed and not counted yet account for at most the failures there were
(`Counted`), and a consumer about to give up has read a counter beyond the limit
(`Excused`).

**ResultsAreKept.** Between `rpush` and `lrem` of a requeue there are two copies of a
result, and the `lrem` of another consumer may take the wrong one. `AllKept` counts: as
long as a result is neither settled nor a dead letter, there are more copies of it on
the two lists together than consumers that have put one back and are about to remove
one (`Requeuers`). Whoever is about to remove without having put back has settled it
(`DoneIsResolved`). That the count is over both lists is what makes the shared list
safe.

**ChainLosesNothing** composes the two: `Chain` is the fleet's `Kept` with `OnlySubmitted`,
the consumers' `AllKept` with `Once`, and `StoredFirst`, by which what was pushed has a
row. A step of the chain is a step of one of the three parts, and the theorems about fleet and consumers
are used through `INSTANCE`, not repeated. What remains is the seam: a result the fleet
pushes is one the consumers have to keep from then on.

**ChainKeepsItsPromise** shows each step of the chain to be a step of
`SubmissionLifecycle` or a stutter, under the mapping of section 2.3. The transaction of
`Apply` is `Decide`, for which the submission must have been asked for: `Chain` says so
of everything on the lists. A broadcast is `Tell`, and `Once` says that the count was
zero before it; saving, pushing
and deleting are `Create`, `Ask` and `Delete`; the rest stutters.

### 5.2 Rounds

**RatedOnce.** `RatedOnceAndTold` says nothing of a run between its lock and its commit.
`OneRuns` does: at most one run stands there, it has seen the flag unset, and runs
exist only after the end, when the set of contestants no longer changes
(`VerdictKeepsField`). `RowsStay` adds that a row a run has read is still there, without
which `RatedRow` would write into nothing. The consumers that still write scores
meanwhile matter in one point: a calculated row carries no delta, and replacing one
that has a delta keeps it (`OneRunsKept`).

**ScoresCount.** `Scored` says what a transaction knows: unless a second consumer scored the
same contestant side by side, what it is about to write counts the accepted
submissions there are, its own included (`Calculated`), because the only verdicts that can
commit in between are no accepted ones of this contestant (`SameSolved`). `OneEach` is
the row lock; `NoRowYet` says that the rating run, which holds the contest's row, cannot
overlook a score that is inserted later.

**NoStalePage.** A page is stored under the generation its reader read first.
`Covered` says, unless a bust was undone: a page of the current generation, in the
cache or on its way into it, is as new as every write whose bust is done; a
reader that holds a generation holds none newer than the current one, and finds under it
no page older than what it was signalled before it asked. `StoresCover` is
the heart: a slow fill cannot put an older page where a reader who knows more will
look, since that reader's generation is a later one.

**TwoClicksSettle.** The second request is refused (already joined, not joined) when the
server takes it up before the first, and then the server ends where the first brings it
while the pill falls back to what it said before the second click, which is the same
thing. The argument needs a confirmed address: without one the join is refused whatever comes
first, and so is the leave. `Settling` says this of the two requests in flight by the
state each was sent in, which tells them apart (`AllDiffer`).

**PanelIsAsTold.** `ShownIsAsTold` speaks of a page with nothing under way, so the
invariant has to say what the requests under way will bring. `UpToDate`: unless answers
crossed or one failed, at most one request of the panel is in flight that still counts
(`OneFetch`); it is for the slice on screen, it replaces all of what is shown or asks for
the page that follows it, and when no timer runs it was sent after the last thing the
page was told (`CallFits`). Unless that request replaces the panel, what is there
already is as told (`PanelShows`). Two more facts are needed. Closing the panel or
changing its slice leaves a `loadMore` in flight whose answer frees the lock of
whichever one waits then; `OneLock` says that of all generations together at most one
further page is being fetched, and only under the lock. And a refetch asks for the
leaderboard only if that is on screen: `SocketTold`, the channel is open only when it is
wanted.

### 5.3 The client

**BellIsTheAccounts, LatestTicketWins.** `BellInv` is about the requests in flight: one
whose answer can still be applied was sent for the account that is signed in; the
request sent last is the last of those in flight; and once its answer has landed, no
other can be applied any more (`AllSpent`). An exchange of the account turns what is in
flight into another's answers without touching it; `replaced` records that until the first
answer of a request of the account now signed in is applied, which by then makes all
older ones too old (`SpentBelow`).

**ListsAreTrue.** `OneAfterAnother`: there is one request for page 1 and one for a further
page at most, the second never while the first is awaited, and always for the page that
follows what is shown. What is shown is nothing yet, the rows of the pages landed so far,
or the failure of page 1. A request of an earlier generation still holds the lock, so the
lock says that there is one, not that it is current.

**WhatYouSeeIsSent.** `EditorInv` adds that every slot has a model for every language.
With that, each way of changing the code (typing, undo, a past submission, another
language, a reset, a remount) is one lemma that ends in the model being caught up with
the code.

**BackWhereYouWanted.** `OnTheWay` follows the page the reader was turned away from: it
is in `location.state` of the sign-in page, then in the request in flight, then in
`sessionStorage` during the journey. What travels is the path, so that is what is compared
(`PathOf`). At most one sign-in is in flight in that case, and
`QuietPlaces` says where none can be. The browser's back is the case that needs it.

**SignOutLasts.** `StaysOut`: after a sign-out with no answer with tokens under way there
is no user, no token, no refresh, and nothing in flight but requests that bring no
tokens.

**ExpiryCostsNothing.** As long as nothing from the list of exceptions has happened
(`Undisturbed`), no refresh token that is stored, on its way or being redeemed was ever
used (`Unused`), and the refresh under way has somebody waiting for it (`OneAtATime`), so
that the next one starts from the token it stored. This is the shared promise.

**ScreenAndTokensAgree.** `Aligned` says that one account owns every token there is: the
stored pair, the pair being redeemed, the pair that is the answer, and those that `me/`
was called with (`OneOwner`); `Callers` says which requests can exist next to which.
The proof found the property wrong as first stated. A refresh started by an edit of the
previous session can outlive not only a sign-out but also a failed `me/`, which
rolls the tokens back (`login` and `redeemTicket` of `authStore.js`): its answer then
stores tokens of the old account over nothing, or over those of the next. It takes six
token pairs, twice what the run has. `straggler` now records this case too, and the
property excuses it. That the fields on screen are of one account needs the edits: unless
one was under way at a sign-out (`overdue`), every edit in flight or answered is of the
account signed in, so what it merges is its own.

**BlocksAreAboutOne, OwnPageIsCurrent.** Every request in flight is about the member in
the address (`About`), since the cleanup of an effect forgets the others; that is the
active flag. `PageIsTold` says that the owner's page shows the last version, or is about to
be told of it: by a load in flight, unless a served edit has still to ask for one (`Due`).
`ShellIsTold` says the same of the shell, whose answers carry the version themselves:
with one edit of a kind at a time, the one served holds what the server has, unless a save
took an older picture back (`overwritten`); the page itself reloads after each edit and
needs no such excuse. A form that
is closed changes neither, which is a lemma (`FormsGo`).

**WorkOutlivesReload.** The property compares what is stored with what is on screen for
the slot in the address, and is inductive once it is known what the storage, the models
and the past submissions hold (`DraftsTyped`): a text, or `None`, which is no text. The
distinction carries the proof, since an empty draft is a draft.

**FeedReadsOn, PlaceIsKept.** `FeedCovers` follows the border of what the list has while
new rows push the older ones down: what it lacks is older than the `PageSize * page` newest
rows there are now, and a page that was served, but not read yet, starts above that
border as it was then. `FeedTurn` adds that one request of page 1 and one of the next page
belong to the panel as it is. `PlaceIsKept` needs no invariant beyond the types:
`merge()` puts what it adds before or after what is there (`MergeAdds`).

**SubmissionsAreCurrent.** `FetchesShow`: a request for the list that was not replaced is
about the problem in the address and, once served, holds what the toast tells, because
a toast comes with a new request and a verdict, once given, stands (`ToastHolds`,
`SocketHolds`). `ListShows` carries that over to the list when the request lands. Inside a
round the problem is known only after its page has loaded; until then nothing is
requested (`NothingBefore`).

### 5.4 Only model-checked

The theorems above state every safety invariant and every action property of the runs
that pass. What is left to the runs is liveness, which is out of the prover's reach:
`EveryoneAnswered`, `BoxesSwept`, `EveryResultSettled`, `EverySubmissionSettled`,
`SearchSettles`, `ShownRowsReachTheServer`, `CountCatchesUp`, `EverySubmitIsAnswered`,
`FinalTableArrives`.

Filtering is written with `ArrayOps` instead of `SelectSeq`, whose test is an operator
that no installed prover expands. `InOrder` lists positions from the smallest, and
`InOrderLists` (`QueueLemmas`) proves that there is such a list, by the size of a smallest
set that has none.

## 6. Plan

1. Proofs: the step properties that liveness rests on, such as that a submission that
   waits has a step enabled that brings it on, as far as they can be stated without
   ENABLED.
2. The backend of the notifications: de-duplication of a bulk insert by concurrent
   workers (`notifications/services.py:70`) and rings after the commit.
3. One-time tokens: password reset links, websocket tickets, OAuth states.
4. The daily problem, reports and streaks.

## 7. Not modelled

- The verdict of one run (`judge/app/core/verdict.py`): a chain of comparisons without
  state.
- How Elo changes, ranks, streaks and predicted deltas are computed: arithmetic and
  queries. Predicted deltas are cached under the generation `LeaderboardCache` models.
- A restart of the cache's Redis, which forgets generations; reminders before a
  round; an organiser who edits a running round.
- The dashboard with the hub's featured contest (`ContestHero`), the viewer's own
  standing (`useMyStanding`), the report dialog, charts.
- The exchange with OAuth providers, mail tokens, avatar files on disk.
- Landing and legal pages, icons, styles, deployment files, admin pages, migrations
  and email text, which keep no state of their own.
