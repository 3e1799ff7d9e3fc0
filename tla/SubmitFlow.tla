----------------------------- MODULE SubmitFlow -----------------------------
(***************************************************************************)
(* The problem page, solo or inside a round: submit, wait for the verdict  *)
(* over a socket and by polling, tell it in a toast, keep the list of      *)
(* submissions current (useSubmitFlow.js, verdict.js,                      *)
(* useProblemSubmissions.js, ProblemPage.jsx, ContestProblemPage.jsx),     *)
(* with the server's part: the row, the judge, the broadcast and the       *)
(* consumer of the submission socket (realtime/consumers/submission.py).   *)
(***************************************************************************)
EXTENDS Integers, Sequences, SequencesExt, ArrayOps

CONSTANTS Problems,
          Verdicts,
          MaxRows,       \* bound: submissions
          MaxFails,      \* bound: requests, sockets and broadcasts that fail
          MaxMoves       \* bound: changes of the address

VARIABLES rows,          \* server: [problem, queued, verdict, told], oldest first
          round,         \* "none" on the solo page, else "running" or "over"
          joined,        \* the reader is a participant of the round
          at,            \* the problem in the address
          statement,     \* useProblem or useContest: "loading", "here", "missing", "failed"
          langs,         \* useLanguages: "loading", "here", "failed"
          flow,          \* useSubmitFlow and the wait it drives
          toast,
          sock,          \* the consumer of the open socket, and what it sent
          list,          \* useProblemSubmissions: [key, rows, error]
          fetches,       \* its requests in flight
          fails, moves,
          late           \* ghost: polling gave up before there was a verdict

server == <<rows, round, joined>>
page == <<at, statement, langs>>
subs == <<list, fetches>>
vars == <<server, page, flow, toast, sock, subs, fails, moves, late>>

\* No verdict yet, no problem yet.
Nothing == ""

NoSocket == [stage |-> "closed", seen |-> Nothing, inbox |-> <<>>]
Idle == [stage |-> "idle", sub |-> 0, problem |-> Nothing]
NoToast == [kind |-> "none", sub |-> 0, verdict |-> Nothing]
Toast(kind) == [NoToast EXCEPT !.kind = kind]

Fails == fails < MaxFails /\ fails' = fails + 1

-----------------------------------------------------------------------------
(* What the page draws. *)

Ready == statement = "here" /\ langs = "here" /\ list.key = at

\* The solo page.
SoloView ==
  CASE statement = "missing" -> "missing"
    [] Ready -> "workspace"
    [] "loading" \in {statement, langs} \/ list.key # at -> "loading"
    [] OTHER -> "failed"

\* Inside a round.  The submissions are waited for only once the problem is known.
RoundView ==
  CASE statement = "missing" -> "missing"
    [] statement = "here" /\ ~joined -> "outsider"
    [] statement = "here" /\ joined /\ Ready -> "workspace"
    [] statement = "loading" \/ langs = "loading" \/ (statement = "here" /\ list.key # at)
         -> "loading"
    [] OTHER -> "failed"

View == IF round = "none" THEN SoloView ELSE RoundView

\* Submit is offered while nothing is in flight, in a round until its end.
Offered == View = "workspace" /\ flow.stage = "idle" /\ round # "over"

-----------------------------------------------------------------------------
(* The list of submissions of the problem on screen. *)

\* Slip: a request that was replaced still reports.
ReloadedSlip(fs, p) == fs \cup {[of |-> p, mine |-> TRUE, done |-> FALSE, rows |-> <<>>]}

\* The effect runs again: the request in flight is dropped, a new one is sent.
Reloaded(fs, p) ==
  {[f EXCEPT !.mine = FALSE] : f \in fs}
    \cup {[of |-> p, mine |-> TRUE, done |-> FALSE, rows |-> <<>>]}

\* onSettled: inside a round, the list waits for the problem.
Settled == fetches' = IF statement = "here" \/ round = "none" THEN Reloaded(fetches, at) ELSE fetches

\* submissions/?problem=..., newest first.
RowsOf(p) ==
  LET ids == InOrder({i \in DOMAIN rows : rows[i].problem = p})
  IN  Reverse([k \in DOMAIN ids |-> [id |-> ids[k], verdict |-> rows[ids[k]].verdict]])

ServeList(f) ==
  /\ ~f.done
  /\ fetches' = (fetches \ {f}) \cup {[f EXCEPT !.done = TRUE, !.rows = RowsOf(f.of)]}
  /\ UNCHANGED <<server, page, flow, toast, sock, list, fails, moves, late>>

ListArrives(f) ==
  /\ f.done /\ fetches' = fetches \ {f}
  /\ list' = IF f.mine THEN [key |-> f.of, rows |-> f.rows, error |-> FALSE] ELSE list
  /\ UNCHANGED <<server, page, flow, toast, sock, fails, moves, late>>

\* A failed reload keeps the rows of this problem, never those of another.
ListFails(f) ==
  /\ Fails /\ fetches' = fetches \ {f}
  /\ list' = IF f.mine
             THEN [key |-> f.of, rows |-> IF list.key = f.of THEN list.rows ELSE <<>>,
                   error |-> TRUE]
             ELSE list
  /\ UNCHANGED <<server, page, flow, toast, sock, moves, late>>

-----------------------------------------------------------------------------
(* The page. *)

\* useProblem: the answer for the problem on screen; useContest likewise.
StatementArrives(outcome) ==
  /\ statement = "loading"
  /\ outcome # "here" => Fails
  /\ outcome = "here" => UNCHANGED fails
  /\ statement' = outcome
  /\ fetches' = IF round # "none" /\ outcome = "here" THEN Reloaded(fetches, at) ELSE fetches
  /\ UNCHANGED <<server, at, langs, flow, toast, sock, list, moves, late>>

LanguagesArrive(outcome) ==
  /\ langs = "loading"
  /\ outcome # "here" => Fails
  /\ outcome = "here" => UNCHANGED fails
  /\ langs' = outcome
  /\ UNCHANGED <<server, at, statement, flow, toast, sock, subs, moves, late>>

\* The address names another problem: on the solo page the statement is loaded
\* anew, the round already has them all.  What is in flight goes on.
Move(p) ==
  /\ p # at /\ moves < MaxMoves /\ moves' = moves + 1
  /\ at' = p
  /\ statement' = IF round = "none" THEN "loading" ELSE statement
  /\ fetches' = IF round = "none" \/ statement = "here" THEN Reloaded(fetches, p) ELSE fetches
  /\ UNCHANGED <<server, langs, flow, toast, sock, list, fails, late>>

CloseToast ==
  /\ toast # NoToast /\ toast' = NoToast
  /\ UNCHANGED <<server, page, flow, sock, subs, fails, moves, late>>

-----------------------------------------------------------------------------
(* Submitting. *)

Press ==
  /\ Offered /\ Len(rows) < MaxRows
  /\ flow' = [stage |-> "posting", sub |-> 0, problem |-> at]
  /\ toast' = NoToast
  /\ UNCHANGED <<server, page, sock, subs, fails, moves, late>>

\* create(): the row is saved, then pushed; a push that fails leaves it unqueued.
SaveRow ==
  /\ flow.stage = "posting" /\ round # "over"
  /\ \E queued \in BOOLEAN :
       /\ rows' = Append(rows, [problem |-> flow.problem, queued |-> queued,
                                verdict |-> Nothing, told |-> FALSE])
       /\ IF queued THEN UNCHANGED fails ELSE Fails
  /\ flow' = [flow EXCEPT !.stage = "posted", !.sub = Len(rows')]
  /\ UNCHANGED <<round, joined, page, toast, sock, subs, moves, late>>

\* The request is refused (the round is over), or it or its answer is lost.
PostFails ==
  /\ flow.stage \in {"posting", "posted"}
  /\ IF flow.stage = "posting" /\ round = "over" THEN UNCHANGED fails ELSE Fails
  /\ flow' = Idle /\ toast' = Toast("unsent")
  /\ UNCHANGED <<server, page, sock, subs, moves, late>>

PostAnswered ==
  /\ flow.stage = "posted"
  /\ IF rows[flow.sub].queued
     THEN flow' = [flow EXCEPT !.stage = "ticket"] /\ UNCHANGED toast
     ELSE flow' = Idle /\ toast' = Toast("unqueued")
  /\ Settled
  /\ UNCHANGED <<server, page, sock, list, fails, moves, late>>

-----------------------------------------------------------------------------
(* waitForVerdict: the socket first. *)

\* A ticket was minted, the socket is being opened.
TicketArrives ==
  /\ flow.stage = "ticket"
  /\ flow' = [flow EXCEPT !.stage = "watching"]
  /\ sock' = [NoSocket EXCEPT !.stage = "opening"]
  /\ UNCHANGED <<server, page, toast, subs, fails, moves, late>>

\* connect(): the row is read for the owner check ...
ReadRow ==
  /\ sock.stage = "opening"
  /\ sock' = [sock EXCEPT !.stage = "joining", !.seen = rows[flow.sub].verdict]
  /\ UNCHANGED <<server, page, flow, toast, subs, fails, moves, late>>

\* ... then the group is joined, and the state read before is sent.
JoinGroup ==
  /\ sock.stage = "joining"
  /\ sock' = [sock EXCEPT !.stage = "open", !.inbox = <<sock.seen>>]
  /\ UNCHANGED <<server, page, flow, toast, subs, fails, moves, late>>

\* Slip: a socket that ends without a verdict ends the wait.
FallBackSlip(f) == [f EXCEPT !.stage = "unanswered"]

\* The other channel.
FallBack(f) == [f EXCEPT !.stage = "polling"]

\* No ticket, a handshake turned down, an error, a close.
SocketFails ==
  /\ flow.stage \in {"ticket", "watching"} /\ Fails
  /\ flow' = FallBack(flow) /\ sock' = NoSocket
  /\ UNCHANGED <<server, page, toast, subs, moves, late>>

\* The 45 seconds are over.
SocketTimeout ==
  /\ flow.stage = "watching"
  /\ flow' = FallBack(flow) /\ sock' = NoSocket
  /\ UNCHANGED <<server, page, toast, subs, fails, moves, late>>

\* onmessage: no verdict yet, go on waiting; a verdict ends the wait.
MessageArrives ==
  /\ flow.stage = "watching" /\ sock.inbox # <<>>
  /\ IF Head(sock.inbox) = Nothing
     THEN sock' = [sock EXCEPT !.inbox = Tail(@)] /\ UNCHANGED flow
     ELSE sock' = NoSocket /\ flow' = [flow EXCEPT !.stage = "known"]
  /\ UNCHANGED <<server, page, toast, subs, fails, moves, late>>

-----------------------------------------------------------------------------
(* Then polling, then the whole row. *)

PollFinds ==
  /\ flow.stage = "polling" /\ rows[flow.sub].verdict # Nothing
  /\ flow' = [flow EXCEPT !.stage = "known"]
  /\ UNCHANGED <<server, page, toast, sock, subs, fails, moves, late>>

\* A poll after 90 seconds without a verdict; earlier polls change nothing.
PollLate ==
  /\ flow.stage = "polling" /\ rows[flow.sub].verdict = Nothing
  /\ flow' = [flow EXCEPT !.stage = "unanswered"] /\ late' = TRUE
  /\ UNCHANGED <<server, page, toast, sock, subs, fails, moves>>

ReadFails ==
  /\ flow.stage \in {"polling", "known"} /\ Fails
  /\ flow' = [flow EXCEPT !.stage = "unanswered"]
  /\ UNCHANGED <<server, page, toast, sock, subs, moves, late>>

\* The judged row makes the toast; the list is loaded once more.
TellVerdict ==
  /\ flow.stage = "known"
  /\ toast' = [kind |-> "verdict", sub |-> flow.sub, verdict |-> rows[flow.sub].verdict]
  /\ flow' = Idle
  /\ Settled
  /\ UNCHANGED <<server, page, sock, list, fails, moves, late>>

GiveUp ==
  /\ flow.stage = "unanswered"
  /\ toast' = Toast("judging") /\ flow' = Idle
  /\ Settled
  /\ UNCHANGED <<server, page, sock, list, fails, moves, late>>

-----------------------------------------------------------------------------
(* The rest of the server. *)

\* apply_result commits the verdict, ...
Judge(i, v) ==
  /\ i \in DOMAIN rows /\ rows[i].queued /\ rows[i].verdict = Nothing
  /\ rows' = [rows EXCEPT ![i].verdict = v]
  /\ UNCHANGED <<round, joined, page, flow, toast, sock, subs, fails, moves, late>>

\* ... then it is broadcast to those who are in the group.
Broadcast(i) ==
  /\ i \in DOMAIN rows /\ rows[i].verdict # Nothing /\ ~rows[i].told
  /\ rows' = [rows EXCEPT ![i].told = TRUE]
  /\ sock' = IF sock.stage = "open" /\ flow.sub = i
             THEN [sock EXCEPT !.inbox = Append(@, rows[i].verdict)] ELSE sock
  /\ UNCHANGED <<round, joined, page, flow, toast, subs, fails, moves, late>>

RoundEnds ==
  /\ round = "running" /\ round' = "over"
  /\ UNCHANGED <<rows, joined, page, flow, toast, sock, subs, fails, moves, late>>

-----------------------------------------------------------------------------
Init ==
  /\ rows = <<>> /\ round \in {"none", "running"}
  /\ joined \in BOOLEAN /\ (round = "none" => joined)
  /\ at \in Problems /\ statement = "loading" /\ langs = "loading"
  /\ flow = Idle /\ toast = NoToast /\ sock = NoSocket
  /\ list = [key |-> Nothing, rows |-> <<>>, error |-> FALSE]
  /\ fetches = IF round = "none" THEN Reloaded({}, at) ELSE {}
  /\ fails = 0 /\ moves = 0 /\ late = FALSE

\* The steps of a submission under way.  A broadcast may never come.
FlowStep ==
  \/ SaveRow \/ PostFails \/ PostAnswered
  \/ TicketArrives \/ ReadRow \/ JoinGroup
  \/ SocketFails \/ SocketTimeout \/ MessageArrives
  \/ PollFinds \/ PollLate \/ ReadFails \/ TellVerdict \/ GiveUp

Next ==
  \/ FlowStep \/ Press \/ CloseToast \/ RoundEnds
  \/ \E outcome \in {"here", "missing", "failed"} : StatementArrives(outcome)
  \/ \E outcome \in {"here", "failed"} : LanguagesArrive(outcome)
  \/ \E p \in Problems : Move(p)
  \/ \E f \in fetches : ServeList(f) \/ ListArrives(f) \/ ListFails(f)
  \/ \E i \in 1..MaxRows : Broadcast(i) \/ \E v \in Verdicts : Judge(i, v)

\* A request is answered or fails, the timers fire.
Fairness == WF_vars(FlowStep)

Spec == Init /\ [][Next]_vars /\ Fairness

-----------------------------------------------------------------------------
(* Properties *)

TypeOK ==
  /\ \A i \in DOMAIN rows : rows[i].problem \in Problems
  /\ round \in {"none", "running", "over"} /\ at \in Problems
  /\ flow.sub \in 0..Len(rows) /\ toast.sub \in 0..Len(rows)
  /\ sock.stage \in {"closed", "opening", "joining", "open"}
  /\ fails \in 0..MaxFails /\ moves \in 0..MaxMoves /\ late \in BOOLEAN

\* The Submit button always comes back, and a verdict that is there while the
\* page waits ends up in the toast: whether its broadcast came before the
\* socket joined, after it, or never (the 45 seconds and polling of verdict.js).
EverySubmitIsAnswered ==
  /\ (flow.stage # "idle") ~> (flow.stage = "idle")
  /\ \A i \in 1..MaxRows :
       (flow.sub = i /\ rows[i].verdict # Nothing)
         ~> (toast.sub = i \/ fails > 0 \/ late)

\* Once the list has settled, it shows the problem in the address and the
\* verdict the toast tells: an answer to an older request never replaces a
\* newer one (the active flag and the key of useProblemSubmissions.js).
ListIsCurrent ==
  (~list.error /\ list.key = at /\ \A f \in fetches : ~f.mine) =>
    /\ \A k \in DOMAIN list.rows : rows[list.rows[k].id].problem = at
    /\ (toast.kind = "verdict" /\ rows[toast.sub].problem = at)
         => \E k \in DOMAIN list.rows :
              list.rows[k] = [id |-> toast.sub, verdict |-> toast.verdict]

\* The comment of verdict.js on the socket: the consumer replays the current
\* state on connect, so a verdict that landed before the socket opened is not
\* missed.
SocketMissesNothing ==
  ~(flow.stage = "watching" /\ sock.stage = "open" /\ sock.inbox = <<>> /\ rows[flow.sub].told)
=============================================================================
