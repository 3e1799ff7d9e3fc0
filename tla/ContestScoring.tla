---------------------------- MODULE ContestScoring ----------------------------
(***************************************************************************)
(* The scores of one contest and its rating: what the consumers write when *)
(* a verdict arrives (submissions/signals.py, calculate_score), and what   *)
(* the rating task does once the round is over (apply_contest_ratings and  *)
(* the announcement in the same transaction).                              *)
(*                                                                         *)
(* A transaction reads what is committed at the time and writes later; the *)
(* locks it waits for in between are guards.  The points and the minutes   *)
(* of a row follow from its set of first accepted submissions, which       *)
(* stands for them.  How Elo changes are computed is left out: rating      *)
(* counts how often they were applied.                                     *)
(***************************************************************************)
EXTENDS Integers, Sequences, FiniteSets

CONSTANTS Contestants, Problems,
          Verdicts,      \* "AC" and others
          Consumers,     \* consumers of results, more than one during a deploy
          Beats,         \* overlapping runs of the rating task
          None,
          MaxSubs,       \* bound: submissions of the round
          MaxFails       \* bound: transactions rolled back

ASSUME ContestBounds == MaxSubs \in Nat /\ MaxFails \in Nat

VARIABLES subs,          \* the submissions, by created_at
          score,         \* ContestScore of each contestant, None without a row
          rating,        \* how often the round changed each contestant's Elo
          contest,       \* over: end_time has passed; rated: rating_applied
          announced,     \* notifications: who was told that the round is over
          tx,            \* each consumer's transaction about an accepted verdict
          run,           \* each rating run
          fails,
          overlapped     \* ghost: two transactions scored a contestant side by side

vars == <<subs, score, rating, contest, announced, tx, run, fails, overlapped>>

NoTx == [sub |-> 0, row |-> None]
NoRun == [at |-> "idle", rows |-> [u \in Contestants |-> None]]

-----------------------------------------------------------------------------
(* calculate_score, for a table of submissions. *)

Of(table, u) == {i \in DOMAIN table : table[i].by = u}
Same(table, i, j) == table[i].by = table[j].by /\ table[i].problem = table[j].problem

\* The first accepted submission of each solved problem.
FirstAccepted(table, u) ==
  {i \in Of(table, u) :
     /\ table[i].verdict = "AC"
     /\ \A j \in DOMAIN table : table[j].verdict = "AC" /\ Same(table, i, j) => i <= j}

\* The verdicts listed there as wrong attempts; "OLE" is not among them.
Wrong == {"WA", "TLE", "MLE", "RE", "CE"}

Attempts(table, u, bad) ==
  Cardinality({j \in Of(table, u) :
     /\ table[j].verdict \in bad
     /\ \E i \in FirstAccepted(table, u) : Same(table, i, j) /\ j < i})

Row(table, u) ==
  [acs |-> FirstAccepted(table, u), wrong |-> Attempts(table, u, Wrong), delta |-> FALSE]

Rows == [acs : SUBSET (1..MaxSubs), wrong : 0..MaxSubs, delta : BOOLEAN]

ASSUME ContestAssumption ==
  /\ "AC" \in Verdicts
  /\ None \notin Verdicts \cup Wrong /\ None \notin Rows

-----------------------------------------------------------------------------
(* The round and its submissions. *)

Submit(u, p) ==
  /\ ~contest.over /\ Len(subs) < MaxSubs
  /\ subs' = Append(subs, [by |-> u, problem |-> p, verdict |-> None])
  /\ UNCHANGED <<score, rating, contest, announced, tx, run, fails, overlapped>>

End ==
  /\ ~contest.over /\ contest' = [contest EXCEPT !.over = TRUE]
  /\ UNCHANGED <<subs, score, rating, announced, tx, run, fails, overlapped>>

\* The row of a submission is locked by the consumer that applies its verdict.
Free(i) == subs[i].verdict = None /\ \A c \in Consumers : tx[c].sub # i

\* A verdict other than AC is saved, and no score is touched.
Reject(i, v) ==
  /\ i \in DOMAIN subs /\ Free(i) /\ v # "AC"
  /\ subs' = [subs EXCEPT ![i].verdict = v]
  /\ UNCHANGED <<score, rating, contest, announced, tx, run, fails, overlapped>>

\* AC: the score is calculated from what is committed, and from this verdict.
Accept(c, i) ==
  /\ tx[c] = NoTx /\ i \in DOMAIN subs /\ Free(i)
  /\ tx' = [tx EXCEPT ![c] =
              [sub |-> i, row |-> Row([subs EXCEPT ![i].verdict = "AC"], subs[i].by)]]
  /\ UNCHANGED <<subs, score, rating, contest, announced, run, fails, overlapped>>

Locked == \E b \in Beats : run[b].at \in {"locked", "collected"}

\* update_or_create, and the commit.  A new row refers to the contest, so it
\* waits for whoever has that locked; an old row keeps its rating_delta.
Write(c) ==
  LET i == tx[c].sub
      u == subs[i].by IN
  /\ tx[c] # NoTx
  /\ score[u] = None => ~Locked
  /\ score' = [score EXCEPT ![u] =
                 IF @ = None THEN tx[c].row ELSE [tx[c].row EXCEPT !.delta = score[u].delta]]
  /\ subs' = [subs EXCEPT ![i].verdict = "AC"]
  /\ tx' = [tx EXCEPT ![c] = NoTx]
  /\ overlapped' = IF \E d \in Consumers \ {c} : tx[d] # NoTx /\ subs[tx[d].sub].by = u
                   THEN overlapped \cup {u} ELSE overlapped
  /\ UNCHANGED <<rating, contest, announced, run, fails>>

\* The result stays in the queue and is applied again.
Rollback(c) ==
  /\ tx[c] # NoTx /\ fails < MaxFails /\ fails' = fails + 1
  /\ tx' = [tx EXCEPT ![c] = NoTx]
  /\ UNCHANGED <<subs, score, rating, contest, announced, run, overlapped>>

-----------------------------------------------------------------------------
(* The rating task, every minute; a run may last into the next one. *)

Pick(b) ==
  /\ run[b] = NoRun /\ contest.over /\ ~contest.rated
  /\ run' = [run EXCEPT ![b].at = "picked"]
  /\ UNCHANGED <<subs, score, rating, contest, announced, tx, fails, overlapped>>

\* Slip: the task's filter is trusted.
LockSlip(b) ==
  /\ run[b].at = "picked" /\ ~Locked
  /\ run' = [run EXCEPT ![b].at = "locked"]
  /\ UNCHANGED <<subs, score, rating, contest, announced, tx, fails, overlapped>>

\* The contest is locked and the flag read again.  A run that finds it set has
\* nothing to do; the announcement it still makes finds everyone told.
Lock(b) ==
  /\ run[b].at = "picked" /\ ~Locked
  /\ run' = [run EXCEPT ![b] = IF contest.rated THEN NoRun ELSE [@ EXCEPT !.at = "locked"]]
  /\ UNCHANGED <<subs, score, rating, contest, announced, tx, fails, overlapped>>

\* Everyone who submitted; the rows of those who have one are read here.
Field == {subs[i].by : i \in DOMAIN subs}

Collect(b) ==
  /\ run[b].at = "locked"
  /\ run' = [run EXCEPT ![b] = [at |-> "collected", rows |-> score]]
  /\ UNCHANGED <<subs, score, rating, contest, announced, tx, fails, overlapped>>

Rated == IF Cardinality(Field) < 2 THEN {} ELSE Field

Unsolved == [acs |-> {}, wrong |-> 0, delta |-> TRUE]

\* Slip: save() writes the whole row, as it was read.
RatedRowSlip(b, u) ==
  IF run[b].rows[u] = None THEN Unsolved ELSE [run[b].rows[u] EXCEPT !.delta = TRUE]

\* save(update_fields=...) leaves the score alone; who has no row gets one.
RatedRow(b, u) ==
  IF run[b].rows[u] = None THEN Unsolved ELSE [score[u] EXCEPT !.delta = TRUE]

\* Ratings, deltas, announcement and flag in one transaction.
Apply(b) ==
  /\ run[b].at = "collected"
  /\ rating' = [u \in Contestants |-> IF u \in Rated THEN rating[u] + 1 ELSE rating[u]]
  /\ score' = [u \in Contestants |-> IF u \in Rated THEN RatedRow(b, u) ELSE score[u]]
  /\ announced' = Contestants
  /\ contest' = [contest EXCEPT !.rated = TRUE]
  /\ run' = [run EXCEPT ![b] = NoRun]
  /\ UNCHANGED <<subs, tx, fails, overlapped>>

\* Anything raises, the announcement included: all of it is rolled back.
FailRun(b) ==
  /\ run[b] # NoRun /\ fails < MaxFails /\ fails' = fails + 1
  /\ run' = [run EXCEPT ![b] = NoRun]
  /\ UNCHANGED <<subs, score, rating, contest, announced, tx, overlapped>>

-----------------------------------------------------------------------------
Init ==
  /\ subs = <<>> /\ score = [u \in Contestants |-> None]
  /\ rating = [u \in Contestants |-> 0]
  /\ contest = [over |-> FALSE, rated |-> FALSE] /\ announced = {}
  /\ tx = [c \in Consumers |-> NoTx] /\ run = [b \in Beats |-> NoRun]
  /\ fails = 0 /\ overlapped = {}

Next ==
  \/ End
  \/ \E u \in Contestants, p \in Problems : Submit(u, p)
  \/ \E i \in 1..MaxSubs, v \in Verdicts : Reject(i, v)
  \/ \E c \in Consumers : Write(c) \/ Rollback(c) \/ \E i \in 1..MaxSubs : Accept(c, i)
  \/ \E b \in Beats : Pick(b) \/ Lock(b) \/ Collect(b) \/ Apply(b) \/ FailRun(b)

Spec == Init /\ [][Next]_vars

-----------------------------------------------------------------------------
(* Properties *)

Submission == [by : Contestants, problem : Problems, verdict : Verdicts \cup {None}]

TypeOK ==
  /\ subs \in Seq(Submission) /\ Len(subs) <= MaxSubs
  /\ score \in [Contestants -> Rows \cup {None}]
  /\ rating \in [Contestants -> Nat]
  /\ contest \in [over : BOOLEAN, rated : BOOLEAN] /\ announced \subseteq Contestants
  /\ tx \in [Consumers -> [sub : 0..MaxSubs, row : Rows \cup {None}]]
  /\ run \in [Beats -> [at : {"idle", "picked", "locked", "collected"},
                        rows : [Contestants -> Rows \cup {None}]]]
  /\ fails \in 0..MaxFails /\ overlapped \subseteq Contestants

\* A round moves the rating of everyone who submitted once, and all of it, the
\* deltas and the announcement included, or nothing is there, whatever runs of
\* the task overlap or fail midway ("two overlapping beat runs never
\* double-count", apply_contest_ratings).
RatedOnceAndTold ==
  IF contest.rated
  THEN /\ announced = Contestants
       /\ \A u \in Contestants : rating[u] = IF u \in Rated THEN 1 ELSE 0
       /\ \A u \in Rated : score[u] # None /\ score[u].delta
  ELSE /\ announced = {}
       /\ \A u \in Contestants : rating[u] = 0 /\ (score[u] # None => ~score[u].delta)

\* The committed score always counts exactly the solved problems, by their first
\* accepted submissions, and no more wrong attempts than there were, although
\* the rating task writes the same rows from what it read earlier.  Two
\* consumers that score one contestant side by side are the exception: the
\* second writes what it calculated before the first had committed.
ScoreCountsSolved ==
  \A u \in Contestants \ overlapped :
    IF score[u] = None THEN FirstAccepted(subs, u) = {}
    ELSE /\ score[u].acs = FirstAccepted(subs, u)
         /\ score[u].wrong <= Attempts(subs, u, Wrong)

\* "penalty = 10 minutes per wrong attempt on each solved problem" (the formula
\* at the top of contests/services.py), once every submission is judged.
PenaltyIsTheFormula ==
  (\A i \in DOMAIN subs : subs[i].verdict # None) =>
    \A u \in Contestants : score[u] # None =>
      score[u].wrong = Attempts(subs, u, Verdicts \ {"AC"})
=============================================================================
