------------------------- MODULE ContestScoringProofs -------------------------
(***************************************************************************)
(* Theorems about ContestScoring, for every set of contestants, problems,  *)
(* consumers and runs of the rating task.                                  *)
(***************************************************************************)
EXTENDS ContestScoring, FiniteSetTheorems, TLAPS

-----------------------------------------------------------------------------
(* The invariant of types and of the rating. *)

\* A transaction is about a submission, and its row was calculated, not rated.
Scoring ==
  \A c \in Consumers : tx[c] # NoTx =>
     tx[c].sub \in DOMAIN subs /\ tx[c].row \in Rows /\ ~tx[c].row.delta

\* The rows that a rating run has read are still there.
RowsStay ==
  \A b \in Beats, u \in Contestants : run[b].rows[u] # None => score[u] # None

Typed == TypeOK /\ Scoring /\ RowsStay

RunState == [at : {"idle", "picked", "locked", "collected"},
             rows : [Contestants -> Rows \cup {None}]]

Holding == {"locked", "collected"}

\* The contest's row is locked by one run, which has seen the flag unset.
OneRuns ==
  /\ contest.rated => contest.over
  /\ \A b \in Beats : run[b].at # "idle" => contest.over
  /\ \A b \in Beats : run[b].at \in Holding => ~contest.rated
  /\ \A b, d \in Beats : run[b].at \in Holding /\ run[d].at \in Holding => b = d

IInv == Typed /\ OneRuns /\ RatedOnceAndTold

-----------------------------------------------------------------------------
(* The operators. *)

\* A calculated row is a row, and carries no delta.
LEMMA RowTyped ==
  ASSUME NEW table \in Seq(Submission), Len(table) <= MaxSubs,
         NEW u \in Contestants
  PROVE  Row(table, u) \in Rows /\ ~Row(table, u).delta
<1>1. DOMAIN table \subseteq 1..MaxSubs
  BY ContestAssumption, ContestBounds
<1>2. FirstAccepted(table, u) \subseteq 1..MaxSubs
  BY <1>1 DEF FirstAccepted, Of
<1>3. Attempts(table, u, Wrong) \in 0..MaxSubs
  <2> DEFINE A == {j \in Of(table, u) :
                     /\ table[j].verdict \in Wrong
                     /\ \E i \in FirstAccepted(table, u) : Same(table, i, j) /\ j < i}
  <2>1. A \in SUBSET (1..MaxSubs)
    BY <1>1 DEF Of
  <2>2. IsFiniteSet(1..MaxSubs) /\ Cardinality(1..MaxSubs) = MaxSubs
    BY FS_Interval, ContestAssumption, ContestBounds
  <2>3. IsFiniteSet(A) /\ Cardinality(A) <= MaxSubs
    BY <2>1, <2>2, FS_Subset
  <2>4. Cardinality(A) \in Nat
    BY <2>3, FS_CardinalityType
  <2>5. Attempts(table, u, Wrong) = Cardinality(A)
    BY DEF Attempts
  <2> HIDE DEF A
  <2>6. QED
    BY <2>3, <2>4, <2>5, ContestAssumption, ContestBounds
<1>4. QED
  BY <1>2, <1>3 DEF Row, Rows

LEMMA SubmissionAt ==
  ASSUME NEW table \in Seq(Submission), NEW i \in DOMAIN table
  PROVE  table[i] \in Submission /\ table[i].by \in Contestants
<1>1. table[i] \in Submission
  OBVIOUS
<1>2. QED
  BY <1>1 DEF Submission

LEMMA Judged ==
  ASSUME NEW table \in Seq(Submission), NEW i \in DOMAIN table, NEW v \in Verdicts
  PROVE  LET after == [table EXCEPT ![i].verdict = v]
         IN  /\ after \in Seq(Submission) /\ Len(after) = Len(table)
             /\ DOMAIN after = DOMAIN table
             /\ \A j \in DOMAIN table : after[j].by = table[j].by
<1> DEFINE r == [table[i] EXCEPT !.verdict = v]
           after == [table EXCEPT ![i].verdict = v]
<1>1. r \in Submission /\ r.by = table[i].by
  BY SubmissionAt DEF Submission
<1>2. after = [table EXCEPT ![i] = r]
  OBVIOUS
<1> HIDE DEF r
<1>3. after \in Seq(Submission) /\ Len(after) = Len(table) /\ DOMAIN after = DOMAIN table
  BY <1>1, <1>2
<1>4. \A j \in DOMAIN table : after[j].by = table[j].by
  BY <1>1, <1>2
<1>5. QED
  BY <1>3, <1>4

\* A verdict changes neither who submitted nor how much.
LEMMA VerdictKeepsField ==
  ASSUME Typed, NEW i \in DOMAIN subs, NEW v \in Verdicts,
         subs' = [subs EXCEPT ![i].verdict = v]
  PROVE  /\ subs' \in Seq(Submission) /\ Len(subs') = Len(subs)
         /\ DOMAIN subs' = DOMAIN subs /\ Field' = Field
BY Judged DEF Typed, TypeOK, Field

LEMMA FieldDecides ==
  ASSUME Field' = Field
  PROVE  Rated' = Rated
BY DEF Rated

LEMMA FieldTyped ==
  ASSUME TypeOK
  PROVE  Field \subseteq Contestants /\ Rated \subseteq Contestants
BY SubmissionAt DEF TypeOK, Field, Rated

-----------------------------------------------------------------------------
(* Types survive every step. *)

LEMMA InitTyped == ASSUME Init PROVE Typed
BY ContestAssumption, ContestBounds DEF Init, Typed, TypeOK, Scoring, RowsStay, NoTx, NoRun, Rows, Submission

LEMMA NextTyped == ASSUME Typed, [Next]_vars PROVE Typed'
<1> USE DEF Typed
<1>1. CASE End
  BY <1>1 DEF End, TypeOK, Scoring, RowsStay
<1>2. ASSUME NEW u \in Contestants, NEW p \in Problems, Submit(u, p) PROVE Typed'
  <2> DEFINE s == [by |-> u, problem |-> p, verdict |-> None]
  <2>1. s \in Submission
    BY DEF Submission
  <2>2. subs' = Append(subs, s) /\ Len(subs) < MaxSubs
    BY <1>2 DEF Submit
  <2> HIDE DEF s
  <2>3. subs' \in Seq(Submission) /\ Len(subs') <= MaxSubs /\ DOMAIN subs \subseteq DOMAIN subs'
    BY <2>1, <2>2, ContestAssumption, ContestBounds DEF TypeOK
  <2>4. QED
    BY <1>2, <2>3 DEF Submit, TypeOK, Scoring, RowsStay
<1>3. ASSUME NEW i \in 1..MaxSubs, NEW v \in Verdicts, Reject(i, v) PROVE Typed'
  <2>1. i \in DOMAIN subs /\ subs' = [subs EXCEPT ![i].verdict = v]
    BY <1>3 DEF Reject
  <2>2. QED
    BY <1>3, <2>1, VerdictKeepsField DEF Reject, TypeOK, Scoring, RowsStay
<1>4. ASSUME NEW c \in Consumers, NEW i \in 1..MaxSubs, Accept(c, i) PROVE Typed'
  <2> DEFINE table == [subs EXCEPT ![i].verdict = "AC"]
             t == [sub |-> i, row |-> Row(table, subs[i].by)]
  <2>1. i \in DOMAIN subs /\ tx' = [tx EXCEPT ![c] = t]
    BY <1>4 DEF Accept
  <2>2. subs[i].by \in Contestants
    BY <2>1, SubmissionAt DEF TypeOK
  <2>3. table \in Seq(Submission) /\ Len(table) <= MaxSubs
    BY <2>1, Judged, ContestAssumption, ContestBounds DEF TypeOK
  <2>4. t.row \in Rows /\ ~t.row.delta /\ t.sub = i
    BY <2>2, <2>3, RowTyped
  <2>5. t \in [sub : 0..MaxSubs, row : Rows \cup {None}]
    BY <2>4, ContestAssumption, ContestBounds
  <2> HIDE DEF t
  <2>6. TypeOK'
    BY <1>4, <2>1, <2>5 DEF Accept, TypeOK
  <2>7. Scoring'
    BY <1>4, <2>1, <2>4 DEF Accept, TypeOK, Scoring
  <2>8. QED
    BY <1>4, <2>6, <2>7 DEF Accept, RowsStay
<1>5. ASSUME NEW c \in Consumers, Write(c) PROVE Typed'
  <2> DEFINE i == tx[c].sub
             u == subs[i].by
             row == IF score[u] = None THEN tx[c].row
                    ELSE [tx[c].row EXCEPT !.delta = score[u].delta]
  <2>1. i \in DOMAIN subs /\ tx[c].row \in Rows /\ u \in Contestants
    BY <1>5, SubmissionAt DEF Write, Scoring, TypeOK
  <2>2. row \in Rows /\ row # None
    BY <2>1, ContestAssumption, ContestBounds DEF Rows, TypeOK
  <2>3. score' = [score EXCEPT ![u] = row] /\ subs' = [subs EXCEPT ![i].verdict = "AC"]
    BY <1>5, <2>1 DEF Write, TypeOK
  <2>4. /\ subs' \in Seq(Submission) /\ Len(subs') = Len(subs)
        /\ DOMAIN subs' = DOMAIN subs
    BY <2>1, <2>3, VerdictKeepsField, ContestAssumption, ContestBounds
  <2>5. tx' = [tx EXCEPT ![c] = NoTx] /\ NoTx \in [sub : 0..MaxSubs, row : Rows \cup {None}]
    BY <1>5, ContestAssumption, ContestBounds DEF Write, NoTx
  <2>6. overlapped' \subseteq Contestants /\ UNCHANGED <<rating, contest, announced, run, fails>>
    BY <1>5, <2>1 DEF Write, TypeOK
  <2> HIDE DEF row, u, i
  <2>7. TypeOK'
    BY <2>1, <2>2, <2>3, <2>4, <2>5, <2>6 DEF TypeOK
  <2>8. Scoring'
    BY <2>4, <2>5 DEF Scoring, TypeOK
  <2>9. RowsStay'
    BY <1>5, <2>1, <2>2, <2>3 DEF Write, RowsStay, TypeOK
  <2>10. QED
    BY <2>7, <2>8, <2>9
<1>6. ASSUME NEW c \in Consumers, Rollback(c) PROVE Typed'
  <2>1. NoTx \in [sub : 0..MaxSubs, row : Rows \cup {None}]
    BY ContestAssumption, ContestBounds DEF NoTx
  <2>2. QED
    BY <1>6, <2>1, ContestAssumption, ContestBounds DEF Rollback, TypeOK, Scoring, RowsStay
<1>7. ASSUME NEW b \in Beats, Pick(b) \/ Lock(b) \/ Collect(b) \/ FailRun(b) PROVE Typed'
  <2>1. NoRun \in RunState /\ run[b] \in RunState
    BY DEF NoRun, RunState, TypeOK
  <2>2. UNCHANGED <<subs, score, rating, contest, announced, tx, overlapped>>
    BY <1>7 DEF Pick, Lock, Collect, FailRun
  <2>3. Scoring'
    BY <2>2 DEF Scoring
  <2>4. PICK r \in RunState :
          /\ run' = [run EXCEPT ![b] = r]
          /\ \A u \in Contestants : r.rows[u] # None => score[u] # None
    <3>1. ASSUME NEW p \in {"picked", "locked"}, run' = [run EXCEPT ![b].at = p]
          PROVE  \E r \in RunState :
                   /\ run' = [run EXCEPT ![b] = r]
                   /\ \A u \in Contestants : r.rows[u] # None => score[u] # None
      <4> DEFINE r == [run[b] EXCEPT !.at = p]
      <4>1. r \in RunState
        BY <2>1 DEF RunState
      <4>2. r.rows = run[b].rows
        BY <2>1 DEF RunState
      <4>3. run' = [run EXCEPT ![b] = r]
        BY <3>1
      <4>4. \A u \in Contestants : r.rows[u] # None => score[u] # None
        BY <4>2 DEF RowsStay
      <4> HIDE DEF r
      <4>5. QED
        BY <4>1, <4>3, <4>4
    <3>2. CASE Pick(b) \/ (Lock(b) /\ ~contest.rated)
      <4>1. \/ run' = [run EXCEPT ![b].at = "picked"]
            \/ run' = [run EXCEPT ![b].at = "locked"]
        BY <3>2 DEF Pick, Lock
      <4>2. CASE run' = [run EXCEPT ![b].at = "picked"]
        BY <3>1, <4>2
      <4>3. CASE run' = [run EXCEPT ![b].at = "locked"]
        BY <3>1, <4>3
      <4>4. QED
        BY <4>1, <4>2, <4>3
    <3>3. CASE Lock(b) /\ contest.rated
      BY <3>3, <2>1 DEF Lock, NoRun
    <3>4. CASE Collect(b)
      <4> DEFINE r == [at |-> "collected", rows |-> score]
      <4>1. r \in RunState /\ r.rows = score
        BY DEF TypeOK, RunState
      <4>2. run' = [run EXCEPT ![b] = r]
        BY <3>4 DEF Collect
      <4> HIDE DEF r
      <4>3. QED
        BY <4>1, <4>2
    <3>5. CASE FailRun(b)
      BY <1>7, <3>5, <2>1 DEF FailRun, NoRun
    <3>6. QED
      BY <1>7, <3>2, <3>3, <3>4, <3>5
  <2>5. fails' \in 0..MaxFails
    BY <1>7, ContestAssumption, ContestBounds DEF Pick, Lock, Collect, FailRun, TypeOK
  <2>6. TypeOK'
    BY <2>2, <2>4, <2>5 DEF TypeOK, RunState
  <2>7. RowsStay'
    BY <2>2, <2>4 DEF RowsStay, TypeOK
  <2>8. QED
    BY <2>3, <2>6, <2>7
<1>8. ASSUME NEW b \in Beats, Apply(b) PROVE Typed'
  <2>1. NoRun \in RunState /\ run[b] \in RunState
    BY DEF NoRun, RunState, TypeOK
  <2>2. ASSUME NEW u \in Contestants PROVE RatedRow(b, u) \in Rows
    <3>1. Unsolved \in Rows
      BY ContestAssumption, ContestBounds DEF Unsolved, Rows
    <3>2. CASE run[b].rows[u] # None
      <4>1. score[u] \in Rows
        BY <3>2 DEF RowsStay, TypeOK
      <4>2. QED
        BY <3>2, <4>1 DEF RatedRow, Rows
    <3>3. QED
      BY <3>1, <3>2 DEF RatedRow
  <2>3. TypeOK'
    <3>1. rating' \in [Contestants -> Nat] /\ score' \in [Contestants -> Rows \cup {None}]
      BY <1>8, <2>2 DEF Apply, TypeOK
    <3>2. contest' \in [over : BOOLEAN, rated : BOOLEAN] /\ announced' \subseteq Contestants
      BY <1>8 DEF Apply, TypeOK
    <3>3. QED
      BY <1>8, <2>1, <3>1, <3>2 DEF Apply, TypeOK, RunState
  <2>4. Scoring'
    BY <1>8 DEF Apply, Scoring
  <2>5. \A u \in Contestants : score[u] # None => score'[u] # None
    BY <1>8, <2>2, ContestAssumption, ContestBounds DEF Apply, TypeOK
  <2>6. RowsStay'
    BY <1>8, <2>5 DEF Apply, RowsStay, TypeOK, NoRun
  <2>7. QED
    BY <2>3, <2>4, <2>6
<1>9. CASE UNCHANGED vars
  BY <1>9 DEF vars, TypeOK, Scoring, RowsStay
<1>10. QED
  BY <1>1, <1>2, <1>3, <1>4, <1>5, <1>6, <1>7, <1>8, <1>9 DEF Next

-----------------------------------------------------------------------------
(* One run rates the contest. *)

\* Where the field is the same and no row comes or goes, nothing moves.
LEMMA OneRunsKept ==
  ASSUME TypeOK, OneRuns, RatedOnceAndTold, UNCHANGED run,
         UNCHANGED <<rating, announced>>, Rated' = Rated \/ ~contest.over,
         contest'.rated <=> contest.rated, contest.over => contest'.over,
         \A u \in Contestants : score[u] # None =>
            score'[u] # None /\ (score'[u].delta <=> score[u].delta),
         \A u \in Contestants : score[u] = None /\ score'[u] # None => ~score'[u].delta
  PROVE  OneRuns' /\ RatedOnceAndTold'
<1>1. OneRuns'
  BY DEF OneRuns
<1>2. CASE contest.rated
  <2>1. Rated' = Rated /\ Rated \subseteq Contestants
    BY <1>2, FieldTyped DEF OneRuns
  <2>2. \A u \in Rated : score'[u] # None /\ score'[u].delta
    BY <1>2, <2>1 DEF RatedOnceAndTold
  <2>3. QED
    BY <1>1, <1>2, <2>1, <2>2 DEF RatedOnceAndTold
<1>3. CASE ~contest.rated
  <2>1. \A u \in Contestants : score[u] # None => ~score[u].delta
    BY <1>3 DEF RatedOnceAndTold
  <2>2. \A u \in Contestants : score'[u] # None => ~score'[u].delta
    BY <2>1
  <2>3. announced' = {} /\ \A u \in Contestants : rating'[u] = 0
    BY <1>3 DEF RatedOnceAndTold
  <2>4. QED
    BY <1>1, <1>3, <2>2, <2>3 DEF RatedOnceAndTold
<1>4. QED
  BY <1>2, <1>3

\* A run that moves on alone.
LEMMA RunMoves ==
  ASSUME OneRuns, RatedOnceAndTold, NEW b \in Beats,
         \A d \in Beats \ {b} : run'[d] = run[d],
         UNCHANGED <<subs, score, rating, contest, announced>>,
         run'[b].at # "idle" => contest.over,
         run'[b].at \in Holding =>
            /\ ~contest.rated
            /\ \A d \in Beats \ {b} : run[d].at \notin Holding
  PROVE  OneRuns' /\ RatedOnceAndTold'
<1>1. Rated' = Rated
  BY DEF Rated, Field
<1>2. RatedOnceAndTold'
  BY <1>1 DEF RatedOnceAndTold
<1>3. OneRuns'
  BY DEF OneRuns
<1>4. QED
  BY <1>2, <1>3

LEMMA NextRates ==
  ASSUME IInv, [Next]_vars
  PROVE  OneRuns' /\ RatedOnceAndTold'
<1> USE DEF IInv
<1>1. CASE End
  BY <1>1, OneRunsKept DEF End, Typed, TypeOK, Rated, Field
<1>2. ASSUME NEW u \in Contestants, NEW p \in Problems, Submit(u, p)
      PROVE  OneRuns' /\ RatedOnceAndTold'
  BY <1>2, OneRunsKept DEF Submit, Typed
<1>3. ASSUME NEW i \in 1..MaxSubs, NEW v \in Verdicts, Reject(i, v)
      PROVE  OneRuns' /\ RatedOnceAndTold'
  <2>1. Field' = Field
    BY <1>3, VerdictKeepsField DEF Reject
  <2>2. QED
    BY <1>3, <2>1, FieldDecides, OneRunsKept DEF Reject, Typed
<1>4. ASSUME NEW c \in Consumers,
             (\E i \in 1..MaxSubs : Accept(c, i)) \/ Rollback(c)
      PROVE  OneRuns' /\ RatedOnceAndTold'
  <2>1. UNCHANGED <<subs, score, rating, contest, announced, run>>
    BY <1>4 DEF Accept, Rollback
  <2>2. Rated' = Rated
    BY <2>1 DEF Rated, Field
  <2>3. QED
    BY <2>1, <2>2, OneRunsKept DEF Typed
<1>5. ASSUME NEW c \in Consumers, Write(c) PROVE OneRuns' /\ RatedOnceAndTold'
  <2> DEFINE i == tx[c].sub
             u == subs[i].by
             row == IF score[u] = None THEN tx[c].row
                    ELSE [tx[c].row EXCEPT !.delta = score[u].delta]
  <2>1. /\ i \in DOMAIN subs /\ tx[c].row \in Rows /\ ~tx[c].row.delta
        /\ u \in Contestants
    BY <1>5, SubmissionAt DEF Write, Typed, Scoring, TypeOK
  <2>2. /\ score' = [score EXCEPT ![u] = row] /\ subs' = [subs EXCEPT ![i].verdict = "AC"]
        /\ UNCHANGED <<rating, contest, announced, run>>
    BY <1>5, <2>1 DEF Write, Typed, TypeOK
  <2>3. row \in Rows
    BY <2>1 DEF Rows, Typed, TypeOK
  <2>4. score[u] # None => row.delta = score[u].delta
    BY <2>1 DEF Rows
  <2>5. score[u] = None => ~row.delta
    BY <2>1
  <2>6. Field' = Field
    BY <2>1, <2>2, VerdictKeepsField, ContestAssumption, ContestBounds
  <2> HIDE DEF row, u, i
  <2>7. \A w \in Contestants : w # u => score'[w] = score[w]
    BY <2>1, <2>2 DEF Typed, TypeOK
  <2>8. score'[u] = row
    BY <2>1, <2>2 DEF Typed, TypeOK
  <2>9. QED
    BY <2>1, <2>2, <2>3, <2>4, <2>5, <2>6, <2>7, <2>8, FieldDecides, OneRunsKept, ContestAssumption, ContestBounds DEF Typed
<1>6. ASSUME NEW b \in Beats, Pick(b) PROVE OneRuns' /\ RatedOnceAndTold'
  BY <1>6, RunMoves DEF Pick, Holding, Typed, TypeOK
<1>7. ASSUME NEW b \in Beats, Lock(b) PROVE OneRuns' /\ RatedOnceAndTold'
  <2>1. \A d \in Beats : run[d].at \notin Holding
    BY <1>7 DEF Lock, Locked, Holding
  <2>2. contest.over
    BY <1>7 DEF Lock, OneRuns
  <2>3. CASE contest.rated
    BY <1>7, <2>1, <2>2, <2>3, RunMoves DEF Lock, NoRun, Holding, Typed, TypeOK
  <2>4. CASE ~contest.rated
    BY <1>7, <2>1, <2>2, <2>4, RunMoves DEF Lock, Holding, Typed, TypeOK
  <2>5. QED
    BY <2>3, <2>4
<1>8. ASSUME NEW b \in Beats, Collect(b) PROVE OneRuns' /\ RatedOnceAndTold'
  <2>1. run[b].at \in Holding
    BY <1>8 DEF Collect, Holding
  <2>2. /\ ~contest.rated /\ contest.over
        /\ \A d \in Beats \ {b} : run[d].at \notin Holding
    BY <2>1 DEF OneRuns, Holding
  <2>3. QED
    BY <1>8, <2>2, RunMoves DEF Collect, Holding, Typed, TypeOK
<1>9. ASSUME NEW b \in Beats, FailRun(b) PROVE OneRuns' /\ RatedOnceAndTold'
  BY <1>9, RunMoves DEF FailRun, NoRun, Holding, Typed, TypeOK
<1>10. ASSUME NEW b \in Beats, Apply(b) PROVE OneRuns' /\ RatedOnceAndTold'
  <2>1. run[b].at \in Holding
    BY <1>10 DEF Apply, Holding
  <2>2. /\ ~contest.rated /\ contest.over
        /\ \A d \in Beats \ {b} : run[d].at \notin Holding
    BY <2>1 DEF OneRuns, Holding
  <2>3. Rated' = Rated /\ Rated \subseteq Contestants
    BY <1>10, FieldTyped DEF Apply, Rated, Field, Typed
  <2>4. contest'.rated /\ contest'.over
    BY <1>10, <2>2 DEF Apply, Typed, TypeOK
  <2>5. OneRuns'
    BY <1>10, <2>2, <2>4 DEF Apply, OneRuns, NoRun, Holding, Typed, TypeOK
  <2>6. \A u \in Contestants : rating'[u] = IF u \in Rated THEN 1 ELSE 0
    BY <1>10, <2>2 DEF Apply, RatedOnceAndTold, Typed, TypeOK
  <2>7. ASSUME NEW u \in Contestants PROVE RatedRow(b, u) \in Rows /\ RatedRow(b, u).delta
    <3>1. Unsolved \in Rows /\ Unsolved.delta
      BY ContestAssumption, ContestBounds DEF Unsolved, Rows
    <3>2. CASE run[b].rows[u] # None
      <4>1. score[u] \in Rows
        BY <3>2 DEF Typed, RowsStay, TypeOK
      <4>2. QED
        BY <3>2, <4>1 DEF RatedRow, Rows
    <3>3. QED
      BY <3>1, <3>2 DEF RatedRow
  <2>8. \A u \in Rated : score'[u] # None /\ score'[u].delta
    BY <1>10, <2>3, <2>7, ContestAssumption, ContestBounds DEF Apply
  <2>9. announced' = Contestants
    BY <1>10 DEF Apply
  <2>10. QED
    BY <2>3, <2>4, <2>5, <2>6, <2>8, <2>9 DEF RatedOnceAndTold
<1>11. CASE UNCHANGED vars
  BY <1>11, OneRunsKept DEF vars, Typed, Rated, Field
<1>12. QED
  BY <1>1, <1>2, <1>3, <1>4, <1>5, <1>6, <1>7, <1>8, <1>9, <1>10, <1>11 DEF Next

-----------------------------------------------------------------------------
(* The scores.  A transaction is about a submission without a verdict,     *)
(* which is nobody else's, and its row is what calculate_score would       *)
(* return once it commits: until then nobody else judges that contestant,  *)
(* or the contestant is overlapped.  A rating run that found no row still  *)
(* finds none: the consumer that would insert one waits for its lock.      *)

After(table, i) == [table EXCEPT ![i].verdict = "AC"]

\* A row counts what was solved, and no wrong attempt too many.
Counts(row, table, u) ==
  /\ row.acs = FirstAccepted(table, u)
  /\ row.wrong <= Attempts(table, u, Wrong)

Calculated(t) ==
  LET u == subs[t.sub].by
  IN  u \notin overlapped => Counts(t.row, After(subs, t.sub), u)

OneEach ==
  \A c, d \in Consumers :
    /\ tx[c] # NoTx => subs[tx[c].sub].verdict = None
    /\ tx[c] # NoTx /\ tx[d] # NoTx /\ tx[c].sub = tx[d].sub => c = d

NoRowYet ==
  \A b \in Beats, u \in Contestants :
    run[b].at = "collected" /\ run[b].rows[u] = None => score[u] = None

Scored ==
  /\ ScoreCountsSolved /\ OneEach /\ NoRowYet
  /\ \A c \in Consumers : tx[c] # NoTx => Calculated(tx[c])

\* What u has solved stays, and no wrong attempt of u's goes away.
SameSolved(old, new, u) ==
  /\ DOMAIN old \subseteq DOMAIN new
  /\ \A j \in DOMAIN old : new[j].by = old[j].by /\ new[j].problem = old[j].problem
  /\ \A j \in Of(new, u) : new[j].verdict = "AC" => j \in DOMAIN old /\ old[j].verdict = "AC"
  /\ \A j \in Of(old, u) : old[j].verdict = "AC" => new[j].verdict = "AC"
  /\ \A j \in Of(old, u) : old[j].verdict \in Wrong => new[j].verdict \in Wrong

LEMMA SameFirst ==
  ASSUME NEW old, NEW new, NEW u, SameSolved(old, new, u)
  PROVE  FirstAccepted(new, u) = FirstAccepted(old, u)
<1>1. ASSUME NEW i \in FirstAccepted(old, u) PROVE i \in FirstAccepted(new, u)
  BY <1>1 DEF FirstAccepted, SameSolved, Of, Same
<1>2. ASSUME NEW i \in FirstAccepted(new, u) PROVE i \in FirstAccepted(old, u)
  BY <1>2 DEF FirstAccepted, SameSolved, Of, Same
<1>3. QED
  BY <1>1, <1>2

\* The wrong attempts that a table counts.
Missed(table, u) ==
  {j \in Of(table, u) :
     /\ table[j].verdict \in Wrong
     /\ \E i \in FirstAccepted(table, u) : Same(table, i, j) /\ j < i}

LEMMA MissedFinite ==
  ASSUME NEW table \in Seq(Submission), NEW u
  PROVE  IsFiniteSet(Missed(table, u)) /\ Attempts(table, u, Wrong) = Cardinality(Missed(table, u))
<1>1. Missed(table, u) \subseteq 1..Len(table)
  BY DEF Missed, Of
<1>2. IsFiniteSet(1..Len(table))
  BY FS_Interval
<1>3. IsFiniteSet(Missed(table, u))
  BY <1>1, <1>2, FS_Subset
<1>4. QED
  BY <1>3 DEF Attempts, Missed

LEMMA CountsStays ==
  ASSUME NEW old \in Seq(Submission), NEW new \in Seq(Submission), NEW u,
         SameSolved(old, new, u), NEW row, row.wrong \in Int, Counts(row, old, u)
  PROVE  Counts(row, new, u)
<1>1. FirstAccepted(new, u) = FirstAccepted(old, u)
  BY SameFirst
<1>2. Missed(old, u) \subseteq Missed(new, u)
  BY <1>1 DEF Missed, SameSolved, Of, Same, FirstAccepted
<1>3. /\ IsFiniteSet(Missed(old, u)) /\ IsFiniteSet(Missed(new, u))
      /\ Attempts(old, u, Wrong) = Cardinality(Missed(old, u))
      /\ Attempts(new, u, Wrong) = Cardinality(Missed(new, u))
  BY MissedFinite
<1>4. /\ Cardinality(Missed(old, u)) <= Cardinality(Missed(new, u))
      /\ Cardinality(Missed(old, u)) \in Nat /\ Cardinality(Missed(new, u)) \in Nat
  BY <1>2, <1>3, FS_Subset, FS_CardinalityType
<1>5. QED
  BY <1>1, <1>3, <1>4 DEF Counts

\* What accepting a submission changes.
LEMMA AcceptedAt ==
  ASSUME NEW table \in Seq(Submission), NEW i \in DOMAIN table, NEW j \in DOMAIN table
  PROVE  /\ After(table, i)[j].by = table[j].by /\ After(table, i)[j].problem = table[j].problem
         /\ After(table, i)[j].verdict = IF j = i THEN "AC" ELSE table[j].verdict
<1> DEFINE r == [table[i] EXCEPT !.verdict = "AC"]
<1>1. r.by = table[i].by /\ r.problem = table[i].problem /\ r.verdict = "AC"
  BY SubmissionAt DEF Submission
<1>2. After(table, i) = [table EXCEPT ![i] = r]
  BY DEF After
<1> HIDE DEF r
<1>3. QED
  BY <1>1, <1>2

\* Two tables that agree for u still do once the same submission is accepted in both.
LEMMA AcceptedInBoth ==
  ASSUME NEW old \in Seq(Submission), NEW new \in Seq(Submission), NEW u,
         SameSolved(old, new, u), NEW i \in DOMAIN old
  PROVE  /\ After(old, i) \in Seq(Submission) /\ After(new, i) \in Seq(Submission)
         /\ SameSolved(After(old, i), After(new, i), u)
<1> DEFINE a == After(old, i)
           b == After(new, i)
<1>1. i \in DOMAIN new
  BY DEF SameSolved
<1>2. /\ a \in Seq(Submission) /\ b \in Seq(Submission)
      /\ DOMAIN a = DOMAIN old /\ DOMAIN b = DOMAIN new
  BY <1>1, Judged, ContestAssumption DEF After
<1>3. \A j \in DOMAIN old : /\ a[j].by = old[j].by /\ a[j].problem = old[j].problem
                            /\ a[j].verdict = IF j = i THEN "AC" ELSE old[j].verdict
  BY AcceptedAt
<1>4. \A j \in DOMAIN new : /\ b[j].by = new[j].by /\ b[j].problem = new[j].problem
                            /\ b[j].verdict = IF j = i THEN "AC" ELSE new[j].verdict
  BY <1>1, AcceptedAt
<1>5. "AC" \notin Wrong
  BY DEF Wrong
<1> HIDE DEF a, b
<1>6. SameSolved(a, b, u)
  BY <1>1, <1>2, <1>3, <1>4, <1>5 DEF SameSolved, Of
<1>7. QED
  BY <1>2, <1>6 DEF a, b

LEMMA CalculatedStays ==
  ASSUME NEW t, subs \in Seq(Submission), subs' \in Seq(Submission), overlapped \subseteq overlapped',
         t.sub \in DOMAIN subs, t.row \in Rows, Calculated(t),
         subs'[t.sub].by = subs[t.sub].by,
         subs[t.sub].by \notin overlapped' => SameSolved(subs, subs', subs[t.sub].by)
  PROVE  Calculated(t)'
<1> SUFFICES ASSUME subs[t.sub].by \notin overlapped'
             PROVE  Counts(t.row, After(subs', t.sub), subs[t.sub].by)
  BY DEF Calculated
<1>1. PICK u, i, row : u = subs[t.sub].by /\ i = t.sub /\ row = t.row
  OBVIOUS
<1>2. Counts(row, After(subs, i), u) /\ row.wrong \in Int
  BY <1>1 DEF Calculated, Rows
<1>3. /\ After(subs, i) \in Seq(Submission) /\ After(subs', i) \in Seq(Submission)
      /\ SameSolved(After(subs, i), After(subs', i), u)
  BY <1>1, AcceptedInBoth
<1>4. Counts(row, After(subs', i), u)
  BY <1>2, <1>3, CountsStays
<1>5. QED
  BY <1>1, <1>4

\* The table changes in nothing that counts, the scores and the transactions stay.
LEMMA TableStays ==
  ASSUME Typed, Scored, subs' \in Seq(Submission), UNCHANGED <<score, tx, overlapped>>,
         \A u \in Contestants : SameSolved(subs, subs', u),
         \A c \in Consumers : tx[c] # NoTx => subs'[tx[c].sub].verdict = None
  PROVE  /\ ScoreCountsSolved' /\ OneEach'
         /\ \A c \in Consumers : tx'[c] # NoTx => Calculated(tx[c])'
<1>1. subs \in Seq(Submission) /\ score \in [Contestants -> Rows \cup {None}]
  BY DEF Typed, TypeOK
<1>2. ASSUME NEW u \in Contestants \ overlapped
      PROVE  IF score[u] = None THEN FirstAccepted(subs', u) = {} ELSE Counts(score[u], subs', u)
  <2>1. CASE score[u] = None
    BY <2>1, SameFirst DEF Scored, ScoreCountsSolved
  <2>2. CASE score[u] # None
    <3>1. Counts(score[u], subs, u) /\ score[u].wrong \in Int
      BY <1>1, <2>2 DEF Scored, ScoreCountsSolved, Counts, Rows
    <3>2. Counts(score[u], subs', u)
      BY <1>1, <3>1, CountsStays
    <3>3. QED
      BY <2>2, <3>2
  <2>3. QED
    BY <2>1, <2>2
<1>3. ScoreCountsSolved'
  BY <1>2 DEF ScoreCountsSolved, Counts
<1>4. ASSUME NEW c \in Consumers, tx[c] # NoTx PROVE Calculated(tx[c])'
  <2>1. PICK t : t = tx[c]
    OBVIOUS
  <2>2. /\ t.sub \in DOMAIN subs /\ t.row \in Rows /\ Calculated(t)
        /\ subs[t.sub].by \in Contestants
    BY <1>1, <1>4, <2>1, SubmissionAt DEF Typed, Scoring, Scored
  <2>3. subs'[t.sub].by = subs[t.sub].by
    BY <2>2 DEF SameSolved
  <2>4. Calculated(t)'
    BY <1>1, <2>2, <2>3, CalculatedStays
  <2>5. QED
    BY <2>1, <2>4 DEF Calculated
<1>5. OneEach'
  BY DEF Scored, OneEach
<1>6. QED
  BY <1>3, <1>4, <1>5

LEMMA SameTable == ASSUME NEW table, NEW u PROVE SameSolved(table, table, u)
BY DEF SameSolved, Of

\* A submission arrives, or is rejected.
LEMMA NoPoints ==
  ASSUME Typed, Scored,
         \/ \E u \in Contestants, p \in Problems : Submit(u, p)
         \/ \E i \in 1..MaxSubs, v \in Verdicts : Reject(i, v)
  PROVE  Scored'
<1>1. subs \in Seq(Submission)
  BY DEF Typed, TypeOK
<1>2. UNCHANGED <<score, tx, overlapped, run>>
  BY DEF Submit, Reject
<1>3. ASSUME NEW u \in Contestants, NEW p \in Problems, Submit(u, p) PROVE Scored'
  <2> DEFINE new == [by |-> u, problem |-> p, verdict |-> None]
  <2>1. subs' = Append(subs, new) /\ new \in Submission /\ new.verdict = None
    BY <1>3 DEF Submit, Submission
  <2> HIDE DEF new
  <2>2. /\ subs' \in Seq(Submission) /\ DOMAIN subs = 1..Len(subs)
        /\ DOMAIN subs' = DOMAIN subs \cup {Len(subs) + 1}
        /\ \A j \in DOMAIN subs : subs'[j] = subs[j]
        /\ subs'[Len(subs) + 1] = new
    BY <1>1, <2>1
  <2>3. \A x \in Contestants : SameSolved(subs, subs', x)
    BY <2>1, <2>2, ContestAssumption DEF SameSolved, Of
  <2>4. \A c \in Consumers : tx[c] # NoTx => subs'[tx[c].sub].verdict = None
    BY <2>2 DEF Scored, OneEach, Typed, Scoring
  <2>5. QED
    BY <1>2, <2>2, <2>3, <2>4, TableStays DEF Scored, NoRowYet
<1>4. ASSUME NEW i \in 1..MaxSubs, NEW v \in Verdicts, Reject(i, v) PROVE Scored'
  <2>1. i \in DOMAIN subs /\ Free(i) /\ v # "AC" /\ subs' = [subs EXCEPT ![i].verdict = v]
    BY <1>4 DEF Reject
  <2> DEFINE r == [subs[i] EXCEPT !.verdict = v]
  <2>2. r \in Submission /\ r.by = subs[i].by /\ r.problem = subs[i].problem /\ r.verdict = v
    BY <1>1, <2>1, SubmissionAt DEF Submission
  <2>3. subs' = [subs EXCEPT ![i] = r]
    BY <2>1
  <2> HIDE DEF r
  <2>4. /\ subs' \in Seq(Submission) /\ DOMAIN subs' = DOMAIN subs
        /\ \A j \in DOMAIN subs : subs'[j] = IF j = i THEN r ELSE subs[j]
    BY <1>1, <2>1, <2>2, <2>3
  <2>5. subs[i].verdict = None /\ None \notin Wrong /\ None # "AC"
    BY <2>1, ContestAssumption DEF Free
  <2>6. \A x \in Contestants : SameSolved(subs, subs', x)
    BY <2>1, <2>2, <2>4, <2>5 DEF SameSolved, Of
  <2>7. \A c \in Consumers : tx[c] # NoTx => subs'[tx[c].sub].verdict = None
    BY <2>1, <2>4 DEF Scored, OneEach, Typed, Scoring, Free
  <2>8. QED
    BY <1>2, <2>4, <2>6, <2>7, TableStays DEF Scored, NoRowYet
<1>5. QED
  BY <1>3, <1>4

\* A transaction begins, or is rolled back.
LEMMA TransactionsScore ==
  ASSUME Typed, Scored, NEW c \in Consumers,
         Rollback(c) \/ \E i \in 1..MaxSubs : Accept(c, i)
  PROVE  Scored'
<1>1. UNCHANGED <<subs, score, overlapped, run>>
  BY DEF Rollback, Accept
<1>2. ScoreCountsSolved' /\ NoRowYet'
  BY <1>1 DEF Scored, ScoreCountsSolved, NoRowYet
<1>3. ASSUME NEW t, tx' = [tx EXCEPT ![c] = t],
             t # NoTx => /\ subs[t.sub].verdict = None /\ Calculated(t)
                         /\ \A d \in Consumers : tx[d].sub # t.sub
      PROVE  Scored'
  <2>1. \A d \in Consumers : tx'[d] = IF d = c THEN t ELSE tx[d]
    BY <1>3 DEF Typed, TypeOK
  <2>2. OneEach'
    BY <1>1, <1>3, <2>1 DEF Scored, OneEach
  <2>3. \A d \in Consumers : tx'[d] # NoTx => Calculated(tx'[d])
    BY <1>3, <2>1 DEF Scored
  <2>4. \A d \in Consumers : tx'[d] # NoTx => Calculated(tx[d])'
    BY <1>1, <2>3 DEF Calculated
  <2>5. QED
    BY <1>2, <2>2, <2>4 DEF Scored
<1>4. CASE Rollback(c)
  BY <1>3, <1>4 DEF Rollback
<1>5. ASSUME NEW i \in 1..MaxSubs, Accept(c, i) PROVE Scored'
  <2> DEFINE t == [sub |-> i, row |-> Row(After(subs, i), subs[i].by)]
  <2>1. /\ tx' = [tx EXCEPT ![c] = t] /\ i \in DOMAIN subs
        /\ subs[i].verdict = None /\ \A d \in Consumers : tx[d].sub # i
    BY <1>5 DEF Accept, After, Free
  <2>2. t.row.wrong \in Int
    <3>1. subs[i].by \in Contestants /\ subs \in Seq(Submission) /\ Len(subs) <= MaxSubs
      BY <2>1, SubmissionAt DEF Typed, TypeOK
    <3>2. After(subs, i) \in Seq(Submission) /\ Len(After(subs, i)) <= MaxSubs
      BY <2>1, <3>1, Judged, ContestAssumption DEF After
    <3>3. QED
      BY <3>1, <3>2, RowTyped DEF Rows
  <2>3. Calculated(t)
    BY <2>2 DEF Calculated, Counts, Row
  <2>4. t.sub = i
    OBVIOUS
  <2> HIDE DEF t
  <2>5. QED
    BY <1>3, <2>1, <2>3, <2>4
<1>6. QED
  BY <1>4, <1>5

\* A commit: what was calculated is the score of the table it makes, and no one else's
\* score changes with it.
LEMMA WriteScores ==
  ASSUME Typed, Scored, NEW c \in Consumers, Write(c)
  PROVE  Scored'
<1>1. PICK t, i, u : t = tx[c] /\ i = t.sub /\ u = subs[i].by
  OBVIOUS
<1>2. /\ subs \in Seq(Submission) /\ score \in [Contestants -> Rows \cup {None}]
      /\ i \in DOMAIN subs /\ t.row \in Rows /\ u \in Contestants
      /\ t # NoTx /\ Calculated(t)
  BY <1>1, SubmissionAt DEF Write, Typed, TypeOK, Scoring, Scored
<1>3. PICK row \in Rows : /\ row.acs = t.row.acs /\ row.wrong = t.row.wrong
                         /\ score' = [score EXCEPT ![u] = row]
  <2> DEFINE row == IF score[u] = None THEN t.row ELSE [t.row EXCEPT !.delta = score[u].delta]
  <2>1. row \in Rows /\ row.acs = t.row.acs /\ row.wrong = t.row.wrong
    BY <1>2 DEF Rows
  <2>2. score' = [score EXCEPT ![u] = row]
    BY <1>1, <1>2 DEF Write
  <2> HIDE DEF row
  <2>3. QED
    BY <2>1, <2>2
<1>4. subs' = After(subs, i) /\ run' = run
  BY <1>1 DEF Write, After
<1>5. /\ subs' \in Seq(Submission) /\ DOMAIN subs' = DOMAIN subs
      /\ \A j \in DOMAIN subs : /\ subs'[j].by = subs[j].by /\ subs'[j].problem = subs[j].problem
                                /\ subs'[j].verdict = IF j = i THEN "AC" ELSE subs[j].verdict
  BY <1>2, <1>4, AcceptedAt, Judged, ContestAssumption DEF After
<1>6. \A x \in Contestants : x # u => SameSolved(subs, subs', x)
  BY <1>1, <1>5 DEF SameSolved, Of
<1>7. tx' = [tx EXCEPT ![c] = NoTx] /\ \A d \in Consumers : tx'[d] = IF d = c THEN NoTx ELSE tx[d]
  BY DEF Write, Typed, TypeOK
<1>8. /\ overlapped \subseteq overlapped'
      /\ \A d \in Consumers \ {c} : tx[d] # NoTx /\ subs[tx[d].sub].by = u => u \in overlapped'
  BY <1>1 DEF Write
<1>9. ScoreCountsSolved'
  <2>1. ASSUME NEW x \in Contestants \ overlapped'
        PROVE  IF score'[x] = None THEN FirstAccepted(subs', x) = {} ELSE Counts(score'[x], subs', x)
    <3>1. CASE x = u
      <4>1. Counts(t.row, subs', u)
        BY <1>1, <1>2, <1>4, <1>8, <2>1, <3>1 DEF Calculated
      <4>2. Counts(row, subs', u)
        BY <1>3, <4>1 DEF Counts
      <4>3. score'[x] = row /\ row # None
        BY <1>2, <1>3, <3>1, ContestAssumption
      <4>4. QED
        BY <3>1, <4>2, <4>3
    <3>2. CASE x # u
      <4>1. score'[x] = score[x] /\ SameSolved(subs, subs', x) /\ x \notin overlapped
        BY <1>2, <1>3, <1>6, <1>8, <2>1, <3>2
      <4>2. CASE score[x] = None
        BY <2>1, <4>1, <4>2, SameFirst DEF Scored, ScoreCountsSolved
      <4>3. CASE score[x] # None
        <5>1. Counts(score[x], subs, x) /\ score[x].wrong \in Int
          BY <1>2, <2>1, <4>1, <4>3 DEF Scored, ScoreCountsSolved, Counts, Rows
        <5>2. Counts(score[x], subs', x)
          BY <1>2, <1>5, <4>1, <5>1, CountsStays
        <5>3. QED
          BY <4>1, <4>3, <5>2
      <4>4. QED
        BY <4>2, <4>3
    <3>3. QED
      BY <3>1, <3>2
  <2>2. QED
    BY <2>1 DEF ScoreCountsSolved, Counts
<1>10. OneEach'
  <2>1. \A d \in Consumers \ {c} : tx[d] # NoTx => tx[d].sub # i /\ tx[d].sub \in DOMAIN subs
    BY <1>1, <1>2 DEF Scored, OneEach, Typed, Scoring
  <2>2. \A d \in Consumers \ {c} : tx[d] # NoTx => subs'[tx[d].sub].verdict = None
    BY <1>5, <2>1 DEF Scored, OneEach
  <2>3. QED
    BY <1>7, <2>2 DEF Scored, OneEach
<1>11. NoRowYet'
  <2>1. score[u] = None => \A b \in Beats : run[b].at # "collected"
    BY <1>1 DEF Write, Locked
  <2>2. \A x \in Contestants : x # u => score'[x] = score[x]
    BY <1>2, <1>3
  <2>3. QED
    BY <1>4, <2>1, <2>2 DEF Scored, NoRowYet
<1>12. ASSUME NEW d \in Consumers, tx'[d] # NoTx PROVE Calculated(tx[d])'
  <2>1. PICK k : k = tx[d]
    OBVIOUS
  <2>2. d # c /\ tx'[d] = k /\ k # NoTx
    BY <1>7, <1>12, <2>1
  <2>3. k.sub \in DOMAIN subs /\ k.row \in Rows /\ Calculated(k) /\ subs[k.sub].by \in Contestants
    BY <1>2, <2>1, <2>2, SubmissionAt DEF Typed, Scoring, Scored
  <2>4. subs[k.sub].by \notin overlapped' => SameSolved(subs, subs', subs[k.sub].by)
    BY <1>6, <1>8, <2>1, <2>2, <2>3
  <2>5. Calculated(k)'
    BY <1>2, <1>5, <1>8, <2>3, <2>4, CalculatedStays
  <2>6. QED
    BY <2>2, <2>5 DEF Calculated
<1>13. QED
  BY <1>9, <1>10, <1>11, <1>12 DEF Scored

\* The rating task writes a delta on the rows that are there, and an empty row for
\* who has none.
LEMMA RatingScores ==
  ASSUME IInv, Scored, NEW b \in Beats,
         Pick(b) \/ Lock(b) \/ Collect(b) \/ FailRun(b) \/ Apply(b)
  PROVE  Scored'
<1>1. /\ UNCHANGED <<subs, tx, overlapped>>
      /\ subs \in Seq(Submission) /\ score \in [Contestants -> Rows \cup {None}]
  BY DEF Pick, Lock, Collect, FailRun, Apply, IInv, Typed, TypeOK
<1>2. OneEach' /\ \A c \in Consumers : tx'[c] # NoTx => Calculated(tx[c])'
  BY <1>1 DEF Scored, OneEach, Calculated
<1>3. CASE Pick(b) \/ Lock(b) \/ Collect(b) \/ FailRun(b)
  <2>1. score' = score /\ ScoreCountsSolved'
    BY <1>1, <1>3 DEF Pick, Lock, Collect, FailRun, Scored, ScoreCountsSolved
  <2>2. \A d \in Beats : \/ run'[d] = run[d] \/ run'[d].at # "collected" \/ run'[d].rows = score
    BY <1>3 DEF Pick, Lock, Collect, FailRun, NoRun, IInv, Typed, TypeOK
  <2>3. NoRowYet'
    BY <2>1, <2>2 DEF Scored, NoRowYet
  <2>4. QED
    BY <1>2, <2>1, <2>3 DEF Scored
<1>4. CASE Apply(b)
  <2>1. NoRowYet'
    <3>1. \A d \in Beats \ {b} : run'[d] = run[d] /\ run[d].at # "collected"
      BY <1>4 DEF Apply, IInv, OneRuns, Holding, Typed, TypeOK
    <3>2. run'[b].at = "idle"
      BY <1>4 DEF Apply, NoRun, IInv, Typed, TypeOK
    <3>3. QED
      BY <3>1, <3>2 DEF NoRowYet
  <2>2. ASSUME NEW x \in Contestants \ overlapped
        PROVE  IF score'[x] = None THEN FirstAccepted(subs, x) = {} ELSE Counts(score'[x], subs, x)
    <3>1. IF score[x] = None THEN FirstAccepted(subs, x) = {} ELSE Counts(score[x], subs, x)
      BY <2>2 DEF Scored, ScoreCountsSolved, Counts
    <3>2. CASE x \notin Rated
      BY <1>4, <3>1, <3>2 DEF Apply
    <3>3. CASE x \in Rated /\ run[b].rows[x] = None
      <4>1. score'[x] = Unsolved /\ score[x] = None
        BY <1>4, <3>3 DEF Apply, RatedRow, Scored, NoRowYet
      <4>2. Attempts(subs, x, Wrong) \in Nat
        BY <1>1, MissedFinite, FS_CardinalityType
      <4>3. QED
        BY <3>1, <4>1, <4>2, ContestAssumption DEF Counts, Unsolved, Rows
    <3>4. CASE x \in Rated /\ run[b].rows[x] # None
      <4>1. score[x] \in Rows /\ score[x] # None
        BY <1>1, <3>4, ContestAssumption DEF IInv, Typed, RowsStay
      <4>2. score'[x] = [score[x] EXCEPT !.delta = TRUE]
        BY <1>4, <3>4 DEF Apply, RatedRow
      <4>3. /\ score'[x] \in Rows /\ score'[x].acs = score[x].acs
            /\ score'[x].wrong = score[x].wrong
        BY <4>1, <4>2 DEF Rows
      <4>4. QED
        BY <3>1, <4>1, <4>3, ContestAssumption DEF Counts
    <3>5. QED
      BY <3>2, <3>3, <3>4
  <2>3. ScoreCountsSolved'
    BY <1>1, <2>2 DEF ScoreCountsSolved, Counts
  <2>4. QED
    BY <1>2, <2>1, <2>3 DEF Scored
<1>5. QED
  BY <1>3, <1>4

LEMMA NextScores ==
  ASSUME IInv, Scored, [Next]_vars
  PROVE  Scored'
<1>1. CASE End \/ UNCHANGED vars
  <2>1. UNCHANGED <<subs, score, tx, run, overlapped>>
    BY <1>1 DEF End, vars
  <2>2. QED
    BY <2>1 DEF Scored, ScoreCountsSolved, OneEach, NoRowYet, Calculated
<1>2. QED
  BY <1>1, NoPoints, TransactionsScore, WriteScores, RatingScores DEF Next, IInv

LEMMA InitScored == Init => Scored
BY DEF Init, Scored, ScoreCountsSolved, OneEach, NoRowYet, NoRun, FirstAccepted, Of

-----------------------------------------------------------------------------
(* The theorems. *)

LEMMA Inductive == Spec => []IInv
<1>1. Init => IInv
  BY InitTyped DEF IInv, Init, OneRuns, RatedOnceAndTold, NoRun, Holding
<1>2. IInv /\ [Next]_vars => IInv'
  BY NextTyped, NextRates DEF IInv
<1>3. QED
  BY <1>1, <1>2, PTL DEF Spec

\* Every variable keeps its type: a score is always a row that calculate_score
\* or the rating task could have written.
THEOREM TypeCorrect == Spec => []TypeOK
<1>1. IInv => TypeOK
  BY DEF IInv, Typed
<1>2. QED
  BY <1>1, Inductive, PTL

\* A contest is rated once and as a whole, whatever runs of the rating task
\* overlap, fail midway or meet consumers that still write scores: the lock on
\* the contest's row and the flag read under it are enough.
THEOREM RatedOnce == Spec => []RatedOnceAndTold
<1>1. IInv => RatedOnceAndTold
  BY DEF IInv
<1>2. QED
  BY <1>1, Inductive, PTL

\* The committed score of a contestant whom no two consumers scored side by side counts
\* exactly the solved problems, by their first accepted submissions, and no more wrong
\* attempts than there were, whatever transactions are open, rolled back or applied again,
\* and although the rating task writes the same rows (calculate_score,
\* apply_contest_ratings): update_or_create keeps the delta, save(update_fields) keeps the
\* score, and a new row waits for the contest's lock.
THEOREM ScoresCount == Spec => []ScoreCountsSolved
<1>1. Init => Scored
  BY InitScored
<1>2. IInv /\ Scored /\ [Next]_vars => Scored'
  BY NextScores
<1>3. Scored => ScoreCountsSolved
  BY DEF Scored
<1>4. QED
  BY <1>1, <1>2, <1>3, Inductive, PTL DEF Spec
=============================================================================
