------------------------ MODULE JudgePipelineProofs ------------------------
(***************************************************************************)
(* Theorems about JudgePipeline: the promises of its two halves hold of    *)
(* the chain, and together they make the promise of SubmissionLifecycle.   *)
(* JudgeTh and BackendTh are the same halves with their theorems: the      *)
(* proofs turn a step of the chain into a step of each half, or into a     *)
(* change of judge:results that the half does not mind, and cite there.    *)
(***************************************************************************)
EXTENDS JudgePipeline, TLAPS

JudgeTh == INSTANCE JudgeWorkerProofs

BackendTh == INSTANCE ResultsConsumerProofs WITH
  faults <- consumerFaults, MaxFaults <- MaxConsumerFaults, MaxArrivals <- 0

\* The chain's assumptions are those of its halves.
LEMMA Assumptions ==
  /\ JudgeTh!SubmissionAssumption /\ JudgeTh!VerdictAssumption /\ JudgeTh!BoundAssumption
  /\ BackendTh!ConsumerAssumption /\ BackendTh!ConsumerBounds
BY ChainAssumption, ChainBounds
   DEF JudgeTh!SubmissionAssumption, JudgeTh!VerdictAssumption, JudgeTh!BoundAssumption,
       BackendTh!ConsumerAssumption, BackendTh!ConsumerBounds

---------------------------------------------------------------------------
(* Steps of the halves.                                                    *)

LEMMA SameRemovals ==
  /\ \A q, x : Judge!RemoveFirst(q, x) = JudgeTh!RemoveFirst(q, x)
  /\ \A q, x : Backend!RemoveFirst(q, x) = BackendTh!RemoveFirst(q, x)
BY DEF Judge!RemoveFirst, Judge!RemoveAt, Judge!SelectInSeq, Judge!Min,
       JudgeTh!RemoveFirst, JudgeTh!RemoveAt, JudgeTh!SelectInSeq, JudgeTh!Min,
       Backend!RemoveFirst, Backend!RemoveAt, Backend!SelectInSeq, Backend!Min,
       BackendTh!RemoveFirst, BackendTh!RemoveAt, BackendTh!SelectInSeq, BackendTh!Min

LEMMA WorkerMoves ==
  /\ \A w, p, s, v : Judge!Step(w, p, s, v) <=> JudgeTh!Step(w, p, s, v)
  /\ \A w, p, s, v : Judge!Reply(w, p, s, v) <=> JudgeTh!Reply(w, p, s, v)
  /\ \A w : Judge!BackOff(w) <=> JudgeTh!BackOff(w)
  /\ \A w : Judge!Up(w) <=> JudgeTh!Up(w)
  /\ Judge!Running = JudgeTh!Running /\ Judge!Calling = JudgeTh!Calling
  /\ Judge!loopVars = JudgeTh!loopVars /\ Judge!redisVars = JudgeTh!redisVars
  /\ Judge!histVars = JudgeTh!histVars /\ Judge!upkeepVars = JudgeTh!upkeepVars
BY Zenon DEF Judge!Step, JudgeTh!Step, Judge!Reply, JudgeTh!Reply, Judge!BackOff, JudgeTh!BackOff,
             Judge!Up, JudgeTh!Up, Judge!Running, JudgeTh!Running, Judge!Calling, JudgeTh!Calling,
             Judge!loopVars, JudgeTh!loopVars, Judge!redisVars, JudgeTh!redisVars,
             Judge!histVars, JudgeTh!histVars, Judge!upkeepVars, JudgeTh!upkeepVars

LEMMA FleetStep == Judge!FleetNext => JudgeTh!FleetNext
<1>1. ASSUME NEW w \in Worker, Judge!HandleOne(w) PROVE JudgeTh!HandleOne(w)
  <2>1. /\ Judge!Take(w) => JudgeTh!Take(w)
        /\ Judge!Refuse(w) => JudgeTh!Refuse(w)
        /\ Judge!DeadLetter(w) => JudgeTh!DeadLetter(w)
        /\ Judge!PushResult(w) => JudgeTh!PushResult(w)
        /\ Judge!ClearAttempts(w) => JudgeTh!ClearAttempts(w)
    BY WorkerMoves, Zenon
       DEF Judge!Take, JudgeTh!Take, Judge!Refuse, JudgeTh!Refuse,
           Judge!DeadLetter, JudgeTh!DeadLetter, Judge!PushResult, JudgeTh!PushResult,
           Judge!ClearAttempts, JudgeTh!ClearAttempts,
           Judge!histVars, JudgeTh!histVars, Judge!upkeepVars, JudgeTh!upkeepVars
  <2>2. Judge!CountAttempt(w) => JudgeTh!CountAttempt(w)
    BY WorkerMoves, Zenon
       DEF Judge!CountAttempt, JudgeTh!CountAttempt, Judge!upkeepVars, JudgeTh!upkeepVars
  <2>3. /\ Judge!OpenBox(w) => JudgeTh!OpenBox(w)
        /\ Judge!Judge(w) => JudgeTh!Judge(w)
    BY WorkerMoves, Zenon
       DEF Judge!OpenBox, JudgeTh!OpenBox, Judge!Judge, JudgeTh!Judge,
           Judge!redisVars, JudgeTh!redisVars, Judge!histVars, JudgeTh!histVars
  <2>4. Judge!Drop(w) => JudgeTh!Drop(w)
    BY WorkerMoves, SameRemovals, Zenon
       DEF Judge!Drop, JudgeTh!Drop, Judge!histVars, JudgeTh!histVars,
           Judge!upkeepVars, JudgeTh!upkeepVars
  <2>5. QED
    BY <1>1, <2>1, <2>2, <2>3, <2>4 DEF Judge!HandleOne, JudgeTh!HandleOne
<1>2. ASSUME NEW w \in Worker, Judge!Maintain(w) PROVE JudgeTh!Maintain(w)
  <2>1. /\ Judge!Announce(w) => JudgeTh!Announce(w)
        /\ \A o : Judge!FindSilent(w, o) => JudgeTh!FindSilent(w, o)
    BY WorkerMoves, Zenon
       DEF Judge!Announce, JudgeTh!Announce, Judge!FindSilent, JudgeTh!FindSilent,
           Judge!loopVars, JudgeTh!loopVars, Judge!redisVars, JudgeTh!redisVars,
           Judge!histVars, JudgeTh!histVars, Judge!upkeepVars, JudgeTh!upkeepVars
  <2>2. /\ Judge!Drain(w) => JudgeTh!Drain(w)
        /\ Judge!RemoveBox(w) => JudgeTh!RemoveBox(w)
        /\ Judge!RemovalRefused(w) => JudgeTh!RemovalRefused(w)
    BY WorkerMoves, Zenon
       DEF Judge!Drain, JudgeTh!Drain, Judge!RemoveBox, JudgeTh!RemoveBox,
           Judge!RemovalRefused, JudgeTh!RemovalRefused,
           Judge!loopVars, JudgeTh!loopVars, Judge!redisVars, JudgeTh!redisVars,
           Judge!histVars, JudgeTh!histVars
  <2>3. QED
    BY <1>2, <2>1, <2>2 DEF Judge!Maintain, JudgeTh!Maintain
<1>3. ASSUME NEW w \in Worker
      PROVE  /\ Judge!Start(w) => JudgeTh!Start(w)
             /\ Judge!Leave(w) => JudgeTh!Leave(w)
             /\ Judge!Expire(w) => JudgeTh!Expire(w)
             /\ Judge!Fault(w) => JudgeTh!Fault(w)
  <2>1. /\ Judge!Start(w) => JudgeTh!Start(w)
        /\ Judge!Expire(w) => JudgeTh!Expire(w)
    BY WorkerMoves, Zenon
       DEF Judge!Start, JudgeTh!Start, Judge!Expire, JudgeTh!Expire,
           Judge!loopVars, JudgeTh!loopVars, Judge!histVars, JudgeTh!histVars,
           Judge!upkeepVars, JudgeTh!upkeepVars
  <2>2. Judge!Leave(w) => JudgeTh!Leave(w)
    BY WorkerMoves, Zenon
       DEF Judge!Leave, JudgeTh!Leave, Judge!Crash, JudgeTh!Crash, Judge!Stop, JudgeTh!Stop,
           Judge!redisVars, JudgeTh!redisVars, Judge!histVars, JudgeTh!histVars
  <2>3. Judge!Fault(w) => JudgeTh!Fault(w)
    BY WorkerMoves, Zenon
       DEF Judge!Fault, JudgeTh!Fault, Judge!CallFails, JudgeTh!CallFails,
           Judge!PassFails, JudgeTh!PassFails, Judge!redisVars, JudgeTh!redisVars,
           Judge!histVars, JudgeTh!histVars, Judge!upkeepVars, JudgeTh!upkeepVars
  <2>4. QED
    BY <2>1, <2>2, <2>3
<1>4. ASSUME NEW s \in Submission, Judge!AttemptsExpire(s) PROVE JudgeTh!AttemptsExpire(s)
  BY <1>4 DEF Judge!AttemptsExpire, JudgeTh!AttemptsExpire, Judge!loopVars, JudgeTh!loopVars,
              Judge!histVars, JudgeTh!histVars
<1>5. QED
  BY <1>1, <1>2, <1>3, <1>4 DEF Judge!FleetNext, JudgeTh!FleetNext

LEMMA SubmitStep == ASSUME NEW s, Judge!Submit(s) PROVE JudgeTh!Submit(s)
BY DEF Judge!Submit, JudgeTh!Submit, Judge!loopVars, JudgeTh!loopVars,
       Judge!upkeepVars, JudgeTh!upkeepVars

LEMMA ConsumerMoves ==
  /\ \A c, p, m : Backend!Step(c, p, m) <=> BackendTh!Step(c, p, m)
  /\ \A c, p, m : Backend!Reply(c, p, m) <=> BackendTh!Reply(c, p, m)
  /\ \A c : Backend!BackOff(c) <=> BackendTh!BackOff(c)
  /\ Backend!listVars = BackendTh!listVars
BY Zenon DEF Backend!Step, BackendTh!Step, Backend!Reply, BackendTh!Reply,
             Backend!BackOff, BackendTh!BackOff, Backend!listVars, BackendTh!listVars

LEMMA ConsumerStep == Backend!ConsumerNext => BackendTh!ConsumerNext
<1>1. ASSUME NEW c \in Consumer, Backend!Consume(c) PROVE BackendTh!Consume(c)
  <2>1. Backend!RecoverOrphans(c) => BackendTh!RecoverOrphans(c)
    BY Zenon DEF Backend!RecoverOrphans, BackendTh!RecoverOrphans, Backend!Step, BackendTh!Step
  <2>2. Backend!Take(c) => BackendTh!Take(c)
    BY ConsumerMoves, Zenon DEF Backend!Take, BackendTh!Take
  <2>3. Backend!Refuse(c) => BackendTh!Refuse(c)
    BY ConsumerMoves, Zenon DEF Backend!Refuse, BackendTh!Refuse
  <2>4. Backend!Apply(c) => BackendTh!Apply(c)
    BY Zenon DEF Backend!Apply, BackendTh!Apply, Backend!Step, BackendTh!Step,
                 Backend!listVars, BackendTh!listVars
  <2>5. Backend!Broadcast(c) => BackendTh!Broadcast(c)
    BY Zenon DEF Backend!Broadcast, BackendTh!Broadcast, Backend!Step, BackendTh!Step,
                 Backend!listVars, BackendTh!listVars
  <2>6. Backend!CountFailure(c) => BackendTh!CountFailure(c)
    BY ConsumerMoves, Zenon DEF Backend!CountFailure, BackendTh!CountFailure,
                                Backend!listVars, BackendTh!listVars
  <2>7. Backend!Requeue(c) => BackendTh!Requeue(c)
    BY ConsumerMoves, Zenon DEF Backend!Requeue, BackendTh!Requeue
  <2>8. Backend!GiveUp(c) => BackendTh!GiveUp(c)
    BY ConsumerMoves, Zenon DEF Backend!GiveUp, BackendTh!GiveUp
  <2>9. Backend!Drop(c) => BackendTh!Drop(c)
    BY ConsumerMoves, SameRemovals, SMT DEF Backend!Drop, BackendTh!Drop
  <2>10. Backend!ClearTries(c) => BackendTh!ClearTries(c)
    BY ConsumerMoves, Zenon DEF Backend!ClearTries, BackendTh!ClearTries,
                                Backend!listVars, BackendTh!listVars
  <2>11. QED
    BY <1>1, <2>1, <2>2, <2>3, <2>4, <2>5, <2>6, <2>7, <2>8, <2>9, <2>10
       DEF Backend!Consume, BackendTh!Consume
<1>2. ASSUME NEW c \in Consumer
      PROVE  /\ Backend!ApplyFails(c) => BackendTh!ApplyFails(c)
             /\ Backend!CallFails(c) => BackendTh!CallFails(c)
             /\ Backend!Start(c) => BackendTh!Start(c)
             /\ Backend!Exit(c) => BackendTh!Exit(c)
  BY Zenon DEF Backend!ApplyFails, BackendTh!ApplyFails, Backend!CallFails, BackendTh!CallFails,
               Backend!Start, BackendTh!Start, Backend!Exit, BackendTh!Exit,
               Backend!Step, BackendTh!Step, Backend!BackOff, BackendTh!BackOff,
               Backend!listVars, BackendTh!listVars, Backend!Calling, BackendTh!Calling
<1>3. ASSUME NEW s \in Submission, Backend!TriesExpire(s) PROVE BackendTh!TriesExpire(s)
  BY <1>3 DEF Backend!TriesExpire, BackendTh!TriesExpire, Backend!listVars, BackendTh!listVars
<1>4. QED
  BY <1>1, <1>2, <1>3 DEF Backend!ConsumerNext, BackendTh!ConsumerNext

LEMMA RowStep ==
  ASSUME NEW s
  PROVE  /\ Backend!Create(s) => BackendTh!Create(s)
         /\ Backend!Delete(s) => BackendTh!Delete(s)
BY DEF Backend!Create, BackendTh!Create, Backend!Delete, BackendTh!Delete,
       Backend!listVars, BackendTh!listVars

LEMMA SameWorks ==
  /\ \A s : Judge!Waiting(s) <=> JudgeTh!Waiting(s)
  /\ \A s : Judge!Refused(s) <=> JudgeTh!Refused(s)
  /\ \A s : Backend!Queued(s) <=> BackendTh!Queued(s)
  /\ \A s : Backend!Settled(s) <=> BackendTh!Settled(s)
BY DEF Judge!Waiting, JudgeTh!Waiting, Judge!Refused, JudgeTh!Refused,
       Backend!Queued, BackendTh!Queued, Backend!Settled, BackendTh!Settled,
       Judge!Range, JudgeTh!Range, Backend!Range, BackendTh!Range

---------------------------------------------------------------------------
(* The invariant: those of the halves, and what ties them together.  The   *)
(* web process pushes only what it has stored, so the judge never answers  *)
(* for a row that was not there.                                           *)

StoredFirst ==
  /\ web \in [Submission -> {"none", "created", "queued", "queue_error"}]
  /\ \A s \in Submission : web[s] # "none" => row[s] # "none"
  /\ \A s \in submitted : row[s] # "none"

Chain ==
  /\ JudgeTh!Kept /\ JudgeTh!OnlySubmitted
  /\ BackendTh!AllKept /\ BackendTh!Once
  /\ StoredFirst

LEMMA InitChain == Init => Chain
<1> SUFFICES ASSUME Init PROVE Chain
  OBVIOUS
<1>1. JudgeTh!Init /\ BackendTh!Init
  BY DEF Init, Judge!Init, JudgeTh!Init, Backend!Init, BackendTh!Init
<1>2. JudgeTh!Kept
  BY <1>1, Assumptions, JudgeTh!InitKept
<1>3. BackendTh!AllKept /\ BackendTh!Once
  BY <1>1, Assumptions, BackendTh!InitKept, BackendTh!InitOnce
<1>4. JudgeTh!OnlySubmitted
  BY <1>1 DEF JudgeTh!Init, JudgeTh!OnlySubmitted, JudgeTh!Range
<1>5. StoredFirst
  BY <1>1 DEF Init, JudgeTh!Init, StoredFirst
<1>6. QED
  BY <1>2, <1>3, <1>4, <1>5 DEF Chain

\* A step of the fleet is one of both halves: the consumer sees a result arrive or
\* nothing at all.
LEMMA FleetKeeps == ASSUME Chain, Fleet PROVE Chain'
<1>1. JudgeTh!FleetNext /\ UNCHANGED <<backendOnly, webOnly>>
  BY FleetStep DEF Fleet
<1>2. JudgeTh!Kept' /\ JudgeTh!OnlySubmitted'
  BY <1>1, Assumptions, JudgeTh!NextKept, JudgeTh!NextOnlySubmitted
     DEF Chain, JudgeTh!Kept, JudgeTh!Next
<1>3. ASSUME NEW w \in Worker, JudgeTh!PushResult(w)
      PROVE  BackendTh!AllKept' /\ BackendTh!Once'
  <2> DEFINE m == [sub |-> hand[w], verdict |-> answer[w]]
  <2>1. /\ results' = Append(results, m) /\ emitted' = emitted \cup {m}
    BY <1>3 DEF JudgeTh!PushResult
  <2>2. m \in BackendTh!Message /\ hand[w] \in submitted
    BY <1>3, Assumptions
       DEF Chain, JudgeTh!PushResult, JudgeTh!Kept, JudgeTh!Typed, JudgeTh!LoopTyped,
           JudgeTh!OnlySubmitted, JudgeTh!Calling, JudgeTh!SubmissionAssumption,
           BackendTh!Message
  <2>3. row[m.sub] # "none"
    BY <2>2 DEF Chain, StoredFirst
  <2>4. UNCHANGED <<inflight, buried, tries, row, at, msg, told, failures, consumerFaults, exits>>
    BY <1>1 DEF backendOnly
  <2>5. BackendTh!Once'
    BY <2>1, <2>2, <2>4, Assumptions, BackendTh!ArrivalOnce DEF Chain
  <2>6. BackendTh!Typed'
    BY <2>5 DEF BackendTh!Once
  <2>7. BackendTh!AllKept'
    BY <2>1, <2>2, <2>3, <2>4, <2>6, Assumptions, BackendTh!ArrivalKept DEF Chain
  <2>8. QED
    BY <2>5, <2>7
<1>4. ASSUME UNCHANGED <<results, emitted>>
      PROVE  BackendTh!AllKept' /\ BackendTh!Once'
  <2>1. UNCHANGED BackendTh!vars
    BY <1>1, <1>4 DEF backendOnly, BackendTh!vars, BackendTh!listVars
  <2>2. QED
    BY <2>1, Assumptions, BackendTh!IdleKept DEF Chain
<1>5. UNCHANGED <<results, emitted>> \/ \E w \in Worker : JudgeTh!PushResult(w)
  BY <1>1, Assumptions, JudgeTh!OnePush
<1>6. StoredFirst'
  <2>1. submitted' = submitted
    BY <1>1, Assumptions, JudgeTh!OnePush
  <2>2. QED
    BY <1>1, <2>1 DEF Chain, StoredFirst, backendOnly, webOnly
<1>7. QED
  BY <1>2, <1>3, <1>4, <1>5, <1>6 DEF Chain

\* A step of a consumer is one of the backend; the fleet sees results moved.
LEMMA ConsumeKeeps == ASSUME Chain, Consume PROVE Chain'
<1>1. BackendTh!ConsumerNext /\ UNCHANGED <<judgeOnly, webOnly>>
  BY ConsumerStep DEF Consume
<1>2. BackendTh!Once' /\ BackendTh!Typed'
  BY <1>1, Assumptions, BackendTh!NextOnce DEF Chain, BackendTh!Next, BackendTh!Once
<1>3. BackendTh!AllKept'
  BY <1>1, <1>2, Assumptions, BackendTh!ConsumerNextKept DEF Chain, BackendTh!Next
<1>4. emitted' = emitted
  BY <1>1, Assumptions, BackendTh!ConsumerPushesNothing
<1>5. results' \in Seq(JudgeTh!Message)
  BY <1>2 DEF BackendTh!Typed, BackendTh!TypeOK, BackendTh!Message, JudgeTh!Message
<1>6. JudgeTh!Kept' /\ JudgeTh!OnlySubmitted'
  BY <1>1, <1>4, <1>5, Assumptions, JudgeTh!ResultsMoved DEF Chain, judgeOnly
<1>7. StoredFirst'
  <2>1. ASSUME NEW s \in Submission, row[s] # "none" PROVE row'[s] # "none"
    BY <1>1, <2>1, Assumptions, BackendTh!RowStays
       DEF Chain, BackendTh!Once, BackendTh!Next
  <2>2. submitted \subseteq Submission
    BY DEF Chain, JudgeTh!Kept, JudgeTh!Typed, JudgeTh!TypeOK
  <2>3. QED
    BY <1>1, <2>1, <2>2 DEF Chain, StoredFirst, judgeOnly, webOnly
<1>8. QED
  BY <1>2, <1>3, <1>6, <1>7 DEF Chain

\* The web process, and the row's owner.
LEMMA WebKeeps ==
  ASSUME Chain, NEW s \in Submission, Create(s) \/ Push(s) \/ PushFails(s) \/ Delete(s)
  PROVE  Chain'
<1>1. row \in [Submission -> {"none", "pending", "deleted"} \cup Verdict]
  BY DEF Chain, BackendTh!Once, BackendTh!Typed, BackendTh!TypeOK
<1>2. submitted \subseteq Submission
  BY DEF Chain, JudgeTh!Kept, JudgeTh!Typed, JudgeTh!TypeOK
<1>3. ASSUME Create(s) \/ Delete(s) PROVE Chain'
  <2>1. (BackendTh!Create(s) \/ BackendTh!Delete(s)) /\ UNCHANGED <<judgeOnly, results, emitted>>
    BY <1>3, RowStep
       DEF Create, Delete, BackendTh!Create, BackendTh!Delete, BackendTh!listVars
  <2>2. BackendTh!Once' /\ BackendTh!Typed'
    BY <2>1, Assumptions, BackendTh!NextOnce DEF Chain, BackendTh!Next, BackendTh!Once
  <2>3. BackendTh!AllKept'
    BY <2>1, <2>2, Assumptions, BackendTh!OthersKept DEF Chain, BackendTh!Next
  <2>4. JudgeTh!Kept' /\ JudgeTh!OnlySubmitted'
    BY <2>1, Assumptions, JudgeTh!NextKept, JudgeTh!NextOnlySubmitted
       DEF Chain, JudgeTh!Kept, judgeOnly, JudgeTh!vars, JudgeTh!redisVars, JudgeTh!loopVars,
           JudgeTh!upkeepVars, JudgeTh!histVars
  <2>5. StoredFirst'
    <3>1. /\ web' = web \/ web' = [web EXCEPT ![s] = "created"]
          /\ row' = [row EXCEPT ![s] = "pending"] \/ row' = [row EXCEPT ![s] = "deleted"]
          /\ web' # web => row'[s] # "none"
          /\ submitted' = submitted
      BY <1>1, <1>3, <2>1
         DEF Create, Delete, BackendTh!Create, BackendTh!Delete, judgeOnly, webOnly,
             Backend!Create, Backend!Delete
    <3>2. ASSUME NEW r \in Submission, row[r] # "none" PROVE row'[r] # "none"
      BY <1>1, <3>1, <3>2
    <3>3. row'[s] # "none"
      BY <1>1, <3>1
    <3>4. QED
      BY <1>2, <3>1, <3>2, <3>3 DEF Chain, StoredFirst
  <2>6. QED
    BY <2>2, <2>3, <2>4, <2>5 DEF Chain
<1>4. ASSUME Push(s) \/ PushFails(s) PROVE Chain'
  <2>1. /\ JudgeTh!Submit(s) \/ UNCHANGED JudgeTh!vars
        /\ UNCHANGED <<backendOnly, results, emitted>>
    BY <1>4, SubmitStep
       DEF Push, PushFails, judgeOnly, JudgeTh!Submit, JudgeTh!vars, JudgeTh!redisVars,
           JudgeTh!loopVars, JudgeTh!upkeepVars, JudgeTh!histVars
  <2>2. BackendTh!AllKept' /\ BackendTh!Once'
    BY <2>1, Assumptions, BackendTh!IdleKept
       DEF Chain, backendOnly, BackendTh!vars, BackendTh!listVars
  <2>3. JudgeTh!Kept' /\ JudgeTh!OnlySubmitted'
    BY <2>1, Assumptions, JudgeTh!NextKept, JudgeTh!NextOnlySubmitted
       DEF Chain, JudgeTh!Kept, JudgeTh!Next
  <2>4. StoredFirst'
    <3>1. submitted' \subseteq submitted \cup {s} /\ row' = row /\ row[s] # "none"
      BY <1>4, <2>1
         DEF Chain, StoredFirst, Push, PushFails, JudgeTh!Submit, backendOnly,
             JudgeTh!vars, JudgeTh!histVars
    <3>2. \E p \in {"created", "queued", "queue_error"} : web' = [web EXCEPT ![s] = p]
      BY <1>4 DEF Push, PushFails
    <3>3. QED
      BY <3>1, <3>2 DEF Chain, StoredFirst
  <2>5. QED
    BY <2>2, <2>3, <2>4 DEF Chain
<1>5. QED
  BY <1>3, <1>4

LEMMA NextChain == Chain /\ [Next]_vars => Chain'
<1> SUFFICES ASSUME Chain, [Next]_vars PROVE Chain'
  OBVIOUS
<1>1. CASE Next
  BY <1>1, FleetKeeps, ConsumeKeeps, WebKeeps DEF Next
<1>2. CASE UNCHANGED vars
  <2>1. UNCHANGED JudgeTh!vars /\ UNCHANGED BackendTh!vars /\ UNCHANGED <<web, row, submitted>>
    BY <1>2 DEF vars, judgeOnly, backendOnly, webOnly, JudgeTh!vars, JudgeTh!redisVars,
                JudgeTh!loopVars, JudgeTh!upkeepVars, JudgeTh!histVars, BackendTh!vars,
                BackendTh!listVars
  <2>2. JudgeTh!Kept' /\ JudgeTh!OnlySubmitted'
    BY <2>1, Assumptions, JudgeTh!NextKept, JudgeTh!NextOnlySubmitted DEF Chain, JudgeTh!Kept
  <2>3. BackendTh!AllKept' /\ BackendTh!Once'
    BY <2>1, Assumptions, BackendTh!IdleKept DEF Chain
  <2>4. QED
    BY <2>1, <2>2, <2>3 DEF Chain, StoredFirst
<1>3. QED
  BY <1>1, <1>2

---------------------------------------------------------------------------
(* Nothing is lost between the halves: what the judge has answered is what *)
(* the consumer keeps.                                                     *)

\* From the push to the verdict a submission is always in somebody's hands: on the
\* queue or a worker's list, refused, a result on its way or with the dead, or settled
\* (worker.py:28-62, consume_judge_results.py:77-125).
THEOREM ChainLosesNothing == Spec => []NothingLost
<1>1. Chain => NothingLost
  <2> SUFFICES ASSUME Chain, NEW s \in submitted
               PROVE  \/ Judge!Waiting(s) \/ Judge!Refused(s)
                      \/ Backend!Queued(s) \/ Backend!Settled(s)
    BY DEF NothingLost
  <2>1. JudgeTh!Waiting(s) \/ JudgeTh!Answered(s) \/ JudgeTh!Refused(s)
    BY DEF Chain, JudgeTh!Kept, JudgeTh!NoSubmissionLost
  <2>2. ASSUME JudgeTh!Answered(s)
        PROVE  BackendTh!Settled(s) \/ BackendTh!Queued(s)
    <3>1. PICK m \in emitted : m.sub = s
      BY <2>2 DEF JudgeTh!Answered
    <3>2. BackendTh!NoResultLost
      BY Assumptions, BackendTh!AllKeptSuffices DEF Chain
    <3>3. QED
      BY <3>1, <3>2 DEF BackendTh!NoResultLost
  <2>3. QED
    BY <2>1, <2>2, SameWorks
<1>2. QED
  BY <1>1, InitChain, NextChain, PTL DEF Spec

---------------------------------------------------------------------------
(* The chain implements SubmissionLifecycle: each of its steps is a step   *)
(* of the promise or changes nothing the author can see.                   *)

LEMMA WebImplements ==
  ASSUME Chain, NEW s \in Submission, Create(s) \/ Push(s) \/ PushFails(s) \/ Delete(s)
  PROVE  [Lifecycle!Next]_(Lifecycle!vars)
<1>1. CASE Create(s)
  <2>1. Lifecycle!Create(s)
    BY <1>1 DEF Create, Backend!Create, judgeOnly, Lifecycle!Create
  <2>2. QED
    BY <2>1 DEF Lifecycle!Next
<1>2. CASE Push(s)
  <2>1. row[s] # "none"
    BY <1>2 DEF Push, Chain, StoredFirst
  <2>2. s \notin submitted /\ submitted' = submitted \cup {s} /\ UNCHANGED <<row, told>>
    BY <1>2 DEF Push, Judge!Submit, backendOnly
  <2>3. Lifecycle!Ask(s)
    BY <2>1, <2>2 DEF Lifecycle!Ask
  <2>4. QED
    BY <2>3 DEF Lifecycle!Next
<1>3. CASE PushFails(s)
  BY <1>3 DEF PushFails, judgeOnly, backendOnly, Lifecycle!vars
<1>4. CASE Delete(s)
  <2>1. row[s] \in Verdict \cup {"pending"}
    BY <1>4 DEF Delete, Backend!Delete, Chain, BackendTh!Once, BackendTh!Typed, BackendTh!TypeOK
  <2>2. Lifecycle!Delete(s)
    BY <1>4, <2>1 DEF Delete, Backend!Delete, judgeOnly, Lifecycle!Delete
  <2>3. QED
    BY <2>2 DEF Lifecycle!Next
<1>5. QED
  BY <1>1, <1>2, <1>3, <1>4

\* The judge was asked about whatever a consumer has in hand.
LEMMA InHandWasAsked ==
  ASSUME Chain, NEW c \in Consumer, at[c] \in {"picked", "committed"}
  PROVE  msg[c].sub \in submitted /\ msg[c].sub \in Submission /\ msg[c].verdict \in Verdict
<1>1. msg[c] \in emitted
  BY DEF Chain, BackendTh!AllKept, BackendTh!OnlyEmitted, BackendTh!Busy
<1>2. msg[c].sub \in submitted
  BY <1>1 DEF Chain, JudgeTh!OnlySubmitted
<1>3. QED
  BY <1>2, Assumptions, BackendTh!ApplyHasMessage DEF Chain, BackendTh!Once

LEMMA ConsumeImplements ==
  ASSUME Chain, Consume
  PROVE  [Lifecycle!Next]_(Lifecycle!vars)
<1>1. submitted' = submitted /\ BackendTh!ConsumerNext
  BY ConsumerStep DEF Consume, judgeOnly
<1>2. CASE UNCHANGED <<row, told>>
  BY <1>1, <1>2 DEF Lifecycle!vars
<1>3. ASSUME NEW c \in Consumer, at[c] = "picked", row[msg[c].sub] = "pending",
             row' = [row EXCEPT ![msg[c].sub] = msg[c].verdict], UNCHANGED told
      PROVE  Lifecycle!Next
  <2>1. PICK s, v : s = msg[c].sub /\ v = msg[c].verdict
    OBVIOUS
  <2>2. s \in submitted /\ s \in Submission /\ v \in Verdict
    BY <1>3, <2>1, InHandWasAsked
  <2>3. Lifecycle!Decide(s)
    BY <1>1, <1>3, <2>1, <2>2 DEF Lifecycle!Decide
  <2>4. QED
    BY <2>2, <2>3 DEF Lifecycle!Next
<1>4. ASSUME NEW c \in Consumer, at[c] = "committed",
             told' = [told EXCEPT ![msg[c].sub] = @ + 1], UNCHANGED row
      PROVE  Lifecycle!Next
  <2>1. PICK s : s = msg[c].sub
    OBVIOUS
  <2>2. s \in submitted /\ s \in Submission
    BY <1>4, <2>1, InHandWasAsked
  <2>3. told[s] = 0 /\ row[s] \in Verdict \cup {"deleted"} /\ told \in [Submission -> Nat]
    BY <1>4, <2>1, <2>2
       DEF Chain, BackendTh!Once, BackendTh!AtMostOnce, BackendTh!Telling, BackendTh!Settled,
           BackendTh!Typed, BackendTh!TypeOK
  <2>4. told' = [told EXCEPT ![s] = 1]
    BY <1>4, <2>1, <2>2, <2>3
  <2>5. Lifecycle!Tell(s)
    BY <1>1, <1>4, <2>2, <2>3, <2>4 DEF Lifecycle!Tell
  <2>6. QED
    BY <2>2, <2>5 DEF Lifecycle!Next
<1>5. QED
  BY <1>1, <1>2, <1>3, <1>4, Assumptions, BackendTh!ConsumerEffects

\* Whatever crashes, is repeated or fails on the way, the author sees a submission
\* stored, judged because the judge was asked, decided at most once and told of it at
\* most once (submissions/signals.py:64-73, consume_judge_results.py:57-63).
THEOREM ChainKeepsItsPromise == Spec => ImplementsLifecycle
<1>1. Init => Lifecycle!Init
  BY DEF Init, Judge!Init, Backend!Init, Lifecycle!Init
<1>2. Chain /\ [Next]_vars => [Lifecycle!Next]_(Lifecycle!vars)
  <2> SUFFICES ASSUME Chain, [Next]_vars PROVE [Lifecycle!Next]_(Lifecycle!vars)
    OBVIOUS
  <2>1. CASE Fleet
    <3>1. submitted' = submitted
      BY <2>1, FleetStep, Assumptions, JudgeTh!OnePush DEF Fleet
    <3>2. QED
      BY <2>1, <3>1 DEF Fleet, backendOnly, Lifecycle!vars
  <2>2. CASE UNCHANGED vars
    BY <2>2 DEF vars, judgeOnly, backendOnly, Lifecycle!vars
  <2>3. QED
    BY <2>1, <2>2, WebImplements, ConsumeImplements DEF Next
<1>3. QED
  BY <1>1, <1>2, InitChain, NextChain, PTL DEF Spec, ImplementsLifecycle, Lifecycle!Spec
=============================================================================
