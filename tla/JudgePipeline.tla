--------------------------- MODULE JudgePipeline ---------------------------
(***************************************************************************)
(* The whole chain a submission travels: the web process stores it and     *)
(* pushes it onto judge:queue, the judge fleet (JudgeWorker) answers onto  *)
(* judge:results, the results consumer (ResultsConsumer) writes the        *)
(* verdict and broadcasts it.  The two components share judge:results; the *)
(* history variable emitted goes with it.  The chain as a whole implements *)
(* SubmissionLifecycle.                                                    *)
(***************************************************************************)
EXTENDS Naturals, FiniteSets, SequencesExt

CONSTANTS
  Submission, Unreadable, Worker, Consumer, Verdict, InternalError, Unknown, None,
  MaxAttempts, MaxTries,
  MaxFaults, MaxStalls, MaxLapses, MaxRuns,       \* bounds of JudgeWorker
  MaxFailures, MaxConsumerFaults, MaxExits,       \* bounds of ResultsConsumer
  MaxPushFaults  \* bound: pushes to judge:queue that raise, or web processes that die

\* The assumptions of the components.
ASSUME ChainAssumption ==
  /\ Unreadable \subseteq Submission /\ None \notin Submission /\ None \notin Worker
  /\ InternalError \in Verdict /\ Unknown \subseteq Verdict /\ None \notin Verdict
  /\ {"none", "pending", "deleted"} \cap Verdict = {}
  /\ None \notin [sub : Submission, verdict : Verdict]
ASSUME ChainBounds ==
  /\ MaxAttempts \in Nat /\ MaxTries \in Nat
  /\ MaxFaults \in Nat /\ MaxStalls \in Nat /\ MaxLapses \in Nat /\ MaxRuns \in Nat
  /\ MaxFailures \in Nat /\ MaxConsumerFaults \in Nat /\ MaxExits \in Nat
  /\ MaxPushFaults \in Nat

VARIABLES
  queue, processing, results, dead, attempts, heartbeat, boxes, pc, hand, answer,
  sweep, faults, stalls, lapses, submitted, emitted, runs,
  inflight, buried, tries, row, at, msg, told, failures, consumerFaults, exits,
  web,         \* where the request that creates each submission stands
  pushFaults

Judge == INSTANCE JudgeWorker

Backend == INSTANCE ResultsConsumer WITH
  faults <- consumerFaults, MaxFaults <- MaxConsumerFaults, MaxArrivals <- 0

judgeOnly == <<queue, processing, dead, attempts, heartbeat, boxes, pc, hand, answer,
               sweep, faults, stalls, lapses, submitted, runs>>
backendOnly == <<inflight, buried, tries, row, at, msg, told, failures,
                 consumerFaults, exits>>
webOnly == <<web, pushFaults>>
vars == <<judgeOnly, backendOnly, webOnly, results, emitted>>

Init ==
  /\ Judge!Init
  /\ Backend!Init
  /\ web = [s \in Submission |-> "none"]
  /\ pushFaults = 0

---------------------------------------------------------------------------
(* SubmissionViewSet.create: save, then push_to_judge_queue.               *)

Create(s) ==
  /\ web[s] = "none"
  /\ web' = [web EXCEPT ![s] = "created"]
  /\ Backend!Create(s)
  /\ UNCHANGED <<judgeOnly, pushFaults>>

\* rpush to judge:queue.  Its reply may be lost: the submission is queued, the
\* response says queue_error.
Push(s) ==
  /\ web[s] = "created"
  /\ Judge!Submit(s)
  /\ \/ /\ web' = [web EXCEPT ![s] = "queued"]
        /\ UNCHANGED pushFaults
     \/ /\ pushFaults < MaxPushFaults
        /\ pushFaults' = pushFaults + 1
        /\ web' = [web EXCEPT ![s] = "queue_error"]
  /\ UNCHANGED backendOnly

\* The push raises before Redis runs it, or the web process dies between the
\* save and the push: nothing ever pushes this submission again.
PushFails(s) ==
  /\ web[s] = "created"
  /\ pushFaults < MaxPushFaults
  /\ pushFaults' = pushFaults + 1
  /\ web' = [web EXCEPT ![s] = "queue_error"]
  /\ UNCHANGED <<judgeOnly, backendOnly, results, emitted>>

Delete(s) == Backend!Delete(s) /\ UNCHANGED <<judgeOnly, webOnly>>

Fleet == Judge!FleetNext /\ UNCHANGED <<backendOnly, webOnly>>

Consume == Backend!ConsumerNext /\ UNCHANGED <<judgeOnly, webOnly>>

Next ==
  \/ \E s \in Submission : Create(s) \/ Push(s) \/ PushFails(s) \/ Delete(s)
  \/ Fleet
  \/ Consume

Spec == Init /\ [][Next]_vars

FairSpec == Spec /\ Judge!Fairness /\ Backend!Fairness

---------------------------------------------------------------------------
(* Properties.                                                             *)

\* The chain keeps the promise of SubmissionLifecycle: a second broadcast of
\* a verdict would be a step that it does not allow.
Lifecycle == INSTANCE SubmissionLifecycle WITH asked <- submitted

ImplementsLifecycle == Lifecycle!Spec

\* From the push to the verdict nothing is ever in no one's hands: a submission
\* that was queued is waiting for a worker, or was refused by one, or its result
\* waits for the consumer or is among the dead letters, or its row is settled.
NothingLost ==
  \A s \in submitted :
    Judge!Waiting(s) \/ Judge!Refused(s) \/ Backend!Queued(s) \/ Backend!Settled(s)

\* As long as no call to Redis raised, every submission that was queued is
\* eventually settled, refused as unreadable, or given up by the consumer,
\* unless the last judge worker is gone: worker crashes, consumer crashes, silent
\* workers and failing transactions only delay it.
EverySubmissionSettled ==
  \A s \in Submission :
    s \in submitted ~>
      \/ Backend!Settled(s) \/ Judge!Refused(s) \/ Judge!AllGone
      \/ \E m \in buried : m.sub = s
      \/ faults + consumerFaults > 0
=============================================================================
