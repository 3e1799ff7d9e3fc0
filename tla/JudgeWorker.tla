---------------------------- MODULE JudgeWorker ----------------------------
(***************************************************************************)
(* The judge fleet of judge/app/worker.py.  Every worker process runs two  *)
(* loops on one Redis: worker_loop takes a submission off judge:queue onto *)
(* a list of its own, runs it in a sandbox, pushes the answer onto         *)
(* judge:results and only then drops it from the list; maintenance_loop    *)
(* keeps a key with an expiry saying the worker is alive, gives back to    *)
(* the queue the lists of workers whose key is gone, and removes their     *)
(* sandboxes.                                                              *)
(*                                                                         *)
(* Each Redis call is an action.  A call can fail before Redis runs it     *)
(* (CallFails) or after, with the reply lost (the second case of Reply);   *)
(* either way the exception reaches worker_loop, which logs it, forgets    *)
(* the message in hand and goes on.  A process can be killed between any   *)
(* two calls.  A worker's identity is never used again, so a restart is    *)
(* the start of another member of Worker.                                  *)
(***************************************************************************)
EXTENDS Naturals, FiniteSets, SequencesExt

CONSTANTS
  Submission,   \* primary keys of submissions; the payload follows from the key
  Unreadable,   \* those whose payload the judge's schema refuses (version skew)
  Worker,       \* worker identities
  Verdict,
  InternalError,  \* the verdict of _internal_failure (RE)
  None,
  MaxAttempts,  \* settings.max_attempts
  MaxFaults,    \* bound: Redis calls that raise
  MaxStalls,    \* bound: times a live worker fails to announce itself for a whole TTL
  MaxLapses,    \* bound: attempt counters that outlive attempts_ttl_sec
  MaxRuns       \* bound: runs of one submission (a slow drain can repeat them for ever)

ASSUME SubmissionAssumption ==
  /\ Unreadable \subseteq Submission
  /\ None \notin Submission /\ None \notin Worker /\ None \notin Verdict
ASSUME VerdictAssumption == InternalError \in Verdict
ASSUME BoundAssumption ==
  /\ MaxAttempts \in Nat /\ MaxFaults \in Nat /\ MaxStalls \in Nat /\ MaxLapses \in Nat
  /\ MaxRuns \in Nat

VARIABLES
  queue,       \* judge:queue
  processing,  \* judge:processing:<worker>, a list per worker
  results,     \* judge:results, shared with the consumer
  dead,        \* judge:dead, as the set of what was ever put there
  attempts,    \* judge:attempts:<submission>
  heartbeat,   \* workers whose judge:workers:<worker> key exists
  boxes,       \* workers that own a sandbox container
  pc,          \* where each worker_loop stands
  hand,        \* the submission handle_one was called with
  answer,      \* the response it is about to push
  sweep,       \* whom maintenance_loop found silent and is cleaning up after
  faults, stalls, lapses,
  submitted,   \* history: what was ever pushed onto judge:queue
  emitted,     \* history: what was ever pushed onto judge:results
  runs         \* history: how often run_submission was called

loopVars  == <<pc, hand, answer, faults>>
redisVars == <<queue, processing, results, dead, attempts, heartbeat>>
histVars  == <<submitted, emitted, runs>>
upkeepVars == <<boxes, sweep, stalls, lapses>>
vars == <<redisVars, loopVars, upkeepVars, histVars>>

Message == [sub : Submission, verdict : Verdict]

\* A call in one of these places talks to Redis; the others wait for the sandbox.
Calling == {"picked", "refused", "exhausted", "judged", "pushed", "dropped"}
Running == {"judging", "boxed"}
Place   == Calling \cup Running \cup {"off", "idle", "gone"}

Up(w) == pc[w] \notin {"off", "gone"}

TypeOK ==
  /\ queue \in Seq(Submission)
  /\ processing \in [Worker -> Seq(Submission)]
  /\ results \in Seq(Message)
  /\ dead \subseteq Submission
  /\ attempts \in [Submission -> Nat]
  /\ heartbeat \subseteq Worker
  /\ boxes \subseteq Worker
  /\ pc \in [Worker -> Place]
  /\ hand \in [Worker -> Submission \cup {None}]
  /\ answer \in [Worker -> Verdict \cup {None}]
  /\ sweep \in [Worker -> {None} \cup ({"list", "box"} \X Worker)]
  /\ faults \in Nat /\ stalls \in Nat /\ lapses \in Nat
  /\ submitted \subseteq Submission
  /\ emitted \subseteq Message
  /\ runs \in [Submission -> Nat]

Init ==
  /\ queue = <<>> /\ results = <<>> /\ dead = {}
  /\ processing = [w \in Worker |-> <<>>]
  /\ attempts = [s \in Submission |-> 0]
  /\ heartbeat = {} /\ boxes = {}
  /\ pc = [w \in Worker |-> "off"]
  /\ hand = [w \in Worker |-> None]
  /\ answer = [w \in Worker |-> None]
  /\ sweep = [w \in Worker |-> None]
  /\ faults = 0 /\ stalls = 0 /\ lapses = 0
  /\ submitted = {} /\ emitted = {}
  /\ runs = [s \in Submission |-> 0]

---------------------------------------------------------------------------
(* The two neighbours: the web process and the results consumer.           *)

\* push_to_judge_queue of a new submission.
Submit(s) ==
  /\ s \notin submitted
  /\ submitted' = submitted \cup {s}
  /\ queue' = Append(queue, s)
  /\ UNCHANGED <<processing, results, dead, attempts, heartbeat, loopVars,
                 upkeepVars, emitted, runs>>

\* The consumer's blmove from the head of judge:results.
TakeResult ==
  /\ results # <<>>
  /\ results' = Tail(results)
  /\ UNCHANGED <<queue, processing, dead, attempts, heartbeat, loopVars,
                 upkeepVars, histVars>>

---------------------------------------------------------------------------
(* How a worker loop moves.                                                *)

Step(w, p, s, v) ==
  /\ pc' = [pc EXCEPT ![w] = p]
  /\ hand' = [hand EXCEPT ![w] = s]
  /\ answer' = [answer EXCEPT ![w] = v]

\* worker_loop's except branch: log, sleep, go on with the next message.
BackOff(w) ==
  /\ faults < MaxFaults
  /\ faults' = faults + 1
  /\ Step(w, "idle", None, None)

\* Redis has run the command; its reply arrives, or is lost and the call raises.
Reply(w, p, s, v) ==
  \/ Step(w, p, s, v) /\ UNCHANGED faults
  \/ BackOff(w)

\* The call raises before Redis runs the command.
CallFails(w) ==
  /\ pc[w] \in Calling
  /\ BackOff(w)
  /\ UNCHANGED <<redisVars, upkeepVars, histVars>>

---------------------------------------------------------------------------
(* worker_loop and handle_one.                                             *)

\* Slip: the queue is popped, the submission is only in the worker's memory.
TakeByPop(w) ==
  /\ pc[w] = "idle"
  /\ queue # <<>>
  /\ queue' = Tail(queue)
  /\ Reply(w, "picked", Head(queue), None)
  /\ UNCHANGED <<processing, results, dead, attempts, heartbeat, upkeepVars, histVars>>

\* blmove from the head of the queue to the tail of the worker's own list.
Take(w) ==
  /\ pc[w] = "idle"
  /\ queue # <<>>
  /\ queue' = Tail(queue)
  /\ processing' = [processing EXCEPT ![w] = Append(@, Head(queue))]
  /\ Reply(w, "picked", Head(queue), None)
  /\ UNCHANGED <<results, dead, attempts, heartbeat, upkeepVars, histVars>>

\* The payload does not parse: rpush to judge:dead.
Refuse(w) ==
  /\ pc[w] = "picked"
  /\ hand[w] \in Unreadable
  /\ dead' = dead \cup {hand[w]}
  /\ Reply(w, "refused", hand[w], None)
  /\ UNCHANGED <<queue, processing, results, attempts, heartbeat, upkeepVars, histVars>>

\* Slip: one attempt too many before the dead letters.
CountAttemptOneMore(w) ==
  /\ pc[w] = "picked"
  /\ hand[w] \notin Unreadable
  /\ attempts' = [attempts EXCEPT ![hand[w]] = @ + 1]
  /\ IF attempts'[hand[w]] > MaxAttempts + 1
     THEN Reply(w, "exhausted", hand[w], None) /\ UNCHANGED runs
     ELSE /\ runs[hand[w]] < MaxRuns
          /\ runs' = [runs EXCEPT ![hand[w]] = @ + 1]
          /\ Step(w, "judging", hand[w], None) /\ UNCHANGED faults
  /\ UNCHANGED <<queue, processing, results, dead, heartbeat, upkeepVars, submitted, emitted>>

\* incr (and expire, which changes no value) of the attempt counter.
CountAttempt(w) ==
  /\ pc[w] = "picked"
  /\ hand[w] \notin Unreadable
  /\ attempts' = [attempts EXCEPT ![hand[w]] = @ + 1]
  /\ \/ /\ attempts'[hand[w]] > MaxAttempts
        /\ Reply(w, "exhausted", hand[w], None)
        /\ UNCHANGED runs
     \/ /\ attempts'[hand[w]] <= MaxAttempts
        /\ \/ /\ Step(w, "judging", hand[w], None) /\ UNCHANGED faults
              /\ runs[hand[w]] < MaxRuns
              /\ runs' = [runs EXCEPT ![hand[w]] = @ + 1]
           \/ BackOff(w) /\ UNCHANGED runs
  /\ UNCHANGED <<queue, processing, results, dead, heartbeat, upkeepVars, submitted, emitted>>

\* Slip: the poisoned submission goes to the dead letters without an answer.
DeadLetterSilently(w) ==
  /\ pc[w] = "exhausted"
  /\ dead' = dead \cup {hand[w]}
  /\ Reply(w, "refused", hand[w], None)
  /\ UNCHANGED <<queue, processing, results, attempts, heartbeat, upkeepVars, histVars>>

\* Too many attempts: rpush to judge:dead, then answer with an internal error.
DeadLetter(w) ==
  /\ pc[w] = "exhausted"
  /\ dead' = dead \cup {hand[w]}
  /\ Reply(w, "judged", hand[w], InternalError)
  /\ UNCHANGED <<queue, processing, results, attempts, heartbeat, upkeepVars, histVars>>

\* run_in_sandbox starts a container (one stands for those of all test cases).
OpenBox(w) ==
  /\ pc[w] = "judging"
  /\ boxes' = boxes \cup {w}
  /\ Step(w, "boxed", hand[w], None)
  /\ UNCHANGED <<redisVars, faults, sweep, stalls, lapses, histVars>>

\* run_submission returns, or raises and becomes an internal failure.  Either
\* way its finally clause has asked Docker to remove the container; a refusal
\* is logged and forgotten, and the container stays.
Judge(w) ==
  /\ pc[w] \in Running
  /\ boxes' \in {boxes, boxes \ {w}}
  /\ \E v \in Verdict : Step(w, "judged", hand[w], v)
  /\ UNCHANGED <<redisVars, faults, sweep, stalls, lapses, histVars>>

\* _finish, first call: rpush to judge:results.
PushResult(w) ==
  /\ pc[w] = "judged"
  /\ LET m == [sub |-> hand[w], verdict |-> answer[w]]
     IN  results' = Append(results, m) /\ emitted' = emitted \cup {m}
  /\ Reply(w, "pushed", hand[w], answer[w])
  /\ UNCHANGED <<queue, processing, dead, attempts, heartbeat, upkeepVars, submitted, runs>>

\* lrem of the message: the second call of _finish, or the end of a refusal.
Drop(w) ==
  /\ pc[w] \in {"pushed", "refused"}
  /\ processing' = [processing EXCEPT ![w] = RemoveFirst(@, hand[w])]
  /\ \/ pc[w] = "pushed" /\ Reply(w, "dropped", hand[w], None)
     \/ pc[w] = "refused" /\ Reply(w, "idle", None, None)
  /\ UNCHANGED <<queue, results, dead, attempts, heartbeat, upkeepVars, histVars>>

\* Slip: the counter is decremented, not deleted.
ClearOneAttempt(w) ==
  /\ pc[w] = "dropped"
  /\ attempts' = [attempts EXCEPT ![hand[w]] = @ - 1]
  /\ Reply(w, "idle", None, None)
  /\ UNCHANGED <<queue, processing, results, dead, heartbeat, upkeepVars, histVars>>

\* _finish, last call: delete the attempt counter.
ClearAttempts(w) ==
  /\ pc[w] = "dropped"
  /\ attempts' = [attempts EXCEPT ![hand[w]] = 0]
  /\ Reply(w, "idle", None, None)
  /\ UNCHANGED <<queue, processing, results, dead, heartbeat, upkeepVars, histVars>>

---------------------------------------------------------------------------
(* Life and death of a worker process.                                     *)

\* Slip: the loops start before the worker has announced itself.
StartUnannounced(w) ==
  /\ pc[w] = "off"
  /\ Step(w, "idle", None, None)
  /\ UNCHANGED <<redisVars, faults, upkeepVars, histVars>>

\* lifespan: announce, then start both loops.
Start(w) ==
  /\ pc[w] = "off"
  /\ heartbeat' = heartbeat \cup {w}
  /\ Step(w, "idle", None, None)
  /\ UNCHANGED <<queue, processing, results, dead, attempts, faults, upkeepVars, histVars>>

\* Killed: the heartbeat, the list and the sandbox stay behind.
Crash(w) ==
  /\ Up(w)
  /\ Step(w, "gone", None, None)
  /\ sweep' = [sweep EXCEPT ![w] = None]
  /\ UNCHANGED <<redisVars, faults, boxes, stalls, lapses, histVars>>

\* lifespan's finally: both tasks cancelled wherever they wait, then withdraw.
\* The thread in run_submission is not cancelled: it may still get to remove
\* its container before the process exits, or leave one behind.
Stop(w) ==
  /\ Up(w)
  /\ Step(w, "gone", None, None)
  /\ sweep' = [sweep EXCEPT ![w] = None]
  /\ heartbeat' = heartbeat \ {w}
  /\ \/ UNCHANGED boxes
     \/ pc[w] \in Running /\ boxes' \in {boxes \ {w}, boxes \cup {w}}
  /\ UNCHANGED <<queue, processing, results, dead, attempts, faults, stalls, lapses, histVars>>

\* Redis drops the key of a worker that stopped renewing it: it is gone, or it
\* lives but could not reach Redis for four heartbeats.
Expire(w) ==
  /\ w \in heartbeat
  /\ \/ pc[w] = "gone" /\ UNCHANGED stalls
     \/ Up(w) /\ stalls < MaxStalls /\ stalls' = stalls + 1
  /\ heartbeat' = heartbeat \ {w}
  /\ UNCHANGED <<queue, processing, results, dead, attempts, loopVars, boxes,
                 sweep, lapses, histVars>>

\* The counter of a submission nobody touched for attempts_ttl_sec.
AttemptsExpire(s) ==
  /\ attempts[s] > 0
  /\ lapses < MaxLapses
  /\ lapses' = lapses + 1
  /\ attempts' = [attempts EXCEPT ![s] = 0]
  /\ UNCHANGED <<queue, processing, results, dead, heartbeat, loopVars, boxes,
                 sweep, stalls, histVars>>

---------------------------------------------------------------------------
(* maintenance_loop: announce, recover_orphans, sweep_sandboxes, in turn.  *)

Announce(w) ==
  /\ Up(w)
  /\ sweep[w] = None
  /\ heartbeat' = heartbeat \cup {w}
  /\ UNCHANGED <<queue, processing, results, dead, attempts, loopVars, upkeepVars, histVars>>

\* Slip: any other worker's list or sandbox counts as left behind.
FindAnyOther(w, o) ==
  /\ Up(w)
  /\ sweep[w] = None
  /\ o # w
  /\ \/ processing[o] # <<>> /\ sweep' = [sweep EXCEPT ![w] = <<"list", o>>]
     \/ o \in boxes /\ sweep' = [sweep EXCEPT ![w] = <<"box", o>>]
  /\ UNCHANGED <<redisVars, loopVars, boxes, stalls, lapses, histVars>>

\* Slip: the maintenance pass forgets the sandboxes.
FindSilentLists(w, o) ==
  /\ Up(w)
  /\ sweep[w] = None
  /\ o # w /\ o \notin heartbeat
  /\ processing[o] # <<>> /\ sweep' = [sweep EXCEPT ![w] = <<"list", o>>]
  /\ UNCHANGED <<redisVars, loopVars, boxes, stalls, lapses, histVars>>

\* Slip: the maintenance pass forgets the lists.
FindSilentBoxes(w, o) ==
  /\ Up(w)
  /\ sweep[w] = None
  /\ o # w /\ o \notin heartbeat
  /\ o \in boxes /\ sweep' = [sweep EXCEPT ![w] = <<"box", o>>]
  /\ UNCHANGED <<redisVars, loopVars, boxes, stalls, lapses, histVars>>

\* Another's list or sandbox exists and its owner's key does not: a snapshot,
\* acted upon in later steps.
FindSilent(w, o) ==
  /\ Up(w)
  /\ sweep[w] = None
  /\ o # w /\ o \notin heartbeat
  /\ \/ processing[o] # <<>> /\ sweep' = [sweep EXCEPT ![w] = <<"list", o>>]
     \/ o \in boxes /\ sweep' = [sweep EXCEPT ![w] = <<"box", o>>]
  /\ UNCHANGED <<redisVars, loopVars, boxes, stalls, lapses, histVars>>

\* Slip: the silent worker's list is emptied, and the queue gets nothing of it.
DrainAway(w) ==
  /\ Up(w)
  /\ sweep[w] # None /\ sweep[w][1] = "list"
  /\ processing' = [processing EXCEPT ![sweep[w][2]] = <<>>]
  /\ sweep' = [sweep EXCEPT ![w] = None]
  /\ UNCHANGED <<queue, results, dead, attempts, heartbeat, loopVars, boxes, stalls,
                 lapses, histVars>>

\* _drain: one lmove per step, from the head of the list to the head of the queue.
Drain(w) ==
  /\ Up(w)
  /\ sweep[w] # None /\ sweep[w][1] = "list"
  /\ LET o == sweep[w][2]
     IN  \/ /\ processing[o] # <<>>
            /\ queue' = <<Head(processing[o])>> \o queue
            /\ processing' = [processing EXCEPT ![o] = Tail(@)]
            /\ UNCHANGED sweep
         \/ /\ processing[o] = <<>>
            /\ sweep' = [sweep EXCEPT ![w] = None]
            /\ UNCHANGED <<queue, processing>>
  /\ UNCHANGED <<results, dead, attempts, heartbeat, loopVars, boxes, stalls, lapses, histVars>>

\* remove_sandbox of a container whose owner was found silent.
RemoveBox(w) ==
  /\ Up(w)
  /\ sweep[w] # None /\ sweep[w][1] = "box"
  /\ boxes' = boxes \ {sweep[w][2]}
  /\ sweep' = [sweep EXCEPT ![w] = None]
  /\ UNCHANGED <<redisVars, loopVars, stalls, lapses, histVars>>

\* remove_sandbox swallows Docker's refusal: the container waits for a later pass.
RemovalRefused(w) ==
  /\ Up(w)
  /\ sweep[w] # None /\ sweep[w][1] = "box"
  /\ sweep' = [sweep EXCEPT ![w] = None]
  /\ UNCHANGED <<redisVars, loopVars, boxes, stalls, lapses, histVars>>

\* A maintenance pass that raises is given up until the next one.
PassFails(w) ==
  /\ Up(w)
  /\ sweep[w] # None
  /\ faults < MaxFaults
  /\ faults' = faults + 1
  /\ sweep' = [sweep EXCEPT ![w] = None]
  /\ UNCHANGED <<redisVars, pc, hand, answer, boxes, stalls, lapses, histVars>>

---------------------------------------------------------------------------
HandleOne(w) ==
  \/ Take(w) \/ Refuse(w) \/ CountAttempt(w) \/ DeadLetter(w)
  \/ OpenBox(w) \/ Judge(w) \/ PushResult(w) \/ Drop(w) \/ ClearAttempts(w)

Maintain(w) ==
  \/ Announce(w)
  \/ \E o \in Worker : FindSilent(w, o)
  \/ Drain(w) \/ RemoveBox(w) \/ RemovalRefused(w)

Leave(w) == Crash(w) \/ Stop(w)

Fault(w) == CallFails(w) \/ PassFails(w)

FleetNext ==
  \/ \E w \in Worker : HandleOne(w) \/ Maintain(w) \/ Start(w) \/ Leave(w) \/ Expire(w) \/ Fault(w)
  \/ \E s \in Submission : AttemptsExpire(s)

Next == FleetNext \/ TakeResult \/ \E s \in Submission : Submit(s)

Spec == Init /\ [][Next]_vars

(* The loops keep running: a blocked call returns (socket timeout), a run   *)
(* ends (container.wait has a timeout), the container runtime restarts the  *)
(* judge, a key that is not renewed expires, and Docker does not refuse     *)
(* every removal for ever.  Nothing is assumed about crashes, faults,       *)
(* stalls or new submissions.                                               *)
Fairness ==
  \A w \in Worker :
    /\ WF_vars(HandleOne(w))
    /\ WF_vars(Start(w))
    /\ WF_vars(pc[w] = "gone" /\ Expire(w))
    /\ WF_vars(Drain(w) \/ RemoveBox(w) \/ RemovalRefused(w))
    /\ SF_vars(RemoveBox(w))
    /\ \A o \in Worker \ {w} : SF_vars(FindSilent(w, o))

FairSpec == Spec /\ Fairness

---------------------------------------------------------------------------
(* Properties.                                                             *)

Answered(s) == \E m \in emitted : m.sub = s

Waiting(s) == s \in Range(queue) \/ \E w \in Worker : s \in Range(processing[w])

Refused(s) == s \in Unreadable \cap dead

\* The list of the one in hand has not been dropped yet.
Holding == {"picked", "refused", "exhausted", "judged", "pushed"} \cup Running

AllGone == \A w \in Worker : pc[w] = "gone"

\* No submission is lost (worker.py:28-62, 88-112): whatever crashes, raises or
\* is taken for dead, a submission pushed to the queue is on the queue or on
\* some worker's list until its answer is pushed.  Only an unreadable payload
\* may end in judge:dead without an answer.
NoSubmissionLost ==
  \A s \in submitted : Waiting(s) \/ Answered(s) \/ Refused(s)

\* While every live worker has announced itself in time, what it is judging stays
\* on its own list and its sandbox stays in place: no sibling's maintenance takes
\* either away (worker.py:98-133, "Neither is anyone else's
\* to take").
WorkInHandIsKept ==
  stalls = 0 => \A w \in Worker :
    /\ pc[w] \in Holding => hand[w] \in Range(processing[w])
    /\ pc[w] = "boxed" => w \in boxes

\* Then, too, no submission is judged by two live workers at once.
OneJudge ==
  stalls = 0 => \A v, w \in Worker : v # w /\ hand[v] # None => hand[v] # hand[w]

\* A submission that keeps killing its worker is run at most max_attempts times
\* (worker.py:45-55): the counter survives crashes and is deleted only once the
\* submission is off every list.
PoisonBounded ==
  stalls = 0 /\ lapses = 0 => \A s \in Submission : runs[s] <= MaxAttempts

\* worker.py:106 says a worker's own list is what it is judging this second,
\* which is why recover_orphans may skip it.
OwnListIsInHand ==
  \A w \in Worker : Up(w) => Range(processing[w]) \subseteq {hand[w]}

\* As long as no call to Redis raised, every submission is eventually answered,
\* or refused as unreadable, unless the last worker identity is gone: crashes,
\* clean shutdowns and silent workers, at any point, only delay it.
EveryoneAnswered ==
  \A s \in Submission :
    s \in submitted ~> Answered(s) \/ Refused(s) \/ AllGone \/ faults > 0

\* The sandbox of a worker that is gone is eventually removed by another, however
\* often Docker refuses it, as long as it does not refuse for ever.
BoxesSwept ==
  \A w \in Worker : pc[w] = "gone" /\ w \in boxes ~> w \notin boxes \/ AllGone
=============================================================================
