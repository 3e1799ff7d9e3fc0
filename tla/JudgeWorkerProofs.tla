------------------------- MODULE JudgeWorkerProofs -------------------------
(***************************************************************************)
(* Theorems about JudgeWorker, for every fleet, every set of submissions   *)
(* and every bound.                                                        *)
(***************************************************************************)
EXTENDS JudgeWorker, QueueLemmas

---------------------------------------------------------------------------
(* Types.  What a loop has in hand is typed by where it stands.            *)

LoopTyped ==
  /\ pc \in [Worker -> Place]
  /\ hand \in [Worker -> Submission \cup {None}]
  /\ answer \in [Worker -> Verdict \cup {None}]
  /\ faults \in Nat
  /\ \A w \in Worker :
       /\ pc[w] \in Calling \cup Running => hand[w] \in Submission
       /\ pc[w] \notin Calling \cup Running => hand[w] = None
       /\ pc[w] = "judged" => answer[w] \in Verdict

Typed == TypeOK /\ LoopTyped

\* A step of one loop to a place its hand and answer fit.
LEMMA StepTyped ==
  ASSUME LoopTyped, faults' \in Nat,
         NEW w \in Worker, NEW p \in Place,
         NEW s \in Submission \cup {None}, NEW v \in Verdict \cup {None},
         p \in Calling \cup Running => s \in Submission,
         p \notin Calling \cup Running => s = None,
         p = "judged" => v \in Verdict,
         Step(w, p, s, v)
  PROVE  LoopTyped'
BY DEF LoopTyped, Step

\* The exception path only ever goes back to the start of the loop.
LEMMA BackOffTyped ==
  ASSUME LoopTyped, NEW w \in Worker, BackOff(w)
  PROVE  LoopTyped'
<1>1. "idle" \in Place /\ "idle" \notin Calling \cup Running
  BY DEF Place, Calling, Running
<1>2. faults' \in Nat /\ Step(w, "idle", None, None)
  BY DEF BackOff, LoopTyped
<1>3. QED
  BY <1>1, <1>2, StepTyped

LEMMA ReplyTyped ==
  ASSUME LoopTyped,
         NEW w \in Worker, NEW p \in Place,
         NEW s \in Submission \cup {None}, NEW v \in Verdict \cup {None},
         p \in Calling \cup Running => s \in Submission,
         p \notin Calling \cup Running => s = None,
         p = "judged" => v \in Verdict,
         Reply(w, p, s, v)
  PROVE  LoopTyped'
<1>1. CASE Step(w, p, s, v) /\ UNCHANGED faults
  BY <1>1, StepTyped DEF LoopTyped
<1>2. CASE BackOff(w)
  BY <1>2, BackOffTyped
<1>3. QED
  BY <1>1, <1>2 DEF Reply

\* Types survive every step, action by action.
LEMMA NextTyped == Typed /\ [Next]_vars => Typed'
<1> SUFFICES ASSUME Typed, [Next]_vars
             PROVE  Typed'
  OBVIOUS
<1> USE DEF Typed
<1>1. ASSUME NEW s \in Submission, Submit(s) PROVE Typed'
  <2>1. queue' \in Seq(Submission)
    BY <1>1, RangeAppend DEF Submit, TypeOK
  <2>2. QED
    BY <1>1, <2>1 DEF Submit, TypeOK, LoopTyped, loopVars, upkeepVars
<1>2. CASE TakeResult
  <2>1. results' \in Seq(Message)
    BY <1>2, RangeHeadTail DEF TakeResult, TypeOK
  <2>2. QED
    BY <1>2, <2>1 DEF TakeResult, TypeOK, LoopTyped, loopVars, upkeepVars, histVars
<1>3. ASSUME NEW w \in Worker, Take(w) PROVE Typed'
  <2>1. Head(queue) \in Submission /\ queue' \in Seq(Submission)
    BY <1>3, RangeHeadTail DEF Take, TypeOK
  <2>2. Append(processing[w], Head(queue)) \in Seq(Submission)
    BY <2>1, RangeAppend DEF TypeOK
  <2>3. processing' \in [Worker -> Seq(Submission)]
    BY <1>3, <2>2 DEF Take, TypeOK
  <2>4. LoopTyped'
    <3>1. Reply(w, "picked", Head(queue), None)
      BY <1>3 DEF Take
    <3>2. QED
      BY <2>1, <3>1, ReplyTyped DEF Place, Calling
  <2>5. QED
    BY <1>3, <2>1, <2>3, <2>4 DEF Take, TypeOK, LoopTyped, upkeepVars, histVars
<1>4. ASSUME NEW w \in Worker, Refuse(w) PROVE Typed'
  <2>1. hand[w] \in Submission
    BY <1>4 DEF Refuse, LoopTyped, Calling
  <2>2. LoopTyped'
    <3>1. Reply(w, "refused", hand[w], None)
      BY <1>4 DEF Refuse
    <3>2. QED
      BY <2>1, <3>1, ReplyTyped DEF Place, Calling
  <2>3. QED
    BY <1>4, <2>1, <2>2 DEF Refuse, TypeOK, LoopTyped, upkeepVars, histVars
<1>5. ASSUME NEW w \in Worker, CountAttempt(w) PROVE Typed'
  <2>1. hand[w] \in Submission
    BY <1>5 DEF CountAttempt, LoopTyped, Calling
  <2>2. attempts' \in [Submission -> Nat] /\ runs' \in [Submission -> Nat]
    <3>1. attempts' = [attempts EXCEPT ![hand[w]] = @ + 1]
      BY <1>5 DEF CountAttempt
    <3>2. runs' = runs \/ runs' = [runs EXCEPT ![hand[w]] = @ + 1]
      BY <1>5 DEF CountAttempt
    <3>3. attempts[hand[w]] \in Nat /\ runs[hand[w]] \in Nat
      BY <2>1 DEF TypeOK
    <3>4. attempts' \in [Submission -> Nat]
      <4>1. attempts \in [Submission -> Nat] /\ attempts[hand[w]] + 1 \in Nat
        BY <3>3 DEF TypeOK
      <4>2. QED
        BY <2>1, <3>1, <4>1
    <3>5. runs' \in [Submission -> Nat]
      BY <3>2, <3>3 DEF TypeOK
    <3>6. QED
      BY <3>4, <3>5
  <2>3. LoopTyped'
    <3>1. CASE Reply(w, "exhausted", hand[w], None)
      BY <2>1, <3>1, ReplyTyped DEF Place, Calling
    <3>2. CASE Step(w, "judging", hand[w], None) /\ UNCHANGED faults
      BY <2>1, <3>2, StepTyped DEF Place, Calling, Running, LoopTyped
    <3>3. CASE BackOff(w)
      BY <3>3, BackOffTyped
    <3>4. QED
      BY <1>5, <3>1, <3>2, <3>3 DEF CountAttempt
  <2>4. QED
    BY <1>5, <2>2, <2>3 DEF CountAttempt, TypeOK, LoopTyped, upkeepVars
<1>6. ASSUME NEW w \in Worker, DeadLetter(w) PROVE Typed'
  <2>1. hand[w] \in Submission
    BY <1>6 DEF DeadLetter, LoopTyped, Calling
  <2>2. LoopTyped'
    <3>1. Reply(w, "judged", hand[w], InternalError)
      BY <1>6 DEF DeadLetter
    <3>2. QED
      BY <2>1, <3>1, ReplyTyped, VerdictAssumption DEF Place, Calling
  <2>3. QED
    BY <1>6, <2>1, <2>2 DEF DeadLetter, TypeOK, LoopTyped, upkeepVars, histVars
<1>7. ASSUME NEW w \in Worker, OpenBox(w) PROVE Typed'
  <2>1. hand[w] \in Submission
    BY <1>7 DEF OpenBox, LoopTyped, Running
  <2>2. Step(w, "boxed", hand[w], None) /\ faults' \in Nat
    BY <1>7 DEF OpenBox, LoopTyped
  <2>3. LoopTyped'
    BY <2>1, <2>2, StepTyped DEF Place, Calling, Running
  <2>4. QED
    BY <1>7, <2>3 DEF OpenBox, TypeOK, LoopTyped, redisVars, histVars
<1>8. ASSUME NEW w \in Worker, Judge(w) PROVE Typed'
  <2>1. hand[w] \in Submission
    BY <1>8 DEF Judge, LoopTyped
  <2>2. PICK v \in Verdict : Step(w, "judged", hand[w], v)
    BY <1>8 DEF Judge
  <2>3. faults' \in Nat
    BY <1>8 DEF Judge, LoopTyped
  <2>4. LoopTyped'
    BY <2>1, <2>2, <2>3, StepTyped DEF Place, Calling
  <2>5. QED
    BY <1>8, <2>4 DEF Judge, TypeOK, LoopTyped, redisVars, histVars
<1>9. ASSUME NEW w \in Worker, PushResult(w) PROVE Typed'
  <2> DEFINE m == [sub |-> hand[w], verdict |-> answer[w]]
  <2>1. hand[w] \in Submission /\ answer[w] \in Verdict
    BY <1>9 DEF PushResult, LoopTyped, Calling
  <2>2. m \in Message
    BY <2>1 DEF Message
  <2>3. results' \in Seq(Message) /\ emitted' \subseteq Message
    BY <1>9, <2>2, RangeAppend DEF PushResult, TypeOK
  <2>4. LoopTyped'
    <3>1. Reply(w, "pushed", hand[w], answer[w])
      BY <1>9 DEF PushResult
    <3>2. QED
      BY <2>1, <3>1, ReplyTyped DEF Place, Calling
  <2>5. QED
    BY <1>9, <2>3, <2>4 DEF PushResult, TypeOK, LoopTyped, upkeepVars
<1>10. ASSUME NEW w \in Worker, Drop(w) PROVE Typed'
  <2>1. hand[w] \in Submission
    BY <1>10 DEF Drop, LoopTyped, Calling
  <2>2. RemoveFirst(processing[w], hand[w]) \in Seq(Submission)
    BY RangeRemoveFirst DEF TypeOK
  <2>3. processing' \in [Worker -> Seq(Submission)]
    BY <1>10, <2>2 DEF Drop, TypeOK
  <2>4. LoopTyped'
    <3>1. CASE Reply(w, "dropped", hand[w], None)
      BY <2>1, <3>1, ReplyTyped DEF Place, Calling
    <3>2. CASE Reply(w, "idle", None, None)
      BY <3>2, ReplyTyped DEF Place, Calling, Running
    <3>3. QED
      BY <1>10, <3>1, <3>2 DEF Drop
  <2>5. QED
    BY <1>10, <2>3, <2>4 DEF Drop, TypeOK, LoopTyped, upkeepVars, histVars
<1>11. ASSUME NEW w \in Worker, ClearAttempts(w) PROVE Typed'
  <2>1. LoopTyped'
    <3>1. Reply(w, "idle", None, None)
      BY <1>11 DEF ClearAttempts
    <3>2. QED
      BY <3>1, ReplyTyped DEF Place, Calling, Running
  <2>2. QED
    BY <1>11, <2>1 DEF ClearAttempts, TypeOK, LoopTyped, upkeepVars, histVars
<1>12. ASSUME NEW w \in Worker, Maintain(w) \/ PassFails(w) PROVE Typed'
  <2>1. CASE Announce(w)
    BY <2>1 DEF Announce, TypeOK, LoopTyped, loopVars, upkeepVars, histVars
  <2>2. ASSUME NEW o \in Worker, FindSilent(w, o) PROVE Typed'
    <3>1. \E k \in {"list", "box"} : sweep' = [sweep EXCEPT ![w] = <<k, o>>]
      BY <2>2 DEF FindSilent
    <3>2. sweep' \in [Worker -> {None} \cup ({"list", "box"} \X Worker)]
      BY <3>1 DEF TypeOK
    <3>3. QED
      BY <2>2, <3>2 DEF FindSilent, TypeOK, LoopTyped, redisVars, loopVars, histVars
  <2>3. CASE Drain(w)
    <3>1. queue' \in Seq(Submission) /\ processing' \in [Worker -> Seq(Submission)]
      <4> DEFINE o == sweep[w][2]
      <4>1. o \in Worker
        BY <2>3 DEF Drain, TypeOK
      <4>2. CASE processing[o] # <<>>
        <5>1. /\ Head(processing[o]) \in Submission
              /\ Tail(processing[o]) \in Seq(Submission)
          BY <4>1, <4>2, RangeHeadTail DEF TypeOK
        <5>2. <<Head(processing[o])>> \o queue \in Seq(Submission)
          BY <5>1, RangePush DEF TypeOK
        <5>3. QED
          <6>1. /\ queue' = <<Head(processing[o])>> \o queue
                /\ processing' = [processing EXCEPT ![o] = Tail(@)]
            BY <2>3, <4>2 DEF Drain
          <6>2. QED
            BY <4>1, <5>1, <5>2, <6>1 DEF TypeOK
      <4>3. CASE processing[o] = <<>>
        BY <2>3, <4>3 DEF Drain, TypeOK
      <4>4. QED
        BY <4>2, <4>3
    <3>2. sweep' \in [Worker -> {None} \cup ({"list", "box"} \X Worker)]
      BY <2>3 DEF Drain, TypeOK
    <3>3. QED
      BY <2>3, <3>1, <3>2 DEF Drain, TypeOK, LoopTyped, loopVars, histVars
  <2>4. CASE RemoveBox(w)
    BY <2>4 DEF RemoveBox, TypeOK, LoopTyped, redisVars, loopVars, histVars
  <2>5. CASE RemovalRefused(w)
    BY <2>5 DEF RemovalRefused, TypeOK, LoopTyped, redisVars, loopVars, histVars
  <2>6. CASE PassFails(w)
    BY <2>6 DEF PassFails, TypeOK, LoopTyped, redisVars, histVars
  <2>7. QED
    BY <1>12, <2>1, <2>2, <2>3, <2>4, <2>5, <2>6 DEF Maintain
<1>13. ASSUME NEW w \in Worker, Start(w) \/ Leave(w) PROVE Typed'
  <2>1. LoopTyped'
    <3>1. faults' \in Nat
      BY <1>13 DEF Start, Leave, Crash, Stop, LoopTyped
    <3>2. CASE Step(w, "idle", None, None)
      BY <3>1, <3>2, StepTyped DEF Place, Calling, Running
    <3>3. CASE Step(w, "gone", None, None)
      BY <3>1, <3>3, StepTyped DEF Place, Calling, Running
    <3>4. QED
      BY <1>13, <3>2, <3>3 DEF Start, Leave, Crash, Stop
  <2>2. QED
    BY <1>13, <2>1
    DEF Start, Leave, Crash, Stop, TypeOK, LoopTyped, redisVars, upkeepVars, histVars
<1>14. ASSUME NEW w \in Worker, Expire(w) PROVE Typed'
  BY <1>14 DEF Expire, TypeOK, LoopTyped, loopVars, histVars
<1>15. ASSUME NEW w \in Worker, CallFails(w) PROVE Typed'
  <2>1. LoopTyped'
    BY <1>15, BackOffTyped DEF CallFails
  <2>2. QED
    BY <1>15, <2>1 DEF CallFails, TypeOK, LoopTyped, redisVars, upkeepVars, histVars
<1>16. ASSUME NEW s \in Submission, AttemptsExpire(s) PROVE Typed'
  BY <1>16 DEF AttemptsExpire, TypeOK, LoopTyped, loopVars, histVars
<1>17. CASE UNCHANGED vars
  BY <1>17 DEF vars, redisVars, loopVars, upkeepVars, histVars, TypeOK, LoopTyped
<1>18. QED
  BY <1>1, <1>2, <1>3, <1>4, <1>5, <1>6, <1>7, <1>8, <1>9, <1>10, <1>11, <1>12,
     <1>13, <1>14, <1>15, <1>16, <1>17
  DEF Next, FleetNext, HandleOne, Fault

\* Every variable of the fleet keeps its type, and a loop that waits for Redis
\* or for the sandbox has a submission in hand (worker.py:35-62, 158-178).
THEOREM TypeCorrect == Spec => []TypeOK
<1>1. Init => Typed
  <2>1. "off" \in Place \ (Calling \cup Running)
    BY DEF Place, Calling, Running
  <2>2. QED
    BY <2>1 DEF Init, Typed, TypeOK, LoopTyped
<1>2. Typed /\ [Next]_vars => Typed'
  BY NextTyped
<1>3. Typed => TypeOK
  BY DEF Typed
<1>4. QED
  BY <1>1, <1>2, <1>3, PTL DEF Spec

---------------------------------------------------------------------------
(* No submission is lost.  A list entry is dropped only by a loop that has *)
(* pushed the answer or put the payload with the dead: that is the         *)
(* strengthening, and it survives because neither history is ever undone.  *)

Honest(w) ==
  /\ pc[w] = "pushed" => Answered(hand[w])
  /\ pc[w] = "refused" => Refused(hand[w])

Kept == Typed /\ NoSubmissionLost /\ \A w \in Worker : Honest(w)

\* Answers and dead letters are never taken back.
LEMMA NothingUndone ==
  ASSUME [Next]_vars
  PROVE  emitted \subseteq emitted' /\ dead \subseteq dead'
<1> SUFFICES ASSUME Next PROVE emitted \subseteq emitted' /\ dead \subseteq dead'
  BY DEF vars, redisVars, histVars
<1>1. ASSUME NEW s \in Submission, Submit(s) \/ AttemptsExpire(s)
      PROVE  UNCHANGED <<emitted, dead>>
  BY <1>1 DEF Submit, AttemptsExpire, histVars
<1>2. CASE TakeResult
  BY <1>2 DEF TakeResult, histVars
<1>3. ASSUME NEW w \in Worker, HandleOne(w)
      PROVE  emitted \subseteq emitted' /\ dead \subseteq dead'
  BY <1>3 DEF HandleOne, Take, Refuse, CountAttempt, DeadLetter, OpenBox, Judge,
              PushResult, Drop, ClearAttempts, redisVars, histVars
<1>4. ASSUME NEW w \in Worker,
             Maintain(w) \/ Start(w) \/ Leave(w) \/ Expire(w) \/ Fault(w)
      PROVE  UNCHANGED <<emitted, dead>>
  BY <1>4 DEF Maintain, Announce, FindSilent, Drain, RemoveBox, RemovalRefused, Start, Leave, Crash,
              Stop, Expire, Fault, CallFails, PassFails, redisVars, histVars
<1>5. QED
  BY <1>1, <1>2, <1>3, <1>4 DEF Next, FleetNext

\* A loop may go wherever what it claims there is true.
LEMMA StepHonest ==
  ASSUME LoopTyped, \A x \in Worker : Honest(x),
         emitted \subseteq emitted', dead \subseteq dead',
         NEW w \in Worker, NEW p, NEW s, NEW v,
         Step(w, p, s, v),
         p = "pushed" => \E m \in emitted' : m.sub = s,
         p = "refused" => s \in Unreadable \cap dead'
  PROVE  \A x \in Worker : Honest(x)'
<1> SUFFICES ASSUME NEW x \in Worker PROVE Honest(x)'
  OBVIOUS
<1>1. CASE x = w
  <2>1. pc'[x] = p /\ hand'[x] = s
    BY <1>1 DEF Step, LoopTyped
  <2>2. QED
    BY <2>1 DEF Honest, Answered, Refused
<1>2. CASE x # w
  <2>1. pc'[x] = pc[x] /\ hand'[x] = hand[x]
    BY <1>2 DEF Step, LoopTyped
  <2>2. QED
    BY <2>1 DEF Honest, Answered, Refused
<1>3. QED
  BY <1>1, <1>2

LEMMA ReplyHonest ==
  ASSUME LoopTyped, \A x \in Worker : Honest(x),
         emitted \subseteq emitted', dead \subseteq dead',
         NEW w \in Worker, NEW p, NEW s, NEW v,
         Reply(w, p, s, v),
         p = "pushed" => \E m \in emitted' : m.sub = s,
         p = "refused" => s \in Unreadable \cap dead'
  PROVE  \A x \in Worker : Honest(x)'
<1>1. CASE Step(w, p, s, v)
  BY <1>1, StepHonest
<1>2. CASE Step(w, "idle", None, None)
  BY <1>2, StepHonest
<1>3. QED
  BY <1>1, <1>2 DEF Reply, BackOff

\* Every step keeps every loop honest.
LEMMA NextHonest ==
  ASSUME Kept, [Next]_vars
  PROVE  \A w \in Worker : Honest(w)'
<1>1. emitted \subseteq emitted' /\ dead \subseteq dead'
  BY NothingUndone
<1>2. LoopTyped /\ \A w \in Worker : Honest(w)
  BY DEF Kept, Typed
<1>3. CASE UNCHANGED <<pc, hand>>
  BY <1>1, <1>2, <1>3 DEF Honest, Answered, Refused
<1>4. ASSUME NEW w \in Worker, PushResult(w)
      PROVE  \A x \in Worker : Honest(x)'
  <2>1. \E m \in emitted' : m.sub = hand[w]
    <3>1. [sub |-> hand[w], verdict |-> answer[w]] \in emitted'
      BY <1>4 DEF PushResult
    <3>2. QED
      BY <3>1
  <2>2. Reply(w, "pushed", hand[w], answer[w])
    BY <1>4 DEF PushResult
  <2>3. QED
    BY <1>1, <1>2, <2>1, <2>2, ReplyHonest
<1>5. ASSUME NEW w \in Worker, Refuse(w)
      PROVE  \A x \in Worker : Honest(x)'
  <2>1. hand[w] \in Unreadable \cap dead' /\ Reply(w, "refused", hand[w], None)
    BY <1>5 DEF Refuse
  <2>2. QED
    BY <1>1, <1>2, <2>1, ReplyHonest
<1>6. ASSUME NEW w \in Worker, NEW p, NEW s, NEW v,
             p \notin {"pushed", "refused"},
             Reply(w, p, s, v) \/ Step(w, p, s, v)
      PROVE  \A x \in Worker : Honest(x)'
  BY <1>1, <1>2, <1>6, ReplyHonest, StepHonest
<1>7. ASSUME NEW w \in Worker, HandleOne(w)
      PROVE  \A x \in Worker : Honest(x)'
  <2>1. CASE Take(w)
    BY <1>6, <2>1 DEF Take
  <2>2. CASE CountAttempt(w)
    BY <1>6, <2>2 DEF CountAttempt, Reply
  <2>3. CASE DeadLetter(w)
    BY <1>6, <2>3 DEF DeadLetter
  <2>4. CASE OpenBox(w)
    BY <1>6, <2>4 DEF OpenBox
  <2>5. CASE Judge(w)
    BY <1>6, <2>5 DEF Judge
  <2>6. CASE Drop(w)
    BY <1>6, <2>6 DEF Drop
  <2>7. CASE ClearAttempts(w)
    BY <1>6, <2>7 DEF ClearAttempts
  <2>8. QED
    BY <1>4, <1>5, <1>7, <2>1, <2>2, <2>3, <2>4, <2>5, <2>6, <2>7 DEF HandleOne
<1>8. ASSUME NEW w \in Worker, Start(w) \/ Leave(w) \/ CallFails(w)
      PROVE  \A x \in Worker : Honest(x)'
  <2>1. \E p \in {"idle", "gone"} : Step(w, p, None, None)
    BY <1>8 DEF Start, Leave, Crash, Stop, CallFails, BackOff
  <2>2. QED
    BY <1>6, <2>1
<1>9. ASSUME NEW w \in Worker, Maintain(w) \/ Expire(w) \/ PassFails(w)
      PROVE  UNCHANGED <<pc, hand>>
  BY <1>9 DEF Maintain, Announce, FindSilent, Drain, RemoveBox, RemovalRefused, Expire, PassFails, loopVars
<1>10. ASSUME NEW s \in Submission, Submit(s) \/ AttemptsExpire(s)
       PROVE  UNCHANGED <<pc, hand>>
  BY <1>10 DEF Submit, AttemptsExpire, loopVars
<1>11. TakeResult \/ UNCHANGED vars => UNCHANGED <<pc, hand>>
  BY DEF TakeResult, vars, loopVars
<1>12. QED
  BY <1>3, <1>7, <1>8, <1>9, <1>10, <1>11 DEF Next, FleetNext, Fault

\* What an action does to the set of waiting submissions decides whether it
\* loses one.
LEMMA LosesNone ==
  ASSUME NoSubmissionLost, emitted \subseteq emitted', dead \subseteq dead',
         \A s \in submitted' : \/ s \in submitted /\ (Waiting(s) => Waiting(s)')
                               \/ Waiting(s)' \/ Answered(s)' \/ Refused(s)'
  PROVE  NoSubmissionLost'
<1> SUFFICES ASSUME NEW s \in submitted'
             PROVE  Waiting(s)' \/ Answered(s)' \/ Refused(s)'
  BY DEF NoSubmissionLost
<1>1. Answered(s) => Answered(s)'
  BY DEF Answered
<1>2. Refused(s) => Refused(s)'
  BY DEF Refused
<1>3. QED
  BY <1>1, <1>2 DEF NoSubmissionLost

\* Only four actions touch the lists.
LEMMA NextKeepsLists ==
  ASSUME [Next]_vars,
         ~ \E s \in Submission : Submit(s),
         ~ \E w \in Worker : Take(w) \/ Drop(w) \/ Drain(w)
  PROVE  UNCHANGED <<queue, processing, submitted>>
<1>1. CASE TakeResult \/ UNCHANGED vars
  BY <1>1 DEF TakeResult, vars, redisVars, histVars
<1>2. ASSUME NEW s \in Submission, AttemptsExpire(s)
      PROVE  UNCHANGED <<queue, processing, submitted>>
  BY <1>2 DEF AttemptsExpire, histVars
<1>3. ASSUME NEW w \in Worker, HandleOne(w)
      PROVE  UNCHANGED <<queue, processing, submitted>>
  BY <1>3 DEF HandleOne, Refuse, CountAttempt, DeadLetter, OpenBox, Judge,
              PushResult, ClearAttempts, redisVars, histVars
<1>4. ASSUME NEW w \in Worker,
             Maintain(w) \/ Start(w) \/ Leave(w) \/ Expire(w) \/ Fault(w)
      PROVE  UNCHANGED <<queue, processing, submitted>>
  BY <1>4 DEF Maintain, Announce, FindSilent, RemoveBox, RemovalRefused, Start, Leave,
              Crash, Stop, Expire, Fault, CallFails, PassFails, redisVars, histVars
<1>5. QED
  BY <1>1, <1>2, <1>3, <1>4 DEF Next, FleetNext

\* Every step keeps every submission somewhere, or answered, or refused.
LEMMA NextLosesNone ==
  ASSUME Kept, [Next]_vars
  PROVE  NoSubmissionLost'
<1>1. emitted \subseteq emitted' /\ dead \subseteq dead' /\ NoSubmissionLost
  BY NothingUndone DEF Kept
<1>2. queue \in Seq(Submission) /\ processing \in [Worker -> Seq(Submission)]
  BY DEF Kept, Typed, TypeOK
<1>3. ASSUME NEW s \in Submission, Submit(s) PROVE NoSubmissionLost'
  <2>1. Range(queue') = Range(queue) \cup {s}
    BY <1>2, <1>3, RangeAppend DEF Submit
  <2>2. submitted' = submitted \cup {s} /\ processing' = processing
    BY <1>3 DEF Submit
  <2>3. Waiting(s)' /\ \A x : Waiting(x) => Waiting(x)'
    BY <2>1, <2>2 DEF Waiting
  <2>4. QED
    BY <1>1, <2>2, <2>3, LosesNone
<1>4. ASSUME NEW w \in Worker, Take(w) PROVE NoSubmissionLost'
  <2> DEFINE s == Head(queue)
  <2>1. s \in Submission /\ Range(queue) = {s} \cup Range(queue')
    BY <1>2, <1>4, RangeHeadTail DEF Take
  <2>2. processing' = [processing EXCEPT ![w] = Append(@, s)] /\ submitted' = submitted
    BY <1>4 DEF Take, histVars
  <2>3. Range(processing'[w]) = Range(processing[w]) \cup {s}
    BY <1>2, <2>1, <2>2, RangeAppend
  <2>4. \A v \in Worker : Range(processing[v]) \subseteq Range(processing'[v])
    BY <1>2, <2>2, <2>3
  <2>5. \A x : Waiting(x) => Waiting(x)'
    BY <2>1, <2>3, <2>4 DEF Waiting
  <2>6. QED
    BY <1>1, <2>2, <2>5, LosesNone
<1>5. ASSUME NEW w \in Worker, Drop(w) PROVE NoSubmissionLost'
  <2>1. PICK h : h = hand[w]
    OBVIOUS
  <2>2. /\ processing' = [processing EXCEPT ![w] = RemoveFirst(@, h)]
        /\ queue' = queue /\ submitted' = submitted
    BY <1>5, <2>1 DEF Drop, histVars
  <2>3. Range(processing[w]) \subseteq Range(processing'[w]) \cup {h}
    BY <1>2, <2>2, RangeRemoveFirst
  <2>4. \A v \in Worker : Range(processing[v]) \subseteq Range(processing'[v]) \cup {h}
    BY <1>2, <2>2, <2>3
  <2>5. Answered(h)' \/ Refused(h)'
    <3>1. Answered(h) \/ Refused(h)
      BY <1>5, <2>1 DEF Drop, Kept, Honest
    <3>2. QED
      BY <1>1, <3>1 DEF Answered, Refused
  <2>6. ASSUME NEW x \in submitted, Waiting(x), x # h
        PROVE  Waiting(x)'
    BY <2>2, <2>4, <2>6 DEF Waiting
  <2>7. QED
    BY <1>1, <2>2, <2>5, <2>6, LosesNone
<1>6. ASSUME NEW w \in Worker, Drain(w) PROVE NoSubmissionLost'
  <2> DEFINE o == sweep[w][2]
  <2>1. o \in Worker /\ submitted' = submitted
    BY <1>6 DEF Drain, Kept, Typed, TypeOK, histVars
  <2>2. CASE processing[o] # <<>>
    <3> DEFINE s == Head(processing[o])
    <3>1. /\ queue' = <<s>> \o queue
          /\ processing' = [processing EXCEPT ![o] = Tail(@)]
      BY <1>6, <2>2 DEF Drain
    <3>2. s \in Submission /\ Range(processing[o]) = {s} \cup Range(Tail(processing[o]))
      BY <1>2, <2>1, <2>2, RangeHeadTail
    <3>3. Range(queue') = {s} \cup Range(queue)
      BY <1>2, <3>1, <3>2, RangePush
    <3>4. \A v \in Worker : Range(processing[v]) \subseteq Range(processing'[v]) \cup {s}
      BY <1>2, <2>1, <3>1, <3>2
    <3>5. \A x : Waiting(x) => Waiting(x)'
      BY <3>3, <3>4 DEF Waiting
    <3>6. QED
      BY <1>1, <2>1, <3>5, LosesNone
  <2>3. CASE processing[o] = <<>>
    <3>1. UNCHANGED <<queue, processing>>
      BY <1>6, <2>3 DEF Drain
    <3>2. \A x : Waiting(x) => Waiting(x)'
      BY <3>1 DEF Waiting
    <3>3. QED
      BY <1>1, <2>1, <3>2, LosesNone
  <2>4. QED
    BY <2>2, <2>3
<1>7. CASE UNCHANGED <<queue, processing, submitted>>
  <2>1. submitted' = submitted /\ \A x : Waiting(x) => Waiting(x)'
    BY <1>7 DEF Waiting
  <2>2. QED
    BY <1>1, <2>1, LosesNone
<1>8. QED
  BY <1>3, <1>4, <1>5, <1>6, <1>7, NextKeepsLists

LEMMA InitKept == Init => Kept
<1>1. "off" \in Place \ (Calling \cup Running) /\ "off" \notin {"pushed", "refused"}
  BY DEF Place, Calling, Running
<1>2. QED
  BY <1>1 DEF Init, Kept, Typed, TypeOK, LoopTyped, NoSubmissionLost, Honest

LEMMA NextKept == Kept /\ [Next]_vars => Kept'
<1> SUFFICES ASSUME Kept, [Next]_vars PROVE Kept'
  OBVIOUS
<1>1. Typed'
  BY NextTyped DEF Kept
<1>2. NoSubmissionLost'
  BY NextLosesNone
<1>3. \A w \in Worker : Honest(w)'
  BY NextHonest
<1>4. QED
  BY <1>1, <1>2, <1>3 DEF Kept

\* Whatever crashes, raises or is taken for dead, a submission that was pushed to
\* the queue is on it or on some worker's list until its answer is pushed, or its
\* unreadable payload is with the dead letters (worker.py:28-62, 88-112): for every
\* number of workers and submissions and of faults.
THEOREM NothingIsLost == Spec => []NoSubmissionLost
<1>1. Kept => NoSubmissionLost
  BY DEF Kept
<1>2. QED
  BY <1>1, InitKept, NextKept, PTL DEF Spec

---------------------------------------------------------------------------
(* Nobody takes a live worker's work.  A worker announces itself before    *)
(* its loops start and withdraws when they have ended, so that only a      *)
(* stall can make a live worker look silent; and one found silent is gone  *)
(* for good by the time its list and its sandbox are taken.                *)

Announced == \A w \in Worker : Up(w) => w \in heartbeat

SweepsTheGone == \A w \in Worker : sweep[w] # None => pc[sweep[w][2]] = "gone"

NewIsClean == \A w \in Worker : pc[w] = "off" => processing[w] = <<>> /\ w \notin boxes

HandIsListed ==
  \A w \in Worker :
    /\ pc[w] \in Holding => hand[w] \in Range(processing[w])
    /\ pc[w] = "boxed" => w \in boxes

Orderly == Announced /\ SweepsTheGone /\ NewIsClean /\ HandIsListed

Guarded == Typed /\ (stalls = 0 => Orderly)

\* A loop that moves and minds only what is its own leaves the fleet in order.
LEMMA LoopOrderly ==
  ASSUME Typed, Orderly, NEW w \in Worker, pc[w] # "gone",
         NEW p \in Place \ {"off"}, NEW s, NEW v, Step(w, p, s, v),
         p # "gone" => w \in heartbeat',
         \A x \in Worker \ {w} : x \in heartbeat => x \in heartbeat',
         \A x \in Worker : sweep'[x] \in {sweep[x], None},
         \A x \in Worker \ {w} : processing'[x] = processing[x] /\ (x \in boxes' <=> x \in boxes),
         p \in Holding => s \in Range(processing'[w]),
         p = "boxed" => w \in boxes'
  PROVE  Orderly'
<1>1. pc'[w] = p /\ hand'[w] = s
  BY DEF Step, Typed, LoopTyped
<1>2. \A x \in Worker \ {w} : pc'[x] = pc[x] /\ hand'[x] = hand[x]
  BY DEF Step, Typed, LoopTyped
<1>3. Announced'
  BY <1>1, <1>2 DEF Orderly, Announced, Up
<1>4. SweepsTheGone'
  <2> SUFFICES ASSUME NEW x \in Worker, sweep'[x] # None
               PROVE  pc'[sweep'[x][2]] = "gone"
    BY DEF SweepsTheGone
  <2>1. sweep'[x] = sweep[x] /\ pc[sweep[x][2]] = "gone"
    BY DEF Orderly, SweepsTheGone
  <2>2. sweep[x][2] \in Worker
    BY <2>1 DEF Typed, TypeOK
  <2>3. QED
    BY <1>2, <2>1, <2>2
<1>5. NewIsClean'
  BY <1>1, <1>2 DEF Orderly, NewIsClean
<1>6. HandIsListed'
  BY <1>1, <1>2 DEF Orderly, HandIsListed
<1>7. QED
  BY <1>3, <1>4, <1>5, <1>6 DEF Orderly

\* The loops mind only what is their own.
LEMMA HandleOneOrderly ==
  ASSUME Typed, Orderly, NEW w \in Worker, HandleOne(w) \/ CallFails(w)
  PROVE  Orderly'
<1>1. pc[w] \notin {"off", "gone"} /\ w \in heartbeat
  <2>1. pc[w] \notin {"off", "gone"}
    BY DEF HandleOne, CallFails, Take, Refuse, CountAttempt, DeadLetter, OpenBox, Judge,
           PushResult, Drop, ClearAttempts, Calling, Running
  <2>2. QED
    BY <2>1 DEF Orderly, Announced, Up
<1>2. heartbeat' = heartbeat /\ sweep' = sweep
  BY DEF HandleOne, CallFails, Take, Refuse, CountAttempt, DeadLetter, OpenBox, Judge,
         PushResult, Drop, ClearAttempts, redisVars, upkeepVars
<1>3. \A x \in Worker \ {w} : x \in boxes' <=> x \in boxes
  BY DEF HandleOne, CallFails, Take, Refuse, CountAttempt, DeadLetter, OpenBox, Judge,
         PushResult, Drop, ClearAttempts, redisVars, upkeepVars
<1>4. \A x \in Worker \ {w} : processing'[x] = processing[x]
  <2>1. \/ processing' = processing
        \/ \E q : processing' = [processing EXCEPT ![w] = q]
    BY DEF HandleOne, CallFails, Take, Refuse, CountAttempt, DeadLetter, OpenBox, Judge,
           PushResult, Drop, ClearAttempts, redisVars, upkeepVars
  <2>2. QED
    BY <2>1 DEF Typed, TypeOK
<1>5. ASSUME NEW p \in Place \ {"off", "gone"}, NEW s, NEW v, Step(w, p, s, v),
             p \in Holding => s \in Range(processing'[w]),
             p = "boxed" => w \in boxes'
      PROVE  Orderly'
  BY <1>1, <1>2, <1>3, <1>4, <1>5, LoopOrderly
<1>6. ASSUME BackOff(w) PROVE Orderly'
  <2>1. Step(w, "idle", None, None)
    BY <1>6 DEF BackOff
  <2>2. "idle" \in Place \ {"off", "gone"} /\ "idle" \notin Holding /\ "idle" # "boxed"
    BY DEF Place, Holding, Running
  <2>3. QED
    BY <1>5, <2>1, <2>2
<1>7. CASE Take(w)
  <2>1. PICK s : s = Head(queue)
    OBVIOUS
  <2>2. s \in Submission
    BY <1>7, <2>1, RangeHeadTail DEF Take, Typed, TypeOK
  <2>3. s \in Range(processing'[w])
    BY <1>7, <2>1, <2>2, RangeAppend DEF Take, Typed, TypeOK
  <2>4. CASE Step(w, "picked", s, None)
    BY <1>5, <2>3, <2>4 DEF Place, Calling
  <2>5. QED
    BY <1>6, <1>7, <2>1, <2>4 DEF Take, Reply
<1>8. ASSUME processing' = processing, pc[w] \in Holding,
             NEW p \in Holding \ {"boxed"}, NEW v, Step(w, p, hand[w], v)
      PROVE  Orderly'
  <2>1. PICK s : s = hand[w]
    OBVIOUS
  <2>2. s \in Range(processing'[w])
    BY <1>8, <2>1 DEF Orderly, HandIsListed
  <2>3. p \in Place \ {"off", "gone"}
    BY DEF Holding, Place, Calling, Running
  <2>4. QED
    BY <1>5, <1>8, <2>1, <2>2, <2>3
<1>9. CASE Refuse(w) \/ CountAttempt(w) \/ DeadLetter(w) \/ Judge(w) \/ PushResult(w)
  <2>1. processing' = processing /\ pc[w] \in Holding
    BY <1>9 DEF Refuse, CountAttempt, DeadLetter, Judge, PushResult, redisVars, Holding
  <2>2. \/ BackOff(w)
        \/ \E p \in Holding \ {"boxed"}, v \in {None, InternalError, answer[w]} \cup Verdict :
             Step(w, p, hand[w], v)
    BY <1>9 DEF Refuse, CountAttempt, DeadLetter, Judge, PushResult, Reply, Holding, Running
  <2>3. QED
    BY <1>6, <1>8, <2>1, <2>2
<1>10. CASE OpenBox(w)
  <2>1. PICK s : s = hand[w]
    OBVIOUS
  <2>2. s \in Range(processing'[w]) /\ w \in boxes'
    BY <1>10, <2>1 DEF OpenBox, redisVars, Orderly, HandIsListed, Holding, Running
  <2>3. Step(w, "boxed", s, None) /\ "boxed" \in Place \ {"off", "gone"}
    BY <1>10, <2>1 DEF OpenBox, Place, Running
  <2>4. QED
    BY <1>5, <2>2, <2>3
<1>11. CASE Drop(w) \/ ClearAttempts(w)
  <2>1. \/ BackOff(w)
        \/ \E p \in {"dropped", "idle"}, s \in {hand[w], None} : Step(w, p, s, None)
    BY <1>11 DEF Drop, ClearAttempts, Reply
  <2>2. \A p \in {"dropped", "idle"} : p \in Place \ {"off", "gone"} /\ p \notin Holding
    BY DEF Place, Calling, Holding, Running
  <2>3. \A p \in {"dropped", "idle"} : p # "boxed"
    OBVIOUS
  <2>4. QED
    BY <1>5, <1>6, <2>1, <2>2, <2>3
<1>12. CASE CallFails(w)
  BY <1>6, <1>12 DEF CallFails
<1>13. QED
  BY <1>7, <1>9, <1>10, <1>11, <1>12 DEF HandleOne

\* Starting and leaving keep the order: announced first, withdrawn last.
LEMMA LifeOrderly ==
  ASSUME Typed, Orderly, NEW w \in Worker, Start(w) \/ Leave(w)
  PROVE  Orderly'
<1>1. CASE Start(w)
  <2>1. /\ pc[w] # "gone" /\ Step(w, "idle", None, None)
        /\ w \in heartbeat' /\ heartbeat \subseteq heartbeat'
        /\ sweep' = sweep /\ processing' = processing /\ boxes' = boxes
    BY <1>1 DEF Start, upkeepVars
  <2>2. "idle" \in Place \ {"off"} /\ "idle" \notin Holding /\ "idle" # "boxed"
    BY DEF Place, Holding, Running
  <2>3. QED
    BY <2>1, <2>2, LoopOrderly
<1>2. CASE Leave(w)
  <2>1. /\ pc[w] # "gone" /\ Step(w, "gone", None, None)
        /\ sweep' = [sweep EXCEPT ![w] = None] /\ processing' = processing
    BY <1>2 DEF Leave, Crash, Stop, Up, redisVars
  <2>2. \A x \in Worker : sweep'[x] \in {sweep[x], None}
    BY <2>1 DEF Typed, TypeOK
  <2>3. \A x \in Worker \ {w} :
          (x \in heartbeat => x \in heartbeat') /\ (x \in boxes' <=> x \in boxes)
    BY <1>2 DEF Leave, Crash, Stop, redisVars
  <2>4. "gone" \in Place \ {"off"} /\ "gone" \notin Holding /\ "gone" # "boxed"
    BY DEF Place, Holding, Running
  <2>5. QED
    BY <2>1, <2>2, <2>3, <2>4, LoopOrderly
<1>3. QED
  BY <1>1, <1>2

\* Maintenance takes nothing from anyone but the gone.
LEMMA MaintainOrderly ==
  ASSUME Typed, Orderly, NEW w \in Worker, Maintain(w) \/ PassFails(w)
  PROVE  Orderly'
<1>1. UNCHANGED <<pc, hand>> /\ heartbeat \subseteq heartbeat'
  BY DEF Maintain, PassFails, Announce, FindSilent, Drain, RemoveBox, RemovalRefused, loopVars, redisVars
<1>2. Announced'
  BY <1>1 DEF Orderly, Announced, Up
<1>3. ASSUME NEW o \in Worker, pc[o] = "gone",
             \A x \in Worker \ {o} : processing'[x] = processing[x] /\ (x \in boxes' <=> x \in boxes)
      PROVE  NewIsClean' /\ HandIsListed'
  <2>1. "gone" \notin Holding /\ "gone" # "boxed"
    BY DEF Holding, Running
  <2>2. QED
    BY <1>1, <1>3, <2>1 DEF Orderly, NewIsClean, HandIsListed
<1>4. ASSUME UNCHANGED <<processing, boxes>>
      PROVE  NewIsClean' /\ HandIsListed'
  BY <1>1, <1>4 DEF Orderly, NewIsClean, HandIsListed
<1>5. ASSUME \A x \in Worker : sweep'[x] \in {sweep[x], None}
      PROVE  SweepsTheGone'
  BY <1>1, <1>5 DEF Orderly, SweepsTheGone
<1>6. CASE Announce(w)
  <2>1. UNCHANGED <<processing, boxes, sweep>>
    BY <1>6 DEF Announce, upkeepVars
  <2>2. SweepsTheGone'
    BY <1>5, <2>1
  <2>3. NewIsClean' /\ HandIsListed'
    BY <1>4, <2>1
  <2>4. QED
    BY <1>2, <2>2, <2>3 DEF Orderly
<1>7. ASSUME NEW o \in Worker, FindSilent(w, o) PROVE Orderly'
  <2>1. pc[o] = "gone"
    <3>1. ~Up(o)
      BY <1>7 DEF FindSilent, Orderly, Announced
    <3>2. pc[o] # "off"
      BY <1>7 DEF FindSilent, Orderly, NewIsClean
    <3>3. QED
      BY <3>1, <3>2 DEF Up
  <2>2. \A x \in Worker : sweep'[x] = sweep[x] \/ sweep'[x][2] = o
    BY <1>7 DEF FindSilent, Typed, TypeOK
  <2>3. SweepsTheGone'
    BY <1>1, <2>1, <2>2 DEF Orderly, SweepsTheGone
  <2>4. UNCHANGED <<processing, boxes>>
    BY <1>7 DEF FindSilent, redisVars
  <2>5. QED
    BY <1>2, <1>4, <2>3, <2>4 DEF Orderly
<1>8. CASE Drain(w) \/ RemoveBox(w) \/ RemovalRefused(w)
  <2> DEFINE o == sweep[w][2]
  <2>1. o \in Worker /\ pc[o] = "gone"
    BY <1>8 DEF Drain, RemoveBox, RemovalRefused, Typed, TypeOK, Orderly, SweepsTheGone
  <2>2. \A x \in Worker \ {o} : processing'[x] = processing[x] /\ (x \in boxes' <=> x \in boxes)
    BY <1>8 DEF Drain, RemoveBox, RemovalRefused, redisVars, Typed, TypeOK
  <2>3. \A x \in Worker : sweep'[x] \in {sweep[x], None}
    BY <1>8 DEF Drain, RemoveBox, RemovalRefused, Typed, TypeOK
  <2>4. NewIsClean' /\ HandIsListed'
    BY <1>3, <2>1, <2>2
  <2>5. QED
    BY <1>2, <1>5, <2>3, <2>4 DEF Orderly
<1>9. CASE PassFails(w)
  <2>1. UNCHANGED <<processing, boxes>>
    BY <1>9 DEF PassFails, redisVars
  <2>2. \A x \in Worker : sweep'[x] \in {sweep[x], None}
    BY <1>9 DEF PassFails, Typed, TypeOK
  <2>3. QED
    BY <1>2, <1>4, <1>5, <2>1, <2>2 DEF Orderly
<1>10. QED
  BY <1>6, <1>7, <1>8, <1>9 DEF Maintain

\* A stall, once it happened, has happened.
LEMMA StallsStay ==
  ASSUME Typed, [Next]_vars, stalls' = 0
  PROVE  stalls = 0
<1>1. ASSUME NEW w \in Worker, HandleOne(w) \/ CallFails(w) PROVE stalls' = stalls
  BY <1>1 DEF HandleOne, CallFails, Take, Refuse, CountAttempt, DeadLetter, OpenBox,
              Judge, PushResult, Drop, ClearAttempts, upkeepVars
<1>2. ASSUME NEW w \in Worker, Maintain(w) \/ PassFails(w) \/ Start(w) \/ Leave(w)
      PROVE  stalls' = stalls
  BY <1>2 DEF Maintain, PassFails, Announce, FindSilent, Drain, RemoveBox, RemovalRefused, Start, Leave,
              Crash, Stop, upkeepVars
<1>3. ASSUME NEW w \in Worker, Expire(w) PROVE stalls = 0
  <2>1. stalls \in Nat /\ (stalls' = stalls \/ stalls' = stalls + 1)
    BY <1>3 DEF Expire, Typed, TypeOK
  <2>2. QED
    BY <2>1
<1>4. ASSUME NEW s \in Submission, Submit(s) \/ AttemptsExpire(s) PROVE stalls' = stalls
  BY <1>4 DEF Submit, AttemptsExpire, upkeepVars
<1>5. CASE TakeResult \/ UNCHANGED vars
  BY <1>5 DEF TakeResult, vars, upkeepVars
<1>6. QED
  BY <1>1, <1>2, <1>3, <1>4, <1>5 DEF Next, FleetNext, Fault

\* As long as nobody has stalled, every step leaves the fleet in order.
LEMMA NextOrderly ==
  ASSUME Guarded, [Next]_vars, stalls' = 0
  PROVE  Orderly'
<1>1. stalls = 0
  BY StallsStay DEF Guarded
<1>2. Typed /\ Orderly
  BY <1>1 DEF Guarded
<1>3. CASE UNCHANGED <<processing, heartbeat, boxes, pc, hand, sweep>>
  BY <1>2, <1>3 DEF Orderly, Announced, SweepsTheGone, NewIsClean, HandIsListed, Up
<1>4. ASSUME NEW s \in Submission, Submit(s) \/ AttemptsExpire(s)
      PROVE  UNCHANGED <<processing, heartbeat, boxes, pc, hand, sweep>>
  BY <1>4 DEF Submit, AttemptsExpire, loopVars, upkeepVars
<1>5. TakeResult \/ UNCHANGED vars => UNCHANGED <<processing, heartbeat, boxes, pc, hand, sweep>>
  BY DEF TakeResult, vars, redisVars, loopVars, upkeepVars
<1>6. ASSUME NEW w \in Worker, Expire(w) PROVE Orderly'
  <2>1. /\ pc[w] = "gone" /\ heartbeat' = heartbeat \ {w}
        /\ UNCHANGED <<processing, boxes, pc, hand, sweep>>
    <3>1. stalls' # stalls + 1
      BY <1>1
    <3>2. QED
      BY <1>6, <3>1 DEF Expire, loopVars
  <2>2. QED
    BY <1>2, <2>1 DEF Orderly, Announced, SweepsTheGone, NewIsClean, HandIsListed, Up
<1>7. QED
  BY <1>2, <1>3, <1>4, <1>5, <1>6, HandleOneOrderly, LifeOrderly, MaintainOrderly
  DEF Next, FleetNext, Fault

\* While every live worker has announced itself in time, what it is judging stays
\* on its own list and its sandbox in place, whatever its siblings' maintenance
\* does (worker.py:98-133): for every fleet, whatever else fails.
THEOREM NobodyTakesLiveWork == Spec => []WorkInHandIsKept
<1>1. Init => Guarded
  <2>1. "off" \in Place \ (Calling \cup Running) /\ "off" \notin Holding /\ "off" # "boxed"
    BY DEF Place, Calling, Running, Holding
  <2>2. QED
    BY <2>1 DEF Init, Guarded, Typed, TypeOK, LoopTyped, Orderly, Announced,
                SweepsTheGone, NewIsClean, HandIsListed, Up
<1>2. Guarded /\ [Next]_vars => Guarded'
  BY NextTyped, NextOrderly DEF Guarded
<1>3. Guarded => WorkInHandIsKept
  BY DEF Guarded, Orderly, HandIsListed, WorkInHandIsKept
<1>4. QED
  BY <1>1, <1>2, <1>3, PTL DEF Spec

---------------------------------------------------------------------------
(* One judge.  A submission has one entry on all the lists, for the queue  *)
(* gets it once, and Redis moves entries and never copies one.  So two     *)
(* loops cannot both have it on their lists; and the loop that has dropped *)
(* it has it for itself, for it is on no list and comes back to none.      *)

OneEntry(s) ==
  /\ Copies(queue, s) <= 1
  /\ \A w \in Worker :
       /\ Copies(processing[w], s) <= 1
       /\ Copies(processing[w], s) > 0 => Copies(queue, s) = 0
  /\ \A v, w \in Worker : v # w /\ Copies(processing[v], s) > 0 => Copies(processing[w], s) = 0
  /\ Waiting(s) => s \in submitted

\* What a loop that dropped its submission may rely on.
DoneWith(w) ==
  pc[w] = "dropped" =>
    /\ hand[w] \in submitted /\ ~Waiting(hand[w])
    /\ \A v \in Worker : v # w /\ pc[v] = "dropped" => hand[v] # hand[w]

Sole ==
  /\ Guarded
  /\ \A s \in Submission : OneEntry(s)
  /\ stalls = 0 => \A w \in Worker : DoneWith(w)

\* On a list is to be there at least once.
LEMMA ListedCopies ==
  ASSUME NEW q \in Seq(Submission), NEW p \in [Worker -> Seq(Submission)], NEW s
  PROVE  /\ Copies(q, s) \in Nat /\ \A w \in Worker : Copies(p[w], s) \in Nat
         /\ s \in Range(q) <=> Copies(q, s) > 0
         /\ \A w \in Worker : s \in Range(p[w]) <=> Copies(p[w], s) > 0
BY CopiesType

LEMMA WaitingCopies ==
  ASSUME Typed, NEW s
  PROVE  /\ Copies(queue, s) \in Nat /\ \A w \in Worker : Copies(processing[w], s) \in Nat
         /\ Waiting(s) <=> Copies(queue, s) > 0 \/ \E w \in Worker : Copies(processing[w], s) > 0
BY ListedCopies DEF Typed, TypeOK, Waiting

LEMMA WaitingCopiesNext ==
  ASSUME Typed', NEW s
  PROVE  /\ Copies(queue', s) \in Nat /\ \A w \in Worker : Copies(processing'[w], s) \in Nat
         /\ Waiting(s)' <=> Copies(queue', s) > 0 \/ \E w \in Worker : Copies(processing'[w], s) > 0
BY ListedCopies DEF Typed, TypeOK, Waiting

\* The web process pushes a submission once.
LEMMA SubmitOnce ==
  ASSUME Typed, Typed', NEW x \in Submission, Submit(x),
         NEW s \in Submission, OneEntry(s)
  PROVE  OneEntry(s)' /\ (Waiting(s)' => Waiting(s) \/ s \notin submitted)
<1>1. /\ x \notin submitted /\ submitted' = submitted \cup {x}
      /\ queue' = Append(queue, x) /\ processing' = processing
  BY DEF Submit
<1>2. Copies(queue', s) = Copies(queue, s) + (IF s = x THEN 1 ELSE 0)
  BY <1>1, CopiesAppend DEF Typed, TypeOK
<1>3. CASE s = x
  <2>1. ~Waiting(s)
    BY <1>1, <1>3 DEF OneEntry
  <2>2. Copies(queue, s) = 0 /\ \A w \in Worker : Copies(processing[w], s) = 0
    BY <2>1, WaitingCopies
  <2>3. QED
    BY <1>1, <1>2, <1>3, <2>2 DEF OneEntry
<1>4. CASE s # x
  <2>1. Copies(queue', s) = Copies(queue, s)
    BY <1>2, <1>4, WaitingCopies
  <2>2. Waiting(s)' <=> Waiting(s)
    <3>1. /\ Waiting(s) <=> Copies(queue, s) > 0 \/ \E w \in Worker : Copies(processing[w], s) > 0
          /\ Waiting(s)' <=> Copies(queue', s) > 0 \/ \E w \in Worker : Copies(processing'[w], s) > 0
      BY WaitingCopies, WaitingCopiesNext
    <3>2. QED
      BY <1>1, <2>1, <3>1
  <2>3. QED
    BY <1>1, <1>4, <2>1, <2>2 DEF OneEntry
<1>5. QED
  BY <1>3, <1>4

\* A move between the queue and one worker's list, or off that list, leaves one
\* entry at most, and puts nothing on the lists.
LEMMA MoveOnce ==
  ASSUME Typed, Typed', NEW o \in Worker, NEW s \in Submission, OneEntry(s),
         submitted' = submitted,
         \A w \in Worker \ {o} : processing'[w] = processing[w],
         Copies(queue', s) + Copies(processing'[o], s) <= Copies(queue, s) + Copies(processing[o], s)
  PROVE  OneEntry(s)' /\ (Waiting(s)' => Waiting(s))
<1> DEFINE a == Copies(queue, s)
           b == Copies(processing[o], s)
           c == Copies(queue', s)
           d == Copies(processing'[o], s)
<1>1. /\ a \in Nat /\ b \in Nat
      /\ Waiting(s) <=> a > 0 \/ \E w \in Worker : Copies(processing[w], s) > 0
      /\ \A w \in Worker : Copies(processing[w], s) \in Nat
  BY WaitingCopies
<1>2. /\ c \in Nat /\ d \in Nat
      /\ Waiting(s)' <=> c > 0 \/ \E w \in Worker : Copies(processing'[w], s) > 0
  BY WaitingCopiesNext
<1>3. a <= 1 /\ b <= 1 /\ (b > 0 => a = 0)
  BY DEF OneEntry
<1>4. c + d <= a + b
  OBVIOUS
<1>5. ASSUME NEW w \in Worker, w # o
      PROVE  /\ Copies(processing'[w], s) = Copies(processing[w], s)
             /\ Copies(processing[w], s) <= 1
             /\ Copies(processing[w], s) > 0 => a = 0 /\ b = 0
  BY <1>5 DEF OneEntry
<1>6. Waiting(s)' => Waiting(s)
  <2>1. c > 0 \/ d > 0 => a > 0 \/ b > 0
    BY <1>1, <1>2, <1>4
  <2>2. QED
    BY <1>1, <1>2, <1>5, <2>1
<1>7. \A w \in Worker : /\ Copies(processing'[w], s) <= 1
                        /\ Copies(processing'[w], s) > 0 => Copies(queue', s) = 0
  <2> SUFFICES ASSUME NEW w \in Worker
               PROVE  /\ Copies(processing'[w], s) <= 1
                      /\ Copies(processing'[w], s) > 0 => c = 0
    OBVIOUS
  <2>1. CASE w = o
    <3>1. d <= 1 /\ (d > 0 => c = 0)
      BY <1>1, <1>2, <1>3, <1>4
    <3>2. QED
      BY <2>1, <3>1
  <2>2. CASE w # o
    <3>1. a = 0 /\ b = 0 => c = 0
      BY <1>2, <1>4
    <3>2. QED
      BY <1>5, <2>2, <3>1
  <2>3. QED
    BY <2>1, <2>2
<1>8. ASSUME NEW v \in Worker, NEW w \in Worker, v # w, Copies(processing'[v], s) > 0
      PROVE  Copies(processing'[w], s) = 0
  <2>1. CASE v # o /\ w # o
    BY <1>5, <1>8, <2>1 DEF OneEntry
  <2>2. CASE v = o
    <3>1. w # o /\ d > 0
      BY <1>8, <2>2
    <3>2. a > 0 \/ b > 0
      BY <1>1, <1>2, <1>4, <3>1
    <3>3. ~(Copies(processing[w], s) > 0)
      BY <1>5, <1>1, <3>1, <3>2
    <3>4. QED
      BY <1>1, <1>5, <3>1, <3>3
  <2>3. CASE w = o /\ v # o
    <3>1. a = 0 /\ b = 0
      BY <1>5, <1>8, <2>3
    <3>2. d = 0
      BY <1>2, <1>4, <3>1
    <3>3. QED
      BY <2>3, <3>2
  <2>4. QED
    BY <2>1, <2>2, <2>3
<1>9. Copies(queue', s) <= 1
  BY <1>1, <1>2, <1>3, <1>4
<1>10. QED
  BY <1>6, <1>7, <1>8, <1>9 DEF OneEntry

\* Every step leaves each submission at most one entry, and lists none again.
LEMMA NextOneEntry ==
  ASSUME Typed, Typed', [Next]_vars, NEW s \in Submission, OneEntry(s)
  PROVE  OneEntry(s)' /\ (Waiting(s)' => Waiting(s) \/ s \notin submitted)
<1>1. queue \in Seq(Submission) /\ processing \in [Worker -> Seq(Submission)]
  BY DEF Typed, TypeOK
<1>2. ASSUME NEW w \in Worker, Take(w)
      PROVE  OneEntry(s)' /\ (Waiting(s)' => Waiting(s))
  <2>1. PICK h : h = Head(queue)
    OBVIOUS
  <2>2. /\ queue # <<>> /\ queue' = Tail(queue) /\ submitted' = submitted
        /\ processing' = [processing EXCEPT ![w] = Append(@, h)]
    BY <1>2, <2>1 DEF Take, histVars
  <2>3. h \in Submission
    BY <1>1, <2>1, <2>2, RangeHeadTail
  <2>4. Copies(queue, s) = Copies(queue', s) + (IF s = h THEN 1 ELSE 0)
    BY <1>1, <2>1, <2>2, CopiesHeadTail
  <2>5. Copies(processing'[w], s) = Copies(processing[w], s) + (IF s = h THEN 1 ELSE 0)
    BY <1>1, <2>2, <2>3, CopiesAppend
  <2>6. Copies(queue', s) + Copies(processing'[w], s) <= Copies(queue, s) + Copies(processing[w], s)
    BY <2>4, <2>5, WaitingCopies, WaitingCopiesNext
  <2>7. \A v \in Worker \ {w} : processing'[v] = processing[v]
    BY <1>1, <2>2
  <2>8. QED
    BY <2>2, <2>6, <2>7, MoveOnce
<1>3. ASSUME NEW w \in Worker, Drop(w)
      PROVE  OneEntry(s)' /\ (Waiting(s)' => Waiting(s))
  <2>1. PICK h : h = hand[w]
    OBVIOUS
  <2>2. /\ queue' = queue /\ submitted' = submitted
        /\ processing' = [processing EXCEPT ![w] = RemoveFirst(@, h)]
    BY <1>3, <2>1 DEF Drop, histVars
  <2>3. processing'[w] = RemoveFirst(processing[w], h)
    BY <1>1, <2>2
  <2>4. Copies(processing'[w], s) =
          IF s = h /\ s \in Range(processing[w]) THEN Copies(processing[w], s) - 1
                                                 ELSE Copies(processing[w], s)
    BY <1>1, <2>3, CopiesRemoveFirst
  <2>5. Copies(queue', s) + Copies(processing'[w], s) <= Copies(queue, s) + Copies(processing[w], s)
    BY <2>2, <2>4, WaitingCopies
  <2>6. \A v \in Worker \ {w} : processing'[v] = processing[v]
    BY <1>1, <2>2
  <2>7. QED
    BY <2>2, <2>5, <2>6, MoveOnce
<1>4. ASSUME NEW w \in Worker, Drain(w)
      PROVE  OneEntry(s)' /\ (Waiting(s)' => Waiting(s))
  <2>1. PICK o : o = sweep[w][2]
    OBVIOUS
  <2>2. o \in Worker /\ submitted' = submitted
    BY <1>4, <2>1 DEF Drain, Typed, TypeOK, histVars
  <2>3. CASE processing[o] = <<>>
    <3>1. UNCHANGED <<queue, processing>>
      BY <1>4, <2>1, <2>3 DEF Drain
    <3>2. Copies(queue', s) + Copies(processing'[o], s) <= Copies(queue, s) + Copies(processing[o], s)
      BY <2>2, <3>1, WaitingCopies
    <3>3. QED
      BY <2>2, <3>1, <3>2, MoveOnce
  <2>4. CASE processing[o] # <<>>
    <3>1. PICK h : h = Head(processing[o])
      OBVIOUS
    <3>2. queue' = <<h>> \o queue /\ processing' = [processing EXCEPT ![o] = Tail(@)]
      BY <1>4, <2>1, <2>4, <3>1 DEF Drain
    <3>3. h \in Submission /\ processing'[o] = Tail(processing[o])
      BY <1>1, <2>2, <2>4, <3>1, <3>2, RangeHeadTail
    <3>4. Copies(queue', s) = Copies(queue, s) + (IF s = h THEN 1 ELSE 0)
      BY <1>1, <3>2, <3>3, CopiesPush
    <3>5. Copies(processing[o], s) = Copies(processing'[o], s) + (IF s = h THEN 1 ELSE 0)
      BY <1>1, <2>2, <2>4, <3>1, <3>3, CopiesHeadTail
    <3>6. Copies(queue', s) + Copies(processing'[o], s) <= Copies(queue, s) + Copies(processing[o], s)
      BY <2>2, <3>4, <3>5, WaitingCopies, WaitingCopiesNext
    <3>7. \A v \in Worker \ {o} : processing'[v] = processing[v]
      BY <1>1, <3>2
    <3>8. QED
      BY <2>2, <3>6, <3>7, MoveOnce
  <2>5. QED
    BY <2>3, <2>4
<1>5. CASE UNCHANGED <<queue, processing, submitted>>
  BY <1>5 DEF OneEntry, Waiting
<1>6. QED
  BY <1>2, <1>3, <1>4, <1>5, SubmitOnce, NextKeepsLists

\* A loop comes to "dropped" by its own lrem alone.
LEMMA ToDropped ==
  ASSUME Typed, [Next]_vars, NEW w \in Worker, pc'[w] = "dropped"
  PROVE  /\ hand'[w] = hand[w]
         /\ pc[w] = "dropped" \/ (Drop(w) /\ pc[w] = "pushed")
<1>1. ASSUME NEW v \in Worker, NEW p, NEW s, NEW a, Step(v, p, s, a), p # "dropped"
      PROVE  pc[w] = "dropped" /\ hand'[w] = hand[w]
  BY <1>1 DEF Step, Typed, LoopTyped
<1>2. ASSUME NEW v \in Worker, NEW p, NEW s, NEW a, Reply(v, p, s, a), p # "dropped"
      PROVE  pc[w] = "dropped" /\ hand'[w] = hand[w]
  BY <1>1, <1>2 DEF Reply, BackOff
<1>3. CASE UNCHANGED <<pc, hand>>
  BY <1>3
<1>4. ASSUME NEW v \in Worker, HandleOne(v) PROVE
        /\ hand'[w] = hand[w]
        /\ pc[w] = "dropped" \/ (Drop(w) /\ pc[w] = "pushed")
  <2>1. CASE Take(v) \/ Refuse(v) \/ DeadLetter(v) \/ PushResult(v) \/ ClearAttempts(v)
    BY <1>2, <2>1 DEF Take, Refuse, DeadLetter, PushResult, ClearAttempts
  <2>2. CASE CountAttempt(v)
    BY <1>1, <1>2, <2>2 DEF CountAttempt, BackOff
  <2>3. CASE OpenBox(v) \/ Judge(v)
    BY <1>1, <2>3 DEF OpenBox, Judge
  <2>4. CASE Drop(v)
    <3>1. CASE Step(v, "idle", None, None)
      BY <1>1, <3>1
    <3>2. CASE pc[v] = "pushed" /\ Step(v, "dropped", hand[v], None)
      BY <2>4, <3>2 DEF Step, Typed, LoopTyped
    <3>3. QED
      BY <2>4, <3>1, <3>2 DEF Drop, Reply, BackOff
  <2>5. QED
    BY <1>4, <2>1, <2>2, <2>3, <2>4 DEF HandleOne
<1>5. ASSUME NEW v \in Worker, Start(v) \/ Leave(v) \/ CallFails(v)
      PROVE  pc[w] = "dropped" /\ hand'[w] = hand[w]
  <2>1. \E p \in {"idle", "gone"} : Step(v, p, None, None)
    BY <1>5 DEF Start, Leave, Crash, Stop, CallFails, BackOff
  <2>2. QED
    BY <1>1, <2>1
<1>6. ASSUME \/ \E v \in Worker : Maintain(v) \/ Expire(v) \/ PassFails(v)
             \/ \E s \in Submission : Submit(s) \/ AttemptsExpire(s)
             \/ TakeResult \/ UNCHANGED vars
      PROVE  UNCHANGED <<pc, hand>>
  BY <1>6 DEF Maintain, Announce, FindSilent, Drain, RemoveBox, RemovalRefused, Expire, PassFails, Submit,
              AttemptsExpire, TakeResult, vars, loopVars
<1>7. QED
  BY <1>3, <1>4, <1>5, <1>6 DEF Next, FleetNext, Fault

\* Redis takes the one entry of a submission that its judge drops.
LEMMA DropEnds ==
  ASSUME Typed, Typed', [Next]_vars, NEW w \in Worker, Drop(w), NEW s \in Submission, s = hand[w],
         OneEntry(s), s \in Range(processing[w])
  PROVE  s \in submitted /\ ~Waiting(s)'
<1>1. processing \in [Worker -> Seq(Submission)]
  BY DEF Typed, TypeOK
<1>2. queue' = queue /\ processing' = [processing EXCEPT ![w] = RemoveFirst(@, s)]
  BY DEF Drop
<1>3. Copies(processing[w], s) > 0 /\ Copies(processing[w], s) \in Nat
  BY <1>1, CopiesType
<1>4. /\ Copies(processing[w], s) = 1 /\ Copies(queue, s) = 0
      /\ \A v \in Worker \ {w} : Copies(processing[v], s) = 0
  BY <1>3 DEF OneEntry
<1>5. Copies(processing'[w], s) = Copies(processing[w], s) - 1
  BY <1>1, <1>2, CopiesRemoveFirst
<1>6. \A v \in Worker : Copies(processing'[v], s) = 0
  BY <1>1, <1>2, <1>4, <1>5
<1>7. ~Waiting(s)'
  BY <1>2, <1>4, <1>6, WaitingCopiesNext
<1>8. s \in submitted
  BY DEF OneEntry, Waiting
<1>9. QED
  BY <1>7, <1>8

\* What was pushed to the queue stays pushed.
LEMMA SubmittedStays ==
  ASSUME [Next]_vars
  PROVE  submitted \subseteq submitted'
<1>1. ASSUME NEW s \in Submission, Submit(s) PROVE submitted \subseteq submitted'
  BY <1>1 DEF Submit
<1>2. ASSUME NEW w \in Worker, Take(w) \/ Drop(w) \/ Drain(w) PROVE submitted' = submitted
  BY <1>2 DEF Take, Drop, Drain, histVars
<1>3. QED
  BY <1>1, <1>2, NextKeepsLists

\* One lrem at a time.
LEMMA TwoDrops ==
  ASSUME Typed, Typed', NEW v \in Worker, NEW w \in Worker, v # w, Drop(v), Drop(w),
         pc'[v] = "dropped", pc'[w] = "dropped"
  PROVE  hand'[v] # hand'[w]
<1>1. Step(v, "dropped", hand[v], None) \/ Step(v, "idle", None, None)
  BY DEF Drop, Reply, BackOff
<1>2. pc[w] \in {"pushed", "refused"} /\ pc'[w] = pc[w]
  BY <1>1 DEF Drop, Step, Typed, LoopTyped
<1>3. QED
  BY <1>2

LEMMA NextSole == Sole /\ [Next]_vars => Sole'
<1> SUFFICES ASSUME Sole, [Next]_vars PROVE Sole'
  OBVIOUS
<1>1. Typed /\ Typed' /\ Guarded'
  BY NextTyped, NextOrderly DEF Sole, Guarded
<1>2. ASSUME NEW s \in Submission
      PROVE  OneEntry(s)' /\ (Waiting(s)' => Waiting(s) \/ s \notin submitted)
  BY <1>1, NextOneEntry DEF Sole
<1>3. ASSUME stalls' = 0, NEW w \in Worker PROVE DoneWith(w)'
  <2>1. stalls = 0 /\ Orderly /\ \A v \in Worker : DoneWith(v)
    BY <1>1, <1>3, StallsStay DEF Sole, Guarded
  <2>2. ASSUME NEW v \in Worker, pc'[v] = "dropped"
        PROVE  /\ hand'[v] = hand[v] /\ hand[v] \in Submission
               /\ \/ pc[v] = "dropped"
                  \/ Drop(v) /\ hand[v] \in Range(processing[v])
    <3>1. hand'[v] = hand[v] /\ (pc[v] = "dropped" \/ (Drop(v) /\ pc[v] = "pushed"))
      BY <1>1, <2>2, ToDropped
    <3>2. "pushed" \in Holding /\ {"pushed", "dropped"} \subseteq Calling
      BY DEF Holding, Calling
    <3>3. QED
      BY <1>1, <2>1, <3>1, <3>2 DEF Orderly, HandIsListed, Typed, LoopTyped
  <2>3. ASSUME NEW s \in Submission, NEW v \in Worker, pc'[v] = "dropped", s = hand[v]
        PROVE  s \in submitted /\ ~Waiting(s)'
    <3>1. CASE pc[v] = "dropped"
      BY <1>2, <2>1, <2>3, <3>1 DEF DoneWith
    <3>2. CASE Drop(v) /\ hand[v] \in Range(processing[v])
      BY <1>1, <2>3, <3>2, DropEnds DEF Sole
    <3>3. QED
      BY <2>2, <2>3, <3>1, <3>2
  <2>4. ASSUME NEW v \in Worker, NEW u \in Worker, v # u,
               pc[u] = "dropped", hand[u] = hand[v], hand[v] \in Submission,
               hand[v] \in Range(processing[v])
        PROVE  FALSE
    <3>1. ~Waiting(hand[u])
      BY <2>1, <2>4 DEF DoneWith
    <3>2. Waiting(hand[v])
      BY <2>4 DEF Waiting
    <3>3. QED
      BY <2>4, <3>1, <3>2
  <2>5. ASSUME NEW v \in Worker, v # w, pc'[v] = "dropped", pc'[w] = "dropped"
        PROVE  hand'[v] # hand'[w]
    <3>1. CASE pc[v] = "dropped" /\ pc[w] = "dropped"
      BY <2>1, <2>2, <2>5, <3>1 DEF DoneWith
    <3>2. CASE Drop(v) /\ Drop(w)
      BY <1>1, <2>5, <3>2, TwoDrops
    <3>3. QED
      BY <2>2, <2>4, <2>5, <3>1, <3>2
  <2>6. ASSUME pc'[w] = "dropped"
        PROVE  hand'[w] \in submitted' /\ ~Waiting(hand[w])'
    <3>1. PICK s : s = hand[w]
      OBVIOUS
    <3>2. s \in Submission /\ hand'[w] = s
      BY <2>2, <2>6, <3>1
    <3>3. s \in submitted /\ ~Waiting(s)'
      BY <2>3, <2>6, <3>1, <3>2
    <3>4. QED
      BY <3>2, <3>3, SubmittedStays DEF Waiting
  <2>7. QED
    BY <2>5, <2>6 DEF DoneWith, Waiting
<1>4. QED
  BY <1>1, <1>2, <1>3 DEF Sole

LEMMA InitSole == Init => Sole
<1> SUFFICES ASSUME Init PROVE Sole
  OBVIOUS
<1>1. "off" \in Place \ (Calling \cup Running) /\ "off" \notin Holding
      /\ "off" # "boxed" /\ "off" # "dropped"
  BY DEF Place, Calling, Running, Holding
<1>2. Guarded
  BY <1>1 DEF Init, Guarded, Typed, TypeOK, LoopTyped, Orderly, Announced,
              SweepsTheGone, NewIsClean, HandIsListed, Up
<1>3. ASSUME NEW s \in Submission PROVE OneEntry(s)
  <2>1. ~Waiting(s)
    BY DEF Init, Waiting, Range
  <2>2. Typed
    BY <1>2 DEF Guarded
  <2>3. Copies(queue, s) = 0 /\ \A w \in Worker : Copies(processing[w], s) = 0
    BY <2>1, <2>2, WaitingCopies
  <2>4. QED
    BY <2>1, <2>3 DEF OneEntry
<1>4. \A w \in Worker : DoneWith(w)
  BY <1>1 DEF Init, DoneWith
<1>5. QED
  BY <1>2, <1>3, <1>4 DEF Sole

\* While every live worker has announced itself in time, no submission is judged by
\* two of them at once (worker.py:28-62, 88-112): for every fleet.
THEOREM NobodyJudgesTwice == Spec => []OneJudge
<1>1. Init => Sole
  BY InitSole
<1>2. Sole => OneJudge
  <2> SUFFICES ASSUME Sole, stalls = 0,
                      NEW v \in Worker, NEW w \in Worker, v # w, hand[v] # None, hand[v] = hand[w]
               PROVE  FALSE
    BY DEF OneJudge
  <2>1. Typed /\ Orderly /\ (\A x \in Worker : DoneWith(x)) /\ \A s \in Submission : OneEntry(s)
    BY DEF Sole, Guarded
  <2>2. ASSUME NEW x \in Worker, hand[x] # None
        PROVE  /\ hand[x] \in Submission
               /\ pc[x] = "dropped" \/ hand[x] \in Range(processing[x])
    <3>1. pc[x] \in Calling \cup Running
      BY <2>1, <2>2 DEF Typed, LoopTyped
    <3>2. pc[x] = "dropped" \/ pc[x] \in Holding
      BY <3>1 DEF Calling, Holding
    <3>3. QED
      BY <2>1, <3>1, <3>2 DEF Typed, LoopTyped, Orderly, HandIsListed
  <2>3. CASE pc[v] = "dropped" /\ pc[w] = "dropped"
    BY <2>1, <2>3 DEF DoneWith
  <2>4. CASE hand[v] \in Range(processing[v]) /\ hand[w] \in Range(processing[w])
    <3>1. PICK s \in Submission : s = hand[v]
      BY <2>2
    <3>2. Copies(processing[v], s) > 0 /\ Copies(processing[w], s) > 0
      BY <2>1, <2>4, <3>1, CopiesType DEF Typed, TypeOK
    <3>3. QED
      BY <2>1, <3>2 DEF OneEntry
  <2>5. CASE \/ pc[v] = "dropped" /\ hand[w] \in Range(processing[w])
             \/ pc[w] = "dropped" /\ hand[v] \in Range(processing[v])
    BY <2>1, <2>5 DEF DoneWith, Waiting
  <2>6. QED
    BY <2>2, <2>3, <2>4, <2>5
<1>3. QED
  BY <1>1, <1>2, NextSole, PTL DEF Spec

---------------------------------------------------------------------------
(* Poison.  Every run of a submission is paid for with its attempt counter *)
(* before it begins.  The counter is cleared by the loop that dropped the  *)
(* submission, which is then on no list and is never run again: so it is   *)
(* enough that what still waits, or will, has a counter that covers it.    *)

Covered(s) ==
  /\ runs[s] <= MaxAttempts
  /\ Waiting(s) \/ s \notin submitted => runs[s] <= attempts[s]

Bounded == Sole /\ (stalls = 0 /\ lapses = 0 => \A s \in Submission : Covered(s))

\* Only three actions touch the counter, and only one of them runs a submission.
LEMMA NextKeepsCounts ==
  ASSUME [Next]_vars,
         ~ \E w \in Worker : CountAttempt(w) \/ ClearAttempts(w),
         ~ \E s \in Submission : AttemptsExpire(s)
  PROVE  UNCHANGED <<attempts, runs, lapses>>
<1>1. CASE TakeResult \/ UNCHANGED vars
  BY <1>1 DEF TakeResult, vars, redisVars, histVars, upkeepVars
<1>2. ASSUME NEW s \in Submission, Submit(s) PROVE UNCHANGED <<attempts, runs, lapses>>
  BY <1>2 DEF Submit, upkeepVars
<1>3. ASSUME NEW w \in Worker, HandleOne(w) PROVE UNCHANGED <<attempts, runs, lapses>>
  BY <1>3 DEF HandleOne, Take, Refuse, DeadLetter, OpenBox, Judge, PushResult, Drop,
              redisVars, histVars, upkeepVars
<1>4. ASSUME NEW w \in Worker,
             Maintain(w) \/ Start(w) \/ Leave(w) \/ Expire(w) \/ Fault(w)
      PROVE  UNCHANGED <<attempts, runs, lapses>>
  BY <1>4 DEF Maintain, Announce, FindSilent, Drain, RemoveBox, RemovalRefused, Start, Leave, Crash, Stop,
              Expire, Fault, CallFails, PassFails, redisVars, histVars, upkeepVars
<1>5. QED
  BY <1>1, <1>2, <1>3, <1>4 DEF Next, FleetNext

\* A lapse, once it happened, has happened.
LEMMA LapsesStay ==
  ASSUME Typed, [Next]_vars, lapses' = 0
  PROVE  lapses = 0 /\ ~ \E s \in Submission : AttemptsExpire(s)
<1>1. ASSUME NEW s \in Submission, AttemptsExpire(s) PROVE FALSE
  <2>1. lapses \in Nat /\ lapses' = lapses + 1
    BY <1>1 DEF AttemptsExpire, Typed, TypeOK
  <2>2. QED
    BY <2>1
<1>2. ASSUME NEW w \in Worker, CountAttempt(w) \/ ClearAttempts(w) PROVE lapses' = lapses
  BY <1>2 DEF CountAttempt, ClearAttempts, upkeepVars
<1>3. QED
  BY <1>1, <1>2, NextKeepsCounts

\* A run is counted before it begins.
LEMMA CountCovers ==
  ASSUME Typed, Orderly, NEW w \in Worker, CountAttempt(w), NEW s \in Submission, Covered(s),
         Waiting(s)' => Waiting(s) \/ s \notin submitted, submitted \subseteq submitted'
  PROVE  Covered(s)'
<1>1. PICK h : h = hand[w]
  OBVIOUS
<1>2. /\ h \in Submission /\ attempts \in [Submission -> Nat] /\ runs \in [Submission -> Nat]
      /\ MaxAttempts \in Nat
  BY <1>1, BoundAssumption DEF CountAttempt, Typed, TypeOK, LoopTyped, Calling
<1>3. /\ attempts' = [attempts EXCEPT ![h] = @ + 1]
      /\ \/ UNCHANGED runs
         \/ runs' = [runs EXCEPT ![h] = @ + 1] /\ attempts'[h] <= MaxAttempts
  BY <1>1 DEF CountAttempt
<1>4. Waiting(h)
  BY <1>1 DEF CountAttempt, Orderly, HandIsListed, Holding, Waiting
<1>5. Waiting(s)' \/ s \notin submitted' => Waiting(s) \/ s \notin submitted
  OBVIOUS
<1>6. CASE s = h
  <2>1. runs[s] <= MaxAttempts /\ runs[s] <= attempts[s]
    BY <1>4, <1>6 DEF Covered
  <2>2. /\ attempts'[s] = attempts[s] + 1
        /\ runs'[s] = runs[s] \/ (runs'[s] = runs[s] + 1 /\ attempts'[s] <= MaxAttempts)
        /\ attempts[s] \in Nat /\ runs[s] \in Nat
    BY <1>2, <1>3, <1>6
  <2>3. runs'[s] <= MaxAttempts /\ runs'[s] <= attempts'[s]
    BY <1>2, <2>1, <2>2
  <2>4. QED
    BY <2>3 DEF Covered
<1>7. CASE s # h
  <2>1. runs'[s] = runs[s] /\ attempts'[s] = attempts[s]
    BY <1>2, <1>3, <1>7
  <2>2. QED
    BY <1>5, <2>1 DEF Covered
<1>8. QED
  BY <1>6, <1>7

\* The counter is cleared for a submission that waits nowhere.
LEMMA ClearCovers ==
  ASSUME Typed, NEW w \in Worker, DoneWith(w), ClearAttempts(w), NEW s \in Submission, Covered(s)
  PROVE  Covered(s)'
<1>1. PICK h : h = hand[w]
  OBVIOUS
<1>2. /\ attempts' = [attempts EXCEPT ![h] = 0]
      /\ UNCHANGED <<runs, queue, processing, submitted>>
  BY <1>1 DEF ClearAttempts, histVars
<1>3. h \in submitted /\ ~Waiting(h)
  BY <1>1 DEF ClearAttempts, DoneWith
<1>4. Waiting(s)' <=> Waiting(s)
  BY <1>2 DEF Waiting
<1>5. CASE s = h
  BY <1>2, <1>3, <1>4, <1>5 DEF Covered
<1>6. CASE s # h
  <2>1. attempts'[s] = attempts[s]
    BY <1>2, <1>6 DEF Typed, TypeOK
  <2>2. QED
    BY <1>2, <1>4, <2>1 DEF Covered
<1>7. QED
  BY <1>5, <1>6

LEMMA NextBounded == Bounded /\ [Next]_vars => Bounded'
<1> SUFFICES ASSUME Bounded, [Next]_vars PROVE Bounded'
  OBVIOUS
<1>1. Sole /\ Sole' /\ Typed /\ Typed'
  BY NextSole DEF Bounded, Sole, Guarded
<1>2. ASSUME stalls' = 0, lapses' = 0, NEW s \in Submission PROVE Covered(s)'
  <2>1. /\ stalls = 0 /\ lapses = 0 /\ ~ \E x \in Submission : AttemptsExpire(x)
        /\ Covered(s)
    BY <1>1, <1>2, StallsStay, LapsesStay DEF Bounded
  <2>2. Orderly /\ \A w \in Worker : DoneWith(w)
    BY <1>1, <2>1 DEF Sole, Guarded
  <2>3. (Waiting(s)' => Waiting(s) \/ s \notin submitted) /\ submitted \subseteq submitted'
    BY <1>1, NextOneEntry, SubmittedStays DEF Sole
  <2>4. CASE \E w \in Worker : CountAttempt(w)
    BY <1>1, <2>1, <2>2, <2>3, <2>4, CountCovers
  <2>5. CASE \E w \in Worker : ClearAttempts(w)
    BY <1>1, <2>1, <2>2, <2>5, ClearCovers
  <2>6. CASE ~ \E w \in Worker : CountAttempt(w) \/ ClearAttempts(w)
    <3>1. UNCHANGED <<attempts, runs>>
      BY <2>1, <2>6, NextKeepsCounts
    <3>2. QED
      BY <2>1, <2>3, <3>1 DEF Covered
  <2>7. QED
    BY <2>4, <2>5, <2>6
<1>3. QED
  BY <1>1, <1>2 DEF Bounded

\* A submission that keeps killing its worker is run at most max_attempts times, unless
\* a live worker went silent or the counter's own expiry passed (worker.py:45-55): for
\* every fleet and every number of crashes.
THEOREM PoisonIsContained == Spec => []PoisonBounded
<1>1. Init => Bounded
  <2> SUFFICES ASSUME Init PROVE Bounded
    OBVIOUS
  <2>1. Sole
    BY InitSole
  <2>2. \A s \in Submission : Covered(s)
    BY BoundAssumption DEF Init, Covered
  <2>3. QED
    BY <2>1, <2>2 DEF Bounded
<1>2. Bounded => PoisonBounded
  BY DEF Bounded, Covered, PoisonBounded
<1>3. QED
  BY <1>1, <1>2, NextBounded, PTL DEF Spec
---------------------------------------------------------------------------
(* For the chain: the fleet works on what was submitted and on nothing     *)
(* else, and its invariants do not mind what the consumer does to          *)
(* judge:results.                                                          *)

OnlySubmitted ==
  /\ Range(queue) \subseteq submitted
  /\ \A w \in Worker : Range(processing[w]) \subseteq submitted
  /\ \A w \in Worker : hand[w] # None => hand[w] \in submitted
  /\ \A m \in emitted : m.sub \in submitted

\* A loop may take up what was submitted.
LEMMA StepSubmitted ==
  ASSUME Typed, OnlySubmitted, submitted \subseteq submitted',
         NEW w \in Worker, NEW p, NEW s, NEW v,
         \/ Step(w, p, s, v) /\ (s = None \/ s \in submitted)
         \/ Reply(w, p, s, v) /\ (s = None \/ s \in submitted)
         \/ BackOff(w)
  PROVE  \A x \in Worker : hand'[x] # None => hand'[x] \in submitted'
<1>1. hand \in [Worker -> Submission \cup {None}]
  BY DEF Typed, LoopTyped
<1>2. \E t : (t = None \/ t \in submitted) /\ hand' = [hand EXCEPT ![w] = t]
  BY DEF Reply, BackOff, Step
<1>3. QED
  BY <1>1, <1>2 DEF OnlySubmitted

LEMMA NextHandsSubmitted ==
  ASSUME Typed, OnlySubmitted, [Next]_vars
  PROVE  \A x \in Worker : hand'[x] # None => hand'[x] \in submitted'
<1>1. submitted \subseteq submitted'
  BY SubmittedStays
<1>2. CASE UNCHANGED hand
  BY <1>1, <1>2 DEF OnlySubmitted
<1>3. ASSUME NEW w \in Worker, Take(w)
      PROVE  \A x \in Worker : hand'[x] # None => hand'[x] \in submitted'
  <2>1. Head(queue) \in submitted
    BY <1>3, RangeHeadTail DEF Take, Typed, TypeOK, OnlySubmitted
  <2>2. Reply(w, "picked", Head(queue), None)
    BY <1>3 DEF Take
  <2>3. QED
    BY <1>1, <2>1, <2>2, StepSubmitted
<1>4. ASSUME NEW w \in Worker,
             \/ Refuse(w) \/ CountAttempt(w) \/ DeadLetter(w) \/ OpenBox(w) \/ Judge(w)
             \/ PushResult(w) \/ Drop(w) \/ ClearAttempts(w)
             \/ Start(w) \/ Leave(w) \/ CallFails(w)
      PROVE  \A x \in Worker : hand'[x] # None => hand'[x] \in submitted'
  <2>1. \/ \E p, v : \E s \in {None, hand[w]} : Step(w, p, s, v) \/ Reply(w, p, s, v)
        \/ BackOff(w)
    BY <1>4 DEF Refuse, CountAttempt, DeadLetter, OpenBox, Judge, PushResult, Drop,
                ClearAttempts, Start, Leave, Crash, Stop, CallFails
  <2>2. \A s \in {None, hand[w]} : s = None \/ s \in submitted
    BY DEF OnlySubmitted
  <2>3. QED
    BY <1>1, <2>1, <2>2, StepSubmitted
<1>5. ASSUME NEW w \in Worker, Maintain(w) \/ Expire(w) \/ PassFails(w)
      PROVE  UNCHANGED hand
  BY <1>5 DEF Maintain, Announce, FindSilent, Drain, RemoveBox, RemovalRefused, Expire, PassFails, loopVars
<1>6. ASSUME NEW s \in Submission, Submit(s) \/ AttemptsExpire(s)
      PROVE  UNCHANGED hand
  BY <1>6 DEF Submit, AttemptsExpire, loopVars
<1>7. TakeResult \/ UNCHANGED vars => UNCHANGED hand
  BY DEF TakeResult, vars, loopVars
<1>8. QED
  BY <1>2, <1>3, <1>4, <1>5, <1>6, <1>7 DEF Next, FleetNext, HandleOne, Fault

\* The lists hold what was submitted: a step moves entries, and only Submit adds one.
LEMMA NextListsSubmitted ==
  ASSUME Typed, OnlySubmitted, [Next]_vars
  PROVE  /\ Range(queue') \subseteq submitted'
         /\ \A v \in Worker : Range(processing'[v]) \subseteq submitted'
<1>1. queue \in Seq(Submission) /\ processing \in [Worker -> Seq(Submission)]
  BY DEF Typed, TypeOK
<1>2. ASSUME NEW s \in Submission, Submit(s)
      PROVE  Range(queue') = Range(queue) \cup {s} /\ processing' = processing
  BY <1>1, <1>2, RangeAppend DEF Submit
<1>3. ASSUME NEW w \in Worker, Take(w)
      PROVE  /\ Range(queue') \subseteq submitted
             /\ \A v \in Worker : Range(processing'[v]) \subseteq submitted
  <2>1. /\ Head(queue) \in submitted /\ Head(queue) \in Submission
        /\ Range(queue') \subseteq submitted
    BY <1>1, <1>3, RangeHeadTail DEF Take, OnlySubmitted
  <2>2. Range(Append(processing[w], Head(queue))) = Range(processing[w]) \cup {Head(queue)}
    BY <1>1, <2>1, RangeAppend
  <2>3. processing' = [processing EXCEPT ![w] = Append(@, Head(queue))]
    BY <1>3 DEF Take
  <2>4. QED
    BY <1>1, <2>1, <2>2, <2>3 DEF OnlySubmitted
<1>4. ASSUME NEW w \in Worker, Drop(w)
      PROVE  /\ queue' = queue
             /\ \A v \in Worker : Range(processing'[v]) \subseteq submitted
  <2>1. PICK h : h = hand[w]
    OBVIOUS
  <2>2. queue' = queue /\ processing' = [processing EXCEPT ![w] = RemoveFirst(@, h)]
    BY <1>4, <2>1 DEF Drop
  <2>3. Range(RemoveFirst(processing[w], h)) \subseteq Range(processing[w])
    BY <1>1, RangeRemoveFirst
  <2>4. QED
    BY <1>1, <2>2, <2>3 DEF OnlySubmitted
<1>5. ASSUME NEW w \in Worker, Drain(w)
      PROVE  /\ Range(queue') \subseteq submitted
             /\ \A v \in Worker : Range(processing'[v]) \subseteq submitted
  <2> DEFINE o == sweep[w][2]
  <2>1. o \in Worker
    BY <1>5 DEF Drain, Typed, TypeOK
  <2>2. CASE processing[o] # <<>>
    <3>1. /\ queue' = <<Head(processing[o])>> \o queue
          /\ processing' = [processing EXCEPT ![o] = Tail(@)]
      BY <1>5, <2>2 DEF Drain
    <3>2. /\ Head(processing[o]) \in Submission
          /\ Range(processing[o]) = {Head(processing[o])} \cup Range(Tail(processing[o]))
      BY <1>1, <2>1, <2>2, RangeHeadTail
    <3>3. Range(queue') = {Head(processing[o])} \cup Range(queue)
      BY <1>1, <3>1, <3>2, RangePush
    <3>4. Head(processing[o]) \in submitted /\ Range(Tail(processing[o])) \subseteq submitted
      BY <2>1, <3>2 DEF OnlySubmitted
    <3>5. QED
      BY <1>1, <3>1, <3>3, <3>4 DEF OnlySubmitted
  <2>3. CASE processing[o] = <<>>
    BY <1>5, <2>3 DEF Drain, OnlySubmitted
  <2>4. QED
    BY <2>2, <2>3
<1>6. submitted \subseteq submitted'
  BY SubmittedStays
<1>7. ASSUME NEW s \in Submission, Submit(s) PROVE s \in submitted'
  BY <1>7 DEF Submit
<1>8. QED
  BY <1>2, <1>3, <1>4, <1>5, <1>6, <1>7, NextKeepsLists DEF OnlySubmitted

\* The fleet does one thing to judge:results, and submits nothing.
LEMMA OnePush ==
  ASSUME FleetNext
  PROVE  /\ UNCHANGED <<results, emitted>> \/ \E w \in Worker : PushResult(w)
         /\ UNCHANGED submitted
<1>1. ASSUME NEW s \in Submission, AttemptsExpire(s)
      PROVE  UNCHANGED <<results, emitted, submitted>>
  BY <1>1 DEF AttemptsExpire, histVars
<1>2. ASSUME NEW w \in Worker, HandleOne(w)
      PROVE  /\ UNCHANGED <<results, emitted>> \/ PushResult(w)
             /\ UNCHANGED submitted
  BY <1>2 DEF HandleOne, Take, Refuse, CountAttempt, DeadLetter, OpenBox, Judge,
              PushResult, Drop, ClearAttempts, redisVars, histVars
<1>3. ASSUME NEW w \in Worker,
             Maintain(w) \/ Start(w) \/ Leave(w) \/ Expire(w) \/ Fault(w)
      PROVE  UNCHANGED <<results, emitted, submitted>>
  BY <1>3 DEF Maintain, Announce, FindSilent, Drain, RemoveBox, RemovalRefused, Start, Leave, Crash,
              Stop, Expire, Fault, CallFails, PassFails, redisVars, histVars
<1>4. QED
  BY <1>1, <1>2, <1>3 DEF FleetNext

LEMMA NextOnlySubmitted ==
  ASSUME Typed, OnlySubmitted, [Next]_vars
  PROVE  OnlySubmitted'
<1>1. ASSUME NEW m \in emitted' PROVE m.sub \in submitted'
  <2>1. submitted \subseteq submitted'
    BY SubmittedStays
  <2>2. ASSUME NEW w \in Worker, PushResult(w) PROVE m.sub \in submitted
    <3>1. hand[w] \in submitted
      BY <2>2, SubmissionAssumption DEF PushResult, OnlySubmitted, Typed, LoopTyped, Calling
    <3>2. m \in emitted \/ m = [sub |-> hand[w], verdict |-> answer[w]]
      BY <1>1, <2>2 DEF PushResult
    <3>3. QED
      BY <3>1, <3>2 DEF OnlySubmitted
  <2>3. CASE emitted' = emitted
    BY <1>1, <2>1, <2>3 DEF OnlySubmitted
  <2>4. CASE FleetNext
    BY <2>1, <2>2, <2>3, <2>4, OnePush
  <2>5. QED
    BY <2>3, <2>4 DEF Next, TakeResult, Submit, vars, histVars
<1>2. QED
  BY <1>1, NextHandsSubmitted, NextListsSubmitted DEF OnlySubmitted

\* The consumer takes results, and puts some back.
LEMMA ResultsMoved ==
  ASSUME Kept, OnlySubmitted, results' \in Seq(Message),
         UNCHANGED <<queue, processing, dead, attempts, heartbeat, boxes, pc, hand, answer,
                     sweep, faults, stalls, lapses, submitted, emitted, runs>>
  PROVE  Kept' /\ OnlySubmitted'
<1>1. Typed'
  BY DEF Kept, Typed, TypeOK, LoopTyped
<1>2. \A s : /\ Waiting(s) <=> Waiting(s)'
             /\ Answered(s) <=> Answered(s)'
             /\ Refused(s) <=> Refused(s)'
  BY DEF Waiting, Answered, Refused
<1>3. NoSubmissionLost'
  BY <1>2 DEF Kept, NoSubmissionLost
<1>4. \A w \in Worker : Honest(w)'
  BY DEF Kept, Honest, Answered, Refused
<1>5. QED
  BY <1>1, <1>3, <1>4 DEF Kept, OnlySubmitted

=============================================================================
