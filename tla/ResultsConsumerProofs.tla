----------------------- MODULE ResultsConsumerProofs -----------------------
(***************************************************************************)
(* Theorems about ResultsConsumer, for every set of consumers, submissions *)
(* and verdicts and for every bound.                                       *)
(***************************************************************************)
EXTENDS ResultsConsumer, QueueLemmas

---------------------------------------------------------------------------
(* Types.  A consumer that processes a message has one.                    *)

Busy == Calling \cup {"picked", "committed"}

HandsTyped ==
  /\ at \in [Consumer -> Place]
  /\ msg \in [Consumer -> Message \cup {None}]
  /\ faults \in Nat
  /\ \A c \in Consumer : at[c] \in Busy => msg[c] \in Message

Typed == TypeOK /\ HandsTyped

\* A step of one consumer to a place its message fits.
LEMMA StepTyped ==
  ASSUME HandsTyped, faults' \in Nat,
         NEW c \in Consumer, NEW p \in Place, NEW m \in Message \cup {None},
         p \in Busy => m \in Message,
         Step(c, p, m)
  PROVE  HandsTyped'
BY DEF HandsTyped, Step

\* The exception path only ever goes back to the start of the loop.
LEMMA BackOffTyped ==
  ASSUME HandsTyped, NEW c \in Consumer, BackOff(c)
  PROVE  HandsTyped'
<1>1. "idle" \in Place \ Busy
  BY DEF Place, Calling, Busy
<1>2. faults' \in Nat /\ Step(c, "idle", None)
  BY DEF BackOff, HandsTyped
<1>3. QED
  BY <1>1, <1>2, StepTyped

LEMMA ReplyTyped ==
  ASSUME HandsTyped,
         NEW c \in Consumer, NEW p \in Place, NEW m \in Message \cup {None},
         p \in Busy => m \in Message,
         Reply(c, p, m)
  PROVE  HandsTyped'
<1>1. CASE Step(c, p, m) /\ UNCHANGED faults
  BY <1>1, StepTyped DEF HandsTyped
<1>2. CASE BackOff(c)
  BY <1>2, BackOffTyped
<1>3. QED
  BY <1>1, <1>2 DEF Reply

\* The ends of a message, and the calls on its way, in the terms of StepTyped.
LEMMA Places ==
  /\ Calling \subseteq Place /\ Calling \subseteq Busy
  /\ {"picked", "committed"} \subseteq Place \cap Busy
  /\ {"off", "recovering", "idle"} \subseteq Place \ Busy
BY DEF Place, Calling, Busy

\* A counter of a submission goes up by one or back to zero.
LEMMA CounterTyped ==
  ASSUME NEW f \in [Submission -> Nat], NEW s \in Submission
  PROVE  /\ [f EXCEPT ![s] = @ + 1] \in [Submission -> Nat]
         /\ [f EXCEPT ![s] = 0] \in [Submission -> Nat]
OBVIOUS

---------------------------------------------------------------------------
(* Types survive every step, group by group.                               *)

\* What the environment does to rows and to the queue.
LEMMA OthersTyped ==
  ASSUME Typed,
         \/ \E s \in Submission : Create(s) \/ Delete(s) \/ TriesExpire(s)
         \/ \E m \in Message : Arrive(m)
  PROVE  Typed'
<1> USE DEF Typed
<1>1. ASSUME NEW s \in Submission, Create(s) \/ Delete(s) PROVE Typed'
  <2>1. row' \in [Submission -> {"none", "pending", "deleted"} \cup Verdict]
    BY <1>1 DEF Create, Delete, TypeOK
  <2>2. UNCHANGED <<results, inflight, buried, emitted, tries, at, msg, told, failures, faults, exits>>
    BY <1>1 DEF Create, Delete, listVars
  <2>3. QED
    BY <2>1, <2>2 DEF TypeOK, HandsTyped
<1>2. ASSUME NEW s \in Submission, TriesExpire(s) PROVE Typed'
  <2>1. tries' \in [Submission -> Nat]
    BY <1>2, CounterTyped DEF TriesExpire, TypeOK
  <2>2. QED
    BY <1>2, <2>1 DEF TriesExpire, TypeOK, HandsTyped, listVars
<1>3. ASSUME NEW m \in Message, Arrive(m) PROVE Typed'
  <2>1. results' \in Seq(Message)
    BY <1>3, RangeAppend DEF Arrive, TypeOK
  <2>2. QED
    BY <1>3, <2>1 DEF Arrive, TypeOK, HandsTyped
<1>4. QED
  BY <1>1, <1>2, <1>3

\* The start of a consumer, its end, and the calls that raise.
LEMMA LifeTyped ==
  ASSUME Typed, NEW c \in Consumer, Start(c) \/ Exit(c) \/ CallFails(c)
  PROVE  Typed'
<1> USE DEF Typed
<1>1. HandsTyped'
  <2>1. CASE Start(c)
    BY <2>1, StepTyped, Places DEF Start, HandsTyped
  <2>2. CASE Exit(c)
    BY <2>2, StepTyped, Places DEF Exit, HandsTyped
  <2>3. CASE CallFails(c)
    BY <2>3, BackOffTyped DEF CallFails
  <2>4. QED
    BY <2>1, <2>2, <2>3
<1>2. exits' \in Nat
  BY DEF Start, Exit, CallFails, TypeOK
<1>3. UNCHANGED <<results, inflight, buried, emitted, tries, row, told, failures>>
  BY DEF Start, Exit, CallFails, listVars
<1>4. QED
  BY <1>1, <1>2, <1>3 DEF TypeOK, HandsTyped

\* The calls that move messages between the lists.
LEMMA ListsTyped ==
  ASSUME Typed, NEW c \in Consumer,
         RecoverOrphans(c) \/ Take(c) \/ Refuse(c) \/ Requeue(c) \/ GiveUp(c) \/ Drop(c)
  PROVE  Typed'
<1> USE DEF Typed
<1>1. ASSUME results' \in Seq(Message), inflight' \in Seq(Message),
             buried' \subseteq Message, HandsTyped',
             UNCHANGED <<emitted, tries, row, told, failures, exits>>
      PROVE  Typed'
  BY <1>1 DEF TypeOK, HandsTyped
<1>2. CASE RecoverOrphans(c)
  <2>1. ASSUME inflight # <<>> PROVE Typed'
    <3>1. results' = <<Head(inflight)>> \o results /\ inflight' = Tail(inflight)
      BY <1>2, <2>1 DEF RecoverOrphans
    <3>2. Head(inflight) \in Message /\ inflight' \in Seq(Message)
      BY <2>1, <3>1, RangeHeadTail DEF TypeOK
    <3>3. results' \in Seq(Message)
      BY <3>1, <3>2, RangePush DEF TypeOK
    <3>4. QED
      BY <1>1, <1>2, <2>1, <3>2, <3>3 DEF RecoverOrphans, TypeOK, HandsTyped
  <2>2. ASSUME inflight = <<>> PROVE Typed'
    <3>1. HandsTyped'
      BY <1>2, <2>2, StepTyped, Places DEF RecoverOrphans, HandsTyped
    <3>2. QED
      BY <1>1, <1>2, <2>2, <3>1 DEF RecoverOrphans, TypeOK
  <2>3. QED
    BY <2>1, <2>2
<1>3. CASE Take(c)
  <2>1. Head(results) \in Message /\ results' \in Seq(Message)
    BY <1>3, RangeHeadTail DEF Take, TypeOK
  <2>2. inflight' \in Seq(Message)
    BY <1>3, <2>1, RangeAppend DEF Take, TypeOK
  <2>3. HandsTyped'
    <3>1. \E p \in {"refusable", "picked"} : Reply(c, p, Head(results))
      BY <1>3 DEF Take
    <3>2. {"refusable", "picked"} \subseteq Place
      BY DEF Place, Calling
    <3>3. QED
      BY <2>1, <3>1, <3>2, ReplyTyped
  <2>4. QED
    BY <1>1, <1>3, <2>1, <2>2, <2>3 DEF Take, TypeOK
<1>4. ASSUME at[c] \in Calling PROVE msg[c] \in Message
  BY <1>4, Places DEF HandsTyped
<1>5. CASE Refuse(c) \/ GiveUp(c)
  <2>1. msg[c] \in Message
    BY <1>4, <1>5 DEF Refuse, GiveUp, Calling
  <2>2. HandsTyped'
    <3>1. \E p \in {"refused", "given_up"} : Reply(c, p, msg[c])
      BY <1>5 DEF Refuse, GiveUp
    <3>2. {"refused", "given_up"} \subseteq Place
      BY DEF Place, Calling
    <3>3. QED
      BY <2>1, <3>1, <3>2, ReplyTyped
  <2>3. buried' = buried \cup {msg[c]}
    BY <1>5 DEF Refuse, GiveUp
  <2>4. UNCHANGED <<results, inflight, emitted, tries, row, told, failures, exits>>
    BY <1>5 DEF Refuse, GiveUp
  <2>5. QED
    BY <1>1, <2>1, <2>2, <2>3, <2>4 DEF TypeOK
<1>6. CASE Requeue(c)
  <2>1. msg[c] \in Message
    BY <1>4, <1>6 DEF Requeue, Calling
  <2>2. HandsTyped'
    <3>1. Reply(c, "requeued", msg[c]) /\ "requeued" \in Place
      BY <1>6 DEF Requeue, Place, Calling
    <3>2. QED
      BY <2>1, <3>1, ReplyTyped
  <2>3. results' \in Seq(Message)
    BY <1>6, <2>1, RangeAppend DEF Requeue, TypeOK
  <2>4. QED
    BY <1>1, <1>6, <2>2, <2>3 DEF Requeue, TypeOK
<1>7. CASE Drop(c)
  <2>1. msg[c] \in Message
    BY <1>4, <1>7 DEF Drop, Calling
  <2>2. HandsTyped'
    <3>1. Reply(c, "forget", msg[c]) \/ Reply(c, "idle", None)
      BY <1>7 DEF Drop
    <3>2. "forget" \in Place /\ "idle" \in Place \ Busy
      BY DEF Place, Calling, Busy
    <3>3. QED
      BY <2>1, <3>1, <3>2, ReplyTyped
  <2>3. inflight' \in Seq(Message)
    BY <1>7, RangeRemoveFirst DEF Drop, TypeOK
  <2>4. QED
    BY <1>1, <1>7, <2>2, <2>3 DEF Drop, TypeOK
<1>8. QED
  BY <1>2, <1>3, <1>5, <1>6, <1>7

\* The transaction, its hooks, and the counting of failures.
LEMMA ApplyTyped ==
  ASSUME Typed, NEW c \in Consumer,
         Apply(c) \/ Broadcast(c) \/ ApplyFails(c) \/ CountFailure(c) \/ ClearTries(c)
  PROVE  Typed'
<1> USE DEF Typed
<1>1. msg[c] \in Message /\ msg[c].sub \in Submission /\ msg[c].verdict \in Verdict
  BY DEF HandsTyped, Busy, Calling, Apply, Broadcast, ApplyFails, CountFailure, ClearTries, Message
<1>2. HandsTyped'
  <2>1. CASE Apply(c) \/ Broadcast(c) \/ ApplyFails(c)
    <3>1. UNCHANGED faults /\ \E p \in {"committed", "settled", "failed"} : Step(c, p, msg[c])
      BY <2>1 DEF Apply, Broadcast, ApplyFails
    <3>2. {"committed", "settled", "failed"} \subseteq Place
      BY DEF Place, Calling
    <3>3. QED
      BY <1>1, <3>1, <3>2, StepTyped DEF HandsTyped
  <2>2. CASE CountFailure(c) \/ ClearTries(c)
    <3>1. \/ \E p \in {"giveup", "requeue", "cleared"} : Reply(c, p, msg[c])
          \/ Reply(c, "idle", None)
      BY <2>2 DEF CountFailure, ClearTries
    <3>2. {"giveup", "requeue", "cleared"} \subseteq Place /\ "idle" \in Place \ Busy
      BY DEF Place, Calling, Busy
    <3>3. QED
      BY <1>1, <3>1, <3>2, ReplyTyped
  <2>3. QED
    BY <2>1, <2>2
<1>3. row' \in [Submission -> {"none", "pending", "deleted"} \cup Verdict]
  <2>1. UNCHANGED row \/ row' = [row EXCEPT ![msg[c].sub] = msg[c].verdict]
    BY DEF Apply, Broadcast, ApplyFails, CountFailure, ClearTries
  <2>2. QED
    BY <1>1, <2>1 DEF TypeOK
<1>4. tries' \in [Submission -> Nat]
  <2>1. \/ UNCHANGED tries
        \/ tries' = [tries EXCEPT ![msg[c].sub] = @ + 1]
        \/ tries' = [tries EXCEPT ![msg[c].sub] = 0]
    BY DEF Apply, Broadcast, ApplyFails, CountFailure, ClearTries
  <2>2. tries \in [Submission -> Nat]
    BY DEF TypeOK
  <2>3. QED
    BY <1>1, <2>1, <2>2, CounterTyped
<1>5. told' \in [Submission -> Nat]
  <2>1. UNCHANGED told \/ told' = [told EXCEPT ![msg[c].sub] = @ + 1]
    BY DEF Apply, Broadcast, ApplyFails, CountFailure, ClearTries
  <2>2. told \in [Submission -> Nat]
    BY DEF TypeOK
  <2>3. QED
    BY <1>1, <2>1, <2>2, CounterTyped
<1>6. failures' \in [Submission -> Nat]
  <2>1. UNCHANGED failures \/ failures' = [failures EXCEPT ![msg[c].sub] = @ + 1]
    BY DEF Apply, Broadcast, ApplyFails, CountFailure, ClearTries
  <2>2. failures \in [Submission -> Nat]
    BY DEF TypeOK
  <2>3. QED
    BY <1>1, <2>1, <2>2, CounterTyped
<1>7. UNCHANGED <<results, inflight, buried, emitted, exits>>
  BY DEF Apply, Broadcast, ApplyFails, CountFailure, ClearTries, listVars
<1>8. QED
  BY <1>2, <1>3, <1>4, <1>5, <1>6, <1>7 DEF TypeOK, HandsTyped

LEMMA NextTyped == Typed /\ [Next]_vars => Typed'
<1> SUFFICES ASSUME Typed, [Next]_vars
             PROVE  Typed'
  OBVIOUS
<1>1. CASE UNCHANGED vars
  BY <1>1 DEF vars, listVars, Typed, TypeOK, HandsTyped
<1>2. CASE Next
  BY <1>2, OthersTyped, LifeTyped, ListsTyped, ApplyTyped DEF Next, ConsumerNext, Consume
<1>3. QED
  BY <1>1, <1>2

\* Every variable of the consumers keeps its type, and process_message always has
\* a message (consume_judge_results.py:77-125).
THEOREM TypeCorrect == Spec => []TypeOK
<1>1. Init => Typed
  BY Places DEF Init, Typed, TypeOK, HandsTyped
<1>2. Typed => TypeOK
  BY DEF Typed
<1>3. QED
  BY <1>1, <1>2, NextTyped, PTL DEF Spec

---------------------------------------------------------------------------
(* The row.  Only a creation, a deletion and a committed transaction write *)
(* it, and the last finds it pending.                                      *)

LEMMA RowSteps ==
  ASSUME [Next]_vars
  PROVE  \/ UNCHANGED row
         \/ \E s \in Submission : row[s] = "none" /\ row' = [row EXCEPT ![s] = "pending"]
         \/ \E s \in Submission : row' = [row EXCEPT ![s] = "deleted"]
         \/ \E c \in Consumer :
              Apply(c) /\ row[msg[c].sub] = "pending"
                       /\ row' = [row EXCEPT ![msg[c].sub] = msg[c].verdict]
<1>1. CASE UNCHANGED vars
  BY <1>1 DEF vars
<1>2. ASSUME NEW s \in Submission, Create(s) \/ Delete(s) \/ TriesExpire(s)
      PROVE  \/ UNCHANGED row
             \/ row[s] = "none" /\ row' = [row EXCEPT ![s] = "pending"]
             \/ row' = [row EXCEPT ![s] = "deleted"]
  BY <1>2 DEF Create, Delete, TriesExpire
<1>3. ASSUME NEW m \in Message, Arrive(m) PROVE UNCHANGED row
  BY <1>3 DEF Arrive
<1>4. ASSUME NEW c \in Consumer,
             \/ RecoverOrphans(c) \/ Take(c) \/ Refuse(c) \/ Requeue(c) \/ GiveUp(c) \/ Drop(c)
             \/ Broadcast(c) \/ ApplyFails(c) \/ CountFailure(c) \/ ClearTries(c)
             \/ Start(c) \/ Exit(c) \/ CallFails(c)
      PROVE  UNCHANGED row
  BY <1>4 DEF RecoverOrphans, Take, Refuse, Requeue, GiveUp, Drop, Broadcast, ApplyFails,
              CountFailure, ClearTries, Start, Exit, CallFails
<1>5. ASSUME NEW c \in Consumer, Apply(c)
      PROVE  \/ UNCHANGED row
             \/ /\ row[msg[c].sub] = "pending"
                /\ row' = [row EXCEPT ![msg[c].sub] = msg[c].verdict]
  BY <1>5 DEF Apply
<1>6. QED
  BY <1>1, <1>2, <1>3, <1>4, <1>5 DEF Next, ConsumerNext, Consume

\* The message of a transaction names a submission and a verdict.
LEMMA ApplyHasMessage ==
  ASSUME Typed, NEW c \in Consumer, at[c] \in {"picked", "committed"}
  PROVE  msg[c].sub \in Submission /\ msg[c].verdict \in Verdict
BY DEF Typed, HandsTyped, Busy, Message

LEMMA VerdictStays ==
  ASSUME Typed, [Next]_vars, NEW s \in Submission, row[s] \in Verdict
  PROVE  row'[s] \in {row[s], "deleted"}
<1>1. row \in [Submission -> {"none", "pending", "deleted"} \cup Verdict]
  BY DEF Typed, TypeOK
<1>2. row[s] # "none" /\ row[s] # "pending"
  BY ConsumerAssumption
<1>3. ASSUME NEW c \in Consumer, Apply(c), row[msg[c].sub] = "pending",
             row' = [row EXCEPT ![msg[c].sub] = msg[c].verdict]
      PROVE  row'[s] = row[s]
  BY <1>1, <1>2, <1>3
<1>4. QED
  BY <1>1, <1>2, <1>3, RowSteps

\* A verdict never changes once it is on the row, whatever is delivered again,
\* answered twice or retried, and however many consumers race
\* (consume_judge_results.py:57-63).
THEOREM VerdictsAreFinal == Spec => VerdictFinal
<1>1. Init => Typed
  BY Places DEF Init, Typed, TypeOK, HandsTyped
<1>2. Typed /\ [Next]_vars =>
        [\A s \in Submission : row[s] \in Verdict => row'[s] \in {row[s], "deleted"}]_row
  BY VerdictStays
<1>3. QED
  BY <1>1, <1>2, NextTyped, PTL DEF Spec, VerdictFinal

LEMMA SettledStays ==
  ASSUME Typed, [Next]_vars, NEW s \in Submission, Settled(s)
  PROVE  Settled(s)'
<1>1. row \in [Submission -> {"none", "pending", "deleted"} \cup Verdict]
  BY DEF Typed, TypeOK
<1>2. row[s] # "none" /\ row[s] # "pending"
  BY ConsumerAssumption DEF Settled
<1>3. ASSUME NEW c \in Consumer, Apply(c), row[msg[c].sub] = "pending",
             row' = [row EXCEPT ![msg[c].sub] = msg[c].verdict]
      PROVE  row'[s] = row[s]
  BY <1>1, <1>2, <1>3
<1>4. row'[s] = row[s] \/ row'[s] = "deleted"
  BY <1>1, <1>2, <1>3, RowSteps
<1>5. QED
  BY <1>4 DEF Settled

---------------------------------------------------------------------------
(* Broadcasts.  A submission was told of its verdict, or one consumer is   *)
(* about to tell it, or neither: a transaction that finds the row pending  *)
(* finds it so for the last time.                                          *)

Telling(c, s) == at[c] = "committed" /\ msg[c].sub = s

AtMostOnce(s) ==
  /\ told[s] <= 1
  /\ told[s] = 1 => Settled(s)
  /\ \A c \in Consumer : Telling(c, s) => told[s] = 0 /\ Settled(s)
  /\ \A c, d \in Consumer : Telling(c, s) /\ Telling(d, s) => c = d

Once == Typed /\ \A s \in Submission : AtMostOnce(s)

\* A step that tells nobody and commits nothing.
LEMMA Quiet ==
  ASSUME Once, [Next]_vars, UNCHANGED told, NEW s \in Submission,
         \A c \in Consumer : Telling(c, s)' => Telling(c, s)
  PROVE  AtMostOnce(s)'
<1>1. AtMostOnce(s) /\ (Settled(s) => Settled(s)')
  BY SettledStays DEF Once
<1>2. QED
  BY <1>1 DEF AtMostOnce

\* A consumer that moves anywhere but to "committed" tells nobody.
LEMMA OtherPlaces ==
  ASSUME Typed, NEW c \in Consumer, NEW p \in Place, p # "committed", NEW m, Step(c, p, m),
         NEW s \in Submission, NEW d \in Consumer, Telling(d, s)'
  PROVE  Telling(d, s) /\ d # c
BY DEF Typed, TypeOK, Step, Telling

LEMMA BackOffQuiet ==
  ASSUME Typed, NEW c \in Consumer, BackOff(c),
         NEW s \in Submission, NEW d \in Consumer, Telling(d, s)'
  PROVE  Telling(d, s)
BY Places, OtherPlaces DEF BackOff

LEMMA ReplyQuiet ==
  ASSUME Typed, NEW c \in Consumer, NEW p \in Calling \cup {"idle", "picked"}, NEW m, Reply(c, p, m),
         NEW s \in Submission, NEW d \in Consumer, Telling(d, s)'
  PROVE  Telling(d, s)
<1>1. p \in Place /\ p # "committed"
  BY DEF Place, Calling
<1>2. QED
  BY <1>1, OtherPlaces, BackOffQuiet DEF Reply

\* Every step but those of the transaction and its hooks.
LEMMA OthersQuiet ==
  ASSUME Once, [Next]_vars, NEW s \in Submission,
         ~ \E c \in Consumer : Apply(c) \/ Broadcast(c) \/ ApplyFails(c)
  PROVE  AtMostOnce(s)'
<1> USE DEF Once
<1>1. CASE UNCHANGED vars
  BY <1>1, Quiet DEF vars, Telling
<1>2. ASSUME NEW r \in Submission, Create(r) \/ Delete(r) \/ TriesExpire(r)
      PROVE  AtMostOnce(s)'
  BY <1>2, Quiet DEF Create, Delete, TriesExpire, Telling
<1>3. ASSUME NEW m \in Message, Arrive(m) PROVE AtMostOnce(s)'
  BY <1>3, Quiet DEF Arrive, Telling
<1>4. ASSUME NEW c \in Consumer, Start(c) \/ Exit(c) \/ CallFails(c) PROVE AtMostOnce(s)'
  <2>1. UNCHANGED told
    BY <1>4 DEF Start, Exit, CallFails
  <2>2. BackOff(c) \/ \E p \in {"recovering", "off"} : Step(c, p, None)
    BY <1>4 DEF Start, Exit, CallFails
  <2>3. {"recovering", "off"} \subseteq Place \ {"committed"}
    BY DEF Place
  <2>4. \A d \in Consumer : Telling(d, s)' => Telling(d, s)
    BY <2>2, <2>3, OtherPlaces, BackOffQuiet
  <2>5. QED
    BY <2>1, <2>4, Quiet
<1>5. ASSUME NEW c \in Consumer, RecoverOrphans(c) PROVE AtMostOnce(s)'
  <2>1. UNCHANGED told /\ (UNCHANGED <<at, msg>> \/ Step(c, "idle", None))
    BY <1>5 DEF RecoverOrphans
  <2>2. "idle" \in Place
    BY Places
  <2>3. \A d \in Consumer : Telling(d, s)' => Telling(d, s)
    BY <2>1, <2>2, OtherPlaces DEF Telling
  <2>4. QED
    BY <2>1, <2>3, Quiet
<1>6. ASSUME NEW c \in Consumer,
             \/ Take(c) \/ Refuse(c) \/ Requeue(c) \/ GiveUp(c) \/ Drop(c)
             \/ CountFailure(c) \/ ClearTries(c)
      PROVE  AtMostOnce(s)'
  <2>1. UNCHANGED told
    BY <1>6 DEF Take, Refuse, Requeue, GiveUp, Drop, CountFailure, ClearTries
  <2>2. \E p \in Calling \cup {"idle", "picked"} : \E m \in {None, msg[c], Head(results)} : Reply(c, p, m)
    BY <1>6 DEF Take, Refuse, Requeue, GiveUp, Drop, CountFailure, ClearTries, Calling
  <2>3. \A d \in Consumer : Telling(d, s)' => Telling(d, s)
    BY <2>2, ReplyQuiet
  <2>4. QED
    BY <2>1, <2>3, Quiet
<1>7. QED
  BY <1>1, <1>2, <1>3, <1>4, <1>5, <1>6 DEF Next, ConsumerNext, Consume

\* The transaction makes one consumer the teller of a row nobody was told of.
LEMMA ApplyOnce ==
  ASSUME Once, [Next]_vars, NEW c \in Consumer, Apply(c), NEW s \in Submission
  PROVE  AtMostOnce(s)'
<1> USE DEF Once
<1>1. UNCHANGED told /\ msg[c].sub \in Submission /\ msg[c].verdict \in Verdict
  BY ApplyHasMessage DEF Apply
<1>2. CASE Step(c, "settled", msg[c])
  <2>1. "settled" \in Place
    BY DEF Place, Calling
  <2>2. QED
    BY <1>1, <1>2, <2>1, OtherPlaces, Quiet
<1>3. CASE /\ row[msg[c].sub] = "pending"
           /\ row' = [row EXCEPT ![msg[c].sub] = msg[c].verdict]
           /\ Step(c, "committed", msg[c])
  <2>1. \A d \in Consumer : Telling(d, s)' => Telling(d, s) \/ (d = c /\ s = msg[c].sub)
    BY <1>3 DEF Typed, TypeOK, Step, Telling
  <2>2. CASE s # msg[c].sub
    BY <1>1, <2>1, <2>2, Quiet
  <2>3. CASE s = msg[c].sub
    <3>1. AtMostOnce(s) /\ ~Settled(s) /\ told[s] \in Nat
      BY <1>3, <2>3, ConsumerAssumption DEF Settled, Typed, TypeOK
    <3>2. told[s] = 0 /\ \A d \in Consumer : ~Telling(d, s)
      BY <3>1 DEF AtMostOnce
    <3>3. Settled(s)'
      BY <1>1, <1>3, <2>3 DEF Settled, Typed, TypeOK
    <3>4. QED
      BY <1>1, <2>1, <3>2, <3>3 DEF AtMostOnce
  <2>4. QED
    BY <2>2, <2>3
<1>4. QED
  BY <1>2, <1>3 DEF Apply

\* The hooks: the teller tells, and is the teller no more; if they fail it may
\* have told or not.
LEMMA HooksOnce ==
  ASSUME Once, [Next]_vars, NEW c \in Consumer, Broadcast(c) \/ ApplyFails(c), NEW s \in Submission
  PROVE  AtMostOnce(s)'
<1> USE DEF Once
<1>1. msg[c].sub \in Submission
  BY ApplyHasMessage DEF Broadcast, ApplyFails
<1>2. \A d \in Consumer : Telling(d, s)' => Telling(d, s) /\ d # c
  <2>1. \E p \in {"settled", "failed"} : Step(c, p, msg[c])
    BY DEF Broadcast, ApplyFails
  <2>2. {"settled", "failed"} \subseteq Place \ {"committed"}
    BY DEF Place, Calling
  <2>3. QED
    BY <2>1, <2>2, OtherPlaces
<1>3. CASE UNCHANGED told
  BY <1>2, <1>3, Quiet
<1>4. CASE at[c] = "committed" /\ told' = [told EXCEPT ![msg[c].sub] = @ + 1]
  <2>1. AtMostOnce(s) /\ (Settled(s) => Settled(s)')
    BY SettledStays
  <2>2. CASE s # msg[c].sub
    <3>1. told'[s] = told[s]
      BY <1>1, <1>4, <2>2 DEF Typed, TypeOK
    <3>2. QED
      BY <1>2, <2>1, <3>1 DEF AtMostOnce
  <2>3. CASE s = msg[c].sub
    <3>1. Telling(c, s)
      BY <1>4, <2>3 DEF Telling
    <3>2. told[s] = 0 /\ Settled(s)' /\ \A d \in Consumer : Telling(d, s) => d = c
      BY <2>1, <3>1 DEF AtMostOnce
    <3>3. told'[s] = 1
      BY <1>1, <1>4, <2>3, <3>2 DEF Typed, TypeOK
    <3>4. QED
      BY <1>2, <3>2, <3>3 DEF AtMostOnce
  <2>4. QED
    BY <2>2, <2>3
<1>5. QED
  BY <1>3, <1>4 DEF Broadcast, ApplyFails

LEMMA InitOnce == Init => Once
BY Places DEF Init, Once, Typed, TypeOK, HandsTyped, AtMostOnce, Telling

LEMMA NextOnce == Once /\ [Next]_vars => Once'
<1> SUFFICES ASSUME Once, [Next]_vars PROVE Once'
  OBVIOUS
<1>1. Typed'
  BY NextTyped DEF Once
<1>2. ASSUME NEW s \in Submission PROVE AtMostOnce(s)'
  BY OthersQuiet, ApplyOnce, HooksOnce
<1>3. QED
  BY <1>1, <1>2 DEF Once

\* No author is told twice, or of a verdict that does not stand, whatever is
\* redelivered and whichever hook fails (consume_judge_results.py:57-63,
\* signals.py:64-73).
THEOREM NobodyIsToldTwice == Spec => []ToldOnce
<1>1. Once => ToldOnce
  BY DEF Once, AtMostOnce, ToldOnce
<1>2. QED
  BY <1>1, InitOnce, NextOnce, PTL DEF Spec

---------------------------------------------------------------------------
(* A consumer goes where its call leads, or the call raised and it is back *)
(* at the start of the loop.                                               *)

Moves(c, p, m) == Step(c, p, m) \/ Step(c, "idle", None)

LEMMA ReplyMoves ==
  ASSUME NEW c, NEW p, NEW m, Reply(c, p, m)
  PROVE  Moves(c, p, m)
BY DEF Reply, BackOff, Moves

\* Only the consumer that moves changes its place and its message.
LEMMA MovesOne ==
  ASSUME Typed, NEW c \in Consumer, NEW p, NEW m, Moves(c, p, m)
  PROVE  /\ \A d \in Consumer : d # c => at'[d] = at[d] /\ msg'[d] = msg[d]
         /\ \/ at'[c] = p /\ msg'[c] = m
            \/ at'[c] = "idle" /\ msg'[c] = None
BY DEF Typed, TypeOK, Moves, Step

---------------------------------------------------------------------------
(* Retries.  The counter in Redis never runs ahead of the failures: each   *)
(* failure is counted once, by the consumer it happened to, or never.      *)

\* The consumers whose failure on s is not counted yet.
Failed(s) == {c \in Consumer : at[c] = "failed" /\ msg[c].sub = s}

Counted(s) ==
  /\ IsFiniteSet(Failed(s))
  /\ tries[s] + Cardinality(Failed(s)) <= failures[s]

Excused(c) ==
  /\ at[c] = "giveup" => failures[msg[c].sub] > MaxTries
  /\ at[c] \in {"refusable", "refused"} => msg[c].verdict \in Unknown

Retried ==
  /\ Typed
  /\ \A s \in Submission : Counted(s)
  /\ \A c \in Consumer : Excused(c)
  /\ GivenUpOnlyAfterRetries

\* Nobody fails, and the counter does not grow.
LEMMA CountedStays ==
  ASSUME Typed, Typed', NEW s \in Submission, Counted(s),
         Failed(s)' \subseteq Failed(s), tries'[s] <= tries[s], failures'[s] >= failures[s]
  PROVE  Counted(s)'
<1>1. /\ IsFiniteSet(Failed(s)') /\ Cardinality(Failed(s)') <= Cardinality(Failed(s))
      /\ Cardinality(Failed(s)') \in Nat /\ Cardinality(Failed(s)) \in Nat
  BY FS_Subset, FS_CardinalityType DEF Counted
<1>2. /\ tries[s] \in Nat /\ failures[s] \in Nat /\ tries'[s] \in Nat /\ failures'[s] \in Nat
  BY DEF Typed, TypeOK
<1>3. QED
  BY <1>1, <1>2 DEF Counted

\* What makes a consumer give a message up or refuse it stays true of it.
LEMMA ExcusedStays ==
  ASSUME Typed, Typed', NEW d \in Consumer, Excused(d), at'[d] = at[d], msg'[d] = msg[d],
         \A s \in Submission : failures'[s] >= failures[s]
  PROVE  Excused(d)'
<1>1. CASE at[d] = "giveup"
  <2>1. msg[d].sub \in Submission
    BY <1>1 DEF Typed, HandsTyped, Busy, Calling, Message
  <2>2. failures[msg[d].sub] \in Nat /\ failures'[msg[d].sub] \in Nat /\ MaxTries \in Nat
    BY <2>1, ConsumerBounds DEF Typed, TypeOK
  <2>3. QED
    BY <1>1, <2>1, <2>2 DEF Excused
<1>2. CASE at[d] # "giveup"
  BY <1>2 DEF Excused
<1>3. QED
  BY <1>1, <1>2

\* A step that fails on nothing, counts nothing and puts nothing with the dead.
LEMMA RetriedStays ==
  ASSUME Retried, Typed',
         UNCHANGED <<failures, buried>>,
         \A s \in Submission : tries'[s] <= tries[s],
         \/ UNCHANGED <<at, msg>>
         \/ \E c \in Consumer : \E p, m :
              /\ Moves(c, p, m) /\ p \notin {"failed", "giveup"}
              /\ p \in {"refusable", "refused"} => m.verdict \in Unknown
  PROVE  Retried'
<1>1. \A s \in Submission : failures'[s] >= failures[s]
  BY DEF Retried, Typed, TypeOK
<1>2. ASSUME NEW s \in Submission PROVE Failed(s)' \subseteq Failed(s)
  BY MovesOne DEF Retried, Failed
<1>3. ASSUME NEW d \in Consumer PROVE Excused(d)'
  <2>1. CASE at'[d] = at[d] /\ msg'[d] = msg[d]
    BY <1>1, <2>1, ExcusedStays DEF Retried
  <2>2. CASE ~(at'[d] = at[d] /\ msg'[d] = msg[d])
    BY <2>2, MovesOne DEF Retried, Excused
  <2>3. QED
    BY <2>1, <2>2
<1>4. GivenUpOnlyAfterRetries'
  BY DEF Retried, GivenUpOnlyAfterRetries
<1>5. QED
  BY <1>1, <1>2, <1>3, <1>4, CountedStays DEF Retried

\* Rows, the queue and the expiry of a counter.
LEMMA OthersRetried ==
  ASSUME Retried, Typed',
         \/ \E s \in Submission : Create(s) \/ Delete(s) \/ TriesExpire(s)
         \/ \E m \in Message : Arrive(m)
  PROVE  Retried'
<1>1. UNCHANGED <<at, msg, failures, buried>>
  BY DEF Create, Delete, TriesExpire, Arrive, listVars
<1>2. tries \in [Submission -> Nat]
  BY DEF Retried, Typed, TypeOK
<1>3. \A s \in Submission : tries'[s] <= tries[s]
  BY <1>2 DEF Create, Delete, TriesExpire, Arrive
<1>4. QED
  BY <1>1, <1>3, RetriedStays

\* The steps of a consumer that neither fails, nor counts, nor buries.
LEMMA WorkRetried ==
  ASSUME Retried, Typed', NEW c \in Consumer,
         \/ RecoverOrphans(c) \/ Take(c) \/ Apply(c) \/ Broadcast(c) \/ Requeue(c)
         \/ Drop(c) \/ ClearTries(c) \/ Start(c) \/ Exit(c) \/ CallFails(c)
  PROVE  Retried'
<1>1. UNCHANGED <<failures, buried>>
  BY DEF RecoverOrphans, Take, Apply, Broadcast, Requeue, Drop, ClearTries, Start, Exit,
         CallFails, listVars
<1>2. ASSUME NEW s \in Submission PROVE tries'[s] <= tries[s]
  <2>1. tries \in [Submission -> Nat]
    BY DEF Retried, Typed, TypeOK
  <2>2. UNCHANGED tries \/ tries' = [tries EXCEPT ![msg[c].sub] = 0]
    BY DEF RecoverOrphans, Take, Apply, Broadcast, Requeue, Drop, ClearTries, Start, Exit, CallFails
  <2>3. QED
    BY <2>1, <2>2
<1>3. CASE Take(c)
  <2>1. \/ Moves(c, "picked", Head(results))
        \/ Moves(c, "refusable", Head(results)) /\ Head(results).verdict \in Unknown
    BY <1>3, ReplyMoves DEF Take
  <2>2. QED
    BY <1>1, <1>2, <2>1, RetriedStays
<1>4. CASE RecoverOrphans(c) \/ Apply(c) \/ Broadcast(c) \/ Requeue(c) \/ Drop(c)
  <2>1. \/ UNCHANGED <<at, msg>>
        \/ Moves(c, "idle", None)
        \/ \E p \in {"committed", "settled", "requeued", "forget"} : Moves(c, p, msg[c])
    <3>1. CASE RecoverOrphans(c) \/ Apply(c) \/ Broadcast(c)
      BY <3>1 DEF RecoverOrphans, Apply, Broadcast, Moves
    <3>2. CASE Requeue(c) \/ Drop(c)
      BY <3>2, ReplyMoves DEF Requeue, Drop
    <3>3. QED
      BY <1>4, <3>1, <3>2
  <2>2. QED
    BY <1>1, <1>2, <2>1, RetriedStays
<1>5. CASE ClearTries(c) \/ Start(c) \/ Exit(c) \/ CallFails(c)
  <2>1. \E p \in {"cleared", "idle", "recovering", "off"} : \E m : Moves(c, p, m)
    <3>1. CASE ClearTries(c)
      BY <3>1, ReplyMoves DEF ClearTries
    <3>2. CASE Start(c) \/ Exit(c) \/ CallFails(c)
      BY <3>2 DEF Start, Exit, CallFails, BackOff, Moves
    <3>3. QED
      BY <1>5, <3>1, <3>2
  <2>2. QED
    BY <1>1, <1>2, <2>1, RetriedStays
<1>6. QED
  BY <1>3, <1>4, <1>5

\* A message goes to the dead for the reason its consumer has.
LEMMA BuryRetried ==
  ASSUME Retried, Typed', NEW c \in Consumer, Refuse(c) \/ GiveUp(c)
  PROVE  Retried'
<1>1. UNCHANGED <<failures, tries>> /\ buried' = buried \cup {msg[c]}
  BY DEF Refuse, GiveUp
<1>2. \/ at[c] = "refusable" /\ msg[c].verdict \in Unknown /\ Moves(c, "refused", msg[c])
      \/ at[c] = "giveup" /\ failures[msg[c].sub] > MaxTries /\ Moves(c, "given_up", msg[c])
  BY ReplyMoves DEF Refuse, GiveUp, Retried, Excused
<1>3. GivenUpOnlyAfterRetries'
  BY <1>1, <1>2 DEF Retried, GivenUpOnlyAfterRetries
<1>4. ASSUME NEW d \in Consumer PROVE Excused(d)'
  <2>1. CASE d # c
    BY <1>1, <1>2, <2>1, MovesOne DEF Retried, Excused
  <2>2. CASE d = c
    BY <1>2, <2>2, MovesOne DEF Retried, Excused
  <2>3. QED
    BY <2>1, <2>2
<1>5. ASSUME NEW s \in Submission PROVE Counted(s)'
  <2>1. Failed(s)' \subseteq Failed(s)
    BY <1>2, MovesOne DEF Retried, Failed
  <2>2. tries'[s] <= tries[s] /\ failures'[s] >= failures[s]
    BY <1>1 DEF Retried, Typed, TypeOK
  <2>3. QED
    BY <2>1, <2>2, CountedStays DEF Retried
<1>6. QED
  BY <1>3, <1>4, <1>5 DEF Retried

\* One failure more, and one consumer more that has to count it.
LEMMA FailureRetried ==
  ASSUME Retried, Typed', NEW c \in Consumer, ApplyFails(c)
  PROVE  Retried'
<1> DEFINE r == msg[c].sub
<1>1. UNCHANGED <<tries, buried>> /\ Moves(c, "failed", msg[c])
  BY DEF ApplyFails, Moves, listVars
<1>2. r \in Submission
  BY ApplyHasMessage DEF Retried, ApplyFails
<1>3. /\ failures \in [Submission -> Nat] /\ failures' = [failures EXCEPT ![r] = @ + 1]
      /\ tries \in [Submission -> Nat]
  BY DEF ApplyFails, Retried, Typed, TypeOK
<1>4. \A s \in Submission : failures'[s] >= failures[s]
  BY <1>2, <1>3
<1>5. GivenUpOnlyAfterRetries'
  <2>1. ASSUME NEW m \in buried, m.verdict \notin Unknown PROVE failures'[m.sub] > MaxTries
    <3>1. m.sub \in Submission /\ failures[m.sub] > MaxTries
      BY <2>1 DEF Retried, Typed, TypeOK, Message, GivenUpOnlyAfterRetries
    <3>2. failures[m.sub] \in Nat /\ failures'[m.sub] \in Nat /\ MaxTries \in Nat
      BY <1>2, <1>3, <3>1, ConsumerBounds
    <3>3. QED
      BY <1>4, <3>1, <3>2
  <2>2. QED
    BY <1>1, <2>1 DEF GivenUpOnlyAfterRetries
<1>6. ASSUME NEW d \in Consumer PROVE Excused(d)'
  <2>1. CASE d # c
    BY <1>1, <1>4, <2>1, MovesOne, ExcusedStays DEF Retried
  <2>2. CASE d = c
    BY <1>1, <2>2, MovesOne DEF Retried, Excused
  <2>3. QED
    BY <2>1, <2>2
<1>7. ASSUME NEW s \in Submission PROVE Counted(s)'
  <2>1. CASE s # r
    <3>1. Failed(s)' \subseteq Failed(s)
      BY <1>1, <2>1, MovesOne DEF Retried, Failed
    <3>2. tries'[s] <= tries[s]
      BY <1>1, <1>3
    <3>3. QED
      BY <1>4, <3>1, <3>2, CountedStays DEF Retried
  <2>2. CASE s = r
    <3>1. Failed(s)' \subseteq Failed(s) \cup {c}
      BY <1>1, MovesOne DEF Retried, Failed
    <3>2. /\ IsFiniteSet(Failed(s) \cup {c})
          /\ Cardinality(Failed(s)) \in Nat
          /\ Cardinality(Failed(s) \cup {c}) <= Cardinality(Failed(s)) + 1
      <4>1. IsFiniteSet(Failed(s)) /\ Cardinality(Failed(s)) \in Nat
        BY FS_CardinalityType DEF Retried, Counted
      <4>2. /\ IsFiniteSet(Failed(s) \cup {c})
            /\ Cardinality(Failed(s) \cup {c}) =
                 IF c \in Failed(s) THEN Cardinality(Failed(s)) ELSE Cardinality(Failed(s)) + 1
        BY <4>1, FS_AddElement, Zenon
      <4>3. QED
        BY <4>1, <4>2
    <3>3. /\ IsFiniteSet(Failed(s)') /\ Cardinality(Failed(s)') \in Nat
          /\ Cardinality(Failed(s)') <= Cardinality(Failed(s) \cup {c})
          /\ Cardinality(Failed(s) \cup {c}) \in Nat
      BY <3>1, <3>2, FS_Subset, FS_CardinalityType
    <3>4. tries[s] + Cardinality(Failed(s)) <= failures[s]
      BY DEF Retried, Counted
    <3>5. tries'[s] = tries[s] /\ failures'[s] = failures[s] + 1
      BY <1>1, <1>3, <2>2
    <3>6. tries[s] \in Nat /\ failures[s] \in Nat
      BY <1>3
    <3>7. QED
      BY <3>2, <3>3, <3>4, <3>5, <3>6 DEF Counted
  <2>3. QED
    BY <2>1, <2>2
<1>8. QED
  BY <1>5, <1>6, <1>7 DEF Retried

\* The consumer that failed counts its failure, and counts it no more.
LEMMA CountRetried ==
  ASSUME Retried, Typed', NEW c \in Consumer, CountFailure(c)
  PROVE  Retried'
<1>0. PICK r : r = msg[c].sub
  OBVIOUS
<1>1. /\ UNCHANGED <<failures, buried>> /\ at[c] = "failed"
      /\ tries' = [tries EXCEPT ![r] = @ + 1]
      /\ \/ tries'[r] > MaxTries /\ Moves(c, "giveup", msg[c])
         \/ Moves(c, "requeue", msg[c])
  BY <1>0, ReplyMoves DEF CountFailure, listVars
<1>2. r \in Submission
  BY <1>0, <1>1 DEF Retried, Typed, HandsTyped, Busy, Calling, Message
<1>3. tries \in [Submission -> Nat] /\ failures \in [Submission -> Nat] /\ MaxTries \in Nat
  BY ConsumerBounds DEF Retried, Typed, TypeOK
<1>4. ASSUME NEW s \in Submission PROVE Counted(s)'
  <2>1. CASE s # r
    <3>1. Failed(s)' \subseteq Failed(s)
      BY <1>1, MovesOne DEF Retried, Failed
    <3>2. tries'[s] <= tries[s] /\ failures'[s] >= failures[s]
      BY <1>1, <1>2, <1>3, <2>1
    <3>3. QED
      BY <3>1, <3>2, CountedStays DEF Retried
  <2>2. CASE s = r
    <3>1. Failed(s)' \subseteq Failed(s) \ {c} /\ c \in Failed(s)
      BY <1>0, <1>1, <2>2, MovesOne DEF Retried, Failed
    <3>2. /\ IsFiniteSet(Failed(s) \ {c})
          /\ Cardinality(Failed(s)) \in Nat
          /\ Cardinality(Failed(s) \ {c}) = Cardinality(Failed(s)) - 1
      BY <3>1, FS_RemoveElement, FS_CardinalityType DEF Retried, Counted
    <3>3. /\ IsFiniteSet(Failed(s)') /\ Cardinality(Failed(s)') \in Nat
          /\ Cardinality(Failed(s)') <= Cardinality(Failed(s) \ {c})
      BY <3>1, <3>2, FS_Subset, FS_CardinalityType
    <3>4. tries[s] + Cardinality(Failed(s)) <= failures[s]
      BY DEF Retried, Counted
    <3>5. tries'[s] = tries[s] + 1 /\ failures'[s] = failures[s]
      BY <1>1, <1>2, <1>3, <2>2
    <3>6. tries[s] \in Nat /\ failures[s] \in Nat
      BY <1>3
    <3>7. QED
      BY <3>2, <3>3, <3>4, <3>5, <3>6 DEF Counted
  <2>3. QED
    BY <2>1, <2>2
<1>5. tries'[r] <= failures[r]
  <2>1. Counted(r)' /\ tries'[r] \in Nat /\ failures'[r] \in Nat
    BY <1>1, <1>2, <1>3, <1>4
  <2>2. Cardinality(Failed(r)') \in Nat /\ tries'[r] + Cardinality(Failed(r)') <= failures'[r]
    BY <2>1, FS_CardinalityType DEF Counted
  <2>3. QED
    BY <1>1, <2>1, <2>2
<1>6. ASSUME NEW d \in Consumer PROVE Excused(d)'
  <2>1. CASE d # c
    BY <1>1, <2>1, MovesOne DEF Retried, Excused
  <2>2. CASE d = c /\ at'[c] = "giveup"
    <3>1. msg'[c] = msg[c] /\ tries'[r] > MaxTries
      BY <1>1, <2>2, MovesOne DEF Retried
    <3>2. failures[r] > MaxTries
      BY <1>1, <1>2, <1>3, <1>5, <3>1
    <3>3. QED
      BY <1>0, <1>1, <2>2, <3>1, <3>2 DEF Excused
  <2>3. CASE d = c /\ at'[c] # "giveup"
    BY <1>1, <2>3, MovesOne DEF Retried, Excused
  <2>4. QED
    BY <2>1, <2>2, <2>3
<1>7. GivenUpOnlyAfterRetries'
  BY <1>1 DEF Retried, GivenUpOnlyAfterRetries
<1>8. QED
  BY <1>4, <1>6, <1>7 DEF Retried

LEMMA NextRetried == Retried /\ [Next]_vars => Retried'
<1> SUFFICES ASSUME Retried, [Next]_vars
             PROVE  Retried'
  OBVIOUS
<1>1. Typed'
  BY NextTyped DEF Retried
<1>2. CASE UNCHANGED vars
  <2>1. UNCHANGED <<at, msg, tries, failures, buried>>
    BY <1>2 DEF vars, listVars
  <2>2. \A s \in Submission : tries'[s] <= tries[s]
    BY <2>1 DEF Retried, Typed, TypeOK
  <2>3. QED
    BY <1>1, <2>1, <2>2, RetriedStays
<1>3. CASE Next
  BY <1>1, <1>3, OthersRetried, WorkRetried, BuryRetried, FailureRetried, CountRetried
     DEF Next, ConsumerNext, Consume
<1>4. QED
  BY <1>2, <1>3

\* A readable result is put with the dead only after MAX_ATTEMPTS failures and one
\* more, whichever consumers failed and whatever was lost of the counter on the way
\* (consume_judge_results.py:90-102).
THEOREM NothingIsGivenUpEarly == Spec => []GivenUpOnlyAfterRetries
<1>1. Init => Retried
  <2> SUFFICES ASSUME Init PROVE Retried
    OBVIOUS
  <2>1. Typed
    BY Places DEF Init, Typed, TypeOK, HandsTyped
  <2>2. ASSUME NEW s \in Submission PROVE Counted(s)
    <3>1. Failed(s) = {}
      BY DEF Init, Failed
    <3>2. IsFiniteSet(Failed(s)) /\ Cardinality(Failed(s)) = 0
      BY <3>1, FS_EmptySet
    <3>3. QED
      BY <3>2 DEF Init, Counted
  <2>3. QED
    BY <2>1, <2>2 DEF Init, Retried, Excused, GivenUpOnlyAfterRetries
<1>2. Retried => GivenUpOnlyAfterRetries
  BY DEF Retried
<1>3. QED
  BY <1>1, <1>2, NextRetried, PTL DEF Spec

---------------------------------------------------------------------------
(* Results.  An lrem takes the first copy that equals its message, not the *)
(* one its consumer took: what is kept is a count.  A result that is       *)
(* neither settled nor dead has more copies on the two lists than          *)
(* consumers that requeued it and have yet to drop it.                     *)

Resolved(s) == Settled(s) \/ \E m \in buried : m.sub = s

\* Where a consumer has seen its message's submission resolved.
Done == {"committed", "settled", "cleared", "refused", "given_up", "forget"}

Requeuers(m) == {c \in Consumer : at[c] = "requeued" /\ msg[c] = m}

Kept(m) ==
  /\ IsFiniteSet(Requeuers(m))
  /\ Copies(results, m) + Copies(inflight, m) > Cardinality(Requeuers(m))

\* Nothing is on a list or in a hand that the judge did not push.
OnlyEmitted ==
  /\ Range(results) \subseteq emitted /\ Range(inflight) \subseteq emitted
  /\ \A c \in Consumer : at[c] \in Busy => msg[c] \in emitted
  /\ \A m \in emitted : row[m.sub] # "none"

DoneIsResolved == \A c \in Consumer : at[c] \in Done => Resolved(msg[c].sub)

AllKept ==
  /\ Typed /\ OnlyEmitted /\ DoneIsResolved
  /\ \A m \in emitted : Resolved(m.sub) \/ Kept(m)

LEMMA CopiesOfMessages ==
  ASSUME Typed, NEW m
  PROVE  Copies(results, m) \in Nat /\ Copies(inflight, m) \in Nat
BY CopiesType DEF Typed, TypeOK

LEMMA ResolvedStays ==
  ASSUME Typed, [Next]_vars, NEW s \in Submission, Resolved(s)
  PROVE  Resolved(s)'
<1>1. Settled(s) => Settled(s)'
  BY SettledStays
<1>2. buried \subseteq buried'
  <2>1. ASSUME NEW c \in Consumer, Refuse(c) \/ GiveUp(c) PROVE buried \subseteq buried'
    BY <2>1 DEF Refuse, GiveUp
  <2>2. ASSUME \/ UNCHANGED vars
               \/ \E r \in Submission : Create(r) \/ Delete(r) \/ TriesExpire(r)
               \/ \E m \in Message : Arrive(m)
        PROVE  buried \subseteq buried'
    BY <2>2 DEF vars, listVars, Create, Delete, TriesExpire, Arrive
  <2>3. ASSUME NEW c \in Consumer,
               \/ RecoverOrphans(c) \/ Take(c) \/ Requeue(c) \/ Drop(c)
               \/ Apply(c) \/ Broadcast(c) \/ ApplyFails(c) \/ CountFailure(c) \/ ClearTries(c)
               \/ Start(c) \/ Exit(c) \/ CallFails(c)
        PROVE  buried \subseteq buried'
    BY <2>3 DEF RecoverOrphans, Take, Requeue, Drop, Apply, Broadcast, ApplyFails, CountFailure,
                ClearTries, Start, Exit, CallFails, listVars
  <2>4. QED
    BY <2>1, <2>2, <2>3 DEF Next, ConsumerNext, Consume
<1>3. QED
  BY <1>1, <1>2 DEF Resolved

\* A row that exists is never as if it had not.
LEMMA RowStays ==
  ASSUME Typed, [Next]_vars, NEW s \in Submission, row[s] # "none"
  PROVE  row'[s] # "none"
<1>1. row \in [Submission -> {"none", "pending", "deleted"} \cup Verdict]
  BY DEF Typed, TypeOK
<1>2. "none" \notin Verdict
  BY ConsumerAssumption
<1>3. ASSUME NEW c \in Consumer, Apply(c), row' = [row EXCEPT ![msg[c].sub] = msg[c].verdict]
      PROVE  row'[s] # "none"
  <2>1. msg[c].verdict \in Verdict
    BY <1>3, ApplyHasMessage DEF Apply
  <2>2. QED
    BY <1>1, <1>2, <1>3, <2>1
<1>4. QED
  BY <1>1, <1>3, RowSteps

\* Nobody requeues, and the lists keep their copies of what is not resolved.
LEMMA KeptStays ==
  ASSUME AllKept, Typed',
         \A s \in Submission : /\ Resolved(s) => Resolved(s)'
                               /\ row[s] # "none" => row'[s] # "none",
         emitted' = emitted,
         Range(results') \subseteq emitted, Range(inflight') \subseteq emitted,
         \/ UNCHANGED <<at, msg>>
         \/ \E c \in Consumer : \E p, m :
              /\ Moves(c, p, m) /\ p # "requeued"
              /\ p \in Busy => m \in emitted
              /\ p \in Done => Resolved(m.sub)',
         \A m \in emitted :
           \/ Resolved(m.sub)'
           \/ Copies(results', m) + Copies(inflight', m) >= Copies(results, m) + Copies(inflight, m)
  PROVE  AllKept'
<1>1. \A m \in emitted : m.sub \in Submission
  BY DEF AllKept, Typed, TypeOK, Message
<1>2. "idle" \notin Busy /\ "idle" \notin Done
  BY DEF Busy, Done, Calling
<1>3. ASSUME NEW d \in Consumer, at'[d] \in Busy PROVE msg'[d] \in emitted
  BY <1>2, <1>3, MovesOne DEF AllKept, OnlyEmitted
<1>4. OnlyEmitted'
  BY <1>1, <1>3 DEF AllKept, OnlyEmitted
<1>5. DoneIsResolved'
  <2>1. ASSUME NEW d \in Consumer, at'[d] \in Done
        PROVE  \E m : msg'[d] = m /\ Resolved(m.sub)'
    <3>1. CASE at'[d] = at[d] /\ msg'[d] = msg[d]
      <4>1. PICK m : m = msg[d]
        OBVIOUS
      <4>2. m \in emitted /\ Resolved(m.sub)
        BY <2>1, <3>1, <4>1 DEF AllKept, OnlyEmitted, DoneIsResolved, Done, Busy, Calling
      <4>3. Resolved(m.sub)'
        BY <1>1, <4>2
      <4>4. QED
        BY <3>1, <4>1, <4>3
    <3>2. CASE ~(at'[d] = at[d] /\ msg'[d] = msg[d])
      BY <1>2, <2>1, <3>2, MovesOne DEF AllKept
    <3>3. QED
      BY <3>1, <3>2
  <2>2. QED
    BY <2>1 DEF DoneIsResolved
<1>6. ASSUME NEW m \in emitted PROVE Resolved(m.sub)' \/ Kept(m)'
  <2>1. CASE Resolved(m.sub)
    BY <1>1, <2>1
  <2>2. CASE Resolved(m.sub)'
    BY <2>2
  <2>3. CASE /\ Kept(m)
             /\ Copies(results', m) + Copies(inflight', m) >= Copies(results, m) + Copies(inflight, m)
    <3>1. Requeuers(m)' \subseteq Requeuers(m)
      BY MovesOne DEF AllKept, Requeuers
    <3>2. /\ IsFiniteSet(Requeuers(m)') /\ Cardinality(Requeuers(m)') <= Cardinality(Requeuers(m))
          /\ Cardinality(Requeuers(m)') \in Nat /\ Cardinality(Requeuers(m)) \in Nat
      BY <2>3, <3>1, FS_Subset, FS_CardinalityType DEF Kept
    <3>3. /\ Copies(results, m) \in Nat /\ Copies(inflight, m) \in Nat
          /\ Copies(results', m) \in Nat /\ Copies(inflight', m) \in Nat
      BY CopiesType DEF AllKept, Typed, TypeOK
    <3>4. QED
      BY <2>3, <3>2, <3>3 DEF Kept
  <2>4. QED
    BY <2>1, <2>2, <2>3 DEF AllKept
<1>7. QED
  BY <1>4, <1>5, <1>6 DEF AllKept

\* A result arrives: it is on the queue, and nobody has requeued it yet.
LEMMA ArrivalKept ==
  ASSUME AllKept, Typed', NEW m \in Message, row[m.sub] # "none",
         results' = Append(results, m), emitted' = emitted \cup {m},
         UNCHANGED <<inflight, buried, row, at, msg>>
  PROVE  AllKept'
<1>1. results \in Seq(Message) /\ inflight \in Seq(Message)
  BY DEF AllKept, Typed, TypeOK
<1>2. OnlyEmitted'
  <2>1. Range(results') = Range(results) \cup {m}
    BY <1>1, RangeAppend
  <2>2. QED
    BY <2>1 DEF AllKept, OnlyEmitted
<1>3. DoneIsResolved'
  BY DEF AllKept, DoneIsResolved, Resolved, Settled
<1>4. ASSUME NEW n \in emitted \cup {m} PROVE Resolved(n.sub)' \/ Kept(n)'
  <2>1. /\ Copies(results', n) = Copies(results, n) + (IF n = m THEN 1 ELSE 0)
        /\ Copies(results, n) \in Nat /\ Copies(inflight, n) \in Nat
    BY <1>1, CopiesAppend, CopiesType
  <2>2. Requeuers(n)' = Requeuers(n)
    BY DEF Requeuers
  <2>3. CASE n \in emitted /\ Resolved(n.sub)
    BY <2>3 DEF Resolved, Settled
  <2>4. CASE n \in emitted /\ Kept(n)
    <3>1. Cardinality(Requeuers(n)) \in Nat
      BY <2>4, FS_CardinalityType DEF Kept
    <3>2. QED
      BY <2>1, <2>2, <2>4, <3>1 DEF Kept
  <2>5. CASE n \notin emitted
    <3>1. Requeuers(n) = {}
      BY <2>5 DEF AllKept, OnlyEmitted, Requeuers, Busy, Calling
    <3>2. IsFiniteSet(Requeuers(n)') /\ Cardinality(Requeuers(n)') = 0
      BY <2>2, <3>1, FS_EmptySet
    <3>3. QED
      BY <2>1, <2>5, <3>2 DEF Kept
  <2>6. QED
    BY <2>3, <2>4, <2>5 DEF AllKept
<1>5. QED
  BY <1>2, <1>3, <1>4 DEF AllKept

\* The lists as they were, whatever else a step does.
LEMMA SameLists ==
  ASSUME AllKept, UNCHANGED <<results, inflight>>
  PROVE  /\ Range(results') \subseteq emitted /\ Range(inflight') \subseteq emitted
         /\ \A m \in emitted :
              Copies(results', m) + Copies(inflight', m) >= Copies(results, m) + Copies(inflight, m)
<1>1. ASSUME NEW m \in emitted
      PROVE  Copies(results', m) + Copies(inflight', m) >= Copies(results, m) + Copies(inflight, m)
  <2>1. Copies(results, m) \in Nat /\ Copies(inflight, m) \in Nat
    BY CopiesOfMessages DEF AllKept
  <2>2. QED
    BY <2>1
<1>2. QED
  BY <1>1 DEF AllKept, OnlyEmitted

\* What a step of the specification is, for KeptStays.
LEMMA Monotone ==
  ASSUME AllKept, [Next]_vars
  PROVE  \A s \in Submission : /\ Resolved(s) => Resolved(s)'
                               /\ row[s] # "none" => row'[s] # "none"
BY ResolvedStays, RowStays DEF AllKept

\* Rows, counters, the life of a consumer, and the calls that raise.
LEMMA OthersKept ==
  ASSUME AllKept, Typed', [Next]_vars,
         \/ UNCHANGED vars
         \/ \E s \in Submission : Create(s) \/ Delete(s) \/ TriesExpire(s)
         \/ \E c \in Consumer : Start(c) \/ Exit(c) \/ CallFails(c)
  PROVE  AllKept'
<1>1. UNCHANGED <<results, inflight, emitted>>
  BY DEF vars, listVars, Create, Delete, TriesExpire, Start, Exit, CallFails
<1>2. \/ UNCHANGED <<at, msg>>
      \/ \E c \in Consumer : \E p \in {"idle", "recovering", "off"} : Moves(c, p, None)
  BY DEF vars, Create, Delete, TriesExpire, Start, Exit, CallFails, BackOff, Moves
<1>3. \A p \in {"idle", "recovering", "off"} : p \notin Busy /\ p \notin Done /\ p # "requeued"
  BY DEF Busy, Done, Calling
<1>4. QED
  BY <1>1, <1>2, <1>3, SameLists, Monotone, KeptStays

\* Between the lists a result is moved, not copied.
LEMMA MovesKept ==
  ASSUME AllKept, Typed', [Next]_vars, NEW c \in Consumer, RecoverOrphans(c) \/ Take(c)
  PROVE  AllKept'
<1>1. results \in Seq(Message) /\ inflight \in Seq(Message)
  BY DEF AllKept, Typed, TypeOK
<1>2. CASE RecoverOrphans(c) /\ inflight = <<>>
  <2>1. UNCHANGED <<results, inflight, emitted>> /\ Moves(c, "idle", None)
    BY <1>2 DEF RecoverOrphans, Moves
  <2>2. "idle" \notin Busy /\ "idle" \notin Done
    BY DEF Busy, Done, Calling
  <2>3. QED
    BY <2>1, <2>2, SameLists, Monotone, KeptStays
<1>3. CASE RecoverOrphans(c) /\ inflight # <<>>
  <2> DEFINE h == Head(inflight)
  <2>1. /\ results' = <<h>> \o results /\ inflight' = Tail(inflight)
        /\ UNCHANGED <<at, msg, emitted>>
    BY <1>3 DEF RecoverOrphans
  <2>2. h \in Message /\ Tail(inflight) \in Seq(Message) /\ Range(inflight) = {h} \cup Range(Tail(inflight))
    BY <1>1, <1>3, RangeHeadTail
  <2>3. Range(results') = {h} \cup Range(results)
    BY <1>1, <2>1, <2>2, RangePush
  <2>4. ASSUME NEW m \in emitted
        PROVE  Copies(results', m) + Copies(inflight', m) >= Copies(results, m) + Copies(inflight, m)
    <3>1. /\ Copies(results', m) = Copies(results, m) + (IF m = h THEN 1 ELSE 0)
          /\ Copies(inflight, m) = Copies(inflight', m) + (IF m = h THEN 1 ELSE 0)
      BY <1>1, <1>3, <2>1, <2>2, CopiesPush, CopiesHeadTail
    <3>2. Copies(results, m) \in Nat /\ Copies(inflight', m) \in Nat
      BY <1>1, <2>1, <2>2, CopiesType
    <3>3. QED
      BY <3>1, <3>2
  <2>5. Range(results') \subseteq emitted /\ Range(inflight') \subseteq emitted
    BY <2>1, <2>2, <2>3 DEF AllKept, OnlyEmitted
  <2> HIDE DEF h
  <2>6. QED
    BY <2>1, <2>4, <2>5, Monotone, KeptStays
<1>4. CASE Take(c)
  <2> DEFINE h == Head(results)
  <2>1. /\ results # <<>> /\ results' = Tail(results) /\ inflight' = Append(inflight, h)
        /\ emitted' = emitted
        /\ \E p \in {"picked", "refusable"} : Moves(c, p, h)
    BY <1>4, ReplyMoves DEF Take
  <2>2. h \in Message /\ Tail(results) \in Seq(Message) /\ Range(results) = {h} \cup Range(Tail(results))
    BY <1>1, <2>1, RangeHeadTail
  <2>3. Range(inflight') = Range(inflight) \cup {h}
    BY <1>1, <2>1, <2>2, RangeAppend
  <2>4. ASSUME NEW m \in emitted
        PROVE  Copies(results', m) + Copies(inflight', m) >= Copies(results, m) + Copies(inflight, m)
    <3>1. /\ Copies(inflight', m) = Copies(inflight, m) + (IF m = h THEN 1 ELSE 0)
          /\ Copies(results, m) = Copies(results', m) + (IF m = h THEN 1 ELSE 0)
      BY <1>1, <2>1, <2>2, CopiesAppend, CopiesHeadTail
    <3>2. Copies(inflight, m) \in Nat /\ Copies(results', m) \in Nat
      BY <1>1, <2>1, <2>2, CopiesType
    <3>3. QED
      BY <3>1, <3>2
  <2>5. h \in emitted /\ Range(results') \subseteq emitted /\ Range(inflight') \subseteq emitted
    BY <2>1, <2>2, <2>3 DEF AllKept, OnlyEmitted
  <2>6. \A p \in {"picked", "refusable"} : p \notin Done /\ p # "requeued"
    BY DEF Done
  <2> HIDE DEF h
  <2>7. QED
    BY <2>1, <2>4, <2>5, <2>6, Monotone, KeptStays
<1>5. QED
  BY <1>2, <1>3, <1>4

\* A result that goes to the dead is resolved by that.
LEMMA BuryKept ==
  ASSUME AllKept, Typed', [Next]_vars, NEW c \in Consumer, Refuse(c) \/ GiveUp(c)
  PROVE  AllKept'
<1>1. UNCHANGED <<results, inflight, emitted>> /\ buried' = buried \cup {msg[c]}
  BY DEF Refuse, GiveUp
<1>2. PICK m : m = msg[c]
  OBVIOUS
<1>3. \E p \in {"refused", "given_up"} : Moves(c, p, m)
  BY <1>2, ReplyMoves DEF Refuse, GiveUp
<1>4. m \in emitted
  BY <1>2 DEF AllKept, OnlyEmitted, Refuse, GiveUp, Busy, Calling
<1>5. Resolved(m.sub)'
  BY <1>1, <1>2 DEF Resolved
<1>6. \A p \in {"refused", "given_up"} : p # "requeued"
  OBVIOUS
<1>7. QED
  BY <1>1, <1>3, <1>4, <1>5, <1>6, SameLists, Monotone, KeptStays

\* The transaction settles its submission or finds it settled.
LEMMA ApplyKept ==
  ASSUME AllKept, Typed', [Next]_vars, NEW c \in Consumer, Apply(c)
  PROVE  AllKept'
<1>1. PICK m : m = msg[c]
  OBVIOUS
<1>2. m \in emitted /\ m.sub \in Submission /\ m.verdict \in Verdict /\ row[m.sub] # "none"
  BY <1>1, ApplyHasMessage DEF AllKept, OnlyEmitted, Apply, Busy
<1>3. UNCHANGED <<results, inflight, emitted>> /\ \E p \in {"committed", "settled"} : Moves(c, p, m)
  BY <1>1 DEF Apply, Moves, listVars
<1>4. Resolved(m.sub)'
  <2>1. row \in [Submission -> {"none", "pending", "deleted"} \cup Verdict]
    BY DEF AllKept, Typed, TypeOK
  <2>2. CASE row[m.sub] = "pending"
    BY <1>1, <1>2, <2>1, <2>2 DEF Apply, Resolved, Settled
  <2>3. CASE row[m.sub] # "pending"
    BY <1>1, <1>2, <2>1, <2>3 DEF Apply, Resolved, Settled
  <2>4. QED
    BY <2>2, <2>3
<1>5. \A p \in {"committed", "settled"} : p # "requeued"
  OBVIOUS
<1>6. QED
  BY <1>2, <1>3, <1>4, <1>5, SameLists, Monotone, KeptStays

\* The hooks, the counting of failures, and the end of the counter.
LEMMA CountKept ==
  ASSUME AllKept, Typed', [Next]_vars, NEW c \in Consumer,
         Broadcast(c) \/ ApplyFails(c) \/ CountFailure(c) \/ ClearTries(c)
  PROVE  AllKept'
<1>1. PICK m : m = msg[c]
  OBVIOUS
<1>2. m \in emitted /\ m.sub \in Submission
  BY <1>1 DEF AllKept, OnlyEmitted, Typed, TypeOK, Message, Broadcast, ApplyFails, CountFailure,
              ClearTries, Busy, Calling
<1>3. UNCHANGED <<results, inflight, emitted>>
  BY DEF Broadcast, ApplyFails, CountFailure, ClearTries, listVars
<1>4. \/ \E p \in {"failed", "giveup", "requeue"} : Moves(c, p, m)
      \/ Moves(c, "idle", None)
      \/ at[c] \in Done /\ \E p \in {"settled", "cleared"} : Moves(c, p, m)
  <2>1. CASE Broadcast(c) \/ ApplyFails(c)
    BY <1>1, <2>1 DEF Broadcast, ApplyFails, Moves, Done
  <2>2. CASE CountFailure(c) \/ ClearTries(c)
    BY <1>1, <2>2, ReplyMoves DEF CountFailure, ClearTries, Done
  <2>3. QED
    BY <2>1, <2>2
<1>5. at[c] \in Done => Resolved(m.sub)'
  BY <1>1, <1>2, Monotone DEF AllKept, DoneIsResolved
<1>6. /\ \A p \in {"failed", "giveup", "requeue"} : p \notin Done /\ p # "requeued"
      /\ "idle" \notin Busy /\ "idle" \notin Done
      /\ \A p \in {"settled", "cleared"} : p # "requeued"
  BY DEF Done, Busy, Calling
<1>7. QED
  BY <1>2, <1>3, <1>4, <1>5, <1>6, SameLists, Monotone, KeptStays

\* A requeue is one copy more, and one consumer more that has to drop one; if the
\* reply is lost the consumer never does.
LEMMA RequeueKept ==
  ASSUME AllKept, Typed', [Next]_vars, NEW c \in Consumer, Requeue(c)
  PROVE  AllKept'
<1>1. PICK m : m = msg[c]
  OBVIOUS
<1>2. /\ at[c] = "requeue" /\ results' = Append(results, m)
      /\ UNCHANGED <<inflight, buried, emitted, row>>
      /\ Moves(c, "requeued", m)
  BY <1>1, ReplyMoves DEF Requeue
<1>3. m \in emitted /\ m \in Message
  BY <1>1, <1>2 DEF AllKept, OnlyEmitted, Typed, TypeOK, Busy, Calling
<1>4. results \in Seq(Message) /\ inflight \in Seq(Message)
  BY DEF AllKept, Typed, TypeOK
<1>5. OnlyEmitted'
  <2>1. Range(results') = Range(results) \cup {m}
    BY <1>2, <1>3, <1>4, RangeAppend
  <2>2. ASSUME NEW d \in Consumer, at'[d] \in Busy PROVE msg'[d] \in emitted
    <3>1. "idle" \notin Busy
      BY DEF Busy, Calling
    <3>2. QED
      BY <1>2, <1>3, <2>2, <3>1, MovesOne DEF AllKept, OnlyEmitted
  <2>3. QED
    BY <1>2, <1>3, <2>1, <2>2 DEF AllKept, OnlyEmitted
<1>6. DoneIsResolved'
  <2>1. "idle" \notin Done /\ "requeued" \notin Done
    BY DEF Done
  <2>2. QED
    BY <1>2, <2>1, MovesOne DEF AllKept, DoneIsResolved, Resolved, Settled
<1>7. ASSUME NEW n \in emitted PROVE Resolved(n.sub)' \/ Kept(n)'
  <2>1. CASE Resolved(n.sub)
    BY <1>2, <2>1 DEF Resolved, Settled
  <2>2. CASE Kept(n)
    <3>1. /\ Copies(results', n) = Copies(results, n) + (IF n = m THEN 1 ELSE 0)
          /\ Copies(results, n) \in Nat /\ Copies(inflight, n) \in Nat
      BY <1>2, <1>3, <1>4, CopiesAppend, CopiesType
    <3>2. Requeuers(n)' \subseteq Requeuers(n) \cup (IF n = m THEN {c} ELSE {})
      BY <1>2, MovesOne DEF AllKept, Requeuers
    <3>3. IsFiniteSet(Requeuers(n)) /\ Cardinality(Requeuers(n)) \in Nat
      BY <2>2, FS_CardinalityType DEF Kept
    <3>4. /\ IsFiniteSet(Requeuers(n)') /\ Cardinality(Requeuers(n)') \in Nat
          /\ Cardinality(Requeuers(n)') <= Cardinality(Requeuers(n)) + (IF n = m THEN 1 ELSE 0)
      <4>1. CASE n = m
        <5>1. /\ IsFiniteSet(Requeuers(n) \cup {c})
              /\ Cardinality(Requeuers(n) \cup {c}) =
                   IF c \in Requeuers(n) THEN Cardinality(Requeuers(n)) ELSE Cardinality(Requeuers(n)) + 1
          BY <3>3, FS_AddElement, Zenon
        <5>2. Requeuers(n)' \subseteq Requeuers(n) \cup {c}
          BY <3>2, <4>1
        <5>3. /\ IsFiniteSet(Requeuers(n)') /\ Cardinality(Requeuers(n)') \in Nat
              /\ Cardinality(Requeuers(n)') <= Cardinality(Requeuers(n) \cup {c})
          BY <5>1, <5>2, FS_Subset, FS_CardinalityType
        <5>4. QED
          BY <3>3, <4>1, <5>1, <5>3
      <4>2. CASE n # m
        <5>1. Requeuers(n)' \subseteq Requeuers(n)
          BY <3>2, <4>2
        <5>2. QED
          BY <3>3, <4>2, <5>1, FS_Subset, FS_CardinalityType
      <4>3. QED
        BY <4>1, <4>2
    <3>5. QED
      BY <1>2, <2>2, <3>1, <3>3, <3>4 DEF Kept
  <2>3. QED
    BY <2>1, <2>2 DEF AllKept
<1>8. QED
  BY <1>2, <1>5, <1>6, <1>7 DEF AllKept

\* An lrem takes a copy of a resolved message, or the one its consumer owes.
LEMMA DropKept ==
  ASSUME AllKept, Typed', [Next]_vars, NEW c \in Consumer, Drop(c)
  PROVE  AllKept'
<1>1. PICK m : m = msg[c]
  OBVIOUS
<1>2. /\ at[c] \in {"refused", "requeued", "given_up", "cleared"}
      /\ inflight' = RemoveFirst(inflight, m)
      /\ UNCHANGED <<results, buried, emitted, row>>
      /\ \/ at[c] = "given_up" /\ Moves(c, "forget", m)
         \/ Moves(c, "idle", None)
  BY <1>1, ReplyMoves DEF Drop
<1>3. m \in emitted /\ m \in Message /\ m.sub \in Submission
  BY <1>1, <1>2 DEF AllKept, OnlyEmitted, Typed, TypeOK, Busy, Calling, Message
<1>4. results \in Seq(Message) /\ inflight \in Seq(Message)
  BY DEF AllKept, Typed, TypeOK
<1>5. Range(results') \subseteq emitted /\ Range(inflight') \subseteq emitted
  BY <1>2, <1>4, RangeRemoveFirst DEF AllKept, OnlyEmitted
<1>6. \A n : Copies(inflight', n) = IF n = m /\ n \in Range(inflight)
                                   THEN Copies(inflight, n) - 1 ELSE Copies(inflight, n)
  BY <1>2, <1>4, CopiesRemoveFirst
<1>7. "idle" \notin Busy /\ "idle" \notin Done /\ "forget" # "requeued"
  BY DEF Busy, Done, Calling
<1>8. CASE at[c] # "requeued"
  <2>1. Resolved(m.sub) /\ Resolved(m.sub)'
    BY <1>1, <1>2, <1>3, <1>8, Monotone DEF AllKept, DoneIsResolved, Done
  <2>2. ASSUME NEW n \in emitted
        PROVE  \/ Resolved(n.sub)'
               \/ Copies(results', n) + Copies(inflight', n) >= Copies(results, n) + Copies(inflight, n)
    <3>1. Copies(results, n) \in Nat /\ Copies(inflight, n) \in Nat
      BY <1>4, CopiesType
    <3>2. QED
      BY <1>2, <1>6, <2>1, <3>1
  <2>3. QED
    BY <1>2, <1>3, <1>5, <1>7, <2>1, <2>2, Monotone, KeptStays
<1>9. CASE at[c] = "requeued"
  <2>1. Moves(c, "idle", None)
    BY <1>2, <1>9
  <2>2. OnlyEmitted' /\ DoneIsResolved'
    BY <1>2, <1>5, <1>7, <2>1, MovesOne DEF AllKept, OnlyEmitted, DoneIsResolved, Resolved, Settled
  <2>3. ASSUME NEW n \in emitted PROVE Resolved(n.sub)' \/ Kept(n)'
    <3>1. CASE Resolved(n.sub)
      BY <1>2, <3>1 DEF Resolved, Settled
    <3>2. CASE Kept(n)
      <4>1. IsFiniteSet(Requeuers(n)) /\ Cardinality(Requeuers(n)) \in Nat
        BY <3>2, FS_CardinalityType DEF Kept
      <4>2. Copies(results, n) \in Nat /\ Copies(inflight, n) \in Nat
        BY <1>4, CopiesType
      <4>3. CASE n = m
        <5>1. c \in Requeuers(n) /\ Requeuers(n)' \subseteq Requeuers(n) \ {c}
          BY <1>1, <1>9, <2>1, <4>3, MovesOne DEF AllKept, Requeuers
        <5>2. /\ IsFiniteSet(Requeuers(n) \ {c})
              /\ Cardinality(Requeuers(n) \ {c}) = Cardinality(Requeuers(n)) - 1
          BY <4>1, <5>1, FS_RemoveElement
        <5>3. /\ IsFiniteSet(Requeuers(n)') /\ Cardinality(Requeuers(n)') \in Nat
              /\ Cardinality(Requeuers(n)') <= Cardinality(Requeuers(n) \ {c})
          BY <5>1, <5>2, FS_Subset, FS_CardinalityType
        <5>4. Copies(inflight', n) >= Copies(inflight, n) - 1 /\ Copies(inflight', n) \in Int
          BY <1>6, <4>2
        <5>5. QED
          BY <1>2, <3>2, <4>1, <4>2, <5>2, <5>3, <5>4 DEF Kept
      <4>4. CASE n # m
        <5>1. Requeuers(n)' \subseteq Requeuers(n)
          BY <2>1, MovesOne DEF AllKept, Requeuers
        <5>2. /\ IsFiniteSet(Requeuers(n)') /\ Cardinality(Requeuers(n)') \in Nat
              /\ Cardinality(Requeuers(n)') <= Cardinality(Requeuers(n))
          BY <4>1, <5>1, FS_Subset, FS_CardinalityType
        <5>3. QED
          BY <1>2, <1>6, <3>2, <4>1, <4>2, <4>4, <5>2 DEF Kept
      <4>5. QED
        BY <4>3, <4>4
    <3>3. QED
      BY <3>1, <3>2 DEF AllKept
  <2>4. QED
    BY <1>2, <2>2, <2>3 DEF AllKept
<1>10. QED
  BY <1>8, <1>9

\* Every step of a consumer, for the chain as well.
LEMMA ConsumerNextKept ==
  ASSUME AllKept, Typed', [Next]_vars, ConsumerNext
  PROVE  AllKept'
BY OthersKept, MovesKept, BuryKept, ApplyKept, CountKept, RequeueKept, DropKept
   DEF ConsumerNext, Consume

LEMMA InitKept == Init => AllKept
<1> SUFFICES ASSUME Init PROVE AllKept
  OBVIOUS
<1>1. Typed
  BY Places DEF Init, Typed, TypeOK, HandsTyped
<1>2. Range(results) = {} /\ Range(inflight) = {} /\ emitted = {}
  BY DEF Init, Range
<1>3. \A c \in Consumer : at[c] \notin Busy /\ at[c] \notin Done
  BY DEF Init, Busy, Calling, Done
<1>4. QED
  BY <1>1, <1>2, <1>3 DEF AllKept, OnlyEmitted, DoneIsResolved

LEMMA AllKeptSuffices == AllKept => NoResultLost
<1> SUFFICES ASSUME AllKept, NEW m \in emitted, ~Resolved(m.sub)
             PROVE  \E n \in Range(results) \cup Range(inflight) : n.sub = m.sub
  BY DEF NoResultLost, Resolved, Queued
<1>1. Kept(m)
  BY DEF AllKept
<1>2. /\ Cardinality(Requeuers(m)) \in Nat
      /\ Copies(results, m) + Copies(inflight, m) > Cardinality(Requeuers(m))
  BY <1>1, FS_CardinalityType DEF Kept
<1>3. Copies(results, m) \in Nat /\ Copies(inflight, m) \in Nat
  BY CopiesOfMessages DEF AllKept
<1>4. Copies(results, m) > 0 \/ Copies(inflight, m) > 0
  BY <1>2, <1>3
<1>5. m \in Range(results) \/ m \in Range(inflight)
  BY <1>4, CopiesType DEF AllKept, Typed, TypeOK
<1>6. QED
  BY <1>5

\* Whatever fails or crashes, and whoever's copy an lrem hits, a result that was pushed
\* is settled, queued, in flight or among the dead
\* (consume_judge_results.py:91, "never lose the result").
THEOREM ResultsAreKept == Spec => []NoResultLost
<1>1. AllKept /\ [Next]_vars => AllKept'
  <2> SUFFICES ASSUME AllKept, [Next]_vars PROVE AllKept'
    OBVIOUS
  <2>1. Typed'
    BY NextTyped DEF AllKept
  <2>2. ASSUME NEW m \in Message, Arrive(m) PROVE AllKept'
    BY <2>1, <2>2, ArrivalKept DEF Arrive
  <2>3. QED
    BY <2>1, <2>2, OthersKept, ConsumerNextKept DEF Next
<1>2. QED
  BY <1>1, InitKept, AllKeptSuffices, PTL DEF Spec

---------------------------------------------------------------------------
(* For the chain: the invariant of the broadcasts does not mind what the   *)
(* judge pushes.                                                           *)

LEMMA ArrivalOnce ==
  ASSUME Once, NEW m \in Message,
         results' = Append(results, m), emitted' = emitted \cup {m},
         UNCHANGED <<inflight, buried, tries, row, at, msg, told, failures, faults, exits>>
  PROVE  Once'
<1>1. results' \in Seq(Message)
  BY RangeAppend DEF Once, Typed, TypeOK
<1>2. Typed'
  BY <1>1 DEF Once, Typed, TypeOK, HandsTyped
<1>3. \A s \in Submission : AtMostOnce(s)'
  BY DEF Once, AtMostOnce, Telling, Settled
<1>4. QED
  BY <1>2, <1>3 DEF Once

\* Nothing happens here.
LEMMA IdleKept ==
  ASSUME AllKept, Once, UNCHANGED vars
  PROVE  AllKept' /\ Once'
<1>1. Once'
  BY NextOnce
<1>2. Typed'
  BY <1>1 DEF Once
<1>3. QED
  BY <1>1, <1>2, OthersKept

\* What a consumer does to a row and to its author's socket.
LEMMA ConsumerEffects ==
  ASSUME ConsumerNext
  PROVE  \/ UNCHANGED <<row, told>>
         \/ \E c \in Consumer :
              /\ at[c] = "picked" /\ row[msg[c].sub] = "pending"
              /\ row' = [row EXCEPT ![msg[c].sub] = msg[c].verdict]
              /\ UNCHANGED told
         \/ \E c \in Consumer :
              /\ at[c] = "committed"
              /\ told' = [told EXCEPT ![msg[c].sub] = @ + 1]
              /\ UNCHANGED row
<1>1. ASSUME NEW s \in Submission, TriesExpire(s) PROVE UNCHANGED <<row, told>>
  BY <1>1 DEF TriesExpire
<1>2. ASSUME NEW c \in Consumer,
             \/ RecoverOrphans(c) \/ Take(c) \/ Refuse(c) \/ CountFailure(c) \/ Requeue(c)
             \/ GiveUp(c) \/ Drop(c) \/ ClearTries(c) \/ CallFails(c) \/ Start(c) \/ Exit(c)
      PROVE  UNCHANGED <<row, told>>
  BY <1>2 DEF RecoverOrphans, Take, Refuse, CountFailure, Requeue, GiveUp, Drop, ClearTries,
              CallFails, Start, Exit
<1>3. ASSUME NEW c \in Consumer, Apply(c) \/ Broadcast(c) \/ ApplyFails(c)
      PROVE  \/ UNCHANGED <<row, told>>
             \/ /\ at[c] = "picked" /\ row[msg[c].sub] = "pending"
                /\ row' = [row EXCEPT ![msg[c].sub] = msg[c].verdict]
                /\ UNCHANGED told
             \/ /\ at[c] = "committed"
                /\ told' = [told EXCEPT ![msg[c].sub] = @ + 1]
                /\ UNCHANGED row
  BY <1>3 DEF Apply, Broadcast, ApplyFails
<1>4. QED
  BY <1>1, <1>2, <1>3 DEF ConsumerNext, Consume

LEMMA ConsumerPushesNothing == ConsumerNext => UNCHANGED emitted
BY DEF ConsumerNext, Consume, RecoverOrphans, Take, Refuse, Apply, Broadcast, CountFailure,
       Requeue, GiveUp, Drop, ClearTries, ApplyFails, CallFails, Start, Exit, TriesExpire

=============================================================================
