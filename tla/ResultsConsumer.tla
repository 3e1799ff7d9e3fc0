-------------------------- MODULE ResultsConsumer --------------------------
(***************************************************************************)
(* The last link of the judging chain: the management command              *)
(* consume_judge_results with the submission row it writes and the         *)
(* signals that row's save fires.  A consumer moves one result from        *)
(* judge:results onto judge:results:processing, applies it in a            *)
(* transaction that locks the row and skips a row that has its verdict,    *)
(* runs the on_commit hooks and drops the result.  A failure requeues the  *)
(* result, MAX_ATTEMPTS times.                                             *)
(*                                                                         *)
(* The processing list is shared by all consumers, and a starting consumer *)
(* empties it back onto the queue, whatever a running one holds of it: on  *)
(* a deploy two of them overlap.  Every Redis call, the transaction and    *)
(* the hooks are separate actions; a process can be killed between any two.*)
(***************************************************************************)
EXTENDS Naturals, FiniteSets, SequencesExt

CONSTANTS
  Submission, Verdict, Consumer,
  Unknown,      \* verdicts of a newer judge that this backend's schema refuses
  None,
  MaxTries,     \* MAX_ATTEMPTS
  MaxFailures,  \* bound: failures of apply_result per submission
  MaxFaults,    \* bound: Redis calls of a consumer that raise, attempt counters that expire
  MaxExits,     \* bound: ends of a consumer process
  MaxArrivals   \* bound: results the judge sends, when the judge is not modelled

ASSUME ConsumerAssumption ==
  /\ Unknown \subseteq Verdict
  /\ {"none", "pending", "deleted"} \cap Verdict = {}
  /\ None \notin [sub : Submission, verdict : Verdict]
ASSUME ConsumerBounds ==
  /\ MaxTries \in Nat /\ MaxFailures \in Nat /\ MaxFaults \in Nat
  /\ MaxExits \in Nat /\ MaxArrivals \in Nat

VARIABLES
  results,   \* judge:results, shared with the judge
  emitted,   \* history, shared with the judge: every result ever pushed there
  inflight,  \* judge:results:processing
  buried,    \* judge:results:dead, as the set of what was ever put there
  tries,     \* judge:results:attempts:<submission>
  row,       \* the submission's row: "none", "pending", a verdict or "deleted"
  at,        \* where each consumer process stands
  msg,       \* the result process_message was called with
  told,      \* history: verdict broadcasts per submission
  failures,  \* history: entries into process_message's except branch
  faults, exits

listVars == <<results, inflight, buried>>
vars == <<listVars, emitted, tries, row, at, msg, told, failures, faults, exits>>

Message == [sub : Submission, verdict : Verdict]

\* The places where the next call goes to Redis; its failure reaches the loop.
Calling == {"refusable", "refused", "failed", "requeue", "requeued", "giveup",
            "given_up", "forget", "settled", "cleared"}
Place == Calling \cup {"off", "recovering", "idle", "picked", "committed"}

\* The row needs no (further) result.
Settled(s) == row[s] \in Verdict \cup {"deleted"}

TypeOK ==
  /\ results \in Seq(Message)
  /\ emitted \subseteq Message
  /\ inflight \in Seq(Message)
  /\ buried \subseteq Message
  /\ tries \in [Submission -> Nat]
  /\ row \in [Submission -> {"none", "pending", "deleted"} \cup Verdict]
  /\ at \in [Consumer -> Place]
  /\ msg \in [Consumer -> Message \cup {None}]
  /\ told \in [Submission -> Nat]
  /\ failures \in [Submission -> Nat]
  /\ faults \in Nat /\ exits \in Nat

Init ==
  /\ results = <<>> /\ inflight = <<>> /\ emitted = {} /\ buried = {}
  /\ tries = [s \in Submission |-> 0]
  /\ row = [s \in Submission |-> "none"]
  /\ at = [c \in Consumer |-> "off"]
  /\ msg = [c \in Consumer |-> None]
  /\ told = [s \in Submission |-> 0]
  /\ failures = [s \in Submission |-> 0]
  /\ faults = 0 /\ exits = 0

---------------------------------------------------------------------------
(* The row's other writers, and the judge as seen from here.               *)

\* SubmissionViewSet.create saves the row, committed before anything is queued.
Create(s) ==
  /\ row[s] = "none"
  /\ row' = [row EXCEPT ![s] = "pending"]
  /\ UNCHANGED <<listVars, emitted, tries, at, msg, told, failures, faults, exits>>

\* The row goes with its author or its problem (on_delete=CASCADE).
Delete(s) ==
  /\ row[s] \notin {"none", "deleted"}
  /\ row' = [row EXCEPT ![s] = "deleted"]
  /\ UNCHANGED <<listVars, emitted, tries, at, msg, told, failures, faults, exits>>

\* A judge worker pushes a result; more than one per submission can come.
Arrive(m) ==
  /\ row[m.sub] # "none"
  /\ Cardinality(emitted) < MaxArrivals
  /\ m \notin emitted
  /\ results' = Append(results, m)
  /\ emitted' = emitted \cup {m}
  /\ UNCHANGED <<inflight, buried, tries, row, at, msg, told, failures, faults, exits>>

---------------------------------------------------------------------------
(* How a consumer moves.                                                   *)

Step(c, p, m) ==
  /\ at' = [at EXCEPT ![c] = p]
  /\ msg' = [msg EXCEPT ![c] = m]

\* The except branch of the command's loop: log, sleep, next message.
BackOff(c) ==
  /\ faults < MaxFaults
  /\ faults' = faults + 1
  /\ Step(c, "idle", None)

\* Redis has run the command; its reply arrives, or is lost and the call raises.
Reply(c, p, m) ==
  \/ Step(c, p, m) /\ UNCHANGED faults
  \/ BackOff(c)

\* The call raises before Redis runs the command.
CallFails(c) ==
  /\ at[c] \in Calling
  /\ BackOff(c)
  /\ UNCHANGED <<listVars, emitted, tries, row, told, failures, exits>>

---------------------------------------------------------------------------
(* The command: recover_orphans once, then the drain loop.                 *)

\* Slip: a starting consumer leaves the processing list as it finds it.
StartAtOnce(c) ==
  /\ at[c] = "off"
  /\ Step(c, "idle", None)
  /\ UNCHANGED <<listVars, emitted, tries, row, told, failures, faults, exits>>

Start(c) ==
  /\ at[c] = "off"
  /\ Step(c, "recovering", None)
  /\ UNCHANGED <<listVars, emitted, tries, row, told, failures, faults, exits>>

\* One lmove from the head of the processing list to the head of the queue;
\* the first that finds the list empty ends the recovery.
RecoverOrphans(c) ==
  /\ at[c] = "recovering"
  /\ \/ /\ inflight # <<>>
        /\ results' = <<Head(inflight)>> \o results
        /\ inflight' = Tail(inflight)
        /\ UNCHANGED <<at, msg>>
     \/ /\ inflight = <<>>
        /\ Step(c, "idle", None)
        /\ UNCHANGED <<results, inflight>>
  /\ UNCHANGED <<emitted, buried, tries, row, told, failures, faults, exits>>

\* Slip: the queue is popped, the result is only in the consumer's memory.
TakeByPop(c) ==
  /\ at[c] = "idle"
  /\ results # <<>>
  /\ results' = Tail(results)
  /\ LET m == Head(results)
     IN  Reply(c, IF m.verdict \in Unknown THEN "refusable" ELSE "picked", m)
  /\ UNCHANGED <<inflight, emitted, buried, tries, row, told, failures, exits>>

\* blmove from the head of the queue to the tail of the processing list; what
\* the schema refuses goes another way.
Take(c) ==
  /\ at[c] = "idle"
  /\ results # <<>>
  /\ results' = Tail(results)
  /\ inflight' = Append(inflight, Head(results))
  /\ LET m == Head(results)
     IN  Reply(c, IF m.verdict \in Unknown THEN "refusable" ELSE "picked", m)
  /\ UNCHANGED <<emitted, buried, tries, row, told, failures, exits>>

\* The result does not parse: rpush to judge:results:dead.
Refuse(c) ==
  /\ at[c] = "refusable"
  /\ buried' = buried \cup {msg[c]}
  /\ Reply(c, "refused", msg[c])
  /\ UNCHANGED <<results, inflight, emitted, tries, row, told, failures, exits>>

\* Slip: no dedup, every result is written.
ApplyAlways(c) ==
  /\ at[c] = "picked"
  /\ LET s == msg[c].sub
     IN  \/ /\ row[s] # "deleted"
            /\ row' = [row EXCEPT ![s] = msg[c].verdict]
            /\ Step(c, "committed", msg[c])
         \/ /\ row[s] = "deleted"
            /\ Step(c, "settled", msg[c])
            /\ UNCHANGED row
  /\ UNCHANGED <<listVars, emitted, tries, told, failures, faults, exits>>

\* Slip: a redelivery changes nothing but fires the hooks again.
ApplyAndSave(c) ==
  /\ at[c] = "picked"
  /\ LET s == msg[c].sub
     IN  /\ row' = [row EXCEPT ![s] = IF @ = "pending" THEN msg[c].verdict ELSE @]
         /\ Step(c, IF row[s] = "deleted" THEN "settled" ELSE "committed", msg[c])
  /\ UNCHANGED <<listVars, emitted, tries, told, failures, faults, exits>>

\* apply_result commits: the row lock makes the whole transaction one step.
\* A missing row and a row that has its verdict are left alone.
Apply(c) ==
  /\ at[c] = "picked"
  /\ LET s == msg[c].sub
     IN  \/ /\ row[s] = "pending"
            /\ row' = [row EXCEPT ![s] = msg[c].verdict]
            /\ Step(c, "committed", msg[c])
         \/ /\ row[s] # "pending"
            /\ Step(c, "settled", msg[c])
            /\ UNCHANGED row
  /\ UNCHANGED <<listVars, emitted, tries, told, failures, faults, exits>>

\* The on_commit hooks: the leaderboard's, then the verdict broadcast.
Broadcast(c) ==
  /\ at[c] = "committed"
  /\ told' = [told EXCEPT ![msg[c].sub] = @ + 1]
  /\ Step(c, "settled", msg[c])
  /\ UNCHANGED <<listVars, emitted, tries, row, failures, faults, exits>>

\* apply_result raises: the transaction rolled back, or a hook failed after
\* the commit, before or after the verdict was broadcast.
ApplyFails(c) ==
  /\ at[c] \in {"picked", "committed"}
  /\ failures[msg[c].sub] < MaxFailures
  /\ failures' = [failures EXCEPT ![msg[c].sub] = @ + 1]
  /\ \/ UNCHANGED told
     \/ at[c] = "committed" /\ told' = [told EXCEPT ![msg[c].sub] = @ + 1]
  /\ Step(c, "failed", msg[c])
  /\ UNCHANGED <<listVars, emitted, tries, row, faults, exits>>

\* Slip: one retry too few.
CountFailureEarly(c) ==
  /\ at[c] = "failed"
  /\ tries' = [tries EXCEPT ![msg[c].sub] = @ + 1]
  /\ Reply(c, IF tries'[msg[c].sub] >= MaxTries THEN "giveup" ELSE "requeue", msg[c])
  /\ UNCHANGED <<listVars, emitted, row, told, failures, exits>>

\* incr (and expire) of the attempt counter.
CountFailure(c) ==
  /\ at[c] = "failed"
  /\ tries' = [tries EXCEPT ![msg[c].sub] = @ + 1]
  /\ \/ tries'[msg[c].sub] > MaxTries /\ Reply(c, "giveup", msg[c])
     \/ tries'[msg[c].sub] <= MaxTries /\ Reply(c, "requeue", msg[c])
  /\ UNCHANGED <<listVars, emitted, row, told, failures, exits>>

\* rpush back to judge:results.
Requeue(c) ==
  /\ at[c] = "requeue"
  /\ results' = Append(results, msg[c])
  /\ Reply(c, "requeued", msg[c])
  /\ UNCHANGED <<inflight, buried, emitted, tries, row, told, failures, exits>>

\* rpush to judge:results:dead.
GiveUp(c) ==
  /\ at[c] = "giveup"
  /\ buried' = buried \cup {msg[c]}
  /\ Reply(c, "given_up", msg[c])
  /\ UNCHANGED <<results, inflight, emitted, tries, row, told, failures, exits>>

\* lrem of the result: once it is queued again, put with the dead, or settled
\* and its attempt counter deleted.
Drop(c) ==
  /\ at[c] \in {"refused", "requeued", "given_up", "cleared"}
  /\ inflight' = RemoveFirst(inflight, msg[c])
  /\ \/ at[c] = "given_up" /\ Reply(c, "forget", msg[c])
     \/ at[c] # "given_up" /\ Reply(c, "idle", None)
  /\ UNCHANGED <<results, buried, emitted, tries, row, told, failures, exits>>

\* Slip: the counter is decremented, not deleted.
ClearOneTry(c) ==
  /\ at[c] \in {"settled", "forget"}
  /\ tries' = [tries EXCEPT ![msg[c].sub] = @ - 1]
  /\ Reply(c, IF at[c] = "settled" THEN "cleared" ELSE "idle",
              IF at[c] = "settled" THEN msg[c] ELSE None)
  /\ UNCHANGED <<listVars, emitted, row, told, failures, exits>>

\* delete of the attempt counter: before the lrem of a settled result, after
\* that of one given up.
ClearTries(c) ==
  /\ at[c] \in {"settled", "forget"}
  /\ tries' = [tries EXCEPT ![msg[c].sub] = 0]
  /\ \/ at[c] = "settled" /\ Reply(c, "cleared", msg[c])
     \/ at[c] = "forget" /\ Reply(c, "idle", None)
  /\ UNCHANGED <<listVars, emitted, row, told, failures, exits>>

\* Killed anywhere, or stopped by SIGTERM between two messages.
Exit(c) ==
  /\ at[c] # "off"
  /\ exits < MaxExits
  /\ exits' = exits + 1
  /\ Step(c, "off", None)
  /\ UNCHANGED <<listVars, emitted, tries, row, told, failures, faults>>

\* The counter of a result nobody failed on for ATTEMPTS_TTL_SEC.
TriesExpire(s) ==
  /\ tries[s] > 0
  /\ faults < MaxFaults
  /\ faults' = faults + 1
  /\ tries' = [tries EXCEPT ![s] = 0]
  /\ UNCHANGED <<listVars, emitted, row, at, msg, told, failures, exits>>

---------------------------------------------------------------------------
Consume(c) ==
  \/ RecoverOrphans(c) \/ Take(c) \/ Refuse(c)
  \/ Apply(c) \/ Broadcast(c) \/ CountFailure(c)
  \/ Requeue(c) \/ GiveUp(c) \/ Drop(c) \/ ClearTries(c)

ConsumerNext ==
  \/ \E c \in Consumer : Consume(c) \/ ApplyFails(c) \/ CallFails(c) \/ Start(c) \/ Exit(c)
  \/ \E s \in Submission : TriesExpire(s)

Next ==
  \/ ConsumerNext
  \/ \E s \in Submission : Create(s) \/ Delete(s)
  \/ \E m \in Message : Arrive(m)

Spec == Init /\ [][Next]_vars

\* A consumer keeps running and the container runtime starts it again when it
\* ended (restart: unless-stopped); nothing makes one crash, fail or be replaced.
Fairness ==
  \A c \in Consumer : WF_vars(Consume(c)) /\ WF_vars(Start(c))

FairSpec == Spec /\ Fairness

---------------------------------------------------------------------------
(* Properties.                                                             *)

Queued(s) ==
  \E m \in Range(results) \cup Range(inflight) \cup buried : m.sub = s

\* No result is lost (consume_judge_results.py:91, "never lose the result"):
\* whatever fails or crashes, and whoever else's copies an lrem hits, the
\* submission of a result that was pushed has its verdict or is deleted, or a
\* result of it is still queued, in flight or among the dead letters.
NoResultLost ==
  \A m \in emitted : Settled(m.sub) \/ Queued(m.sub)

\* A verdict, once on the row, never changes (lines 60-63): not by a redelivery,
\* a second answer of the judge, a retry, or a consumer racing another.
VerdictFinal ==
  [][\A s \in Submission : row[s] \in Verdict => row'[s] \in {row[s], "deleted"}]_row

\* The author's socket hears of a submission's verdict at most once, and never
\* before it is committed (lines 60-61 and signals.py:64-73): redeliveries and
\* failures of the hooks repeat nothing.
ToldOnce ==
  \A s \in Submission : told[s] <= 1 /\ (told[s] = 1 => Settled(s))

\* A readable result is given up only after MAX_ATTEMPTS failures and one more,
\* counted across all consumers (lines 90-102).
GivenUpOnlyAfterRetries ==
  \A m \in buried : m.verdict \notin Unknown => failures[m.sub] > MaxTries

\* As long as no call to Redis raised, every result on the queue eventually settles
\* its submission or ends among the dead letters, however often consumers are
\* killed, started again and overlap (lines 128-134, 181-201).
EveryResultSettled ==
  \A s \in Submission :
    (\E m \in Range(results) : m.sub = s) ~>
      (Settled(s) \/ (\E m \in buried : m.sub = s) \/ faults > 0)
=============================================================================
