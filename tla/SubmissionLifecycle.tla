------------------------ MODULE SubmissionLifecycle ------------------------
(***************************************************************************)
(* What the judging chain promises the author of a submission, whatever    *)
(* happens to the processes and queues in between: a stored submission     *)
(* waits with no verdict, gets at most one, only after the judge was asked *)
(* for it, and keeps it; its socket is told of the verdict at most once,   *)
(* and only of one that stands.                                            *)
(***************************************************************************)
CONSTANTS Submission, Verdict

VARIABLES
  row,    \* "none", "pending", a verdict or "deleted"
  asked,  \* submissions the judge was asked to run
  told    \* how often its verdict was broadcast

vars == <<row, asked, told>>

Init ==
  /\ row = [s \in Submission |-> "none"]
  /\ asked = {}
  /\ told = [s \in Submission |-> 0]

Create(s) ==
  /\ row[s] = "none"
  /\ row' = [row EXCEPT ![s] = "pending"]
  /\ UNCHANGED <<asked, told>>

\* The row may be gone by the time its payload is queued.
Ask(s) ==
  /\ row[s] # "none" /\ s \notin asked
  /\ asked' = asked \cup {s}
  /\ UNCHANGED <<row, told>>

Decide(s) ==
  /\ row[s] = "pending" /\ s \in asked
  /\ \E v \in Verdict : row' = [row EXCEPT ![s] = v]
  /\ UNCHANGED <<asked, told>>

Tell(s) ==
  /\ row[s] \in Verdict \cup {"deleted"} /\ s \in asked /\ told[s] = 0
  /\ told' = [told EXCEPT ![s] = 1]
  /\ UNCHANGED <<row, asked>>

Delete(s) ==
  /\ row[s] \in Verdict \cup {"pending"}
  /\ row' = [row EXCEPT ![s] = "deleted"]
  /\ UNCHANGED <<asked, told>>

Next ==
  \E s \in Submission : Create(s) \/ Ask(s) \/ Decide(s) \/ Tell(s) \/ Delete(s)

Spec == Init /\ [][Next]_vars
=============================================================================
