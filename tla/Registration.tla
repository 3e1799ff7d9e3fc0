---------------------------- MODULE Registration ----------------------------
(***************************************************************************)
(* The "Register" pill of an upcoming contest: the page flips it at once,  *)
(* sends the request, and flips it back when the request is refused.  The  *)
(* pill stays a button meanwhile, so several requests of one reader may be *)
(* in flight, served and answered in any order.                            *)
(***************************************************************************)
EXTENDS Integers, Sequences, SequencesExt

CONSTANTS MaxClicks,   \* bound: clicks on the pill
          MaxLost      \* bound: requests that never reach the server

VARIABLES verified,    \* server: the reader's address is confirmed (settled elsewhere)
          joined,      \* server: the reader is a participant
          started,     \* server: the roster is locked
          listed,      \* c.is_joined of the page's row
          override,    \* regOverride: the page's own idea, {} if unset
          calls,       \* requests in flight: [was, answer]
          clicks, lost

vars == <<verified, joined, started, listed, override, calls, clicks, lost>>

Answers == {"none", "ok", "refused"}

\* regOverride[c.id] ?? c.is_joined
Registered == IF override = {} THEN listed ELSE TRUE \in override

\* toggleReg: was is what the pill showed when it was pressed.
Toggle ==
  /\ clicks < MaxClicks /\ clicks' = clicks + 1
  /\ override' = {~Registered}
  /\ calls' = Append(calls, [was |-> Registered, answer |-> "none"])
  /\ UNCHANGED <<verified, joined, started, listed, lost>>

\* join is for readers with a confirmed address, leave for everybody; both refuse
\* once the contest has started, a second join, and the leave of somebody who
\* is not in.
Refuses(call) ==
  \/ ~call.was /\ ~verified
  \/ started
  \/ joined # call.was

Serve(i) ==
  /\ i \in DOMAIN calls /\ calls[i].answer = "none"
  /\ IF Refuses(calls[i])
     THEN /\ calls' = [calls EXCEPT ![i].answer = "refused"]
          /\ UNCHANGED joined
     ELSE /\ calls' = [calls EXCEPT ![i].answer = "ok"]
          /\ joined' = ~joined
  /\ UNCHANGED <<verified, started, listed, override, clicks, lost>>

Start ==
  /\ ~started /\ started' = TRUE
  /\ UNCHANGED <<verified, joined, listed, override, calls, clicks, lost>>

\* The request never gets there: for the page it is a refusal.
Lose(i) ==
  /\ i \in DOMAIN calls /\ calls[i].answer = "none" /\ lost < MaxLost
  /\ lost' = lost + 1
  /\ calls' = [calls EXCEPT ![i].answer = "refused"]
  /\ UNCHANGED <<verified, joined, started, listed, override, clicks>>

\* Slip: a refused request takes the page back to what the list said.
RevertedSlip(c) == listed

\* A refused request takes the page back to what it showed before the click.
Reverted(c) == c.was

Answered(i) ==
  /\ i \in DOMAIN calls /\ calls[i].answer # "none"
  /\ override' = IF calls[i].answer = "refused" THEN {Reverted(calls[i])} ELSE override
  /\ calls' = RemoveAt(calls, i)
  /\ UNCHANGED <<verified, joined, started, listed, clicks, lost>>

Init ==
  /\ verified \in BOOLEAN /\ joined \in BOOLEAN /\ listed = joined
  /\ started = FALSE /\ override = {} /\ calls = <<>> /\ clicks = 0 /\ lost = 0

Next ==
  \/ Toggle \/ Start
  \/ \E i \in 1..MaxClicks : Serve(i) \/ Lose(i) \/ Answered(i)

Spec == Init /\ [][Next]_vars

TypeOK ==
  /\ verified \in BOOLEAN /\ joined \in BOOLEAN /\ started \in BOOLEAN /\ listed \in BOOLEAN
  /\ override \subseteq BOOLEAN
  /\ \A i \in DOMAIN calls : calls[i] \in [was : BOOLEAN, answer : Answers]
  /\ clicks \in 0..MaxClicks /\ lost \in 0..MaxLost

\* Two clicks in a row of a reader with a confirmed address settle: whatever order
\* the join and the leave are served and answered in, the pill ends up telling
\* what the server has.  A third click, a lost request or a start in between can
\* leave it wrong, and so can two clicks of a reader whose address is not
\* confirmed: both requests fail, and the second revert restores the "registered"
\* of the first.
DoubleClickSettles ==
  (calls = <<>> /\ clicks <= 2 /\ lost = 0 /\ ~started /\ verified) => Registered = joined
=============================================================================
