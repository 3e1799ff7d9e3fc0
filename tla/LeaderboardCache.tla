--------------------------- MODULE LeaderboardCache ---------------------------
(***************************************************************************)
(* The cached standings of one contest (contests/cache.py), the requests   *)
(* that read them (the leaderboard action) and the two writers of the      *)
(* table: the consumer that scores a verdict and the task that rates the   *)
(* round.  A cached page carries the generation it was filled under; a     *)
(* writer commits, bumps the generation and only then tells the pages that *)
(* are open.  Every call to the cache or the database is a step.           *)
(*                                                                         *)
(* All pages of a contest behave alike, one stands for them.  The table is *)
(* a version number.  Losing the counter itself (a restart of Redis) is    *)
(* left out.                                                               *)
(***************************************************************************)
EXTENDS Integers, Sequences

CONSTANTS Readers,     \* web processes that answer a request
          Writers,     \* the processes that write the standings
          MaxVersion,  \* bound: commits
          MaxReads     \* bound: requests

VARIABLES version,     \* the committed standings
          gen,         \* cache: the generation counter, Unset before its first use
          cached,      \* cache: the pages, [gen, version]
          reader,      \* each request
          writer,      \* what each writer has committed and how far it is
          told,        \* ghost: the newest version whose signal is out
          undone,      \* ghost: a reader's seed overwrote a bust
          reads

vars == <<version, gen, cached, reader, writer, told, undone, reads>>

Unset == -1
Idle == [step |-> "idle", gen |-> 0, version |-> 0, since |-> 0]
Quiet == [at |-> 0, version |-> 0]

-----------------------------------------------------------------------------
(* A writer. *)

\* Slip: the signal goes out first.
PublishSlip == <<"tell", "bust">>

\* What happens after the commit, in this order.
Publish == <<"bust", "tell">>

Commit(w) ==
  /\ writer[w].at = 0 /\ version < MaxVersion
  /\ version' = version + 1
  /\ writer' = [writer EXCEPT ![w] = [at |-> 1, version |-> version + 1]]
  /\ UNCHANGED <<gen, cached, reader, told, undone, reads>>

Advance(w) ==
  writer' = [writer EXCEPT ![w] = IF @.at = Len(Publish) THEN Quiet
                                  ELSE [at |-> @.at + 1, version |-> @.version]]

\* incr, or a first value of 1 when there is no counter.
Bust(w) ==
  /\ writer[w].at # 0 /\ Publish[writer[w].at] = "bust"
  /\ gen' = IF gen = Unset THEN 1 ELSE gen + 1
  /\ Advance(w)
  /\ UNCHANGED <<version, cached, reader, told, undone, reads>>

Tell(w) ==
  /\ writer[w].at # 0 /\ Publish[writer[w].at] = "tell"
  /\ told' = IF writer[w].version > told THEN writer[w].version ELSE told
  /\ Advance(w)
  /\ UNCHANGED <<version, gen, cached, reader, undone, reads>>

-----------------------------------------------------------------------------
(* A request. *)

Ask(r) ==
  /\ reader[r].step \in {"idle", "done"} /\ reads < MaxReads
  /\ reads' = reads + 1
  /\ reader' = [reader EXCEPT ![r] = [Idle EXCEPT !.step = "gen", !.since = told]]
  /\ UNCHANGED <<version, gen, cached, writer, told, undone>>

\* get_generation: without a counter the reader goes on with 0 and seeds it.
GetGeneration(r) ==
  /\ reader[r].step = "gen"
  /\ reader' = [reader EXCEPT ![r].step = IF gen = Unset THEN "seed" ELSE "look",
                              ![r].gen = IF gen = Unset THEN 0 ELSE gen]
  /\ UNCHANGED <<version, gen, cached, writer, told, undone, reads>>

Seed(r) ==
  /\ reader[r].step = "seed"
  /\ gen' = 0 /\ undone' = (undone \/ gen > 0)
  /\ reader' = [reader EXCEPT ![r].step = "look"]
  /\ UNCHANGED <<version, cached, writer, told, reads>>

\* A cached page is the answer, otherwise the table is read.
Look(r) ==
  /\ reader[r].step = "look"
  /\ LET hits == {c \in cached : c.gen = reader[r].gen} IN
     IF hits = {}
     THEN reader' = [reader EXCEPT ![r].step = "query"]
     ELSE \E c \in hits : reader' = [reader EXCEPT ![r].step = "done",
                                                   ![r].version = c.version]
  /\ UNCHANGED <<version, gen, cached, writer, told, undone, reads>>

Query(r) ==
  /\ reader[r].step = "query"
  /\ reader' = [reader EXCEPT ![r].step = "store", ![r].version = version]
  /\ UNCHANGED <<version, gen, cached, writer, told, undone, reads>>

\* The page is stored under the key taken at the start.
Store(r) ==
  /\ reader[r].step = "store"
  /\ cached' = {c \in cached : c.gen # reader[r].gen}
               \cup {[gen |-> reader[r].gen, version |-> reader[r].version]}
  /\ reader' = [reader EXCEPT ![r].step = "done"]
  /\ UNCHANGED <<version, gen, writer, told, undone, reads>>

\* LEADERBOARD_TTL.
Expire ==
  /\ \E c \in cached : cached' = cached \ {c}
  /\ UNCHANGED <<version, gen, reader, writer, told, undone, reads>>

-----------------------------------------------------------------------------
Init ==
  /\ version = 0 /\ gen = Unset /\ cached = {}
  /\ reader = [r \in Readers |-> Idle] /\ writer = [w \in Writers |-> Quiet]
  /\ told = 0 /\ undone = FALSE /\ reads = 0

Next ==
  \/ Expire
  \/ \E w \in Writers : Commit(w) \/ Bust(w) \/ Tell(w)
  \/ \E r \in Readers :
       Ask(r) \/ GetGeneration(r) \/ Seed(r) \/ Look(r) \/ Query(r) \/ Store(r)

Spec == Init /\ [][Next]_vars

-----------------------------------------------------------------------------
(* Properties *)

TypeOK ==
  /\ version \in 0..MaxVersion /\ gen \in Unset..MaxVersion
  /\ cached \subseteq [gen : 0..MaxVersion, version : 0..MaxVersion]
  /\ told \in 0..version /\ undone \in BOOLEAN /\ reads \in 0..MaxReads

\* Whoever asks after a signal gets standings at least as new as what the
\* signal was about, although pages are filled, busted and read side by side:
\* "otherwise a client refetches on the signal and gets served the stale page it
\* was told to replace" (cache.py).  Two readers of a counter that does not
\* exist yet can undo a bust with their seed; only then may a page be older.
SignalledPagesAreFresh ==
  \A r \in Readers : reader[r].step = "done" => reader[r].version >= reader[r].since \/ undone
=============================================================================
