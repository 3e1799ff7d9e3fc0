------------------------------ MODULE MCContest ------------------------------
(***************************************************************************)
(* A contest round seen from four sides, checked in one run: the scores    *)
(* and their rating, the cached standings, the page that follows them live *)
(* and the registration pill.  Which part moves is chosen once, at the     *)
(* start, and the others stand still.                                      *)
(***************************************************************************)
EXTENDS ContestScoring

CONSTANTS Readers, Writers, MaxVersion, MaxReads,
          Viewers, Pages, MaxEvents, MaxClicks, MaxLost

VARIABLES part,
          version, gen, cached, reader, writer, told, undone, reads, \* LeaderboardCache
          viewer, clock, table, final, untold, signalled, open, socket, armed, ended,
          board, fetches, heard, crossed, unheard, events,       \* LiveContest
          verified, joined, started, listed, override, toggles, clicks, lost \* Registration

\* A contest is followed on its page or in the rail of the workspace.
ASSUME ViewerAssumption == Viewers \subseteq {"page", "rail"}

\* So many pages the standings have.
ASSUME PagesAssumption == Pages \in Nat

Cache == INSTANCE LeaderboardCache
Live == INSTANCE LiveContest WITH panel <- board, calls <- fetches, told <- heard
Pill == INSTANCE Registration WITH calls <- toggles

cacheVars == <<version, gen, cached, reader, writer, told, undone, reads>>
liveVars == <<viewer, clock, table, final, untold, signalled, open, socket, armed, ended,
              board, fetches, heard, crossed, unheard, events>>
pillVars == <<verified, joined, started, listed, override, toggles, clicks, lost>>

RoundInit ==
  /\ part \in {"scoring", "cache", "live", "pill"}
  /\ Init /\ Cache!Init /\ Live!Init /\ Pill!Init
  /\ part # "live" => viewer = "page"
  /\ part # "pill" => joined = FALSE /\ verified = FALSE

RoundNext ==
  /\ UNCHANGED part
  /\ \/ part = "scoring" /\ Next /\ UNCHANGED <<cacheVars, liveVars, pillVars>>
     \/ part = "cache" /\ Cache!Next /\ UNCHANGED <<vars, liveVars, pillVars>>
     \/ part = "live" /\ Live!Next /\ UNCHANGED <<vars, cacheVars, pillVars>>
     \/ part = "pill" /\ Pill!Next /\ UNCHANGED <<vars, cacheVars, liveVars>>

\* Live!Fairness, for the steps of that part.
RoundFairness ==
  /\ WF_liveVars(part = "live" /\ Live!Tell("ended"))
  /\ WF_liveVars(part = "live" /\ Live!Proceed)
  /\ WF_liveVars(part = "live" /\ Live!Fire)
  /\ WF_liveVars(part = "live" /\ Live!Answer)

RoundSpec == RoundInit /\ [][RoundNext]_<<part, vars, cacheVars, liveVars, pillVars>> /\ RoundFairness

\* See the modules: that no stale page is served after a signal, that a contest page
\* shows what it was told and gets the final table, and that a double click on
\* the pill settles.
SignalledPagesAreFresh == Cache!SignalledPagesAreFresh
ShownIsAsTold == Live!ShownIsAsTold
FinalTableArrives == Live!FinalTableArrives
DoubleClickSettles == Pill!DoubleClickSettles
=============================================================================
