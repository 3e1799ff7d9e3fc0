---------------------------- MODULE MCClientPages ----------------------------
(***************************************************************************)
(* What the pages of the web client follow, in three parts checked in one  *)
(* run: a paged list, the number on the bell and the submit flow.  Which   *)
(* part moves is chosen once, at the start, and the others stand still.    *)
(***************************************************************************)
EXTENDS Naturals

CONSTANTS Hooks, PageSize, MaxChanges,
          Owner, Other, None, BellRows, MaxBatch, MaxCounts, MaxSeens, MaxSignOuts,
          Problems, Verdicts, FlowRows, MaxMoves,
          MaxFails

VARIABLES part,
          hook, draft, timer, moving, term, cut, sort, board, calls, refused,
          changes, boardFails,                                   \* ListPage
          created, seen, user, count, asks, tracker, landing, bellFails,
          signOuts, settled, dropped, replaced,                  \* UnreadCount
          rows, round, joined, at, statement, langs, flow, toast, sock, list,
          fetches, fails, moves, late                            \* SubmitFlow

\* The accounts are distinct, a batch has room for an id.
ASSUME BellAssumption ==
  Owner # Other /\ None \notin {Owner, Other} /\ MaxBatch \in Nat \ {0}

\* A page of a list has room for a row.
ASSUME PageAssumption == PageSize \in Nat \ {0}

List == INSTANCE ListPage WITH list <- board, fails <- boardFails
Bell == INSTANCE UnreadCount WITH fails <- bellFails, MaxRows <- BellRows
Flow == INSTANCE SubmitFlow WITH MaxRows <- FlowRows

listVars == <<hook, draft, timer, moving, term, cut, sort, board, calls, refused,
              changes, boardFails>>
bellVars == <<created, seen, user, count, asks, tracker, landing, bellFails, signOuts,
              settled, dropped, replaced>>
flowVars == <<rows, round, joined, at, statement, langs, flow, toast, sock, list,
              fetches, fails, moves, late>>

Init ==
  /\ part \in {"list", "bell", "flow"}
  /\ List!Init /\ Bell!Init /\ Flow!Init
  /\ part # "list" => hook = "contests"
  /\ part # "bell" => created = 0 /\ ~landing
  /\ part # "flow" => round = "none" /\ at = "p"

Next ==
  /\ UNCHANGED part
  /\ \/ part = "list" /\ List!Next /\ UNCHANGED <<bellVars, flowVars>>
     \/ part = "bell" /\ Bell!Next /\ UNCHANGED <<listVars, flowVars>>
     \/ part = "flow" /\ Flow!Next /\ UNCHANGED <<listVars, bellVars>>

\* List!Fairness, Bell!Fairness and Flow!Fairness, for the steps of those parts.
Fairness ==
  /\ WF_listVars(part = "list" /\ List!Report)
  /\ WF_listVars(part = "list" /\ List!Navigate)
  /\ WF_listVars(part = "list" /\ \E c \in calls : List!Arrive(c))
  /\ \A i \in 1..(MaxCounts + MaxSeens) :
       /\ WF_bellVars(part = "bell" /\ Bell!ServeAsk(i))
       /\ WF_bellVars(part = "bell" /\ Bell!ArriveAsk(i))
  /\ WF_bellVars(part = "bell" /\ Bell!Poll)
  /\ WF_bellVars(part = "bell" /\ Bell!Flush)
  /\ WF_flowVars(part = "flow" /\ Flow!FlowStep)

Spec == Init /\ [][Next]_<<part, listVars, bellVars, flowVars>> /\ Fairness

\* See the modules: what a list says and that a search ends; whose number the
\* bell shows, which answer wins, what reaches the server and that the number
\* catches up; how a submission ends and what the list of submissions shows.
ListTellsTheTruth == List!ListTellsTheTruth
SearchSettles == List!SearchSettles
NextAccountInheritsNothing == Bell!NextAccountInheritsNothing
LastAskedWins == Bell!LastAskedWins
ShownRowsReachTheServer == Bell!ShownRowsReachTheServer
CountCatchesUp == Bell!CountCatchesUp
EverySubmitIsAnswered == Flow!EverySubmitIsAnswered
ListIsCurrent == Flow!ListIsCurrent
=============================================================================
