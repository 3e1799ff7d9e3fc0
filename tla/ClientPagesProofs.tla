--------------------------- MODULE ClientPagesProofs ---------------------------
(***************************************************************************)
(* What holds of the number on the bell for every number of rows, requests *)
(* and sessions: whose number it is, and which answer wins; of the paged   *)
(* lists for every size of page and number of changes; and of the list of  *)
(* submissions for every number of submissions, moves and failures.        *)
(*                                                                         *)
(* The proofs are about the specification of MCClientPages, where one part *)
(* moves at a time: a step of another part leaves these alone.             *)
(***************************************************************************)
EXTENDS MCClientPages, QueueLemmas

Requests ==
  [kind : {"count", "seen"}, by : Bell!Users, ids : Seq(Bell!Rows), done : BOOLEAN, num : Nat,
   live : BOOLEAN, last : BOOLEAN, mine : BOOLEAN]

BellTypeOK ==
  /\ created \in Nat /\ user \in Bell!Users
  /\ tracker.open \in BOOLEAN /\ tracker.pending \in Seq(Bell!Rows)
  /\ tracker = [open |-> tracker.open, pending |-> tracker.pending, sent |-> tracker.sent]

\* An answer that can still be applied is one for the account u that is signed in,
\* and only the owner has something unread.
Ours(cs, u) ==
  /\ cs \in Seq(Requests)
  /\ \A i \in 1..Len(cs) : cs[i].live => u # None /\ cs[i].by = u
  /\ \A i \in 1..Len(cs) : cs[i].done /\ cs[i].by # Owner => cs[i].num = 0

\* An account that took over with no sign-out: behind the first of its requests that
\* can still be applied there are only requests of its own.
Turned(cs, u) ==
  /\ cs \in Seq(Requests)
  /\ \A i \in 1..Len(cs) : cs[i].live => u # None
  /\ \A i, j \in 1..Len(cs) :
       i < j /\ cs[i].live /\ cs[i].by = u /\ cs[j].live => cs[j].by = u
  /\ \A i \in 1..Len(cs) : cs[i].done /\ cs[i].by # Owner => cs[i].num = 0

\* The request sent last is the last one in flight.
LastAtTheEnd(cs) == \A i \in 1..Len(cs) : cs[i].last => i = Len(cs)

\* Nothing in flight can be applied any more.
AllSpent(cs) == \A i \in 1..Len(cs) : ~cs[i].live

BellInv ==
  /\ BellTypeOK /\ Turned(asks, user) /\ LastAtTheEnd(asks)
  /\ tracker.open => user = Owner /\ ~landing
  /\ replaced => user # None /\ ~landing
  /\ ~replaced => Ours(asks, user) /\ (user # Owner => count = 0)
  /\ settled # None => count = settled /\ AllSpent(asks)

-----------------------------------------------------------------------------
(* What the operations do to the requests in flight.                        *)

LEMMA SameRemoveAt == \A q, k : Bell!RemoveAt(q, k) = RemoveAt(q, k)
BY DEF Bell!RemoveAt, RemoveAt

LEMMA SameCardinality == \A S : Bell!Cardinality(S) = Cardinality(S)
BY DEF Bell!Cardinality, Cardinality

LEMMA UnreadOf ==
  ASSUME NEW n \in Nat, created = n, NEW u, NEW marked
  PROVE  Bell!Unread(u, marked) \in Nat /\ (u # Owner => Bell!Unread(u, marked) = 0)
<1> DEFINE ids == 1..n
<1>0. IsFiniteSet(ids)
  <2>1. PICK one \in Int : one = 1
    OBVIOUS
  <2>2. IsFiniteSet(one..n)
    BY FS_Interval
  <2> QED
    BY <2>1, <2>2
<1>5. Bell!IdsOf(Owner) = ids
  BY DEF Bell!IdsOf
<1> HIDE DEF ids
<1>1. Cardinality(ids \ marked) \in Nat
  BY <1>0, FS_Difference, FS_CardinalityType
<1>2. Cardinality({}) = 0
  BY FS_EmptySet
<1>3. CASE u = Owner
  BY <1>1, <1>3, <1>5, SameCardinality DEF Bell!Unread
<1>4. CASE u # Owner
  <2>1. Bell!IdsOf(u) \ marked = {}
    BY <1>4 DEF Bell!IdsOf
  <2> QED
    BY <1>2, <1>4, <2>1, SameCardinality DEF Bell!Unread
<1> QED
  BY <1>3, <1>4

\* The new requests come behind, and the very last one is the last.
LEMMA SendElements ==
  ASSUME NEW before \in Seq(Requests), NEW new \in Seq(Requests), new # <<>>
  PROVE  LET all == Bell!Send(before, new) IN
         /\ all \in Seq(Requests) /\ Len(all) = Len(before) + Len(new)
         /\ \A i \in 1..Len(all) :
              LET c == IF i <= Len(before) THEN before[i] ELSE new[i - Len(before)] IN
              all[i] = [c EXCEPT !.last = (i = Len(all))]
<1> DEFINE cat == before \o new
           all == Bell!Send(before, new)
<1>1. /\ cat \in Seq(Requests) /\ Len(cat) = Len(before) + Len(new)
      /\ \A i \in 1..Len(before) + Len(new) :
           cat[i] = IF i <= Len(before) THEN before[i] ELSE new[i - Len(before)]
  BY ConcatProperties, Zenon
<1>2. all = [i \in DOMAIN cat |-> [cat[i] EXCEPT !.last = (i = Len(cat))]]
  BY DEF Bell!Send
<1> HIDE DEF cat, all
<1>3. Len(cat) \in Nat /\ DOMAIN cat = 1..Len(cat) /\ \A i \in 1..Len(cat) : cat[i] \in Requests
  BY <1>1, LenProperties, ElementOfSeq
<1>4. \A i \in 1..Len(cat) : [cat[i] EXCEPT !.last = (i = Len(cat))] \in Requests
  BY <1>3 DEF Requests
<1>5. all \in Seq(Requests) /\ Len(all) = Len(cat)
  BY <1>2, <1>3, <1>4
<1>6. \A i \in 1..Len(all) : all[i] = [cat[i] EXCEPT !.last = (i = Len(all))]
  BY <1>2, <1>3, <1>5
<1> DEFINE c(i) == IF i <= Len(before) THEN before[i] ELSE new[i - Len(before)]
<1>7. \A i \in 1..Len(all) : cat[i] = c(i)
  BY <1>1, <1>5
<1> HIDE DEF c
<1>8. \A i \in 1..Len(all) : all[i] = [c(i) EXCEPT !.last = (i = Len(all))]
  BY <1>6, <1>7
<1> QED
  BY <1>1, <1>5, <1>8 DEF cat, all, c

LEMMA SendKeeps ==
  ASSUME NEW u, NEW before, NEW new, Turned(before, u), Ours(new, u), new # <<>>
  PROVE  /\ Turned(Bell!Send(before, new), u) /\ LastAtTheEnd(Bell!Send(before, new))
         /\ Ours(before, u) => Ours(Bell!Send(before, new), u)
<1> DEFINE all == Bell!Send(before, new)
           c(i) == IF i <= Len(before) THEN before[i] ELSE new[i - Len(before)]
<1>1. /\ all \in Seq(Requests) /\ Len(all) = Len(before) + Len(new)
      /\ \A i \in 1..Len(all) : all[i] = [c(i) EXCEPT !.last = (i = Len(all))]
  BY SendElements DEF Ours, Turned
<1>2. Len(before) \in Nat /\ Len(new) \in Nat
  BY LenProperties DEF Ours, Turned
<1> HIDE DEF all
<1>3. ASSUME NEW i \in 1..Len(all)
      PROVE  /\ c(i) \in Requests /\ (c(i).live => u # None)
             /\ (c(i).done /\ c(i).by # Owner => c(i).num = 0)
             /\ i <= Len(before) => i \in 1..Len(before) /\ c(i) = before[i]
             /\ i > Len(before) /\ c(i).live => c(i).by = u
  <2>1. CASE i <= Len(before)
    <3>1. i \in 1..Len(before) /\ c(i) = before[i]
      BY <1>1, <1>2, <2>1
    <3> QED
      BY <1>2, <2>1, <3>1, ElementOfSeq DEF Turned
  <2>2. CASE ~(i <= Len(before))
    <3>1. i - Len(before) \in 1..Len(new) /\ c(i) = new[i - Len(before)]
      BY <1>1, <1>2, <2>2
    <3> QED
      BY <2>2, <3>1, ElementOfSeq DEF Ours
  <2> QED
    BY <2>1, <2>2
<1> HIDE DEF c
<1>4. ASSUME NEW i \in 1..Len(all)
      PROVE  /\ all[i].live = c(i).live /\ all[i].by = c(i).by
             /\ all[i].done = c(i).done /\ all[i].num = c(i).num
             /\ all[i].last => i = Len(all)
  <2>1. all[i] = [c(i) EXCEPT !.last = (i = Len(all))] /\ c(i) \in Requests
    BY <1>1, <1>3
  <2> QED
    BY <2>1 DEF Requests
<1>5. LastAtTheEnd(all)
  BY <1>4 DEF LastAtTheEnd
<1>6. Turned(all, u)
  <2>1. ASSUME NEW i \in 1..Len(all), NEW j \in 1..Len(all),
               i < j, c(i).live, c(i).by = u, c(j).live
        PROVE  c(j).by = u
    <3>1. CASE j > Len(before)
      BY <1>3, <2>1, <3>1
    <3>2. CASE ~(j > Len(before))
      <4>1. i <= Len(before) /\ j <= Len(before)
        BY <1>1, <1>2, <2>1, <3>2
      <4> QED
        BY <1>3, <2>1, <4>1 DEF Turned
    <3> QED
      BY <3>1, <3>2
  <2> QED
    BY <1>1, <1>3, <1>4, <2>1 DEF Turned
<1>7. Ours(before, u) => Ours(all, u)
  <2> SUFFICES ASSUME Ours(before, u), NEW i \in 1..Len(all), c(i).live PROVE c(i).by = u
    BY <1>1, <1>3, <1>4 DEF Ours
  <2>1. i <= Len(before) \/ i > Len(before)
    BY <1>1, <1>2
  <2> QED
    BY <1>3, <2>1 DEF Ours
<1> QED
  BY <1>5, <1>6, <1>7 DEF all

\* The requests ds are cs with some of them spent, or taken from their tracker.
Spends(cs, ds) ==
  /\ ds \in Seq(Requests) /\ Len(ds) = Len(cs)
  /\ \A i \in 1..Len(cs) :
       /\ ds[i].live => cs[i].live
       /\ ds[i].by = cs[i].by /\ ds[i].done = cs[i].done /\ ds[i].num = cs[i].num
       /\ ds[i].last = cs[i].last

LEMMA SpendsKeeps ==
  ASSUME NEW u, NEW cs, NEW ds, Spends(cs, ds), Turned(cs, u), LastAtTheEnd(cs)
  PROVE  /\ Turned(ds, u) /\ LastAtTheEnd(ds)
         /\ AllSpent(cs) => AllSpent(ds)
         /\ Ours(cs, u) => Ours(ds, u)
<1>1. Turned(ds, u)
  BY DEF Spends, Turned
<1>2. LastAtTheEnd(ds) /\ (AllSpent(cs) => AllSpent(ds))
  BY DEF Spends, LastAtTheEnd, AllSpent
<1>3. Ours(cs, u) => Ours(ds, u)
  BY DEF Spends, Ours
<1> QED
  BY <1>1, <1>2, <1>3

LEMMA ResetSpends ==
  ASSUME NEW cs \in Seq(Requests)
  PROVE  Spends(cs, Bell!Reset(cs)) /\ AllSpent(Bell!Reset(cs))
<1>1. DOMAIN cs = 1..Len(cs) /\ Len(cs) \in Nat /\ \A i \in 1..Len(cs) : cs[i] \in Requests
  BY LenProperties, ElementOfSeq
<1>2. \A i \in 1..Len(cs) : [cs[i] EXCEPT !.live = FALSE] \in Requests
  BY <1>1 DEF Requests
<1>3. Bell!Reset(cs) \in Seq(Requests) /\ Len(Bell!Reset(cs)) = Len(cs)
  BY <1>1, <1>2 DEF Bell!Reset
<1>4. \A i \in 1..Len(cs) : Bell!Reset(cs)[i] = [cs[i] EXCEPT !.live = FALSE]
  BY <1>1 DEF Bell!Reset
<1> QED
  BY <1>1, <1>3, <1>4 DEF Spends, AllSpent, Requests

LEMMA OrphanSpends == ASSUME NEW cs \in Seq(Requests) PROVE Spends(cs, Bell!Orphan(cs))
<1>1. DOMAIN cs = 1..Len(cs) /\ Len(cs) \in Nat /\ \A i \in 1..Len(cs) : cs[i] \in Requests
  BY LenProperties, ElementOfSeq
<1>2. \A i \in 1..Len(cs) : [cs[i] EXCEPT !.mine = FALSE] \in Requests
  BY <1>1 DEF Requests
<1>3. Bell!Orphan(cs) \in Seq(Requests) /\ Len(Bell!Orphan(cs)) = Len(cs)
  BY <1>1, <1>2 DEF Bell!Orphan
<1>4. \A i \in 1..Len(cs) : Bell!Orphan(cs)[i] = [cs[i] EXCEPT !.mine = FALSE]
  BY <1>1 DEF Bell!Orphan
<1> QED
  BY <1>1, <1>3, <1>4 DEF Spends, Requests

\* Applying the request at position k spends it and those before it.
LEMMA SpentSpends ==
  ASSUME NEW cs \in Seq(Requests), NEW k \in 1..Len(cs)
  PROVE  Spends(cs, Bell!Spent(cs, k)) /\ (k = Len(cs) => AllSpent(Bell!Spent(cs, k)))
<1>1. DOMAIN cs = 1..Len(cs) /\ Len(cs) \in Nat /\ \A i \in 1..Len(cs) : cs[i] \in Requests
  BY LenProperties, ElementOfSeq
<1>2. \A i \in 1..Len(cs) : [cs[i] EXCEPT !.live = FALSE] \in Requests
  BY <1>1 DEF Requests
<1>3. Bell!Spent(cs, k) \in Seq(Requests) /\ Len(Bell!Spent(cs, k)) = Len(cs)
  BY <1>1, <1>2 DEF Bell!Spent
<1>4. \A i \in 1..Len(cs) :
        Bell!Spent(cs, k)[i] = IF i <= k THEN [cs[i] EXCEPT !.live = FALSE] ELSE cs[i]
  BY <1>1 DEF Bell!Spent
<1>5. Spends(cs, Bell!Spent(cs, k))
  BY <1>1, <1>3, <1>4 DEF Spends, Requests
<1>6. k = Len(cs) => AllSpent(Bell!Spent(cs, k))
  <2> SUFFICES ASSUME k = Len(cs), NEW i \in 1..Len(cs) PROVE ~Bell!Spent(cs, k)[i].live
    BY <1>3 DEF AllSpent
  <2>1. Bell!Spent(cs, k)[i] = [cs[i] EXCEPT !.live = FALSE]
    BY <1>1, <1>4
  <2> QED
    BY <1>1, <2>1 DEF Requests
<1> QED
  BY <1>5, <1>6

LEMMA SpentBelow ==
  ASSUME NEW cs \in Seq(Requests), NEW k \in 1..Len(cs),
         NEW i \in 1..Len(cs), Bell!Spent(cs, k)[i].live
  PROVE  i > k
<1>1. DOMAIN cs = 1..Len(cs) /\ Len(cs) \in Nat /\ cs[i] \in Requests
  BY LenProperties, ElementOfSeq
<1>2. Bell!Spent(cs, k)[i] = IF i <= k THEN [cs[i] EXCEPT !.live = FALSE] ELSE cs[i]
  BY <1>1 DEF Bell!Spent
<1>3. CASE i <= k
  BY <1>1, <1>2, <1>3 DEF Requests
<1> QED
  BY <1>1, <1>3

LEMMA RemoveKeeps ==
  ASSUME NEW u, NEW cs, Turned(cs, u), LastAtTheEnd(cs), NEW k \in 1..Len(cs)
  PROVE  LET ds == Bell!RemoveAt(cs, k) IN
         /\ Turned(ds, u) /\ LastAtTheEnd(ds)
         /\ AllSpent(cs) => AllSpent(ds)
         /\ Ours(cs, u) => Ours(ds, u)
<1> DEFINE ds == Bell!RemoveAt(cs, k)
           was(i) == IF i < k THEN i ELSE i + 1
<1>1. /\ ds \in Seq(Requests) /\ Len(ds) = Len(cs) - 1 /\ Len(cs) \in Nat
      /\ \A i \in 1..Len(cs) - 1 : ds[i] = IF i < k THEN cs[i] ELSE cs[i + 1]
  BY SameRemoveAt, RemoveAtElements, LenProperties DEF Turned
<1> HIDE DEF ds
<1>2. \A i \in 1..Len(ds) :
        was(i) \in 1..Len(cs) /\ ds[i] = cs[was(i)] /\ (was(i) = Len(cs) => i = Len(ds))
  BY <1>1
<1>3. \A i, j \in 1..Len(ds) : i < j => was(i) < was(j)
  BY <1>1
<1> HIDE DEF was
<1>4. Turned(ds, u)
  BY <1>1, <1>2, <1>3 DEF Turned
<1>5. Ours(cs, u) => Ours(ds, u)
  <2> SUFFICES ASSUME Ours(cs, u), NEW i \in 1..Len(ds), ds[i].live PROVE ds[i].by = u
    BY <1>4 DEF Turned, Ours
  <2>1. was(i) \in 1..Len(cs) /\ ds[i] = cs[was(i)]
    BY <1>2
  <2> QED
    BY <2>1 DEF Ours
<1>6. LastAtTheEnd(ds) /\ (AllSpent(cs) => AllSpent(ds))
  BY <1>2 DEF LastAtTheEnd, AllSpent
<1> QED
  BY <1>4, <1>5, <1>6 DEF ds

-----------------------------------------------------------------------------
(* The steps of the bell.                                                   *)

LEMMA BellInit == Bell!Init => BellInv
<1> SUFFICES ASSUME Bell!Init PROVE BellInv
  OBVIOUS
<1>1. created \in Nat
  BY DEF Bell!Init
<1>2. asks = <<>> /\ user = None /\ count = 0 /\ settled = None /\ tracker = Bell!Closed
  BY DEF Bell!Init
<1>3. Ours(asks, user) /\ Turned(asks, user) /\ LastAtTheEnd(asks) /\ ~replaced
  <2>1. asks \in Seq(Requests) /\ Len(asks) = 0
    BY <1>2
  <2>2. 1..Len(asks) = {}
    BY <2>1
  <2> QED
    BY <2>1, <2>2 DEF Bell!Init, Ours, Turned, LastAtTheEnd
<1>4. BellTypeOK
  BY <1>1, <1>2 DEF BellTypeOK, Bell!Closed, Bell!Users
<1> QED
  BY <1>2, <1>3, <1>4 DEF BellInv, Bell!Closed

LEMMA NewRequest ==
  ASSUME NEW k \in {"count", "seen"}, NEW u \in Bell!Users, NEW ids \in Seq(Bell!Rows),
         NEW m \in BOOLEAN
  PROVE  [kind |-> k, by |-> u, ids |-> ids, done |-> FALSE, num |-> 0, live |-> TRUE,
          last |-> TRUE, mine |-> m] \in Requests
<1>1. PICK no \in BOOLEAN, yes \in BOOLEAN, zero \in Nat : no = FALSE /\ yes = TRUE /\ zero = 0
  OBVIOUS
<1>2. [kind |-> k, by |-> u, ids |-> ids, done |-> no, num |-> zero, live |-> yes,
       last |-> yes, mine |-> m] \in Requests
  BY DEF Requests
<1> QED
  BY <1>1, <1>2

\* A refetch for u, and the batches of the panel's tracker.
LEMMA RefetchIsOurs ==
  ASSUME NEW u \in {Owner, Other}, NEW c, c = [Bell!Refetch EXCEPT !.by = u]
  PROVE  Ours(<<c>>, u) /\ <<c>> # <<>>
<1>1. /\ c \in Requests /\ c.by = u /\ c.done = FALSE /\ u # None
  <2>2. u \in Bell!Users /\ u # None
    BY BellAssumption DEF Bell!Users
  <2>5. PICK none \in Seq(Bell!Rows) : none = <<>>
    BY EmptySeq
  <2>1. c = [kind |-> "count", by |-> u, ids |-> none, done |-> FALSE, num |-> 0, live |-> TRUE,
             last |-> TRUE, mine |-> FALSE]
    BY <2>5 DEF Bell!Refetch, Bell!Ask
  <2>3. c \in Requests
    <3>1. PICK no \in BOOLEAN : no = FALSE
      OBVIOUS
    <3>2. [kind |-> "count", by |-> u, ids |-> none, done |-> FALSE, num |-> 0, live |-> TRUE,
           last |-> TRUE, mine |-> no] \in Requests
      BY <2>2, NewRequest
    <3> QED
      BY <2>1, <3>1, <3>2
  <2>4. c.by = u /\ c.done = FALSE
    BY <2>1
  <2> QED
    BY <2>2, <2>3, <2>4
<1>2. <<c>> \in Seq(Requests) /\ Len(<<c>>) = 1 /\ <<c>>[1] = c
  BY <1>1
<1>3. \A i \in 1..Len(<<c>>) : <<c>>[i] = c
  BY <1>2
<1> QED
  BY <1>1, <1>2, <1>3 DEF Ours

LEMMA BatchesAreOurs ==
  ASSUME NEW ids \in Seq(Bell!Rows), user = Owner
  PROVE  /\ Ours(Bell!Batches(ids), user)
         /\ (Bell!Batches(ids) = <<>> <=> ids = <<>>)
<1> DEFINE n == (Len(ids) + MaxBatch - 1) \div MaxBatch
           batch(b) == SubSeq(ids, MaxBatch * (b - 1) + 1, Bell!Min({MaxBatch * b, Len(ids)}))
           bs == Bell!Batches(ids)
<1>1. n \in Nat /\ (n = 0 <=> Len(ids) = 0)
  <2>1. MaxBatch \in Nat /\ MaxBatch >= 1 /\ Len(ids) \in Nat
    BY BellAssumption, LenProperties
  <2> QED
    BY <2>1
<1>2. \A b \in 1..n : batch(b) \in Seq(Bell!Rows)
  <2> TAKE b \in 1..n
  <2>1. MaxBatch * b \in Nat /\ MaxBatch * (b - 1) \in Nat
    BY <1>1, BellAssumption
  <2>2. PICK first \in Int : first = MaxBatch * (b - 1) + 1 /\ first >= 1
    BY <2>1
  <2>3. PICK last \in Int : last = Bell!Min({MaxBatch * b, Len(ids)}) /\ last <= Len(ids)
    <3>1. {MaxBatch * b, Len(ids)} \subseteq Int /\ Len(ids) \in Int
      BY <2>1, LenProperties
    <3>2. \E x \in {MaxBatch * b, Len(ids)} : \A y \in {MaxBatch * b, Len(ids)} : x =< y
      BY <3>1
    <3>3. /\ Bell!Min({MaxBatch * b, Len(ids)}) \in {MaxBatch * b, Len(ids)}
          /\ \A y \in {MaxBatch * b, Len(ids)} : Bell!Min({MaxBatch * b, Len(ids)}) =< y
      BY <3>2 DEF Bell!Min
    <3> QED
      BY <3>1, <3>3
  <2>4. SubSeq(ids, first, last) \in Seq(Bell!Rows)
    <3>1. \A i \in first..last : i \in 1..Len(ids)
      BY <2>2, <2>3, LenProperties
    <3>2. \A i \in first..last : ids[i] \in Bell!Rows
      BY <3>1, ElementOfSeq
    <3> QED
      BY <3>2, SubSeqProperties, Zenon
  <2> QED
    BY <2>2, <2>3, <2>4
<1>3. bs = [b \in 1..n |-> Bell!Ask("seen", batch(b))]
  BY DEF Bell!Batches
<1> HIDE DEF n, batch, bs
<1>4. ASSUME NEW b \in 1..n
      PROVE  /\ Bell!Ask("seen", batch(b)) \in Requests
             /\ Bell!Ask("seen", batch(b)).by = user /\ Bell!Ask("seen", batch(b)).done = FALSE
  <2>1. batch(b) \in Seq(Bell!Rows) /\ user \in Bell!Users
    BY <1>2 DEF Bell!Users
  <2>2. Bell!Ask("seen", batch(b)) =
          [kind |-> "seen", by |-> user, ids |-> batch(b), done |-> FALSE, num |-> 0,
           live |-> TRUE, last |-> TRUE, mine |-> TRUE]
    BY DEF Bell!Ask
  <2> HIDE DEF Bell!Ask
  <2>3. Bell!Ask("seen", batch(b)) \in Requests
    <3>1. PICK yes \in BOOLEAN : yes = TRUE
      OBVIOUS
    <3>2. [kind |-> "seen", by |-> user, ids |-> batch(b), done |-> FALSE, num |-> 0,
           live |-> TRUE, last |-> TRUE, mine |-> yes] \in Requests
      BY <2>1, NewRequest
    <3> QED
      BY <2>2, <3>1, <3>2
  <2> QED
    BY <2>2, <2>3
<1>5. bs \in Seq(Requests) /\ Len(bs) = n /\ \A b \in 1..n : bs[b] = Bell!Ask("seen", batch(b))
  <2>1. \A b \in 1..n : bs[b] = Bell!Ask("seen", batch(b)) /\ bs[b] \in Requests
    BY <1>3, <1>4
  <2>2. bs = [b \in 1..n |-> bs[b]]
    BY <1>3
  <2> QED
    BY <1>1, <2>1, <2>2
<1>6. user # None
  BY BellAssumption
<1>7. Ours(bs, user)
  BY <1>4, <1>5, <1>6 DEF Ours
<1>8. bs = <<>> <=> ids = <<>>
  <2>1. bs = <<>> <=> Len(bs) = 0
    BY <1>5, EmptySeq
  <2>2. ids = <<>> <=> Len(ids) = 0
    BY EmptySeq
  <2> QED
    BY <1>1, <1>5, <2>1, <2>2
<1> QED
  BY <1>7, <1>8 DEF bs

LEMMA ServerStep ==
  ASSUME BellInv, Bell!CreateRow \/ \E i \in Bell!Tickets : Bell!ServeAsk(i)
  PROVE  BellInv'
<1>1. CASE Bell!CreateRow
  BY <1>1 DEF BellInv, BellTypeOK, Bell!CreateRow, Bell!server, Bell!page
<1>2. ASSUME NEW i, Bell!ServeAsk(i) PROVE BellInv'
  <2>1. /\ i \in 1..Len(asks) /\ asks \in Seq(Requests) /\ Len(asks) \in Nat
        /\ asks[i] \in Requests /\ created \in Nat
    BY <1>2, LenProperties, ElementOfSeq DEF Bell!ServeAsk, Bell!server, BellInv, Turned, BellTypeOK
  <2>2. PICK num \in Nat : num = Bell!Unread(asks[i].by, seen') /\ (asks[i].by # Owner => num = 0)
    BY <2>1, UnreadOf
  <2>3. PICK yes \in BOOLEAN : yes = TRUE
    OBVIOUS
  <2> DEFINE r == [asks[i] EXCEPT !.done = yes, !.num = num]
  <2>4. asks' = [asks EXCEPT ![i] = r]
    BY <1>2, <2>2, <2>3 DEF Bell!ServeAsk, Bell!server
  <2>5. /\ r \in Requests /\ r.live = asks[i].live /\ r.by = asks[i].by /\ r.num = num
        /\ r.last = asks[i].last
    BY <2>1 DEF Requests
  <2> HIDE DEF r
  <2>6. /\ asks' \in Seq(Requests) /\ Len(asks') = Len(asks)
        /\ \A j \in 1..Len(asks) : asks'[j] = IF j = i THEN r ELSE asks[j]
    BY <2>1, <2>4, <2>5, ExceptSeq
  <2>7. Turned(asks', user) /\ LastAtTheEnd(asks') /\ (AllSpent(asks) => AllSpent(asks'))
    BY <2>2, <2>5, <2>6 DEF BellInv, Turned, LastAtTheEnd, AllSpent
  <2>9. Ours(asks, user) => Ours(asks', user)
    BY <2>2, <2>5, <2>6 DEF Ours
  <2>8. UNCHANGED <<created, user, count, tracker, settled, landing, replaced>>
    BY <1>2 DEF Bell!ServeAsk, Bell!server, Bell!page
  <2> QED
    BY <2>7, <2>8, <2>9 DEF BellInv, BellTypeOK
<1> QED
  BY <1>1, <1>2

LEMMA SessionStep ==
  ASSUME BellInv, \/ \E u \in {Owner, Other} : Bell!SignIn(u) \/ Bell!Exchange(u)
                  \/ Bell!SignOut \/ Bell!Poll
  PROVE  BellInv'
<1>1. ASSUME NEW u \in {Owner, Other}, Bell!SignIn(u) PROVE BellInv'
  <2>1. Turned(asks, u) /\ Ours(asks, u)
    BY <1>1 DEF Bell!SignIn, Bell!server, BellInv, Turned, Ours
  <2>2. PICK c : c = [Bell!Refetch EXCEPT !.by = u]
    OBVIOUS
  <2>3. asks' = Bell!Send(asks, <<c>>) /\ Ours(<<c>>, u) /\ <<c>> # <<>>
    BY <1>1, <2>2, RefetchIsOurs DEF Bell!SignIn, Bell!server
  <2>4. Turned(asks', u) /\ Ours(asks', u) /\ LastAtTheEnd(asks')
    BY <2>1, <2>3, SendKeeps
  <2>5. /\ user = None /\ user' = u /\ settled' = None
        /\ UNCHANGED <<created, count, tracker, replaced>>
    BY <1>1 DEF Bell!SignIn, Bell!server
  <2>6. BellTypeOK' /\ ~tracker'.open /\ count' = 0 /\ ~replaced'
    BY <2>5, BellAssumption DEF BellInv, BellTypeOK, Bell!Users
  <2> QED
    BY <2>4, <2>5, <2>6 DEF BellInv
<1>4. ASSUME NEW u \in {Owner, Other}, Bell!Exchange(u) PROVE BellInv'
  <2>1. /\ landing /\ user # None /\ user' = u /\ ~landing' /\ replaced' = (u # user)
        /\ UNCHANGED <<created, count, asks, tracker, settled>>
    BY <1>1, <1>4 DEF Bell!Exchange, Bell!server
  <2>2. ~replaced /\ ~tracker.open /\ Ours(asks, user)
    BY <2>1 DEF BellInv
  <2>3. u # None /\ BellTypeOK'
    BY <2>1, BellAssumption DEF BellInv, BellTypeOK, Bell!Users
  <2>4. Turned(asks', u)
    BY <2>1, <2>2, <2>3 DEF BellInv, Ours, Turned
  <2>5. CASE u = user
    BY <2>1, <2>2, <2>3, <2>4, <2>5 DEF BellInv
  <2>6. CASE u # user
    BY <2>1, <2>2, <2>3, <2>4, <2>6 DEF BellInv
  <2> QED
    BY <2>5, <2>6
<1>2. CASE Bell!SignOut
  <2>1. /\ user' = None /\ count' = 0 /\ settled' = None /\ tracker' = Bell!Closed
        /\ asks' = Bell!Orphan(Bell!Reset(asks)) /\ created' = created
        /\ replaced' = FALSE
    BY <1>2 DEF Bell!SignOut, Bell!server
  <2>2. asks \in Seq(Requests) /\ Spends(asks, Bell!Reset(asks)) /\ AllSpent(Bell!Reset(asks))
    BY ResetSpends DEF BellInv, Turned
  <2>3. Turned(Bell!Reset(asks), user) /\ LastAtTheEnd(Bell!Reset(asks))
    BY <2>2, SpendsKeeps DEF BellInv
  <2>4. Turned(asks', user) /\ LastAtTheEnd(asks') /\ AllSpent(asks')
    <3>1. PICK cs : cs = Bell!Reset(asks)
      OBVIOUS
    <3>2. Spends(cs, asks')
      BY <2>1, <2>3, <3>1, OrphanSpends DEF Turned
    <3> QED
      BY <2>2, <2>3, <3>1, <3>2, SpendsKeeps
  <2>5. Turned(asks', user') /\ Ours(asks', user')
    BY <2>4 DEF Turned, Ours, AllSpent
  <2>6. BellTypeOK' /\ ~tracker'.open
    BY <2>1 DEF BellInv, BellTypeOK, Bell!Closed, Bell!Users
  <2> QED
    BY <2>1, <2>4, <2>5, <2>6 DEF BellInv
<1>3. CASE Bell!Poll
  <2>1. user \in {Owner, Other}
    BY <1>3 DEF Bell!Poll, Bell!server, BellInv, BellTypeOK, Bell!Users
  <2>2. PICK c : c = [Bell!Refetch EXCEPT !.by = user]
    OBVIOUS
  <2>3. c = Bell!Refetch
    BY <2>2 DEF Bell!Refetch, Bell!Ask
  <2>4. asks' = Bell!Send(asks, <<c>>) /\ Ours(<<c>>, user) /\ <<c>> # <<>>
    BY <1>3, <2>1, <2>2, <2>3, RefetchIsOurs DEF Bell!Poll, Bell!server
  <2>5. /\ Turned(asks', user) /\ LastAtTheEnd(asks')
        /\ Ours(asks, user) => Ours(asks', user)
    BY <2>4, SendKeeps DEF BellInv
  <2>6. settled' = None /\ UNCHANGED <<created, user, count, tracker, landing, replaced>>
    BY <1>3 DEF Bell!Poll, Bell!server, Bell!page
  <2> QED
    BY <2>5, <2>6 DEF BellInv, BellTypeOK
<1> QED
  BY <1>1, <1>2, <1>3, <1>4

LEMMA PanelStep ==
  ASSUME BellInv,
         \/ Bell!OpenPanel \/ Bell!Flush \/ Bell!ClosePanel
         \/ \E id \in Bell!Rows : Bell!OnScreen(id)
  PROVE  BellInv'
<1>1. CASE Bell!OpenPanel
  <2>1. tracker' = [open |-> TRUE, pending |-> <<>>, sent |-> {}] /\ <<>> \in Seq(Bell!Rows)
    BY <1>1, EmptySeq DEF Bell!OpenPanel, Bell!Closed
  <2>2. user = Owner /\ ~landing
        /\ UNCHANGED <<created, user, count, asks, settled, landing, replaced>>
    BY <1>1 DEF Bell!OpenPanel, Bell!server, Bell!page
  <2>3. BellTypeOK'
    BY <2>1, <2>2 DEF BellInv, BellTypeOK
  <2> QED
    BY <2>2, <2>3 DEF BellInv
<1>2. ASSUME NEW id \in Bell!Rows, Bell!OnScreen(id) PROVE BellInv'
  <2>1. Append(tracker.pending, id) \in Seq(Bell!Rows)
    BY AppendProperties DEF BellInv, BellTypeOK
  <2>2. tracker' = [open |-> tracker.open, pending |-> Append(tracker.pending, id),
                    sent |-> tracker.sent]
    BY <1>2 DEF Bell!OnScreen, Bell!server, BellInv, BellTypeOK
  <2>3. UNCHANGED <<created, user, count, asks, settled, landing, replaced>>
    BY <1>2 DEF Bell!OnScreen, Bell!server, Bell!page
  <2> QED
    BY <2>1, <2>2, <2>3 DEF BellInv, BellTypeOK
<1> DEFINE bs == Bell!Batches(tracker.pending)
<1>3. ASSUME tracker.open
      PROVE  /\ Ours(bs, user) /\ (bs = <<>> <=> tracker.pending = <<>>)
             /\ Turned(Bell!Flushed, user) /\ LastAtTheEnd(Bell!Flushed)
             /\ (Ours(asks, user) => Ours(Bell!Flushed, user))
             /\ (bs = <<>> => Bell!Flushed = asks)
  <2>1. user = Owner /\ tracker.pending \in Seq(Bell!Rows)
    BY <1>3 DEF BellInv, BellTypeOK
  <2>2. Ours(bs, user) /\ (bs = <<>> <=> tracker.pending = <<>>)
    BY <2>1, BatchesAreOurs
  <2>3. CASE bs = <<>>
    <3>1. Bell!Flushed = asks
      BY <2>3 DEF Bell!Flushed, Bell!Send
    <3> QED
      BY <2>2, <3>1 DEF BellInv
  <2>4. CASE bs # <<>>
    BY <2>2, <2>4, SendKeeps DEF Bell!Flushed, BellInv
  <2> QED
    BY <2>2, <2>3, <2>4
<1> HIDE DEF bs
<1>4. CASE Bell!Flush
  <2>1. /\ tracker.open /\ asks' = Bell!Flushed /\ settled' = None
        /\ UNCHANGED <<created, user, count, landing, replaced>>
    BY <1>4 DEF Bell!Flush, Bell!server, Bell!page
  <2>2. PICK x : tracker' = [open |-> tracker.open, pending |-> <<>>, sent |-> x]
    BY <1>4 DEF Bell!Flush, Bell!server, BellInv, BellTypeOK
  <2>3. BellTypeOK' /\ (tracker'.open => user' = Owner /\ ~landing')
    BY <2>1, <2>2 DEF BellInv, BellTypeOK
  <2> QED
    BY <1>3, <2>1, <2>3 DEF BellInv
<1>5. CASE Bell!ClosePanel
  <2>1. /\ tracker.open /\ asks' = Bell!Orphan(Bell!Flushed) /\ tracker' = Bell!Closed
        /\ settled' = (IF tracker.pending = <<>> THEN settled ELSE None)
        /\ UNCHANGED <<created, user, count, landing, replaced>>
    BY <1>5 DEF Bell!ClosePanel, Bell!server, Bell!page
  <2>2. Spends(Bell!Flushed, asks')
    BY <1>3, <2>1, OrphanSpends DEF Turned
  <2>3. /\ Turned(asks', user) /\ LastAtTheEnd(asks')
        /\ AllSpent(Bell!Flushed) => AllSpent(asks')
        /\ Ours(asks, user) => Ours(asks', user)
    BY <1>3, <2>1, <2>2, SpendsKeeps
  <2>4. BellTypeOK' /\ ~tracker'.open
    BY <2>1 DEF BellInv, BellTypeOK, Bell!Closed
  <2>5. settled' # None => settled' = settled /\ Bell!Flushed = asks
    BY <1>3, <2>1
  <2> QED
    BY <2>1, <2>3, <2>4, <2>5 DEF BellInv
<1> QED
  BY <1>1, <1>2, <1>4, <1>5

LEMMA AnswerStep ==
  ASSUME BellInv, NEW k, Bell!ArriveAsk(k) \/ Bell!FailAsk(k)
  PROVE  BellInv'
<1>1. /\ k \in 1..Len(asks) /\ asks \in Seq(Requests) /\ Len(asks) \in Nat
      /\ asks[k] \in Requests /\ Turned(asks, user) /\ LastAtTheEnd(asks)
  BY LenProperties, ElementOfSeq DEF Bell!ArriveAsk, Bell!FailAsk, BellInv, Turned
<1>2. CASE Bell!ArriveAsk(k)
  <2>1. UNCHANGED <<created, user, tracker, landing>> /\ asks[k].done
    BY <1>2 DEF Bell!ArriveAsk, Bell!server
  <2>2. CASE asks[k].live
    <3>1. PICK cs : cs = Bell!Spent(asks, k)
      OBVIOUS
    <3>2. /\ asks' = Bell!RemoveAt(cs, k) /\ count' = asks[k].num
          /\ settled' = (IF asks[k].last THEN asks[k].num ELSE settled)
          /\ replaced' = (replaced /\ asks[k].by # user)
      BY <1>2, <2>2, <3>1 DEF Bell!ArriveAsk, Bell!Applies
    <3>3. Spends(asks, cs) /\ (k = Len(asks) => AllSpent(cs))
      BY <1>1, <3>1, SpentSpends
    <3>4. /\ Turned(cs, user) /\ LastAtTheEnd(cs) /\ k \in 1..Len(cs)
          /\ Ours(asks, user) => Ours(cs, user)
      BY <1>1, <3>3, SpendsKeeps DEF Spends
    <3>5. /\ Turned(asks', user) /\ LastAtTheEnd(asks')
          /\ AllSpent(cs) => AllSpent(asks')
          /\ Ours(cs, user) => Ours(asks', user)
      BY <3>2, <3>4, RemoveKeeps
    <3>6. user # None /\ (Ours(asks, user) => asks[k].by = user)
      BY <1>1, <2>2 DEF Turned, Ours
    <3>9. asks[k].by = user => Ours(cs, user)
      <4> SUFFICES ASSUME asks[k].by = user, NEW i \in 1..Len(cs), cs[i].live
                   PROVE  cs[i].by = user
        BY <3>4 DEF Turned, Ours
      <4>1. i > k /\ asks[i].live /\ cs[i].by = asks[i].by /\ i \in 1..Len(asks)
        BY <1>1, <3>1, <3>3, SpentBelow DEF Spends
      <4> QED
        BY <1>1, <2>2, <4>1 DEF Turned
    <3>7. ~replaced' => Ours(asks', user) /\ (user # Owner => count' = 0)
      <4> SUFFICES ASSUME ~replaced'
                   PROVE  Ours(asks', user) /\ (user # Owner => count' = 0)
        OBVIOUS
      <4>1. asks[k].by = user
        BY <3>2, <3>6 DEF BellInv
      <4> QED
        BY <1>1, <2>1, <3>2, <3>5, <3>9, <4>1 DEF Turned
    <3>8. settled' # None => count' = settled' /\ AllSpent(asks')
      <4>1. CASE asks[k].last
        BY <1>1, <3>2, <3>3, <3>5, <4>1 DEF LastAtTheEnd
      <4>2. CASE ~asks[k].last
        <5>1. settled = None
          BY <1>1, <2>2 DEF BellInv, AllSpent
        <5> QED
          BY <3>2, <4>2, <5>1
      <4> QED
        BY <4>1, <4>2
    <3>10. replaced' => replaced
      BY <3>2
    <3> QED
      BY <2>1, <3>5, <3>7, <3>8, <3>10 DEF BellInv, BellTypeOK
  <2>3. CASE ~asks[k].live
    <3>1. /\ asks' = Bell!RemoveAt(asks, k) /\ UNCHANGED <<count, settled>>
          /\ replaced' <=> replaced
      BY <1>2, <2>3 DEF Bell!ArriveAsk, Bell!Applies
    <3>2. /\ Turned(asks', user) /\ LastAtTheEnd(asks')
          /\ AllSpent(asks) => AllSpent(asks')
          /\ Ours(asks, user) => Ours(asks', user)
      BY <1>1, <3>1, RemoveKeeps
    <3> QED
      BY <2>1, <3>1, <3>2 DEF BellInv, BellTypeOK
  <2> QED
    BY <2>2, <2>3
<1>3. CASE Bell!FailAsk(k)
  <2>1. /\ asks' = Bell!RemoveAt(asks, k)
        /\ UNCHANGED <<created, user, count, settled, landing, replaced>>
    BY <1>3 DEF Bell!FailAsk, Bell!server, Bell!page
  <2>2. /\ Turned(asks', user) /\ LastAtTheEnd(asks')
        /\ AllSpent(asks) => AllSpent(asks')
        /\ Ours(asks, user) => Ours(asks', user)
    BY <1>1, <2>1, RemoveKeeps
  <2>3. BellTypeOK' /\ tracker'.open = tracker.open
    <3>1. CASE asks[k].mine
      <4>1. tracker.pending \o asks[k].ids \in Seq(Bell!Rows)
        <5>1. tracker.pending \in Seq(Bell!Rows) /\ asks[k].ids \in Seq(Bell!Rows)
          BY <1>1 DEF BellInv, BellTypeOK, Requests
        <5> QED
          BY <5>1, ConcatProperties, Zenon
      <4>2. PICK x : tracker' = [open |-> tracker.open, sent |-> x,
                                 pending |-> tracker.pending \o asks[k].ids]
        BY <1>3, <3>1 DEF Bell!FailAsk, Bell!Offered, BellInv, BellTypeOK
      <4> QED
        BY <2>1, <4>1, <4>2 DEF BellInv, BellTypeOK
    <3>2. CASE ~asks[k].mine
      BY <1>3, <2>1, <3>2 DEF Bell!FailAsk, BellInv, BellTypeOK
    <3> QED
      BY <3>1, <3>2
  <2> QED
    BY <2>1, <2>2, <2>3 DEF BellInv
<1> QED
  BY <1>2, <1>3

LEMMA BellStep == ASSUME BellInv, Bell!Next PROVE BellInv'
BY ServerStep, SessionStep, PanelStep, AnswerStep DEF Bell!Next

LEMMA BellStands == ASSUME BellInv, UNCHANGED bellVars PROVE BellInv'
BY DEF bellVars, BellInv, BellTypeOK, Ours, Turned, LastAtTheEnd, AllSpent

LEMMA BellHolds == Spec => []BellInv
<1>1. Init => BellInv
  BY BellInit DEF Init
<1>2. BellInv /\ [Next]_<<part, listVars, bellVars, flowVars>> => BellInv'
  BY BellStep, BellStands DEF Next
<1> QED
  BY <1>1, <1>2, PTL DEF Spec

\* However late an answer of the session before lands, the bell of the next account
\* does not show its number (reset() of notificationsStore.js); an account that took
\* over with no sign-out shows it at most until its own first answer is applied.
THEOREM BellIsTheAccounts == Spec => []NextAccountInheritsNothing
<1>1. BellInv => NextAccountInheritsNothing
  BY DEF BellInv, NextAccountInheritsNothing, Bell!NextAccountInheritsNothing
<1> QED
  BY <1>1, BellHolds, PTL

\* Of all the refetches and "seen" requests in flight, served and answered in any
\* order, the one sent last has the last word (the tickets of
\* notificationsStore.js).
THEOREM LatestTicketWins == Spec => []LastAskedWins
<1>1. BellInv => LastAskedWins
  BY DEF BellInv, LastAskedWins, Bell!LastAskedWins
<1> QED
  BY <1>1, BellHolds, PTL

-----------------------------------------------------------------------------
(* The lists of the standings and of the contests hub.                      *)
(*                                                                         *)
(* Until page 1 of the parameters on screen has landed, there is nothing;  *)
(* afterwards the pages that landed, one after the other, or the failure   *)
(* of the first.  One page at most is being fetched below them, and if it  *)
(* was asked for with these parameters it is the next one.                 *)

ListCall(c) ==
  c \in [kind : {"first", "more"}, of : {c.of}, page : {c.page}, mine : BOOLEAN]

First(c) == c.kind = "first" /\ c.mine
Further(c) == c.kind = "more" /\ c.mine
Awaiting == \E c \in calls : First(c)

BoardTyped ==
  /\ board = [items |-> board.items, hasMore |-> board.hasMore, loading |-> board.loading,
              error |-> board.error, page |-> board.page, fetching |-> board.fetching]
  /\ {board.hasMore, board.loading, board.error, board.fetching} \subseteq BOOLEAN
  /\ board.page \in Nat \ {0}

Total == List!RowCount(List!Params)

\* The rows of the first pages, up to the last row there is.
Covering(page) == IF Total <= PageSize * page THEN Total ELSE PageSize * page
TopRows(n) == [i \in 1..n |-> [of |-> List!Params, row |-> i]]

NothingYet ==
  /\ board.items = <<>> /\ ~board.hasMore /\ board.loading /\ ~board.error
  /\ board.page = 1

Landed ==
  /\ board.items = TopRows(Covering(board.page))
  /\ board.hasMore => Total > PageSize * board.page
  /\ ~board.hasMore /\ ~board.error => Total <= PageSize * board.page
  /\ board.error => Total > 0

FirstFailed == board.items = <<>> /\ ~board.hasMore /\ board.error /\ refused

OneAfterAnother ==
  /\ \A c \in calls : ListCall(c) /\ (c.mine => c.of = List!Params)
  /\ \A c, d \in calls : c.kind = "more" /\ d.kind = "more" => c = d
  /\ \A c, d \in calls : First(c) /\ First(d) => c = d
  /\ board.fetching <=> \E c \in calls : c.kind = "more"
  /\ IF Awaiting THEN NothingYet ELSE ~board.loading /\ (Landed \/ FirstFailed)
  /\ \A c \in calls : Further(c) =>
       ~Awaiting /\ Landed /\ c.page = board.page + 1 /\ Total > PageSize * board.page

ListInv == hook # "problems" => BoardTyped /\ OneAfterAnother

\* The server has finitely many rows.
LEMMA TotalIsSmall == Total \in 0..3
<1>1. PICK a \in {0, 2}, b \in {0, 1} : Total = 3 - a - b
  BY DEF Total, List!RowCount
<1> QED
  BY <1>1

LEMMA LesserOfTwo ==
  ASSUME NEW a \in Int, NEW b \in Int
  PROVE  List!Min({a, b}) = IF a <= b THEN a ELSE b
<1>1. \E x \in {a, b} : \A y \in {a, b} : x <= y
  OBVIOUS
<1>2. List!Min({a, b}) \in {a, b} /\ \A y \in {a, b} : List!Min({a, b}) <= y
  BY <1>1 DEF List!Min
<1> QED
  BY <1>2

\* Page 1, and the page after those on screen.
LEMMA FirstPage == List!Answer(List!Params, 1) = TopRows(Covering(1))
<1>1. Total \in Int /\ PageSize \in Nat /\ PageSize * (1 - 1) = 0 /\ PageSize * 1 = PageSize
  BY TotalIsSmall, PageAssumption
<1>2. List!Min({PageSize, Total - PageSize * (1 - 1)}) = Covering(1)
  BY <1>1, LesserOfTwo DEF Covering
<1> QED
  BY <1>1, <1>2 DEF List!Answer, TopRows, Total

LEMMA NextPage ==
  ASSUME NEW k \in Nat \ {0}, Total > PageSize * k
  PROVE  TopRows(Covering(k)) \o List!Answer(List!Params, k + 1) = TopRows(Covering(k + 1))
<1> DEFINE n == PageSize * k
           m == List!Min({PageSize, Total - PageSize * ((k + 1) - 1)})
           S == [of : {List!Params}, row : Nat]
           next == List!Answer(List!Params, k + 1)
<1>1. Total \in Nat /\ PageSize \in Nat /\ n \in Nat /\ Total > n
  BY TotalIsSmall, PageAssumption
<1>2. (k + 1) - 1 = k /\ PageSize * (k + 1) = n + PageSize
  BY PageAssumption
<1>3. m = IF PageSize <= Total - n THEN PageSize ELSE Total - n
  BY <1>1, <1>2, LesserOfTwo
<1>4. m \in Nat /\ Covering(k) = n /\ Covering(k + 1) = n + m
  BY <1>1, <1>2, <1>3 DEF Covering
<1>5. next = [i \in 1..m |-> [of |-> List!Params, row |-> n + i]]
  BY <1>2 DEF List!Answer, Total
<1> HIDE DEF n, m, next
<1>6. TopRows(n) \in Seq(S) /\ Len(TopRows(n)) = n
  BY <1>1 DEF TopRows
<1>7. next \in Seq(S) /\ Len(next) = m
  BY <1>1, <1>4, <1>5
<1>8. TopRows(n + m) \in Seq(S) /\ Len(TopRows(n + m)) = n + m
  BY <1>1, <1>4 DEF TopRows
<1>9. /\ TopRows(n) \o next \in Seq(S) /\ Len(TopRows(n) \o next) = n + m
      /\ \A i \in 1..n + m : (TopRows(n) \o next)[i] = IF i <= n THEN TopRows(n)[i] ELSE next[i - n]
  <2>1. /\ TopRows(n) \o next \in Seq(S)
        /\ Len(TopRows(n) \o next) = Len(TopRows(n)) + Len(next)
        /\ \A i \in 1..Len(TopRows(n)) + Len(next) :
             (TopRows(n) \o next)[i] = IF i <= Len(TopRows(n)) THEN TopRows(n)[i]
                                       ELSE next[i - Len(TopRows(n))]
    BY <1>6, <1>7, ConcatProperties
  <2> QED
    BY <1>6, <1>7, <2>1
<1>10. \A i \in 1..n + m : (TopRows(n) \o next)[i] = TopRows(n + m)[i]
  BY <1>1, <1>4, <1>5, <1>9 DEF TopRows
<1>11. TopRows(n) \o next = TopRows(n + m)
  BY <1>8, <1>9, <1>10, SeqEqual
<1> QED
  BY <1>4, <1>11 DEF next

LEMMA ListInit == List!Init => ListInv
<1> SUFFICES ASSUME List!Init PROVE ListInv
  OBVIOUS
<1> DEFINE first == [kind |-> "first", of |-> List!Params, page |-> 1, mine |-> TRUE]
<1>1. /\ calls = {first} /\ refused = FALSE
      /\ board = [items |-> <<>>, hasMore |-> FALSE, loading |-> TRUE, error |-> FALSE,
                  page |-> 1, fetching |-> FALSE]
  BY DEF List!Init, List!Blank
<1>2. /\ First(first) /\ ListCall(first) /\ ~Further(first) /\ first.kind # "more"
      /\ first.of = List!Params
  BY DEF First, ListCall, Further
<1>3. Awaiting
  BY <1>1, <1>2 DEF Awaiting
<1>4. BoardTyped /\ NothingYet
  BY <1>1 DEF BoardTyped, NothingYet
<1>5. OneAfterAnother
  BY <1>1, <1>2, <1>3, <1>4 DEF OneAfterAnother
<1> QED
  BY <1>4, <1>5 DEF ListInv

\* What the search field does to itself leaves the list alone.
LEMMA ListRests ==
  ListInv /\ UNCHANGED <<hook, List!Params, board, calls, refused>> => ListInv'
<1> SUFFICES ASSUME ListInv, UNCHANGED <<hook, List!Params, board, calls, refused>>
             PROVE  ListInv'
  OBVIOUS
<1>1. /\ hook' = hook /\ List!Params' = List!Params /\ board' = board
      /\ calls' = calls /\ refused' = refused
  OBVIOUS
<1>2. Total' = Total
  BY <1>1 DEF Total, List!RowCount
<1>4. Awaiting' <=> Awaiting
  BY <1>1 DEF Awaiting
<1>5. Landed' <=> Landed
  BY <1>1, <1>2 DEF Landed, TopRows, Covering
<1>6. (NothingYet' <=> NothingYet) /\ (FirstFailed' <=> FirstFailed) /\ (BoardTyped' <=> BoardTyped)
  BY <1>1 DEF NothingYet, FirstFailed, BoardTyped
<1>7. OneAfterAnother' <=> OneAfterAnother
  BY <1>1, <1>2, <1>4, <1>5, <1>6 DEF OneAfterAnother
<1> QED
  BY <1>1, <1>6, <1>7 DEF ListInv

\* A request of an earlier generation.
LEMMA Disowned ==
  ASSUME NEW c, ListCall(c)
  PROVE  LET d == [c EXCEPT !.mine = FALSE]
         IN  ListCall(d) /\ d.kind = c.kind /\ ~d.mine
<1> DEFINE d == [c EXCEPT !.mine = FALSE]
<1>1. d \in [kind : {c.kind}, of : {c.of}, page : {c.page}, mine : {FALSE}]
  BY DEF ListCall
<1> HIDE DEF d
<1>2. d.kind = c.kind /\ d.of = c.of /\ d.page = c.page /\ d.mine = FALSE
  BY <1>1
<1>3. ListCall(d)
  BY <1>1, <1>2 DEF ListCall
<1> QED
  BY <1>2, <1>3 DEF d

\* The parameters move, and page 1 is asked for.
LEMMA ListReloads ==
  ASSUME ListInv, hook' = hook, List!Reload
  PROVE  ListInv'
<1>1. CASE List!Params' = List!Params
  BY <1>1, ListRests DEF List!Reload
<1>2. ASSUME List!Params' # List!Params, hook # "problems" PROVE BoardTyped' /\ OneAfterAnother'
  <2> DEFINE first == [kind |-> "first", of |-> List!Params', page |-> 1, mine |-> TRUE]
             old(c) == [c EXCEPT !.mine = FALSE]
  <2>1. BoardTyped /\ OneAfterAnother
    BY <1>2 DEF ListInv
  <2>2. /\ calls' = {old(c) : c \in calls} \cup {first} /\ refused' = FALSE
        /\ board' = [[board EXCEPT !.items = <<>>, !.hasMore = FALSE, !.loading = TRUE,
                                   !.error = FALSE] EXCEPT !.page = 1]
    BY <1>2 DEF List!Reload, List!Wiped
  <2>3. BoardTyped' /\ NothingYet' /\ board'.fetching = board.fetching
    <3>1. board' = [items |-> <<>>, hasMore |-> FALSE, loading |-> TRUE, error |-> FALSE,
                    page |-> 1, fetching |-> board.fetching]
      BY <2>1, <2>2 DEF BoardTyped
    <3> QED
      BY <2>1, <3>1 DEF BoardTyped, NothingYet
  <2>4. /\ First(first) /\ ListCall(first) /\ ~Further(first)
        /\ first.kind = "first" /\ first.of = List!Params'
    BY DEF First, ListCall, Further
  <2>5. \A c \in calls : /\ old(c).kind = c.kind /\ ~old(c).mine
                         /\ ListCall(old(c)) /\ ~First(old(c)) /\ ~Further(old(c))
    <3> SUFFICES ASSUME NEW c \in calls
                 PROVE  /\ old(c).kind = c.kind /\ ~old(c).mine
                        /\ ListCall(old(c)) /\ ~First(old(c)) /\ ~Further(old(c))
      OBVIOUS
    <3>1. ListCall(c)
      BY <2>1 DEF OneAfterAnother
    <3>2. old(c).kind = c.kind /\ ~old(c).mine /\ ListCall(old(c))
      BY <3>1, Disowned
    <3> QED
      BY <3>2 DEF First, Further
  <2>6. first \in calls' /\ \A d \in calls' : d = first \/ \E c \in calls : d = old(c)
    BY <2>2
  <2>7. \A c \in calls : old(c) \in calls'
    BY <2>2
  <2> HIDE DEF first, old
  <2>8. Awaiting'
    BY <2>4, <2>6 DEF Awaiting
  <2>9. \A c \in calls' : /\ ListCall(c) /\ ~Further(c) /\ (First(c) => c = first)
                          /\ c.mine => c.of = List!Params'
    BY <2>4, <2>5, <2>6
  <2>10. \A c, d \in calls' : c.kind = "more" /\ d.kind = "more" => c = d
    <3> SUFFICES ASSUME NEW c \in calls', NEW d \in calls', c.kind = "more", d.kind = "more"
                 PROVE  c = d
      OBVIOUS
    <3>1. c # first /\ d # first
      BY <2>4
    <3>2. PICK c0 \in calls, d0 \in calls : c = old(c0) /\ d = old(d0)
      BY <2>6, <3>1
    <3>3. c0 = d0
      BY <2>1, <2>5, <3>2 DEF OneAfterAnother
    <3> QED
      BY <3>2, <3>3
  <2>11. board'.fetching <=> \E c \in calls' : c.kind = "more"
    BY <2>1, <2>3, <2>4, <2>5, <2>6, <2>7 DEF OneAfterAnother
  <2>12. \A c, d \in calls' : First(c) /\ First(d) => c = d
    BY <2>9
  <2> QED
    BY <2>3, <2>8, <2>9, <2>10, <2>11, <2>12 DEF OneAfterAnother
<1> QED
  BY <1>1, <1>2 DEF ListInv

\* The reader reaches the end of what is there.
LEMMA ListAsksMore == ASSUME ListInv, List!LoadMore PROVE ListInv'
<1> DEFINE more == [kind |-> "more", of |-> List!Params, page |-> board.page + 1, mine |-> TRUE]
<1>1. /\ List!Sentinel /\ ~board.fetching /\ board' = [board EXCEPT !.fetching = TRUE]
      /\ calls' = calls \cup {more} /\ hook' = hook /\ refused' = refused
      /\ List!Params' = List!Params
  BY DEF List!LoadMore, List!Params, List!search
<1>2. ASSUME hook # "problems" PROVE BoardTyped' /\ OneAfterAnother'
  <2>1. BoardTyped /\ OneAfterAnother /\ board.hasMore
    BY <1>1, <1>2 DEF ListInv, List!Sentinel
  <2>2. /\ BoardTyped' /\ board'.fetching
        /\ board'.items = board.items /\ board'.hasMore = board.hasMore
        /\ board'.loading = board.loading /\ board'.error = board.error /\ board'.page = board.page
    BY <1>1, <2>1 DEF BoardTyped
  <2>3. ~Awaiting /\ Landed /\ ~board.loading
    BY <2>1 DEF OneAfterAnother, NothingYet, FirstFailed
  <2>4. \A c \in calls : c.kind # "more"
    BY <1>1, <2>1 DEF OneAfterAnother
  <2>5. /\ ListCall(more) /\ ~First(more) /\ more.kind = "more" /\ more.page = board.page + 1
        /\ more.of = List!Params
    BY DEF ListCall, First
  <2>7. Total' = Total
    BY <1>1 DEF Total, List!RowCount
  <2> HIDE DEF more
  <2>11. \A c \in calls' : c = more \/ c \in calls
    BY <1>1
  <2>8. ~Awaiting'
    BY <2>3, <2>5, <2>11 DEF Awaiting
  <2>9. Landed'
    BY <1>1, <2>2, <2>3, <2>7 DEF Landed, TopRows, Covering
  <2>10. Total > PageSize * board.page
    BY <2>1, <2>3 DEF Landed
  <2>12. \A c \in calls' : Further(c) => c = more
    BY <2>4, <2>11 DEF Further
  <2>13. \A c \in calls' : ListCall(c) /\ (c.mine => c.of = List!Params')
    BY <1>1, <2>1, <2>5, <2>11 DEF OneAfterAnother
  <2>14. \A c, d \in calls' : c.kind = "more" /\ d.kind = "more" => c = d
    BY <2>4, <2>11
  <2>15. \A c, d \in calls' : First(c) /\ First(d) => c = d
    BY <2>1, <2>5, <2>11 DEF OneAfterAnother
  <2>16. board'.fetching <=> \E c \in calls' : c.kind = "more"
    BY <1>1, <2>2, <2>5
  <2>17. \A c \in calls' : Further(c) =>
            c.page = board'.page + 1 /\ Total' > PageSize * board'.page
    BY <2>2, <2>5, <2>7, <2>10, <2>12
  <2> QED
    BY <2>2, <2>3, <2>8, <2>9, <2>13, <2>14, <2>15, <2>16, <2>17 DEF OneAfterAnother
<1> QED
  BY <1>1, <1>2 DEF ListInv

\* Without request c, the others are as they were.
LEMMA WithoutCall ==
  ASSUME OneAfterAnother, NEW c \in calls, calls' = calls \ {c}, List!Params' = List!Params
  PROVE  /\ \A d \in calls' : ListCall(d) /\ (d.mine => d.of = List!Params')
         /\ \A d, e \in calls' : d.kind = "more" /\ e.kind = "more" => d = e
         /\ \A d, e \in calls' : First(d) /\ First(e) => d = e
         /\ \A d \in calls' : d \in calls
         /\ (\E d \in calls' : d.kind = "more") <=> board.fetching /\ c.kind # "more"
         /\ First(c) => ~Awaiting'
         /\ ~First(c) => (Awaiting' <=> Awaiting)
         /\ c.kind = "more" => \A d \in calls' : ~Further(d)
         /\ Total' = Total
<1>1. \A d \in calls' : d \in calls /\ d # c
  OBVIOUS
<1>2. \A d \in calls : d = c \/ d \in calls'
  OBVIOUS
<1>3. (\E d \in calls' : d.kind = "more") <=> board.fetching /\ c.kind # "more"
  BY <1>1, <1>2 DEF OneAfterAnother
<1>4. (First(c) => ~Awaiting') /\ (~First(c) => (Awaiting' <=> Awaiting))
  BY <1>1, <1>2 DEF OneAfterAnother, Awaiting
<1>5. c.kind = "more" => \A d \in calls' : ~Further(d)
  BY <1>1 DEF OneAfterAnother, Further
<1>6. Total' = Total
  BY DEF Total, List!RowCount
<1> QED
  BY <1>1, <1>3, <1>4, <1>5, <1>6 DEF OneAfterAnother

\* An answer of an earlier generation changes nothing but the lock.
LEMMA LockReleased ==
  ASSUME BoardTyped, OneAfterAnother, NEW c \in calls, c.kind = "more", ~c.mine,
         calls' = calls \ {c}, List!Params' = List!Params, refused' <=> refused,
         board' = [board EXCEPT !.fetching = FALSE]
  PROVE  BoardTyped' /\ OneAfterAnother'
<1>1. /\ BoardTyped' /\ ~board'.fetching
      /\ board'.items = board.items /\ board'.hasMore = board.hasMore
      /\ board'.loading = board.loading /\ board'.error = board.error /\ board'.page = board.page
  BY DEF BoardTyped
<1>2. ~First(c) /\ Total' = Total
  BY WithoutCall DEF First
<1>3. (Awaiting' <=> Awaiting) /\ \A d \in calls' : ~Further(d)
  BY <1>2, WithoutCall
<1>4. (NothingYet' <=> NothingYet) /\ (FirstFailed' <=> FirstFailed) /\ (Landed' <=> Landed)
  BY <1>1, <1>2 DEF NothingYet, FirstFailed, Landed, TopRows, Covering
<1> QED
  BY <1>1, <1>3, <1>4, WithoutCall DEF OneAfterAnother

LEMMA OldFirstGone ==
  ASSUME BoardTyped, OneAfterAnother, NEW c \in calls, c.kind = "first", ~c.mine,
         calls' = calls \ {c}, List!Params' = List!Params, refused' <=> refused, board' = board
  PROVE  BoardTyped' /\ OneAfterAnother'
<1>1. ~First(c) /\ Total' = Total /\ BoardTyped'
  BY WithoutCall DEF First, BoardTyped
<1>2. (Awaiting' <=> Awaiting) /\ \A d \in calls' : d \in calls
  BY <1>1, WithoutCall
<1>3. (NothingYet' <=> NothingYet) /\ (FirstFailed' <=> FirstFailed) /\ (Landed' <=> Landed)
  BY <1>1 DEF NothingYet, FirstFailed, Landed, TopRows, Covering
<1>4. board'.fetching <=> \E d \in calls' : d.kind = "more"
  BY WithoutCall
<1> QED
  BY <1>1, <1>2, <1>3, <1>4, WithoutCall DEF OneAfterAnother

\* An answer lands.
LEMMA ListArrives ==
  ASSUME ListInv, NEW c \in calls, List!Arrive(c)
  PROVE  ListInv'
<1>1. hook' = hook /\ calls' = calls \ {c} /\ List!Params' = List!Params /\ refused' = refused
  BY DEF List!Arrive, List!Params, List!search
<1>2. ASSUME hook # "problems" PROVE BoardTyped' /\ OneAfterAnother'
  <2>1. BoardTyped /\ OneAfterAnother
    BY <1>2 DEF ListInv
  <2>2. /\ ListCall(c) /\ (c.mine => c.of = List!Params)
        /\ c.kind \in {"first", "more"} /\ c.mine \in BOOLEAN
    BY <2>1 DEF OneAfterAnother, ListCall
  <2>3. CASE First(c)
    <3>1. board' = [board EXCEPT !.items = List!Answer(List!Params, 1),
                                 !.hasMore = List!HasNext(List!Params, 1), !.loading = FALSE]
      BY <2>2, <2>3 DEF List!Arrive, First
    <3>2. NothingYet
      BY <2>1, <2>3 DEF OneAfterAnother, Awaiting
    <3>3. /\ board'.items = TopRows(Covering(1)) /\ board'.loading = FALSE /\ ~board'.error
          /\ board'.page = 1 /\ board'.fetching = board.fetching
          /\ board'.hasMore <=> Total > PageSize * 1
      BY <2>1, <3>1, <3>2, FirstPage DEF BoardTyped, NothingYet, List!HasNext, Total
    <3>4. BoardTyped'
      <4>1. List!HasNext(List!Params, 1) \in BOOLEAN
        BY DEF List!HasNext
      <4> QED
        BY <2>1, <3>1, <4>1 DEF BoardTyped
    <3>5. Total' = Total /\ Total \in Int /\ PageSize \in Int
      BY <1>1, <2>1, WithoutCall, TotalIsSmall, PageAssumption
    <3>6. Landed'
      BY <1>1, <3>3, <3>5 DEF Landed, TopRows, Covering
    <3>7. c.kind # "more" /\ \A d \in calls : ~Further(d)
      BY <2>1, <2>3 DEF First, OneAfterAnother, Awaiting
    <3> QED
      BY <1>1, <2>1, <2>3, <3>3, <3>4, <3>6, <3>7, WithoutCall DEF OneAfterAnother
  <2>4. CASE Further(c)
    <3>1. board' = [board EXCEPT !.items = board.items \o List!Answer(c.of, c.page), !.page = c.page,
                                 !.hasMore = List!HasNext(c.of, c.page), !.fetching = FALSE]
      BY <2>4 DEF List!Arrive, Further
    <3>2. /\ ~Awaiting /\ Landed /\ ~board.loading /\ c.of = List!Params
          /\ c.page = board.page + 1 /\ Total > PageSize * board.page
      BY <2>1, <2>2, <2>4 DEF OneAfterAnother, Further
    <3>3. board.items \o List!Answer(c.of, c.page) = TopRows(Covering(board.page + 1))
      BY <2>1, <3>2, NextPage DEF BoardTyped, Landed
    <3>4. /\ board'.items = TopRows(Covering(board.page + 1)) /\ board'.loading = board.loading
          /\ board'.error = board.error /\ board'.page = board.page + 1 /\ ~board'.fetching
          /\ board'.hasMore <=> Total > PageSize * (board.page + 1)
      BY <2>1, <3>1, <3>2, <3>3 DEF BoardTyped, List!HasNext, Total
    <3>5. BoardTyped'
      <4>1. List!HasNext(c.of, c.page) \in BOOLEAN
        BY DEF List!HasNext
      <4>2. board.page + 1 \in Nat \ {0}
        BY <2>1 DEF BoardTyped
      <4> QED
        BY <2>1, <3>1, <3>2, <4>1, <4>2 DEF BoardTyped
    <3>6. Total' = Total /\ Total \in Int /\ PageSize * (board.page + 1) \in Int
      BY <1>1, <2>1, WithoutCall, TotalIsSmall, PageAssumption DEF BoardTyped
    <3>7. Landed'
      BY <1>1, <3>2, <3>4, <3>6 DEF Landed, TopRows, Covering
    <3>8. c.kind = "more" /\ ~First(c)
      BY <2>4 DEF Further, First
    <3> QED
      BY <1>1, <2>1, <3>2, <3>4, <3>5, <3>7, <3>8, WithoutCall DEF OneAfterAnother
  <2>5. CASE c.kind = "more" /\ ~c.mine
    <3>1. board' = [board EXCEPT !.fetching = FALSE]
      BY <2>5 DEF List!Arrive
    <3> QED
      BY <1>1, <2>1, <2>5, <3>1, LockReleased
  <2>6. CASE c.kind = "first" /\ ~c.mine
    <3>1. board' = board
      BY <2>6 DEF List!Arrive
    <3> QED
      BY <1>1, <2>1, <2>6, <3>1, OldFirstGone
  <2> QED
    BY <2>2, <2>3, <2>4, <2>5, <2>6 DEF First, Further
<1> QED
  BY <1>1, <1>2 DEF ListInv

\* A request fails.
LEMMA ListFails ==
  ASSUME ListInv, NEW c \in calls, List!Fail(c)
  PROVE  ListInv'
<1>1. /\ hook' = hook /\ calls' = calls \ {c} /\ List!Params' = List!Params
      /\ refused' = (refused \/ First(c))
  BY DEF List!Fail, List!Params, List!search, First
<1>2. ASSUME hook # "problems" PROVE BoardTyped' /\ OneAfterAnother'
  <2>1. BoardTyped /\ OneAfterAnother
    BY <1>2 DEF ListInv
  <2>2. /\ ListCall(c) /\ (c.mine => c.of = List!Params)
        /\ c.kind \in {"first", "more"} /\ c.mine \in BOOLEAN
    BY <2>1 DEF OneAfterAnother, ListCall
  <2>3. CASE First(c)
    <3>1. board' = [board EXCEPT !.error = TRUE, !.loading = FALSE]
      BY <2>2, <2>3 DEF List!Fail, First
    <3>2. NothingYet
      BY <2>1, <2>3 DEF OneAfterAnother, Awaiting
    <3>3. refused'
      BY <1>1, <2>3
    <3>4. BoardTyped' /\ FirstFailed' /\ ~board'.loading /\ board'.fetching = board.fetching
      BY <2>1, <3>1, <3>2, <3>3 DEF BoardTyped, NothingYet, FirstFailed
    <3>5. c.kind # "more" /\ \A d \in calls : ~Further(d)
      BY <2>1, <2>3 DEF First, OneAfterAnother, Awaiting
    <3> QED
      BY <1>1, <2>1, <2>3, <3>4, <3>5, WithoutCall DEF OneAfterAnother
  <2>4. CASE Further(c)
    <3>1. board' = [board EXCEPT !.error = TRUE, !.fetching = FALSE,
                                 !.hasMore = board.hasMore /\ hook # "standings"]
      BY <2>4 DEF List!Fail, Further
    <3>2. ~Awaiting /\ Landed /\ ~board.loading /\ Total > PageSize * board.page
      BY <2>1, <2>4 DEF OneAfterAnother
    <3>3. /\ board'.items = board.items /\ board'.loading = board.loading
          /\ board'.error /\ board'.page = board.page /\ ~board'.fetching
      BY <2>1, <3>1 DEF BoardTyped
    <3>4. BoardTyped'
      <4>1. (board.hasMore /\ hook # "standings") \in BOOLEAN
        BY SMT
      <4> QED
        BY <2>1, <3>1, <4>1 DEF BoardTyped
    <3>5. /\ Total' = Total /\ Total \in Int /\ PageSize * board.page \in Nat
      BY <1>1, <2>1, WithoutCall, TotalIsSmall, PageAssumption DEF BoardTyped
    <3>6. Landed'
      BY <1>1, <3>2, <3>3, <3>5 DEF Landed, TopRows, Covering
    <3>7. c.kind = "more" /\ ~First(c)
      BY <2>4 DEF Further, First
    <3> QED
      BY <1>1, <2>1, <3>2, <3>3, <3>4, <3>6, <3>7, WithoutCall DEF OneAfterAnother
  <2>5. CASE ~First(c) /\ ~Further(c)
    <3>1. ~c.mine /\ (refused' <=> refused)
      <4>1. ~c.mine
        BY <2>2, <2>5 DEF First, Further
      <4>2. refused' <=> refused
        BY <1>1, <2>5, Zenon
      <4> QED
        BY <4>1, <4>2
    <3>2. CASE c.kind = "more"
      <4>1. board' = [board EXCEPT !.fetching = FALSE]
        BY <3>1, <3>2 DEF List!Fail
      <4> QED
        BY <1>1, <2>1, <3>1, <3>2, <4>1, LockReleased
    <3>3. CASE c.kind = "first"
      <4>1. board' = board
        BY <3>1, <3>3 DEF List!Fail
      <4> QED
        BY <1>1, <2>1, <3>1, <3>3, <4>1, OldFirstGone
    <3> QED
      BY <2>2, <3>2, <3>3
  <2> QED
    BY <2>3, <2>4, <2>5
<1> QED
  BY <1>1, <1>2 DEF ListInv

LEMMA ListStep == ASSUME ListInv, List!Next PROVE ListInv'
<1>1. CASE List!LoadMore
  BY <1>1, ListAsksMore
<1>2. CASE List!Report \/ List!Clear \/ \E text \in List!Drafts : List!Type(text)
                                            \/ List!Back(List!Norm(text))
  <2>1. UNCHANGED <<hook, List!Params, board, calls, refused>>
    BY <1>2 DEF List!Report, List!Clear, List!Type, List!Back, List!Params
  <2> QED
    BY <2>1, ListRests
<1>3. CASE List!Navigate
  BY <1>3, ListReloads DEF List!Navigate
<1>4. ASSUME NEW c \in calls, List!Arrive(c) \/ List!Fail(c)
      PROVE  ListInv'
  BY <1>4, ListArrives, ListFails
<1>5. ASSUME NEW c \in List!Cuts, List!PickFilter(c) \/ List!PickTier(c) \/ List!PickTab(c)
      PROVE  ListInv'
  BY <1>5, ListReloads DEF List!PickFilter, List!PickTier, List!PickTab, List!Filter
<1>6. ASSUME NEW col \in {"c1", "c2"}, List!SortProblems(col) \/ List!SortStandings(col)
      PROVE  ListInv'
  BY <1>6, ListReloads DEF List!SortProblems, List!SortStandings, List!Order
<1> QED
  BY <1>1, <1>2, <1>3, <1>4, <1>5, <1>6 DEF List!Next

LEMMA ListStands == ASSUME ListInv, UNCHANGED listVars PROVE ListInv'
<1>1. UNCHANGED <<hook, List!Params, board, calls, refused>>
  BY DEF listVars, List!Params
<1> QED
  BY <1>1, ListRests

\* The standings and the contests hub show a prefix of the rows of the filter on screen,
\* all of them once there is no more, and say "nothing found" or "unavailable" only when
\* it is so, for any number of filters, pages and failures (useStandings, useContests).
THEOREM ListsAreTrue == Spec => []ListTellsTheTruth
<1>1. Init => ListInv
  BY ListInit DEF Init
<1>2. ListInv /\ [Next]_<<part, listVars, bellVars, flowVars>> => ListInv'
  BY ListStep, ListStands DEF Next
<1>3. ListInv => ListTellsTheTruth
  <2> SUFFICES ASSUME ListInv, hook \in {"standings", "contests"}
               PROVE  List!RowsAreAPrefix /\ List!NoticeIsTrue
    BY DEF ListTellsTheTruth, List!ListTellsTheTruth
  <2>1. BoardTyped /\ OneAfterAnother
    BY DEF ListInv
  <2>2. Total \in Nat /\ PageSize * board.page \in Nat \ {0} /\ Covering(board.page) \in Nat
    BY <2>1, TotalIsSmall, PageAssumption DEF BoardTyped, Covering
  <2>3. Landed => Len(board.items) = Covering(board.page) /\ DOMAIN board.items = 1..Covering(board.page)
    BY <2>2 DEF Landed, TopRows
  <2>4. \A i \in DOMAIN board.items : board.items[i] = [of |-> List!Params, row |-> i]
    <3>1. CASE board.items = <<>>
      BY <3>1
    <3>2. CASE Landed
      BY <2>2, <2>3, <3>2 DEF Landed, TopRows
    <3> QED
      BY <2>1, <3>1, <3>2 DEF OneAfterAnother, NothingYet, FirstFailed
  <2>5. ~board.hasMore /\ ~board.loading /\ ~board.error => Len(board.items) = Total
    BY <2>1, <2>3 DEF OneAfterAnother, NothingYet, FirstFailed, Landed, Covering
  <2>6. board.items = <<>> /\ ~board.loading /\ ~board.error => Total = 0
    <3> SUFFICES ASSUME board.items = <<>>, ~board.loading, ~board.error
                 PROVE  Total = 0
      OBVIOUS
    <3>1. Landed
      BY <2>1 DEF OneAfterAnother, NothingYet, FirstFailed
    <3>2. Covering(board.page) = 0
      BY <2>3, <3>1
    <3> QED
      BY <2>2, <3>2 DEF Covering
  <2>7. board.items = <<>> /\ board.error => refused
    <3> SUFFICES ASSUME board.items = <<>>, board.error, ~refused
                 PROVE  FALSE
      OBVIOUS
    <3>1. Landed
      BY <2>1 DEF OneAfterAnother, NothingYet, FirstFailed
    <3>2. Covering(board.page) = 0 /\ Total > 0
      BY <2>3, <3>1 DEF Landed
    <3> QED
      BY <2>2, <3>2 DEF Covering
  <2>8. List!RowsAreAPrefix
    BY <2>4, <2>5 DEF List!RowsAreAPrefix, Total
  <2>9. List!NoticeIsTrue
    BY <2>6, <2>7 DEF List!NoticeIsTrue, List!View, List!BoardView, List!HubView, Total
  <2> QED
    BY <2>8, <2>9
<1> QED
  BY <1>1, <1>2, <1>3, PTL DEF Spec

-----------------------------------------------------------------------------
(* The list of submissions.                                                 *)
(*                                                                          *)
(* A request that has not been replaced is about the problem in the address *)
(* and, once served, holds the verdict the toast tells: the toast comes     *)
(* with a new request, and a verdict that was told does not change.         *)

Verdict == Verdicts \cup {Flow!Nothing}
Submission == [problem : Problems, queued : BOOLEAN, verdict : Verdict, told : BOOLEAN]
ListRow == [id : Nat, verdict : Verdict]
Fetch == [of : Problems, mine : BOOLEAN, done : BOOLEAN, rows : Seq(ListRow)]
AfterPost == {"posted", "ticket", "watching", "polling", "known", "unanswered"}
Waits == [stage : {"idle", "posting"} \cup AfterPost, sub : Nat,
          problem : Problems \cup {Flow!Nothing}]
Toasts == [kind : {"none", "verdict", "unsent", "unqueued", "judging"}, sub : Nat,
           verdict : Verdict]
Sockets == [stage : {"closed", "opening", "joining", "open"}, seen : Verdict,
            inbox : Seq(Verdict)]
Lists == [key : Problems \cup {Flow!Nothing}, rows : Seq(ListRow), error : BOOLEAN]

FlowTyped ==
  /\ rows \in Seq(Submission) /\ at \in Problems
  /\ flow \in Waits
  /\ flow.stage = "posting" => flow.problem \in Problems
  /\ flow.stage \in AfterPost => flow.sub \in 1..Len(rows)
  /\ toast \in Toasts
  /\ sock \in Sockets
  /\ list \in Lists
  /\ fetches \subseteq Fetch

Judged(i) == rows[i].verdict # Flow!Nothing

\* A verdict the socket brings is the row's, and only such a verdict ends the wait.
SocketHolds ==
  /\ flow.stage # "watching" => sock = Flow!NoSocket
  /\ sock.seen # Flow!Nothing => Judged(flow.sub)
  /\ \A k \in 1..Len(sock.inbox) : sock.inbox[k] # Flow!Nothing => Judged(flow.sub)
  /\ flow.stage = "known" => Judged(flow.sub)

ToastHolds ==
  toast.kind = "verdict" =>
    /\ toast.sub \in 1..Len(rows) /\ Judged(toast.sub)
    /\ toast.verdict = rows[toast.sub].verdict

\* Inside a round nothing goes on before the problem is known.
NothingBefore ==
  round # "none" /\ statement # "here" =>
    fetches = {} /\ flow.stage = "idle" /\ list.rows = <<>> /\ toast.kind # "verdict"

\* The rows rs are those of the problem on screen, and what the toast tells is there.
Shows(rs) ==
  /\ \A k \in DOMAIN rs : rs[k].id \in 1..Len(rows) /\ rows[rs[k].id].problem = at
  /\ toast.kind = "verdict" /\ rows[toast.sub].problem = at
       => \E k \in DOMAIN rs : rs[k] = [id |-> toast.sub, verdict |-> toast.verdict]

FetchesShow == \A f \in fetches : f.mine => f.of = at /\ (f.done => Shows(f.rows))

ListShows == ~list.error /\ list.key = at /\ (\A f \in fetches : ~f.mine) => Shows(list.rows)

FlowInv ==
  FlowTyped /\ SocketHolds /\ ToastHolds /\ NothingBefore /\ FetchesShow /\ ListShows

USE DEF Waits, Toasts, Sockets, Lists

LEMMA SameInOrder == \A P : Flow!InOrder(P) = InOrder(P)
BY DEF Flow!InOrder, Flow!Cardinality, InOrder, Cardinality

\* A query answers with the rows of the problem, each one with its verdict.
LEMMA RowsOfProblem ==
  ASSUME rows \in Seq(Submission), NEW p
  PROVE  /\ Flow!RowsOf(p) \in Seq(ListRow)
         /\ \A k \in DOMAIN Flow!RowsOf(p) :
              /\ Flow!RowsOf(p)[k].id \in 1..Len(rows)
              /\ rows[Flow!RowsOf(p)[k].id].problem = p
         /\ \A i \in 1..Len(rows) : rows[i].problem = p =>
              \E k \in DOMAIN Flow!RowsOf(p) :
                Flow!RowsOf(p)[k] = [id |-> i, verdict |-> rows[i].verdict]
<1> DEFINE P == {i \in DOMAIN rows : rows[i].problem = p}
           n == Cardinality(P)
           ids == InOrder(P)
           found == [k \in 1..n |-> [id |-> ids[k], verdict |-> rows[ids[k]].verdict]]
           r == Flow!RowsOf(p)
<1>1. Len(rows) \in Nat /\ DOMAIN rows = 1..Len(rows)
  BY LenProperties
<1>2. P \subseteq 1..Len(rows) /\ P \subseteq Nat /\ IsFiniteSet(P)
  <2>1. P \in SUBSET (1..Len(rows))
    BY <1>1
  <2>2. IsFiniteSet(1..Len(rows))
    BY <1>1, FS_Interval
  <2>3. IsFiniteSet(P)
    BY <2>1, <2>2, FS_Subset
  <2> QED
    BY <1>1, <2>1, <2>3
<1>3. \A i \in P : rows[i].problem = p /\ rows[i].verdict \in Verdict
  <2>1. \A i \in 1..Len(rows) : rows[i] \in Submission
    BY ElementOfSeq
  <2> QED
    BY <1>2, <2>1 DEF Submission
<1>4. /\ n \in Nat /\ ids \in [1..n -> P]
      /\ \A x \in P : \E k \in 1..n : ids[k] = x
  BY <1>2, InOrderLists
<1>5. r = Flow!Reverse(found)
  <2>1. Flow!InOrder(P) = ids
    BY SameInOrder
  <2>2. DOMAIN ids = 1..n
    BY <1>4
  <2> QED
    BY <2>1, <2>2 DEF Flow!RowsOf
<1>6. \A i \in 1..Len(rows) : rows[i].problem = p => i \in P
  BY <1>1
<1> HIDE DEF P, n, ids
<1>7. \A k \in 1..n : found[k] \in ListRow /\ found[k].id = ids[k] /\ ids[k] \in P
  BY <1>2, <1>3, <1>4 DEF ListRow
<1>8. \A k \in 1..n : found[k] = [id |-> ids[k], verdict |-> rows[ids[k]].verdict]
  OBVIOUS
<1>9. found \in Seq(ListRow) /\ Len(found) = n
  BY <1>4, <1>7
<1>10. r = [i \in 1..n |-> found[(n - i) + 1]]
  BY <1>5, <1>9 DEF Flow!Reverse
<1> HIDE DEF found
<1>11. \A k \in 1..n : n - k + 1 \in 1..n
  BY <1>4
<1>12. r \in Seq(ListRow) /\ DOMAIN r = 1..n
  <2>1. \A k \in 1..n : found[(n - k) + 1] \in ListRow
    BY <1>7, <1>11
  <2> QED
    BY <1>4, <1>10, <2>1
<1>13. \A k \in 1..n : r[k] = found[(n - k) + 1]
  BY <1>10
<1>14. \A k \in DOMAIN r : r[k].id \in 1..Len(rows) /\ rows[r[k].id].problem = p
  <2> SUFFICES ASSUME NEW k \in 1..n
               PROVE  r[k].id \in P
    BY <1>2, <1>3, <1>12
  <2> QED
    BY <1>7, <1>11, <1>13
<1>15. ASSUME NEW i \in 1..Len(rows), rows[i].problem = p
       PROVE  \E k \in DOMAIN r : r[k] = [id |-> i, verdict |-> rows[i].verdict]
  <2>1. PICK k \in 1..n : ids[k] = i
    BY <1>4, <1>6, <1>15
  <2>2. n - k + 1 \in 1..n /\ (n - (n - k + 1)) + 1 = k
    BY <1>4
  <2>3. r[n - k + 1] = found[k]
    BY <1>13, <2>2
  <2> QED
    BY <1>12, <1>8, <2>1, <2>2, <2>3
<1> QED
  BY <1>12, <1>14, <1>15

\* After a reload one request is current, about the problem asked for, yet to be served.
LEMMA ReloadedFetches ==
  ASSUME NEW fs \in SUBSET Fetch, NEW p \in Problems
  PROVE  /\ Flow!Reloaded(fs, p) \subseteq Fetch
         /\ \E f \in Flow!Reloaded(fs, p) : f.mine
         /\ \A f \in Flow!Reloaded(fs, p) : f.mine => f.of = p /\ ~f.done
<1> DEFINE g == [of |-> p, mine |-> TRUE, done |-> FALSE, rows |-> <<>>]
<1>1. g \in Fetch /\ g.mine /\ g.of = p /\ ~g.done
  BY DEF Fetch
<1>2. \A f \in fs : [f EXCEPT !.mine = FALSE] \in Fetch /\ ~[f EXCEPT !.mine = FALSE].mine
  BY DEF Fetch
<1>3. Flow!Reloaded(fs, p) = {[f EXCEPT !.mine = FALSE] : f \in fs} \cup {g}
  BY DEF Flow!Reloaded
<1> HIDE DEF g
<1>4. g \in Flow!Reloaded(fs, p)
  BY <1>3
<1>5. \A f \in Flow!Reloaded(fs, p) : f = g \/ (f \in Fetch /\ ~f.mine)
  BY <1>2, <1>3
<1> QED
  BY <1>1, <1>4, <1>5

\* Whatever was on screen, the list waits for the new request.
LEMMA ReloadShows ==
  ASSUME FlowTyped, at' \in Problems, fetches' = Flow!Reloaded(fetches, at')
  PROVE  fetches' \subseteq Fetch /\ FetchesShow' /\ ListShows'
<1>1. fetches \in SUBSET Fetch
  BY DEF FlowTyped
<1>2. /\ fetches' \subseteq Fetch
      /\ \E f \in fetches' : f.mine
      /\ \A f \in fetches' : f.mine => f.of = at' /\ ~f.done
  BY <1>1, ReloadedFetches
<1> QED
  BY <1>2 DEF FetchesShow, ListShows

\* Rows are only added, and a verdict is final.
Grown ==
  /\ rows \in Seq(Submission) /\ rows' \in Seq(Submission) /\ Len(rows) <= Len(rows')
  /\ \A i \in 1..Len(rows) :
       rows'[i].problem = rows[i].problem /\ (Judged(i) => rows'[i].verdict = rows[i].verdict)

\* The list is left alone, and no verdict is told.
LEMMA NothingTold ==
  ASSUME FlowInv, Grown, UNCHANGED <<at, statement, list, fetches>>,
         toast' = toast \/ toast'.kind # "verdict",
         round' = "none" <=> round = "none",
         flow'.stage = "idle" \/ flow.stage # "idle" \/ round = "none" \/ statement = "here"
  PROVE  ToastHolds' /\ NothingBefore' /\ FetchesShow' /\ ListShows'
<1>1. Len(rows) \in Nat /\ Len(rows') \in Nat /\ \A i \in 1..Len(rows) : i \in 1..Len(rows')
  BY LenProperties DEF Grown
<1>2. ToastHolds'
  BY <1>1 DEF FlowInv, ToastHolds, Grown, Judged
<1>3. NothingBefore'
  BY DEF FlowInv, NothingBefore
<1>4. ASSUME NEW rs, Shows(rs)
      PROVE  Shows(rs)'
  <2>1. \A k \in DOMAIN rs : rs[k].id \in 1..Len(rows') /\ rows'[rs[k].id].problem = at
    BY <1>1, <1>4 DEF Shows, Grown
  <2>2. ASSUME toast'.kind = "verdict", rows'[toast'.sub].problem = at
        PROVE  \E k \in DOMAIN rs : rs[k] = [id |-> toast'.sub, verdict |-> toast'.verdict]
    <3>1. toast' = toast /\ toast.sub \in 1..Len(rows)
      BY <2>2 DEF FlowInv, ToastHolds
    <3> QED
      BY <1>4, <2>2, <3>1 DEF Shows, Grown
  <2> QED
    BY <2>1, <2>2 DEF Shows
<1>5. FetchesShow'
  <2> SUFFICES ASSUME NEW f \in fetches, f.mine
               PROVE  f.of = at /\ (f.done => Shows(f.rows)')
    BY DEF FetchesShow
  <2> QED
    BY <1>4 DEF FlowInv, FetchesShow
<1>6. ListShows'
  <2> SUFFICES ASSUME ~list.error, list.key = at, \A f \in fetches : ~f.mine
               PROVE  Shows(list.rows)'
    BY DEF ListShows
  <2> QED
    BY <1>4 DEF FlowInv, ListShows
<1> QED
  BY <1>2, <1>3, <1>5, <1>6

LEMMA FlowInit == Flow!Init => FlowInv
<1> SUFFICES ASSUME Flow!Init
             PROVE  FlowInv
  OBVIOUS
<1>1. /\ rows = <<>> /\ at \in Problems /\ statement = "loading" /\ flow = Flow!Idle
      /\ toast = Flow!NoToast /\ sock = Flow!NoSocket
      /\ list = [key |-> Flow!Nothing, rows |-> <<>>, error |-> FALSE]
      /\ fetches = IF round = "none" THEN Flow!Reloaded({}, at) ELSE {}
  BY DEF Flow!Init
<1>2. CASE round = "none"
  <2>1. /\ fetches \subseteq Fetch /\ \E f \in fetches : f.mine
        /\ \A f \in fetches : f.mine => f.of = at /\ ~f.done
    <3>1. {} \in SUBSET Fetch
      OBVIOUS
    <3> QED
      BY <1>1, <1>2, <3>1, ReloadedFetches
  <2> QED
    BY <1>1, <1>2, <2>1 DEF FlowInv, FlowTyped, SocketHolds, ToastHolds, NothingBefore,
       FetchesShow, ListShows, Flow!Idle, Flow!NoToast, Flow!NoSocket, Verdict, AfterPost
<1>3. CASE round # "none"
  <2>1. fetches = {}
    BY <1>1, <1>3
  <2>2. Shows(<<>>)
    BY <1>1 DEF Shows, Flow!NoToast
  <2> QED
    BY <1>1, <1>3, <2>1, <2>2 DEF FlowInv, FlowTyped, SocketHolds, ToastHolds, NothingBefore,
       FetchesShow, ListShows, Flow!Idle, Flow!NoToast, Flow!NoSocket, Verdict, AfterPost
<1> QED
  BY <1>2, <1>3

\* Waiting for the verdict.
LEMMA FlowWaits ==
  ASSUME FlowInv,
         \/ Flow!TicketArrives \/ Flow!ReadRow \/ Flow!JoinGroup \/ Flow!SocketFails
         \/ Flow!SocketTimeout \/ Flow!MessageArrives \/ Flow!PollFinds \/ Flow!PollLate
         \/ Flow!ReadFails
  PROVE  FlowInv'
<1>1. FlowTyped /\ SocketHolds
  BY DEF FlowInv
<1>2. /\ UNCHANGED <<rows, round, at, statement, toast, list, fetches>>
      /\ flow.stage \in AfterPost /\ flow'.sub = flow.sub
  BY <1>1 DEF FlowTyped, SocketHolds, AfterPost, Flow!NoSocket, Flow!TicketArrives, Flow!ReadRow,
     Flow!JoinGroup, Flow!SocketFails, Flow!SocketTimeout, Flow!MessageArrives, Flow!PollFinds,
     Flow!PollLate, Flow!ReadFails, Flow!FallBack, Flow!server, Flow!page, Flow!subs
<1>3. flow.sub \in 1..Len(rows) /\ rows[flow.sub].verdict \in Verdict
  <2>1. flow.sub \in 1..Len(rows) /\ rows \in Seq(Submission)
    BY <1>1, <1>2 DEF FlowTyped
  <2>2. rows[flow.sub] \in Submission
    BY ONLY <2>1, ElementOfSeq
  <2> QED
    BY <2>1, <2>2 DEF Submission
<1>4. Flow!Nothing \in Verdict /\ <<>> \in Seq(Verdict)
  BY DEF Verdict
<1>5. /\ flow' \in Waits
      /\ flow'.stage \in AfterPost
      /\ sock' \in Sockets
      /\ SocketHolds'
  <2>1. CASE Flow!TicketArrives
    <3>1. /\ flow' = [flow EXCEPT !.stage = "watching"]
          /\ sock' = [Flow!NoSocket EXCEPT !.stage = "opening"]
      BY <2>1 DEF Flow!TicketArrives
    <3>2. /\ sock' = [stage |-> "opening", seen |-> Flow!Nothing, inbox |-> <<>>]
          /\ flow'.stage = "watching"
      BY <1>1, <3>1 DEF FlowTyped, Flow!NoSocket
    <3>3. sock' \in Sockets
      BY <1>4, <3>2
    <3>4. /\ flow' \in Waits
          /\ flow'.stage = "watching"
      BY <1>1, <3>1 DEF FlowTyped, AfterPost
    <3>5. sock'.seen = Flow!Nothing /\ \A k \in 1..Len(sock'.inbox) : FALSE
      BY <3>2
    <3> QED
      BY ONLY <3>4, <3>3, <3>4, <3>5 DEF SocketHolds, AfterPost
  <2>2. CASE Flow!ReadRow
    <3>1. /\ flow' = flow /\ sock.stage = "opening"
          /\ sock' = [sock EXCEPT !.stage = "joining", !.seen = rows[flow.sub].verdict]
      BY <2>2 DEF Flow!ReadRow
    <3>2. flow.stage = "watching"
      BY <1>1, <3>1 DEF SocketHolds, Flow!NoSocket
    <3>3. /\ sock' \in Sockets
          /\ sock'.seen = rows[flow.sub].verdict /\ sock'.inbox = sock.inbox
      BY <1>1, <1>3, <3>1 DEF FlowTyped
    <3> QED
      BY <1>1, <1>2, <3>1, <3>2, <3>3 DEF FlowTyped, SocketHolds, AfterPost, Judged
  <2>3. CASE Flow!JoinGroup
    <3>1. /\ flow' = flow /\ sock.stage = "joining"
          /\ sock' = [sock EXCEPT !.stage = "open", !.inbox = <<sock.seen>>]
      BY <2>3 DEF Flow!JoinGroup
    <3>2. flow.stage = "watching"
      BY <1>1, <3>1 DEF SocketHolds, Flow!NoSocket
    <3>3. <<sock.seen>> \in Seq(Verdict)
      BY <1>1 DEF FlowTyped
    <3>4. /\ sock' \in Sockets
          /\ sock'.inbox = <<sock.seen>> /\ sock'.seen = sock.seen
      BY <1>1, <3>1, <3>3 DEF FlowTyped
    <3>5. \A k \in 1..Len(sock'.inbox) : sock'.inbox[k] = sock.seen
      BY <3>4
    <3> QED
      BY <1>1, <1>2, <3>1, <3>2, <3>4, <3>5 DEF FlowTyped, SocketHolds, AfterPost, Judged
  <2>4. CASE Flow!SocketFails \/ Flow!SocketTimeout
    <3>1. flow' = [flow EXCEPT !.stage = "polling"] /\ sock' = Flow!NoSocket
      BY <2>4 DEF Flow!FallBack, Flow!SocketFails, Flow!SocketTimeout
    <3>2. sock' = [stage |-> "closed", seen |-> Flow!Nothing, inbox |-> <<>>]
      BY <3>1 DEF Flow!NoSocket
    <3>3. sock' \in Sockets
      BY <1>4, <3>2
    <3>4. /\ flow' \in Waits
          /\ flow'.stage = "polling"
      BY <1>1, <3>1 DEF FlowTyped, AfterPost
    <3>5. sock'.seen = Flow!Nothing /\ \A k \in 1..Len(sock'.inbox) : FALSE
      BY <3>2
    <3> QED
      BY ONLY <3>1, <3>3, <3>4, <3>5 DEF SocketHolds, AfterPost
  <2>5. CASE Flow!MessageArrives
    <3>1. sock.inbox \in Seq(Verdict) /\ sock.inbox # <<>>
      BY <1>1, <2>5 DEF FlowTyped, Flow!MessageArrives
    <3>2. /\ Head(sock.inbox) = sock.inbox[1] /\ 1 \in 1..Len(sock.inbox)
          /\ Tail(sock.inbox) \in Seq(Verdict) /\ Len(sock.inbox) \in Nat
          /\ Len(Tail(sock.inbox)) = Len(sock.inbox) - 1
          /\ \A k \in 1..Len(Tail(sock.inbox)) :
               k + 1 \in 1..Len(sock.inbox) /\ Tail(sock.inbox)[k] = sock.inbox[k + 1]
      BY <3>1
    <3>3. CASE Head(sock.inbox) = Flow!Nothing
      <4>1. flow' = flow /\ sock' = [sock EXCEPT !.inbox = Tail(@)] /\ flow.stage = "watching"
        BY <2>5, <3>3 DEF Flow!MessageArrives
      <4> QED
        BY <1>1, <1>2, <3>2, <4>1 DEF FlowTyped, SocketHolds, AfterPost, Judged
    <3>4. CASE Head(sock.inbox) # Flow!Nothing
      <4>1. flow' = [flow EXCEPT !.stage = "known"] /\ sock' = Flow!NoSocket
        BY <2>5, <3>4 DEF Flow!MessageArrives
      <4> QED
        BY <1>1, <1>2, <1>4, <3>2, <3>4, <4>1 DEF FlowTyped, SocketHolds, AfterPost, Judged,
           Flow!NoSocket
    <3> QED
      BY <3>3, <3>4
  <2>6. CASE Flow!PollFinds \/ Flow!PollLate \/ Flow!ReadFails
    BY <1>1, <1>2, <2>6 DEF FlowTyped, SocketHolds, AfterPost, Judged, Flow!PollFinds,
       Flow!PollLate, Flow!ReadFails
  <2> QED
    BY <2>1, <2>2, <2>3, <2>4, <2>5, <2>6
<1>6. FlowTyped'
  BY <1>1, <1>2, <1>3, <1>5 DEF FlowTyped, AfterPost
<1>7. Grown
  BY <1>1, <1>2, LenProperties DEF Grown, FlowTyped
<1>8. flow.stage # "idle"
  BY <1>2 DEF AfterPost
<1>9. ToastHolds' /\ NothingBefore' /\ FetchesShow' /\ ListShows'
  BY <1>2, <1>7, <1>8, NothingTold
<1> QED
  BY <1>5, <1>6, <1>9 DEF FlowInv

\* Submit is on screen only when the problem is.
LEMMA OfferedHere == Flow!Offered => flow.stage = "idle" /\ statement = "here"
BY DEF Flow!Offered, Flow!View, Flow!SoloView, Flow!RoundView, Flow!Ready

\* Pressing the button, and an answer that ends the wait without a verdict.
LEMMA FlowEnds ==
  ASSUME FlowInv, Flow!Press \/ Flow!PostFails
  PROVE  FlowInv'
<1>1. FlowTyped /\ SocketHolds
  BY DEF FlowInv
<1>2. /\ UNCHANGED <<rows, round, at, statement, sock, list, fetches>>
      /\ \/ /\ statement = "here" /\ flow' = [stage |-> "posting", sub |-> 0, problem |-> at]
            /\ toast' = Flow!NoToast /\ flow.stage # "watching"
         \/ /\ flow' = Flow!Idle /\ toast' = [Flow!NoToast EXCEPT !.kind = "unsent"]
            /\ flow.stage # "watching"
  <2>1. CASE Flow!Press
    BY <2>1, OfferedHere DEF Flow!Press, Flow!server, Flow!page, Flow!subs
  <2>2. CASE Flow!PostFails
    BY <2>2 DEF Flow!PostFails, Flow!Toast, Flow!server, Flow!page, Flow!subs
  <2> QED
    BY <2>1, <2>2
<1>3. sock = Flow!NoSocket
  BY <1>1, <1>2 DEF SocketHolds
<1>4. /\ flow' \in Waits
      /\ flow'.stage \in {"idle", "posting"} /\ (flow'.stage = "posting" => flow'.problem \in Problems)
      /\ toast' \in Toasts
      /\ toast'.kind # "verdict"
  BY <1>1, <1>2 DEF FlowTyped, Verdict, Flow!Idle, Flow!NoToast
<1>5. FlowTyped'
  BY <1>1, <1>2, <1>4 DEF FlowTyped, AfterPost
<1>6. SocketHolds'
  <2>1. sock'.seen = Flow!Nothing /\ \A k \in 1..Len(sock'.inbox) : FALSE
    BY <1>2, <1>3 DEF Flow!NoSocket
  <2> QED
    BY <1>2, <1>3, <1>4, <2>1 DEF SocketHolds
<1>7. Grown
  BY <1>1, <1>2, LenProperties DEF Grown, FlowTyped
<1>8. flow'.stage = "idle" \/ statement = "here"
  BY <1>2 DEF Flow!Idle
<1>9. ToastHolds' /\ NothingBefore' /\ FetchesShow' /\ ListShows'
  BY <1>2, <1>4, <1>7, <1>8, NothingTold
<1> QED
  BY <1>5, <1>6, <1>9 DEF FlowInv

\* The row is saved.
LEMMA FlowSaves ==
  ASSUME FlowInv, Flow!SaveRow
  PROVE  FlowInv'
<1>1. FlowTyped /\ SocketHolds
  BY DEF FlowInv
<1>2. PICK queued \in BOOLEAN :
        rows' = Append(rows, [problem |-> flow.problem, queued |-> queued,
                              verdict |-> Flow!Nothing, told |-> FALSE])
  BY DEF Flow!SaveRow
<1>3. /\ flow.stage = "posting" /\ flow' = [flow EXCEPT !.stage = "posted", !.sub = Len(rows')]
      /\ UNCHANGED <<round, at, statement, toast, sock, list, fetches>>
  BY DEF Flow!SaveRow, Flow!page, Flow!subs
<1> DEFINE new == [problem |-> flow.problem, queued |-> queued, verdict |-> Flow!Nothing,
                   told |-> FALSE]
<1>4. new \in Submission
  BY <1>1, <1>3 DEF FlowTyped, Submission, Verdict
<1>5. rows \in Seq(Submission) /\ rows' = Append(rows, new)
  BY <1>1, <1>2 DEF FlowTyped
<1> HIDE DEF new
<1>6. /\ rows' \in Seq(Submission) /\ Len(rows) \in Nat /\ Len(rows') = Len(rows) + 1
      /\ \A i \in 1..Len(rows) : rows'[i] = rows[i]
  BY <1>4, <1>5
<1>7. Grown
  BY <1>5, <1>6 DEF Grown
<1>8. /\ flow' \in Waits
      /\ flow'.stage = "posted" /\ flow'.sub = Len(rows')
  <2>1. \A n \in Nat : /\ [flow EXCEPT !.stage = "posted", !.sub = n] \in
                           Waits
                       /\ [flow EXCEPT !.stage = "posted", !.sub = n].stage = "posted"
                       /\ [flow EXCEPT !.stage = "posted", !.sub = n].sub = n
    BY <1>1 DEF FlowTyped, AfterPost
  <2>2. Len(rows') \in Nat
    BY <1>6
  <2> QED
    BY <1>3, <2>1, <2>2
<1>9. FlowTyped'
  BY <1>1, <1>3, <1>6, <1>8 DEF FlowTyped
<1>10. SocketHolds'
  <2>1. sock' = Flow!NoSocket
    BY <1>1, <1>3 DEF SocketHolds
  <2>2. sock'.seen = Flow!Nothing /\ \A k \in 1..Len(sock'.inbox) : FALSE
    BY <2>1 DEF Flow!NoSocket
  <2> QED
    BY <1>8, <2>1, <2>2 DEF SocketHolds
<1>11. ToastHolds' /\ NothingBefore' /\ FetchesShow' /\ ListShows'
  BY <1>3, <1>7, NothingTold
<1> QED
  BY <1>9, <1>10, <1>11 DEF FlowInv

\* The steps that load the list again: the answer to the post and the end of the wait.
LEMMA FlowSettles ==
  ASSUME FlowInv, Flow!PostAnswered \/ Flow!TellVerdict \/ Flow!GiveUp
  PROVE  FlowInv'
<1>1. FlowTyped /\ SocketHolds /\ ToastHolds /\ NothingBefore
  BY DEF FlowInv
<1>2. /\ UNCHANGED <<rows, round, at, statement, sock, list>>
      /\ flow.stage \in {"posted", "known", "unanswered"} /\ Flow!Settled
  BY DEF Flow!PostAnswered, Flow!TellVerdict, Flow!GiveUp, Flow!server, Flow!page
<1>3. statement = "here" \/ round = "none"
  BY <1>1, <1>2 DEF NothingBefore
<1>4. at' \in Problems /\ fetches' = Flow!Reloaded(fetches, at')
  BY <1>1, <1>2, <1>3 DEF FlowTyped, Flow!Settled
<1>5. fetches' \subseteq Fetch /\ FetchesShow' /\ ListShows'
  BY <1>1, <1>4, ReloadShows
<1>6. flow.sub \in 1..Len(rows) /\ rows[flow.sub].verdict \in Verdict /\ flow.sub \in Nat
  <2>1. flow.sub \in 1..Len(rows) /\ rows \in Seq(Submission) /\ flow.sub \in Nat
    BY <1>1, <1>2 DEF FlowTyped, AfterPost
  <2>2. rows[flow.sub] \in Submission
    BY ONLY <2>1, ElementOfSeq
  <2> QED
    BY <2>1, <2>2 DEF Submission
<1>7. /\ flow' \in Waits
      /\ flow'.stage \in {"idle", "ticket"} /\ (flow'.stage = "ticket" => flow'.sub = flow.sub)
      /\ toast' \in Toasts
      /\ ToastHolds'
  <2>1. CASE Flow!PostAnswered /\ rows[flow.sub].queued
    <3>1. flow' = [flow EXCEPT !.stage = "ticket"] /\ toast' = toast
      BY <2>1 DEF Flow!PostAnswered
    <3> QED
      BY <1>1, <1>2, <3>1 DEF FlowTyped, ToastHolds, AfterPost, Judged
  <2>2. CASE Flow!PostAnswered /\ ~rows[flow.sub].queued
    <3>1. flow' = Flow!Idle /\ toast' = [Flow!NoToast EXCEPT !.kind = "unqueued"]
      BY <2>2 DEF Flow!PostAnswered, Flow!Toast
    <3> QED
      BY <3>1 DEF ToastHolds, Flow!Idle, Flow!NoToast, Verdict
  <2>3. CASE Flow!TellVerdict
    <3>1. /\ flow' = Flow!Idle /\ flow.stage = "known"
          /\ toast' = [kind |-> "verdict", sub |-> flow.sub, verdict |-> rows[flow.sub].verdict]
      BY <2>3 DEF Flow!TellVerdict
    <3>2. Judged(flow.sub)
      BY <1>1, <3>1 DEF SocketHolds
    <3> QED
      BY <1>2, <1>6, <3>1, <3>2 DEF ToastHolds, Judged, Flow!Idle
  <2>4. CASE Flow!GiveUp
    <3>1. flow' = Flow!Idle /\ toast' = [Flow!NoToast EXCEPT !.kind = "judging"]
      BY <2>4 DEF Flow!GiveUp, Flow!Toast
    <3> QED
      BY <3>1 DEF ToastHolds, Flow!Idle, Flow!NoToast, Verdict
  <2> QED
    BY <2>1, <2>2, <2>3, <2>4
<1>8. FlowTyped'
  BY <1>1, <1>2, <1>5, <1>6, <1>7 DEF FlowTyped, AfterPost
<1>9. SocketHolds'
  <2>1. sock' = Flow!NoSocket
    BY <1>1, <1>2 DEF SocketHolds
  <2>2. sock'.seen = Flow!Nothing /\ \A k \in 1..Len(sock'.inbox) : FALSE
    BY <2>1 DEF Flow!NoSocket
  <2> QED
    BY <1>7, <2>1, <2>2 DEF SocketHolds
<1>10. NothingBefore'
  BY <1>2, <1>3 DEF NothingBefore
<1> QED
  BY <1>5, <1>7, <1>8, <1>9, <1>10 DEF FlowInv

\* The page: what it waits for, the address, the toast, the end of the round.
LEMMA FlowPage ==
  ASSUME FlowInv,
         \/ \E outcome \in {"here", "missing", "failed"} : Flow!StatementArrives(outcome)
         \/ \E outcome \in {"here", "failed"} : Flow!LanguagesArrive(outcome)
         \/ \E p \in Problems : Flow!Move(p)
         \/ Flow!CloseToast \/ Flow!RoundEnds
  PROVE  FlowInv'
<1>1. FlowTyped /\ SocketHolds /\ ToastHolds /\ NothingBefore
  BY DEF FlowInv
<1>2. /\ UNCHANGED <<rows, flow, sock, list>>
      /\ at' \in Problems /\ (round' = "none" <=> round = "none")
      /\ toast' = toast \/ toast' = Flow!NoToast
  BY <1>1 DEF FlowTyped, Flow!StatementArrives, Flow!LanguagesArrive, Flow!Move, Flow!CloseToast,
     Flow!RoundEnds, Flow!server, Flow!page, Flow!subs
<1>3. \/ fetches' = Flow!Reloaded(fetches, at') /\ (round' = "none" \/ statement' = "here")
         /\ toast' = toast
      \/ fetches' = fetches /\ at' = at
         /\ \/ statement' = statement \/ round = "none"
            \/ statement' # "here" /\ statement # "here"
      \/ round # "none" /\ statement # "here" /\ UNCHANGED <<statement, fetches, toast>>
  <2>1. CASE \E outcome \in {"here", "missing", "failed"} : Flow!StatementArrives(outcome)
    BY <2>1 DEF Flow!StatementArrives, Flow!server
  <2>2. CASE \E outcome \in {"here", "failed"} : Flow!LanguagesArrive(outcome)
    BY <2>2 DEF Flow!LanguagesArrive, Flow!subs
  <2>3. CASE \E p \in Problems : Flow!Move(p)
    BY <2>3 DEF Flow!Move, Flow!server
  <2>4. CASE Flow!CloseToast \/ Flow!RoundEnds
    BY <2>4 DEF Flow!CloseToast, Flow!RoundEnds, Flow!page, Flow!subs
  <2> QED
    BY <2>1, <2>2, <2>3, <2>4
<1>4. fetches' \subseteq Fetch
  BY <1>1, <1>2, <1>3, ReloadShows DEF FlowTyped
<1>5. FlowTyped'
  <2>1. Flow!NoToast \in Toasts
    BY DEF Flow!NoToast, Verdict
  <2> QED
    BY <1>1, <1>2, <1>4, <2>1 DEF FlowTyped
<1>6. SocketHolds' /\ ToastHolds'
  BY <1>1, <1>2 DEF SocketHolds, ToastHolds, Judged, Flow!NoToast
<1>7. NothingBefore'
  BY <1>1, <1>2, <1>3 DEF NothingBefore, Flow!NoToast
<1>8. FetchesShow' /\ ListShows'
  <2>1. CASE fetches' = Flow!Reloaded(fetches, at')
    BY <1>1, <1>2, <2>1, ReloadShows
  <2>2. ASSUME NEW rs, Shows(rs), at' = at
        PROVE  Shows(rs)'
    BY <1>2, <2>2 DEF Shows, Flow!NoToast
  <2>3. CASE fetches' = fetches /\ at' = at
    BY <1>2, <2>2, <2>3 DEF FlowInv, FetchesShow, ListShows
  <2>4. CASE round # "none" /\ statement # "here" /\ UNCHANGED <<statement, fetches, toast>>
    <3>1. fetches' = {} /\ list'.rows = <<>> /\ toast'.kind # "verdict"
      BY <1>1, <1>2, <2>4 DEF NothingBefore
    <3> QED
      BY <3>1 DEF FetchesShow, ListShows, Shows
  <2> QED
    BY <1>3, <2>1, <2>3, <2>4
<1> QED
  BY <1>5, <1>6, <1>7, <1>8 DEF FlowInv

\* The requests for the list.
LEMMA FlowLists ==
  ASSUME FlowInv, NEW f \in fetches,
         Flow!ServeList(f) \/ Flow!ListArrives(f) \/ Flow!ListFails(f)
  PROVE  FlowInv'
<1>1. /\ FlowTyped /\ SocketHolds /\ ToastHolds /\ NothingBefore /\ FetchesShow /\ ListShows
      /\ f \in Fetch
  BY DEF FlowInv, FlowTyped
<1>2. UNCHANGED <<rows, round, at, statement, flow, toast, sock>>
  BY DEF Flow!ServeList, Flow!ListArrives, Flow!ListFails, Flow!server, Flow!page
<1>3. \A rs : Shows(rs)' <=> Shows(rs)
  BY <1>2 DEF Shows
<1>4. CASE Flow!ServeList(f)
  <2> DEFINE g == [f EXCEPT !.done = TRUE, !.rows = Flow!RowsOf(f.of)]
  <2>1. fetches' = (fetches \ {f}) \cup {g} /\ list' = list
    BY <1>4 DEF Flow!ServeList
  <2>2. rows \in Seq(Submission)
    BY <1>1 DEF FlowTyped
  <2>3. /\ Flow!RowsOf(f.of) \in Seq(ListRow)
        /\ \A k \in DOMAIN Flow!RowsOf(f.of) :
             /\ Flow!RowsOf(f.of)[k].id \in 1..Len(rows)
             /\ rows[Flow!RowsOf(f.of)[k].id].problem = f.of
        /\ \A i \in 1..Len(rows) : rows[i].problem = f.of =>
             \E k \in DOMAIN Flow!RowsOf(f.of) :
               Flow!RowsOf(f.of)[k] = [id |-> i, verdict |-> rows[i].verdict]
    BY <2>2, RowsOfProblem
  <2>4. g \in Fetch /\ g.mine = f.mine /\ g.of = f.of /\ g.rows = Flow!RowsOf(f.of)
    BY <1>1, <2>3 DEF Fetch
  <2> HIDE DEF g
  <2>5. f.of = at => Shows(g.rows)
    BY <1>1, <2>3, <2>4 DEF Shows, ToastHolds
  <2>6. FlowTyped'
    BY <1>1, <1>2, <2>1, <2>4 DEF FlowTyped
  <2>7. FetchesShow'
    BY <1>1, <1>2, <1>3, <2>1, <2>4, <2>5 DEF FetchesShow
  <2>8. ListShows'
    BY <1>1, <1>2, <1>3, <2>1, <2>4 DEF ListShows
  <2>9. SocketHolds' /\ ToastHolds' /\ NothingBefore'
    BY <1>1, <1>2, <2>1 DEF SocketHolds, ToastHolds, NothingBefore, Judged
  <2> QED
    BY <2>6, <2>7, <2>8, <2>9 DEF FlowInv
<1>5. CASE Flow!ListArrives(f) \/ Flow!ListFails(f)
  <2>1. /\ fetches' = fetches \ {f}
        /\ \/ ~f.mine /\ list' = list
           \/ f.mine /\ f.done /\ list' = [key |-> f.of, rows |-> f.rows, error |-> FALSE]
           \/ list'.error /\ list' = [key |-> f.of,
                                      rows |-> IF list.key = f.of THEN list.rows ELSE <<>>,
                                      error |-> TRUE]
    BY <1>1, <1>5 DEF Flow!ListArrives, Flow!ListFails
  <2>2. list' \in Lists
    <3>1. /\ list \in Lists
          /\ f.of \in Problems /\ f.rows \in Seq(ListRow) /\ <<>> \in Seq(ListRow)
      BY <1>1 DEF FlowTyped, Fetch
    <3>2. list.rows \in Seq(ListRow)
      BY <3>1
    <3>3. \A rs \in Seq(ListRow), e \in BOOLEAN :
            [key |-> f.of, rows |-> rs, error |-> e] \in
              Lists
      BY <3>1
    <3> DEFINE kept == IF list.key = f.of THEN list.rows ELSE <<>>
    <3>4. kept \in Seq(ListRow)
      BY <3>1, <3>2
    <3>5. list' = list \/ list' = [key |-> f.of, rows |-> f.rows, error |-> FALSE]
            \/ list' = [key |-> f.of, rows |-> kept, error |-> TRUE]
      BY <2>1
    <3> HIDE DEF kept
    <3> QED
      BY ONLY <3>1, <3>3, <3>4, <3>5
  <2>3. FlowTyped'
    BY <1>1, <1>2, <2>1, <2>2 DEF FlowTyped
  <2>4. FetchesShow'
    BY <1>1, <1>2, <1>3, <2>1 DEF FetchesShow
  <2>5. ListShows'
    <3>1. f.mine /\ f.done => Shows(f.rows)
      BY <1>1 DEF FetchesShow
    <3>2. CASE ~f.mine /\ list' = list
      BY <1>1, <1>2, <1>3, <2>1, <3>2 DEF ListShows
    <3>3. CASE f.mine /\ f.done /\ list' = [key |-> f.of, rows |-> f.rows, error |-> FALSE]
      BY <1>3, <3>1, <3>3 DEF ListShows
    <3>4. CASE list'.error
      BY <3>4 DEF ListShows
    <3> QED
      BY <2>1, <3>2, <3>3, <3>4
  <2>6. SocketHolds' /\ ToastHolds' /\ NothingBefore'
    BY <1>1, <1>2 DEF SocketHolds, ToastHolds, NothingBefore, Judged
  <2> QED
    BY <2>3, <2>4, <2>5, <2>6 DEF FlowInv
<1> QED
  BY <1>4, <1>5

\* The server judges a row and broadcasts its verdict.
LEMMA FlowServer ==
  ASSUME FlowInv, NEW i \in 1..FlowRows,
         Flow!Broadcast(i) \/ \E v \in Verdicts : Flow!Judge(i, v)
  PROVE  FlowInv'
<1>1. FlowTyped /\ SocketHolds /\ rows \in Seq(Submission)
  BY DEF FlowInv, FlowTyped
<1>2. UNCHANGED <<round, at, statement, flow, toast, list, fetches>>
  BY DEF Flow!Broadcast, Flow!Judge, Flow!page, Flow!subs
<1>3. i \in DOMAIN rows /\ DOMAIN rows = 1..Len(rows) /\ Len(rows) \in Nat
  BY LenProperties DEF Flow!Broadcast, Flow!Judge
<1>4. rows[i] \in Submission
  BY ONLY <1>1, <1>3, ElementOfSeq
<1>5. \E r \in Submission :
        /\ rows' = [rows EXCEPT ![i] = r] /\ r.problem = rows[i].problem
        /\ Judged(i) => r.verdict = rows[i].verdict
  <2>1. CASE Flow!Broadcast(i)
    <3>1. /\ [rows[i] EXCEPT !.told = TRUE] \in Submission
          /\ rows' = [rows EXCEPT ![i] = [rows[i] EXCEPT !.told = TRUE]]
          /\ [rows[i] EXCEPT !.told = TRUE].problem = rows[i].problem
          /\ [rows[i] EXCEPT !.told = TRUE].verdict = rows[i].verdict
      BY <1>4, <2>1 DEF Flow!Broadcast, Submission
    <3> QED
      BY <3>1
  <2>2. ASSUME NEW v \in Verdicts, Flow!Judge(i, v)
        PROVE  \E r \in Submission :
                 /\ rows' = [rows EXCEPT ![i] = r] /\ r.problem = rows[i].problem
                 /\ Judged(i) => r.verdict = rows[i].verdict
    <3>1. /\ [rows[i] EXCEPT !.verdict = v] \in Submission
          /\ rows' = [rows EXCEPT ![i] = [rows[i] EXCEPT !.verdict = v]]
          /\ [rows[i] EXCEPT !.verdict = v].problem = rows[i].problem
          /\ ~Judged(i)
      BY <1>4, <2>2 DEF Flow!Judge, Submission, Verdict, Judged
    <3> QED
      BY <3>1
  <2> QED
    BY <2>1, <2>2
<1>6. PICK r \in Submission :
        /\ rows' = [rows EXCEPT ![i] = r] /\ r.problem = rows[i].problem
        /\ Judged(i) => r.verdict = rows[i].verdict
  BY <1>5
<1>7. /\ rows' \in Seq(Submission) /\ Len(rows') = Len(rows)
      /\ \A j \in 1..Len(rows) : rows'[j] = IF j = i THEN r ELSE rows[j]
  BY <1>1, <1>3, <1>6
<1>8. Grown
  BY <1>1, <1>3, <1>6, <1>7 DEF Grown, Judged
<1>9. \A j \in 1..Len(rows) : Judged(j) => rows'[j].verdict # Flow!Nothing
  BY <1>8 DEF Grown, Judged
<1>10. /\ sock' \in Sockets
       /\ SocketHolds'
  <2>1. flow.stage \in AfterPost => flow.sub \in 1..Len(rows)
    BY <1>1 DEF FlowTyped
  <2>2. CASE sock' = sock
    <3>1. CASE flow.stage \in {"watching", "known"}
      <4>1. flow.sub \in 1..Len(rows)
        BY <2>1, <3>1 DEF AfterPost
      <4>2. Judged(flow.sub) => rows'[flow.sub].verdict # Flow!Nothing
        BY <1>9, <4>1
      <4> QED
        BY <1>1, <1>2, <2>2, <4>2 DEF SocketHolds, FlowTyped, Judged
    <3>2. CASE flow.stage \notin {"watching", "known"}
      <4>1. sock' = Flow!NoSocket
        BY <1>1, <2>2, <3>2 DEF SocketHolds
      <4>2. sock'.seen = Flow!Nothing /\ \A k \in 1..Len(sock'.inbox) : FALSE
        BY <4>1 DEF Flow!NoSocket
      <4> QED
        BY <1>1, <1>2, <2>2, <3>2, <4>1, <4>2 DEF SocketHolds, FlowTyped
    <3> QED
      BY <3>1, <3>2
  <2>3. CASE sock' # sock
    <3>1. /\ Flow!Broadcast(i) /\ sock.stage = "open" /\ flow.sub = i
          /\ sock' = [sock EXCEPT !.inbox = Append(@, rows[i].verdict)]
          /\ Judged(i)
      BY <2>3 DEF Flow!Broadcast, Flow!Judge, Judged
    <3>2. sock.inbox \in Seq(Verdict) /\ rows[i].verdict \in Verdict
      BY <1>1, <1>4 DEF FlowTyped, Submission
    <3>3. Append(sock.inbox, rows[i].verdict) \in Seq(Verdict)
      BY <3>2
    <3>4. /\ sock' \in Sockets
          /\ sock'.seen = sock.seen
      BY <1>1, <3>1, <3>3 DEF FlowTyped
    <3>5. flow.stage = "watching"
      BY <1>1, <3>1 DEF SocketHolds, Flow!NoSocket
    <3>6. rows'[flow.sub].verdict # Flow!Nothing
      BY <1>3, <1>9, <3>1
    <3> QED
      BY <1>2, <3>4, <3>5, <3>6 DEF SocketHolds, Judged
  <2> QED
    BY <2>2, <2>3
<1>11. FlowTyped'
  BY <1>1, <1>2, <1>7, <1>10 DEF FlowTyped
<1>12. ToastHolds' /\ NothingBefore' /\ FetchesShow' /\ ListShows'
  BY <1>2, <1>8, NothingTold
<1> QED
  BY <1>10, <1>11, <1>12 DEF FlowInv

LEMMA FlowStep == ASSUME FlowInv, Flow!Next PROVE FlowInv'
BY FlowWaits, FlowEnds, FlowSaves, FlowSettles, FlowPage, FlowLists, FlowServer
   DEF Flow!Next, Flow!FlowStep

LEMMA FlowStands == ASSUME FlowInv, UNCHANGED flowVars PROVE FlowInv'
<1>1. UNCHANGED <<rows, round, at, statement, flow, toast, sock, list, fetches>>
  BY DEF flowVars
<1>2. FlowTyped' /\ SocketHolds' /\ ToastHolds' /\ NothingBefore'
  BY <1>1 DEF FlowInv, FlowTyped, SocketHolds, ToastHolds, NothingBefore, Judged
<1>3. \A rs : Shows(rs)' <=> Shows(rs)
  BY <1>1 DEF Shows
<1>4. FetchesShow' /\ ListShows'
  BY <1>1, <1>3 DEF FlowInv, FetchesShow, ListShows
<1> QED
  BY <1>2, <1>4 DEF FlowInv

\* Once the list of submissions has settled it shows the problem in the address, and the
\* verdict the toast tells, for any number of submissions, moves and failures, and
\* requests answered in any order (the active flag of useProblemSubmissions.js).
THEOREM SubmissionsAreCurrent == Spec => []ListIsCurrent
<1>1. Init => FlowInv
  BY FlowInit DEF Init
<1>2. FlowInv /\ [Next]_<<part, listVars, bellVars, flowVars>> => FlowInv'
  BY FlowStep, FlowStands DEF Next
<1>3. FlowInv => ListIsCurrent
  BY DEF FlowInv, ListShows, Shows, ListIsCurrent, Flow!ListIsCurrent
<1> QED
  BY <1>1, <1>2, <1>3, PTL DEF Spec


=============================================================================
