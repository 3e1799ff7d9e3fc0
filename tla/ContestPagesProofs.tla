-------------------------- MODULE ContestPagesProofs --------------------------
(***************************************************************************)
(* What holds of the pages of a contest for every number of readers,       *)
(* writers, clicks and pages: no stale standings after a signal, a pill    *)
(* that settles, and a panel that shows what its page has been told of.    *)
(*                                                                         *)
(* The proofs are about RoundSpec, where one part moves at a time: a step  *)
(* of another part leaves the variables of this one alone.                 *)
(***************************************************************************)
EXTENDS MCContest, QueueLemmas

-----------------------------------------------------------------------------
(* The cached standings.                                                    *)
(*                                                                         *)
(* A reader keeps the generation it took at the start, and pages of older  *)
(* generations may stay around and be filled late.  What has to be known   *)
(* of a page is therefore relative to a generation: a page of the current  *)
(* one covers every version that a bust was made for, a page of an older   *)
(* one still covers what any reader of that generation was promised.       *)

\* The generation a request would take now.
Generation == IF gen = Cache!Unset THEN 0 ELSE gen

\* The versions a bust was made for: signalled, or about to be.
Busted == {told} \cup {writer[w].version : w \in {x \in Writers : writer[x].at = 2}}

\* Requests that have their generation and no answer yet.
Filling(r) == reader[r].step \in {"seed", "look", "query", "store"}

Steps == {"idle", "gen", "seed", "look", "query", "store", "done"}
Requests == [step : Steps, gen : Nat, version : Nat, since : Nat]
Commits == [at : {0, 1, 2}, version : Nat]

CacheTypeOK ==
  /\ version \in Nat /\ told \in Nat /\ gen \in Nat \cup {Cache!Unset} /\ undone \in BOOLEAN
  /\ cached \subseteq [gen : Nat, version : Nat]
  /\ writer \in [Writers -> Commits] /\ reader \in [Readers -> Requests]

\* Only what was committed is signalled, only what was signalled is promised.
PromisedWasCommitted ==
  /\ told <= version
  /\ \A w \in Writers : writer[w].version <= version
  /\ \A r \in Readers : reader[r].since <= told

\* The first generation is the one before any bust.
NoBustYet == Generation = 0 => \A v \in Busted : v = 0

PagesCover ==
  \A c \in cached :
    /\ c.gen <= Generation
    /\ c.gen = Generation => \A v \in Busted : c.version >= v

ReadersFind ==
  \A r \in Readers : Filling(r) =>
    /\ reader[r].gen <= Generation
    /\ reader[r].step = "seed" => reader[r].gen = 0
    /\ \A c \in cached : c.gen = reader[r].gen => c.version >= reader[r].since

\* A page on its way into the cache counts like one that is there.
StoresCover ==
  \A q \in Readers : reader[q].step = "store" =>
    /\ reader[q].gen = Generation => \A v \in Busted : reader[q].version >= v
    /\ \A r \in Readers : (Filling(r) /\ reader[r].gen = reader[q].gen)
         => reader[q].version >= reader[r].since

AnswersCover ==
  \A r \in Readers : reader[r].step = "done" => reader[r].version >= reader[r].since

Covered == NoBustYet /\ PagesCover /\ ReadersFind /\ StoresCover /\ AnswersCover

Fresh == CacheTypeOK /\ PromisedWasCommitted /\ (undone \/ Covered)

USE DEF Cache!Unset

LEMMA CacheInit == Cache!Init => Fresh
<1> SUFFICES ASSUME Cache!Init PROVE Fresh
  OBVIOUS
<1>1. CacheTypeOK
  <2>1. Cache!Quiet \in Commits /\ Cache!Idle \in Requests
    BY DEF Cache!Quiet, Cache!Idle, Commits, Requests, Steps
  <2> QED
    BY <2>1 DEF Cache!Init, CacheTypeOK
<1>2. PromisedWasCommitted
  BY DEF Cache!Init, PromisedWasCommitted, Cache!Idle, Cache!Quiet
<1>3. NoBustYet
  BY DEF Cache!Init, NoBustYet, Busted, Cache!Quiet
<1>4. PagesCover /\ ReadersFind /\ StoresCover /\ AnswersCover
  BY DEF Cache!Init, PagesCover, ReadersFind, StoresCover, AnswersCover, Filling, Cache!Idle
<1> QED
  BY <1>1, <1>2, <1>3, <1>4 DEF Fresh, Covered

\* What a step of a writer, and of a reader, does to its own record.
LEMMA WriterMoves ==
  ASSUME CacheTypeOK, NEW w \in Writers, Cache!Commit(w) \/ Cache!Bust(w) \/ Cache!Tell(w)
  PROVE  /\ writer' \in [Writers -> Commits]
         /\ \A x \in Writers \ {w} : writer'[x] = writer[x]
         /\ Cache!Commit(w) => writer'[w].at = 1 /\ writer'[w].version = version + 1
         /\ Cache!Bust(w) => writer[w].at = 1 /\ writer'[w].at = 2
                               /\ writer'[w].version = writer[w].version
         /\ Cache!Tell(w) => writer[w].at = 2 /\ writer'[w].at = 0 /\ writer'[w].version = 0
<1> DEFINE n == writer'[w]
<1>0. writer[w] \in Commits
  BY DEF CacheTypeOK
<1>1. ASSUME Cache!Commit(w)
      PROVE  n \in Commits /\ n.at = 1 /\ n.version = version + 1
             /\ writer' = [writer EXCEPT ![w] = n]
  BY <1>1, <1>0 DEF Cache!Commit, CacheTypeOK, Commits
<1>2. ASSUME Cache!Bust(w)
      PROVE  n \in Commits /\ writer[w].at = 1 /\ n.at = 2 /\ n.version = writer[w].version
             /\ writer' = [writer EXCEPT ![w] = n]
  <2>1. writer[w].at = 1
    BY <1>2, <1>0 DEF Cache!Bust, Cache!Publish, Commits
  <2>2. Len(Cache!Publish) = 2
    BY DEF Cache!Publish
  <2>3. writer' = [writer EXCEPT ![w] = [at |-> writer[w].at + 1, version |-> writer[w].version]]
    BY <1>2, <2>1, <2>2 DEF Cache!Bust, Cache!Advance, CacheTypeOK
  <2> QED
    BY <2>1, <2>3, <1>0 DEF CacheTypeOK, Commits
<1>3. ASSUME Cache!Tell(w)
      PROVE  n \in Commits /\ writer[w].at = 2 /\ n.at = 0 /\ n.version = 0
             /\ writer' = [writer EXCEPT ![w] = n]
  BY <1>3, <1>0 DEF Cache!Tell, Cache!Advance, Cache!Publish, Cache!Quiet, CacheTypeOK, Commits
<1>4. writer' = [writer EXCEPT ![w] = n] /\ n \in Commits
  BY <1>1, <1>2, <1>3
<1> HIDE DEF n
<1>5. writer' \in [Writers -> Commits] /\ \A x \in Writers \ {w} : writer'[x] = writer[x]
  BY <1>4 DEF CacheTypeOK
<1> QED
  BY <1>1, <1>2, <1>3, <1>5 DEF n

LEMMA ReaderMoves ==
  ASSUME CacheTypeOK, NEW r \in Readers,
         \/ Cache!Ask(r) \/ Cache!GetGeneration(r) \/ Cache!Seed(r)
         \/ Cache!Look(r) \/ Cache!Query(r) \/ Cache!Store(r)
  PROVE  /\ reader' \in [Readers -> Requests]
         /\ \A q \in Readers \ {r} : reader'[q] = reader[q]
         /\ Cache!Ask(r) => reader'[r].step = "gen" /\ reader'[r].since = told
         /\ Cache!GetGeneration(r) =>
              /\ reader'[r].step = (IF gen = Cache!Unset THEN "seed" ELSE "look")
              /\ reader'[r].gen = Generation /\ reader'[r].since = reader[r].since
         /\ Cache!Seed(r) =>
              /\ reader'[r].step = "look" /\ reader'[r].gen = reader[r].gen
              /\ reader'[r].since = reader[r].since
         /\ Cache!Look(r) =>
              /\ reader'[r].since = reader[r].since /\ reader'[r].gen = reader[r].gen
              /\ \/ reader'[r].step = "query"
                 \/ /\ reader'[r].step = "done"
                    /\ \E c \in cached : c.gen = reader[r].gen /\ reader'[r].version = c.version
         /\ Cache!Query(r) =>
              /\ reader'[r].step = "store" /\ reader'[r].gen = reader[r].gen
              /\ reader'[r].since = reader[r].since /\ reader'[r].version = version
         /\ Cache!Store(r) =>
              /\ reader'[r].step = "done" /\ reader'[r].version = reader[r].version
              /\ reader'[r].gen = reader[r].gen /\ reader'[r].since = reader[r].since
<1> DEFINE n == reader'[r]
<1>0. reader[r] \in Requests /\ r \in DOMAIN reader
  BY DEF CacheTypeOK
<1>1. ASSUME Cache!Ask(r)
      PROVE  n \in Requests /\ n.step = "gen" /\ n.since = told
             /\ reader' = [reader EXCEPT ![r] = n]
  BY <1>1, <1>0 DEF Cache!Ask, Cache!Idle, CacheTypeOK, Requests, Steps
<1>2. ASSUME Cache!GetGeneration(r)
      PROVE  n \in Requests /\ n.step = (IF gen = Cache!Unset THEN "seed" ELSE "look")
             /\ n.gen = Generation /\ n.since = reader[r].since
             /\ reader' = [reader EXCEPT ![r] = n]
  BY <1>2, <1>0 DEF Cache!GetGeneration, Generation, CacheTypeOK, Requests, Steps
<1>3. ASSUME Cache!Seed(r)
      PROVE  n \in Requests /\ n.step = "look" /\ n.gen = reader[r].gen
             /\ n.since = reader[r].since /\ reader' = [reader EXCEPT ![r] = n]
  BY <1>3, <1>0 DEF Cache!Seed, Requests, Steps
<1>4. ASSUME Cache!Look(r)
      PROVE  /\ n \in Requests /\ n.gen = reader[r].gen /\ n.since = reader[r].since
             /\ \/ n.step = "query"
                \/ n.step = "done" /\ \E c \in cached : c.gen = reader[r].gen /\ n.version = c.version
             /\ reader' = [reader EXCEPT ![r] = n]
  <2> DEFINE hits == {c \in cached : c.gen = reader[r].gen}
  <2>1. CASE hits = {}
    BY <1>4, <2>1, <1>0 DEF Cache!Look, Requests, Steps
  <2>2. CASE hits # {}
    <3>1. PICK c \in hits : reader' = [reader EXCEPT ![r].step = "done", ![r].version = c.version]
      BY <1>4, <2>2 DEF Cache!Look
    <3>2. c.version \in Nat
      BY DEF CacheTypeOK
    <3> QED
      BY <3>1, <3>2, <1>0 DEF Requests, Steps
  <2> QED
    BY <2>1, <2>2
<1>5. ASSUME Cache!Query(r)
      PROVE  n \in Requests /\ n.step = "store" /\ n.gen = reader[r].gen
             /\ n.since = reader[r].since /\ n.version = version
             /\ reader' = [reader EXCEPT ![r] = n]
  BY <1>5, <1>0 DEF Cache!Query, CacheTypeOK, Requests, Steps
<1>6. ASSUME Cache!Store(r)
      PROVE  n \in Requests /\ n.step = "done" /\ n.gen = reader[r].gen
             /\ n.since = reader[r].since /\ n.version = reader[r].version
             /\ reader' = [reader EXCEPT ![r] = n]
  BY <1>6, <1>0 DEF Cache!Store, Requests, Steps
<1>7. reader' = [reader EXCEPT ![r] = n] /\ n \in Requests
  BY <1>1, <1>2, <1>3, <1>4, <1>5, <1>6
<1> HIDE DEF n
<1>8. reader' \in [Readers -> Requests] /\ \A q \in Readers \ {r} : reader'[q] = reader[q]
  BY <1>7 DEF CacheTypeOK
<1> QED
  BY <1>1, <1>2, <1>3, <1>4, <1>5, <1>6, <1>8 DEF n

LEMMA CacheTyped ==
  ASSUME CacheTypeOK, PromisedWasCommitted, Cache!Next
  PROVE  CacheTypeOK' /\ PromisedWasCommitted' /\ (undone => undone')
<1>1. CASE Cache!Expire
  BY <1>1 DEF Cache!Expire, CacheTypeOK, PromisedWasCommitted
<1>2. ASSUME NEW w \in Writers, Cache!Commit(w) \/ Cache!Bust(w) \/ Cache!Tell(w)
      PROVE  CacheTypeOK' /\ PromisedWasCommitted' /\ (undone => undone')
  <2>1. writer[w] \in Commits /\ writer[w].version <= version
    BY DEF CacheTypeOK, PromisedWasCommitted
  <2>2. CASE Cache!Commit(w)
    BY <1>2, <2>2, WriterMoves DEF Cache!Commit, CacheTypeOK, PromisedWasCommitted, Commits, Requests
  <2>3. CASE Cache!Bust(w)
    BY <1>2, <2>1, <2>3, WriterMoves DEF Cache!Bust, CacheTypeOK, PromisedWasCommitted, Commits, Requests
  <2>4. CASE Cache!Tell(w)
    BY <1>2, <2>1, <2>4, WriterMoves DEF Cache!Tell, CacheTypeOK, PromisedWasCommitted, Commits, Requests
  <2> QED
    BY <1>2, <2>2, <2>3, <2>4
<1>3. ASSUME NEW r \in Readers,
             \/ Cache!Ask(r) \/ Cache!GetGeneration(r) \/ Cache!Seed(r)
             \/ Cache!Look(r) \/ Cache!Query(r) \/ Cache!Store(r)
      PROVE  CacheTypeOK' /\ PromisedWasCommitted' /\ (undone => undone')
  <2>1. reader[r] \in Requests
    BY DEF CacheTypeOK
  <2>2. reader' \in [Readers -> Requests] /\ \A q \in Readers : reader'[q].since <= told
    BY <1>3, ReaderMoves DEF CacheTypeOK, PromisedWasCommitted
  <2>3. UNCHANGED <<version, told, writer>>
    BY <1>3 DEF Cache!Ask, Cache!GetGeneration, Cache!Seed, Cache!Look, Cache!Query, Cache!Store
  <2>4. PromisedWasCommitted'
    BY <2>2, <2>3 DEF PromisedWasCommitted
  <2>5. gen' \in Nat \cup {Cache!Unset}
    BY <1>3 DEF Cache!Ask, Cache!GetGeneration, Cache!Seed, Cache!Look, Cache!Query, Cache!Store,
                CacheTypeOK
  <2>7. undone' \in BOOLEAN /\ (undone => undone')
    BY <1>3, Zenon DEF Cache!Ask, Cache!GetGeneration, Cache!Seed, Cache!Look, Cache!Query,
                       Cache!Store, CacheTypeOK
  <2>6. cached' \subseteq [gen : Nat, version : Nat]
    BY <1>3, <2>1 DEF Cache!Ask, Cache!GetGeneration, Cache!Seed, Cache!Look, Cache!Query,
                      Cache!Store, CacheTypeOK, Requests
  <2> QED
    BY <2>2, <2>3, <2>4, <2>5, <2>6, <2>7 DEF CacheTypeOK
<1> QED
  BY <1>1, <1>2, <1>3 DEF Cache!Next

LEMMA CoveredByWriter ==
  ASSUME CacheTypeOK, PromisedWasCommitted, Covered,
         NEW w \in Writers, Cache!Commit(w) \/ Cache!Bust(w) \/ Cache!Tell(w)
  PROVE  Covered'
<1> USE DEF CacheTypeOK
<1>0. writer[w] \in Commits /\ writer'[w] \in Commits /\ UNCHANGED <<cached, reader>>
  BY WriterMoves DEF Cache!Commit, Cache!Bust, Cache!Tell
<1>1. CASE Cache!Commit(w) \/ Cache!Tell(w)
  <2>1. UNCHANGED <<gen, cached, reader>> /\ Generation' = Generation
    BY <1>1 DEF Cache!Commit, Cache!Tell, Generation
  <2>2. \A v \in Busted' : v \in Busted
    <3>1. CASE Cache!Commit(w)
      BY <3>1, WriterMoves DEF Cache!Commit, Busted
    <3>2. CASE Cache!Tell(w)
      BY <3>2, WriterMoves DEF Cache!Tell, Busted
    <3> QED
      BY <1>1, <3>1, <3>2
  <2> QED
    BY <2>1, <2>2 DEF Covered, NoBustYet, PagesCover, ReadersFind, StoresCover, AnswersCover, Filling
<1>2. CASE Cache!Bust(w)
  <2>1. Generation' = Generation + 1 /\ Generation \in Nat
    BY <1>2 DEF Cache!Bust, Generation
  <2>2. NoBustYet'
    BY <2>1 DEF NoBustYet
  <2>3. PagesCover' /\ ReadersFind' /\ AnswersCover'
    BY <1>0, <2>1 DEF Covered, PagesCover, ReadersFind, AnswersCover, Filling, Requests
  <2>4. StoresCover'
    BY <1>0, <2>1 DEF Covered, StoresCover, ReadersFind, Filling, Requests
  <2> QED
    BY <2>2, <2>3, <2>4 DEF Covered
<1> QED
  BY <1>1, <1>2

LEMMA CoveredByReader ==
  ASSUME CacheTypeOK, PromisedWasCommitted, Covered, ~undone',
         NEW r \in Readers,
         \/ Cache!Ask(r) \/ Cache!GetGeneration(r) \/ Cache!Seed(r)
         \/ Cache!Look(r) \/ Cache!Query(r) \/ Cache!Store(r)
  PROVE  Covered'
<1> DEFINE Good(q) == /\ reader'[q].gen <= Generation
                      /\ reader'[q].step = "seed" => reader'[q].gen = 0
                      /\ \A c \in cached' : c.gen = reader'[q].gen => c.version >= reader'[q].since
<1>1. reader \in [Readers -> Requests] /\ reader' \in [Readers -> Requests]
  BY ReaderMoves DEF CacheTypeOK
<1>2. UNCHANGED <<version, told, writer>>
  BY DEF Cache!Ask, Cache!GetGeneration, Cache!Seed, Cache!Look, Cache!Query, Cache!Store
<1>3. Busted' = Busted /\ told \in Busted /\ \A v \in Busted : v \in Nat /\ v <= version
  BY <1>2 DEF Busted, CacheTypeOK, PromisedWasCommitted, Commits
<1>4. version \in Nat /\ Generation \in Nat /\ \A q \in Readers : reader[q].since <= told
  BY DEF CacheTypeOK, PromisedWasCommitted, Generation
<1>5. Generation' = Generation
  <2>1. CASE Cache!Seed(r)
    <3>1. ~(gen > 0) /\ gen' = 0
      BY <2>1 DEF Cache!Seed
    <3> QED
      BY <3>1 DEF Generation, CacheTypeOK
  <2>2. CASE ~Cache!Seed(r)
    BY <2>2 DEF Cache!Ask, Cache!GetGeneration, Cache!Look, Cache!Query, Cache!Store, Generation
  <2> QED
    BY <2>1, <2>2
<1>6. \A q \in Readers \ {r} : reader'[q] = reader[q]
  BY ReaderMoves
<1>7. NoBustYet'
  BY <1>3, <1>5 DEF Covered, NoBustYet
<1>8. CASE Cache!Ask(r)
  <2>1. cached' = cached /\ reader'[r].step = "gen"
    BY <1>8, ReaderMoves DEF Cache!Ask
  <2> QED
    BY <1>1, <1>3, <1>5, <1>6, <1>7, <2>1
       DEF Covered, PagesCover, ReadersFind, StoresCover, AnswersCover, Filling
<1>9. CASE Cache!GetGeneration(r)
  <2>1. /\ cached' = cached /\ reader'[r].gen = Generation /\ reader'[r].since = reader[r].since
        /\ reader'[r].step = (IF gen = Cache!Unset THEN "seed" ELSE "look")
    BY <1>9, ReaderMoves DEF Cache!GetGeneration
  <2>2. reader'[r].since \in Nat /\ reader'[r].since <= told
    BY <1>1, <1>4, <2>1 DEF Requests
  <2>3. \A q \in Readers : Filling(q)' => Good(q)
    <3>1. Good(r)
      <4>1. reader'[r].step = "seed" => reader'[r].gen = 0
        BY <2>1 DEF Generation
      <4>2. \A c \in cached : c.gen = Generation => c.version >= told /\ c.version \in Nat
        BY <1>3 DEF Covered, PagesCover, CacheTypeOK
      <4> QED
        BY <1>3, <1>4, <2>1, <2>2, <4>1, <4>2 DEF CacheTypeOK
    <3>2. ASSUME NEW q \in Readers \ {r}, Filling(q)' PROVE Good(q)
      BY <1>6, <2>1, <3>2 DEF Covered, ReadersFind, Filling
    <3> QED
      BY <3>1, <3>2
  <2>4. StoresCover'
    <3> SUFFICES ASSUME NEW q \in Readers, reader'[q].step = "store"
                 PROVE  /\ reader'[q].gen = Generation => \A v \in Busted : reader'[q].version >= v
                        /\ \A x \in Readers : (Filling(x)' /\ reader'[x].gen = reader'[q].gen)
                              => reader'[q].version >= reader'[x].since
      BY <1>3, <1>5 DEF StoresCover, Filling
    <3>1. q # r /\ reader'[q] = reader[q] /\ reader[q] \in Requests
      BY <1>1, <1>6, <2>1
    <3>2. reader[q].gen = Generation => \A v \in Busted : reader[q].version >= v
      BY <3>1 DEF Covered, StoresCover
    <3>3. ASSUME NEW x \in Readers, Filling(x)', reader'[x].gen = reader'[q].gen
          PROVE  reader'[q].version >= reader'[x].since
      <4>1. CASE x = r
        BY <1>3, <2>1, <2>2, <3>1, <3>2, <3>3, <4>1 DEF Requests, CacheTypeOK
      <4>2. CASE x # r
        BY <1>6, <3>1, <3>3, <4>2 DEF Covered, StoresCover, Filling
      <4> QED
        BY <4>1, <4>2
    <3> QED
      BY <3>1, <3>2, <3>3
  <2>5. PagesCover' /\ AnswersCover'
    BY <1>3, <1>5, <1>6, <2>1 DEF Covered, PagesCover, AnswersCover
  <2> QED
    BY <1>5, <1>7, <2>3, <2>4, <2>5 DEF Covered, ReadersFind
<1>10. CASE Cache!Seed(r)
  <2>1. /\ cached' = cached /\ reader'[r].gen = reader[r].gen /\ reader'[r].since = reader[r].since
        /\ reader'[r].step = "look" /\ Filling(r)
    BY <1>10, ReaderMoves DEF Cache!Seed, Filling
  <2> QED
    BY <1>1, <1>3, <1>5, <1>6, <1>7, <2>1
       DEF Covered, PagesCover, ReadersFind, StoresCover, AnswersCover, Filling
<1>11. CASE Cache!Look(r)
  <2>1. /\ cached' = cached /\ reader'[r].gen = reader[r].gen /\ reader'[r].since = reader[r].since
        /\ Filling(r)
        /\ \/ reader'[r].step = "query"
           \/ /\ reader'[r].step = "done"
              /\ \E c \in cached : c.gen = reader[r].gen /\ reader'[r].version = c.version
    BY <1>11, ReaderMoves DEF Cache!Look, Filling
  <2>2. AnswersCover'
    BY <1>6, <2>1 DEF Covered, ReadersFind, AnswersCover
  <2> QED
    BY <1>1, <1>3, <1>5, <1>6, <1>7, <2>1, <2>2
       DEF Covered, PagesCover, ReadersFind, StoresCover, Filling
<1>12. CASE Cache!Query(r)
  <2>1. /\ cached' = cached /\ reader'[r].gen = reader[r].gen /\ reader'[r].since = reader[r].since
        /\ reader'[r].step = "store" /\ Filling(r) /\ reader'[r].version = version
    BY <1>12, ReaderMoves DEF Cache!Query, Filling
  <2>2. \A q \in Readers : reader'[q].since \in Nat /\ reader'[q].since <= version
    BY <1>1, <1>3, <1>4, <1>6, <2>1 DEF Requests, CacheTypeOK
  <2>3. StoresCover'
    BY <1>1, <1>3, <1>4, <1>5, <1>6, <2>1, <2>2 DEF Covered, StoresCover, Filling
  <2> QED
    BY <1>1, <1>3, <1>5, <1>6, <1>7, <2>1, <2>3
       DEF Covered, PagesCover, ReadersFind, AnswersCover, Filling
<1>13. CASE Cache!Store(r)
  <2>1. /\ reader[r].step = "store" /\ reader'[r].step = "done" /\ Filling(r)
        /\ reader'[r].version = reader[r].version /\ reader'[r].since = reader[r].since
    BY <1>13, ReaderMoves DEF Cache!Store, Filling
  <2>2. \A c \in cached' : c \in cached \/ (c.gen = reader[r].gen /\ c.version = reader[r].version)
    BY <1>13 DEF Cache!Store
  <2>3. PagesCover'
    BY <1>3, <1>5, <2>1, <2>2 DEF Covered, PagesCover, StoresCover, ReadersFind
  <2>4. ReadersFind'
    BY <1>5, <1>6, <2>1, <2>2 DEF Covered, ReadersFind, StoresCover, Filling
  <2>5. StoresCover' /\ AnswersCover'
    BY <1>3, <1>5, <1>6, <2>1 DEF Covered, StoresCover, AnswersCover, Filling
  <2> QED
    BY <1>7, <2>3, <2>4, <2>5 DEF Covered
<1> QED
  BY <1>8, <1>9, <1>10, <1>11, <1>12, <1>13

LEMMA CacheStep == ASSUME Fresh, Cache!Next PROVE Fresh'
<1>1. CacheTypeOK /\ PromisedWasCommitted
  BY DEF Fresh
<1>2. CacheTypeOK' /\ PromisedWasCommitted' /\ (undone => undone')
  BY <1>1, CacheTyped
<1>3. ASSUME Covered, ~undone' PROVE Covered'
  <2>1. CASE Cache!Expire
    <3>1. cached' \subseteq cached /\ UNCHANGED <<version, gen, reader, writer, told>>
      BY <2>1 DEF Cache!Expire
    <3> QED
      BY <1>3, <3>1 DEF Covered, NoBustYet, PagesCover, ReadersFind, StoresCover, AnswersCover,
                        Filling, Generation, Busted
  <2>2. ASSUME NEW w \in Writers, Cache!Commit(w) \/ Cache!Bust(w) \/ Cache!Tell(w)
        PROVE  Covered'
    BY <1>1, <1>3, <2>2, CoveredByWriter
  <2>3. ASSUME NEW r \in Readers,
               \/ Cache!Ask(r) \/ Cache!GetGeneration(r) \/ Cache!Seed(r)
               \/ Cache!Look(r) \/ Cache!Query(r) \/ Cache!Store(r)
        PROVE  Covered'
    BY <1>1, <1>3, <2>3, CoveredByReader
  <2> QED
    BY <2>1, <2>2, <2>3 DEF Cache!Next
<1> QED
  BY <1>2, <1>3 DEF Fresh

LEMMA CacheStands == ASSUME Fresh, UNCHANGED cacheVars PROVE Fresh'
BY DEF cacheVars, Fresh, CacheTypeOK, PromisedWasCommitted, Covered, NoBustYet, PagesCover,
       ReadersFind, StoresCover, AnswersCover, Filling, Generation, Busted

\* Nobody is served standings older than what a signal told them to fetch,
\* whatever requests, commits and expiries overlap, unless a seed of the counter
\* undid a bust (the order of bust and broadcast, and the key taken at the start,
\* of contests/cache.py).
THEOREM NoStalePage == RoundSpec => []SignalledPagesAreFresh
<1>1. RoundInit => Fresh
  BY CacheInit DEF RoundInit
<1>2. Fresh /\ [RoundNext]_<<part, vars, cacheVars, liveVars, pillVars>> => Fresh'
  BY CacheStep, CacheStands DEF RoundNext
<1>3. Fresh => SignalledPagesAreFresh
  BY DEF Fresh, Covered, AnswersCover, SignalledPagesAreFresh, Cache!SignalledPagesAreFresh
<1> QED
  BY <1>1, <1>2, <1>3, PTL DEF RoundSpec

-----------------------------------------------------------------------------
(* The registration pill.                                                   *)
(*                                                                         *)
(* The first click says the opposite of the list, the second what the list *)
(* said.  Two requests can meet in any order, but the second is refused    *)
(* only while the first is not served yet, and the pill then goes back to  *)
(* what the first will bring about.                                        *)

PillCalls == [was : BOOLEAN, answer : Pill!Answers]

\* A request of a pill that showed w, with one of these answers, is in flight.
InFlight(cs, w, answers) ==
  \E i \in 1..Len(cs) : cs[i].was = w /\ cs[i].answer \in answers

\* No two requests are alike.
AllDiffer(cs) == \A i, j \in 1..Len(cs) : i # j => cs[i].was # cs[j].was

\* The first click is not served yet; the second may still be refused.
FirstWaits == InFlight(toggles, listed, {"none"})
SecondIsOpen == InFlight(toggles, ~listed, {"none", "refused"})

Settling ==
  /\ AllDiffer(toggles)
  /\ ~InFlight(toggles, listed, {"refused"})
  /\ clicks = 0 => toggles = <<>> /\ override = {} /\ joined = listed
  /\ clicks <= 1 => ~InFlight(toggles, ~listed, Pill!Answers)
  /\ clicks = 1 => override = {~listed} /\ (joined = listed <=> FirstWaits)
  /\ clicks = 2 /\ SecondIsOpen => override = {listed} /\ (joined = listed <=> FirstWaits)
  /\ clicks = 2 /\ ~SecondIsOpen =>
       \/ override = {listed} /\ joined = listed /\ ~FirstWaits
       \/ override = {~listed} /\ (joined = listed <=> FirstWaits)

PillInv ==
  /\ toggles \in Seq(PillCalls) /\ joined \in BOOLEAN /\ listed \in BOOLEAN
  /\ clicks \in Nat /\ lost \in Nat
  /\ clicks <= 2 /\ lost = 0 /\ ~started /\ verified => Settling

\* The page's own idea, once it has one.
LEMMA RegisteredBoolean ==
  ASSUME override # {}
  PROVE  Pill!Registered \in BOOLEAN /\ (Pill!Registered <=> TRUE \in override)
<1>1. Pill!Registered = (TRUE \in override)
  BY DEF Pill!Registered
<1>2. (TRUE \in override) \in BOOLEAN
  BY SMT
<1>3. Pill!Registered <=> TRUE \in override
  BY DEF Pill!Registered
<1> QED
  BY <1>1, <1>2, <1>3

LEMMA PillInit == Pill!Init => PillInv
<1> SUFFICES ASSUME Pill!Init PROVE PillInv
  OBVIOUS
<1>1. /\ toggles = <<>> /\ joined \in BOOLEAN /\ listed = joined
      /\ clicks = 0 /\ lost = 0 /\ override = {}
  BY DEF Pill!Init
<1>2. toggles \in Seq(PillCalls) /\ Len(toggles) = 0
  BY <1>1
<1>3. \A w, answers : ~InFlight(toggles, w, answers)
  BY <1>2 DEF InFlight
<1>4. Settling
  BY <1>1, <1>2, <1>3 DEF Settling, AllDiffer
<1> QED
  BY <1>1, <1>2, <1>4 DEF PillInv

LEMMA PillStands == ASSUME PillInv, UNCHANGED pillVars PROVE PillInv'
BY DEF pillVars, PillInv, Settling, FirstWaits, SecondIsOpen, InFlight

\* A click on the pill.
LEMMA PillToggled == ASSUME PillInv, Pill!Toggle PROVE PillInv'
<1>1. /\ clicks' = clicks + 1 /\ override' = {~Pill!Registered}
      /\ toggles' = Append(toggles, [was |-> Pill!Registered, answer |-> "none"])
      /\ UNCHANGED <<verified, joined, started, listed, lost>>
  BY DEF Pill!Toggle
<1> DEFINE c == [was |-> Pill!Registered, answer |-> "none"]
<1>2. Pill!Registered \in BOOLEAN
  <2>1. CASE override = {}
    BY <2>1 DEF Pill!Registered, PillInv
  <2>2. CASE override # {}
    BY <2>2, RegisteredBoolean
  <2> QED
    BY <2>1, <2>2
<1>3. c \in PillCalls
  BY <1>2 DEF PillCalls, Pill!Answers
<1>4. /\ toggles' \in Seq(PillCalls) /\ Len(toggles') = Len(toggles) + 1 /\ Len(toggles) \in Nat
      /\ \A i \in 1..Len(toggles) : toggles'[i] = toggles[i]
      /\ toggles'[Len(toggles) + 1] = c
  BY <1>1, <1>3, AppendProperties, LenProperties DEF PillInv
<1>5. c.was = Pill!Registered /\ c.answer = "none"
  OBVIOUS
<1> HIDE DEF c
<1>6. \A w, answers : InFlight(toggles', w, answers)
                        <=> InFlight(toggles, w, answers) \/ (c.was = w /\ c.answer \in answers)
  BY <1>4 DEF InFlight
<1>7. ASSUME clicks' <= 2, lost' = 0, ~started', verified' PROVE Settling'
  <2>1. Settling /\ clicks \in 0..1
    BY <1>1, <1>7 DEF PillInv
  <2>2. CASE clicks = 0
    <3>1. Pill!Registered = listed /\ joined = listed
      BY <2>1, <2>2 DEF Settling, Pill!Registered
    <3>2. \A w, answers : ~InFlight(toggles, w, answers)
      BY <2>1, <2>2 DEF Settling, InFlight
    <3>3. Len(toggles) = 0
      BY <2>1, <2>2 DEF Settling
    <3> QED
      BY <1>1, <1>4, <1>5, <1>6, <2>2, <3>1, <3>2, <3>3 DEF Settling, FirstWaits, PillInv, AllDiffer
  <2>3. CASE clicks = 1
    <3>0. override = {~listed} /\ (joined = listed <=> FirstWaits)
      BY <2>1, <2>3 DEF Settling
    <3>1. Pill!Registered = ~listed /\ override' = {listed}
      <4>1. override # {}
        BY <3>0
      <4>2. CASE listed = TRUE
        <5>1. TRUE \notin override
          BY <3>0, <4>2
        <5>2. Pill!Registered = FALSE
          BY <4>1, <5>1, RegisteredBoolean
        <5> QED
          BY <1>1, <4>2, <5>2
      <4>3. CASE listed = FALSE
        <5>1. TRUE \in override
          BY <3>0, <4>3
        <5>2. Pill!Registered = TRUE
          BY <4>1, <5>1, RegisteredBoolean
        <5> QED
          BY <1>1, <4>3, <5>2
      <4> QED
        BY <4>2, <4>3 DEF PillInv
    <3>2. \A i \in 1..Len(toggles) : toggles[i].was # ~listed
      <4>1. ~InFlight(toggles, ~listed, Pill!Answers)
        BY <2>1, <2>3 DEF Settling
      <4>2. \A i \in 1..Len(toggles) : toggles[i].answer \in Pill!Answers
        <5>1. \A i \in 1..Len(toggles) : toggles[i] \in PillCalls
          BY ElementOfSeq DEF PillInv
        <5> QED
          BY <5>1 DEF PillCalls
      <4> QED
        BY <4>1, <4>2, Zenon DEF InFlight
    <3>3. (FirstWaits' <=> FirstWaits) /\ SecondIsOpen'
      <4>1. c.was = ~listed /\ c.was # listed /\ listed' = listed
        BY <1>1, <1>5, <3>1 DEF PillInv
      <4>2. FirstWaits' <=> InFlight(toggles', listed, {"none"})
        BY <4>1, Zenon DEF FirstWaits
      <4>3. SecondIsOpen' <=> InFlight(toggles', ~listed, {"none", "refused"})
        BY <4>1, Zenon DEF SecondIsOpen
      <4>4. FirstWaits' <=> FirstWaits
        BY <1>6, <4>1, <4>2, Zenon DEF FirstWaits
      <4>5. SecondIsOpen'
        BY <1>5, <1>6, <4>1, <4>3, Zenon
      <4> QED
        BY <4>4, <4>5
    <3>4. ~InFlight(toggles', listed', {"refused"})
      BY <1>1, <1>5, <1>6, <2>1 DEF Settling
    <3>5. AllDiffer(toggles')
      BY <1>4, <1>5, <2>1, <3>1, <3>2 DEF Settling, AllDiffer
    <3> QED
      BY <1>1, <2>3, <3>0, <3>1, <3>3, <3>4, <3>5 DEF Settling
  <2> QED
    BY <2>1, <2>2, <2>3
<1> QED
  BY <1>1, <1>4, <1>7 DEF PillInv

\* The server takes up the request at position k: it is the first, or the second
\* where the first is served already, or is refused.
LEMMA PillServed ==
  ASSUME PillInv, NEW k, Pill!Serve(k)
  PROVE  PillInv'
<1>1. /\ k \in 1..Len(toggles) /\ toggles[k].answer = "none" /\ toggles[k] \in PillCalls
      /\ UNCHANGED <<verified, started, listed, override, clicks, lost>>
  BY ElementOfSeq, LenProperties DEF Pill!Serve, PillInv
<1>2. PICK a \in {"ok", "refused"} :
        /\ toggles' = [toggles EXCEPT ![k].answer = a]
        /\ a = "refused" <=> (\/ ~toggles[k].was /\ ~verified
                             \/ started \/ joined # toggles[k].was)
        /\ joined' = IF a = "ok" THEN ~joined ELSE joined
  BY DEF Pill!Serve, Pill!Refuses
<1>3. /\ toggles' \in Seq(PillCalls) /\ Len(toggles') = Len(toggles)
      /\ \A i \in 1..Len(toggles) : /\ toggles'[i].was = toggles[i].was
                                    /\ toggles'[i].answer = IF i = k THEN a ELSE toggles[i].answer
  <2>1. DOMAIN toggles = 1..Len(toggles) /\ \A i \in 1..Len(toggles) : toggles[i] \in PillCalls
    BY LenProperties, ElementOfSeq DEF PillInv
  <2>2. [toggles[k] EXCEPT !.answer = a] \in PillCalls
    BY <1>1 DEF PillCalls, Pill!Answers
  <2>3. toggles' = [toggles EXCEPT ![k] = [toggles[k] EXCEPT !.answer = a]]
    BY <1>2
  <2>4. toggles' \in Seq(PillCalls) /\ Len(toggles') = Len(toggles)
    BY <1>1, <2>2, <2>3, ExceptSeq DEF PillInv
  <2> QED
    BY <1>1, <2>1, <2>3, <2>4 DEF PillCalls
<1>4. joined' \in BOOLEAN
  BY <1>2 DEF PillInv
<1>5. ASSUME clicks' <= 2, lost' = 0, ~started', verified' PROVE Settling'
  <2>1. Settling /\ ~started /\ verified /\ clicks <= 2
    BY <1>1, <1>5 DEF PillInv
  <2>2. \A w, answers : InFlight(toggles', w, answers) <=>
           \/ \E i \in 1..Len(toggles) : i # k /\ toggles[i].was = w /\ toggles[i].answer \in answers
           \/ toggles[k].was = w /\ a \in answers
    BY <1>1, <1>3 DEF InFlight
  <2>3. clicks \in {1, 2} /\ toggles # <<>>
    BY <1>1, <2>1 DEF Settling, PillInv
  <2>4. AllDiffer(toggles')
    BY <1>3, <2>1 DEF Settling, AllDiffer
  <2>5. CASE toggles[k].was = listed
    <3>1. FirstWaits
      BY <1>1, <2>5 DEF FirstWaits, InFlight
    <3>2. joined = listed
      BY <2>1, <2>3, <3>1 DEF Settling
    <3>3. a = "ok" /\ joined' # listed' /\ listed' = listed
      BY <1>1, <1>2, <2>1, <2>5, <3>2 DEF PillInv
    <3>4. \A i \in 1..Len(toggles) : i # k => toggles[i].was # listed
      BY <1>1, <2>1, <2>5 DEF Settling, AllDiffer
    <3>5. ~FirstWaits' /\ ~InFlight(toggles', listed', {"refused"})
      BY <2>2, <3>3, <3>4 DEF FirstWaits
    <3>6. \A answers : InFlight(toggles', ~listed', answers) <=> InFlight(toggles, ~listed, answers)
      BY <1>1, <2>2, <2>5, <3>3 DEF InFlight, PillInv
    <3>7. SecondIsOpen' <=> SecondIsOpen
      BY <3>6 DEF SecondIsOpen
    <3> QED
      BY <1>1, <2>1, <2>3, <2>4, <3>1, <3>2, <3>3, <3>5, <3>6, <3>7 DEF Settling
  <2>6. CASE toggles[k].was = ~listed
    <3>1. SecondIsOpen /\ InFlight(toggles, ~listed, Pill!Answers)
      BY <1>1, <2>6 DEF SecondIsOpen, InFlight, Pill!Answers
    <3>2. clicks = 2 /\ override = {listed} /\ (joined = listed <=> FirstWaits)
      BY <2>1, <2>3, <3>1 DEF Settling
    <3>3. \A i \in 1..Len(toggles) : i # k => toggles[i].was # ~listed
      BY <1>1, <2>1, <2>6 DEF Settling, AllDiffer
    <3>4. \A answers : InFlight(toggles', listed', answers) <=> InFlight(toggles, listed, answers)
      BY <1>1, <2>2, <2>6 DEF InFlight, PillInv
    <3>5. FirstWaits' <=> FirstWaits
      BY <3>4 DEF FirstWaits
    <3>6. SecondIsOpen' <=> a = "refused"
      BY <1>1, <2>2, <2>6, <3>3 DEF SecondIsOpen
    <3>7. a = "refused" <=> joined = listed
      BY <1>2, <2>1, <2>6 DEF PillInv
    <3>8. joined' = listed
      BY <1>2, <3>7 DEF PillInv
    <3>9. a = "ok" => ~FirstWaits
      BY <3>2, <3>7
    <3>10. ~InFlight(toggles', listed', {"refused"})
      BY <2>1, <3>4 DEF Settling
    <3>11. clicks' = 2 /\ override' = {listed'} /\ joined' = listed'
      BY <1>1, <3>2, <3>8
    <3>12. CASE a = "refused"
      BY <1>1, <2>4, <3>2, <3>5, <3>6, <3>7, <3>10, <3>11, <3>12 DEF Settling
    <3>13. CASE a = "ok"
      BY <1>1, <2>4, <3>5, <3>6, <3>9, <3>10, <3>11, <3>13 DEF Settling
    <3> QED
      BY <3>12, <3>13
  <2> QED
    BY <1>1, <2>5, <2>6 DEF PillCalls, PillInv
<1> QED
  BY <1>1, <1>3, <1>4, <1>5 DEF PillInv

\* The elements of a list without the one at position k.
LEMMA OthersStay ==
  ASSUME NEW cs \in Seq(PillCalls), NEW k \in 1..Len(cs), NEW ds, ds = Pill!RemoveAt(cs, k)
  PROVE  /\ ds \in Seq(PillCalls)
         /\ AllDiffer(cs) => AllDiffer(ds)
         /\ \A i \in 1..Len(ds) : \E m \in 1..Len(cs) : m # k /\ ds[i] = cs[m]
         /\ \A m \in 1..Len(cs) : m # k => \E i \in 1..Len(ds) : ds[i] = cs[m]
<1>1. Len(cs) \in Nat /\ k \in Nat /\ 1 <= k /\ k <= Len(cs)
  BY LenProperties
<1>2. ds = RemoveAt(cs, k)
  BY DEF Pill!RemoveAt, RemoveAt
<1>3. /\ ds \in Seq(PillCalls) /\ Len(ds) = Len(cs) - 1
      /\ \A i \in 1..Len(cs) - 1 : ds[i] = IF i < k THEN cs[i] ELSE cs[i + 1]
  BY <1>2, RemoveAtElements
<1>4. \A i \in 1..Len(ds) :
        \/ i < k /\ i \in 1..Len(cs) /\ ds[i] = cs[i]
        \/ i >= k /\ i + 1 \in 1..Len(cs) /\ ds[i] = cs[i + 1]
  BY <1>1, <1>3
<1>5. \A i \in 1..Len(ds) : \E m \in 1..Len(cs) : m # k /\ ds[i] = cs[m]
  BY <1>1, <1>4
<1>6. AllDiffer(cs) => AllDiffer(ds)
  <2> SUFFICES ASSUME AllDiffer(cs), NEW i \in 1..Len(ds), NEW j \in 1..Len(ds), i # j
               PROVE  ds[i].was # ds[j].was
    BY DEF AllDiffer
  <2> DEFINE m == IF i < k THEN i ELSE i + 1
             n == IF j < k THEN j ELSE j + 1
  <2>1. m \in 1..Len(cs) /\ n \in 1..Len(cs) /\ ds[i] = cs[m] /\ ds[j] = cs[n]
    BY <1>4
  <2>2. m # n
    BY <1>1, <1>3
  <2> QED
    BY <2>1, <2>2 DEF AllDiffer
<1>7. \A m \in 1..Len(cs) : m # k => \E i \in 1..Len(ds) : ds[i] = cs[m]
  <2> SUFFICES ASSUME NEW m \in 1..Len(cs), m # k
               PROVE  \E i \in 1..Len(ds) : ds[i] = cs[m]
    OBVIOUS
  <2> DEFINE i == IF m < k THEN m ELSE m - 1
  <2>1. i \in 1..Len(ds) /\ ds[i] = cs[m]
    BY <1>1, <1>3
  <2> QED
    BY <2>1
<1> QED
  BY <1>3, <1>5, <1>6, <1>7

\* The answer to the request at position k comes.
LEMMA PillAnswered ==
  ASSUME PillInv, NEW k, Pill!Answered(k)
  PROVE  PillInv'
<1>1. /\ k \in 1..Len(toggles) /\ toggles[k].answer # "none" /\ toggles[k] \in PillCalls
      /\ toggles' = Pill!RemoveAt(toggles, k)
      /\ override' = IF toggles[k].answer = "refused" THEN {toggles[k].was} ELSE override
      /\ UNCHANGED <<verified, joined, started, listed, clicks, lost>>
  BY ElementOfSeq, LenProperties DEF Pill!Answered, Pill!Reverted, PillInv
<1>2. /\ toggles' \in Seq(PillCalls)
      /\ AllDiffer(toggles) => AllDiffer(toggles')
      /\ \A i \in 1..Len(toggles') : \E m \in 1..Len(toggles) : m # k /\ toggles'[i] = toggles[m]
      /\ \A m \in 1..Len(toggles) : m # k => \E i \in 1..Len(toggles') : toggles'[i] = toggles[m]
  <2>1. toggles \in Seq(PillCalls)
    BY DEF PillInv
  <2> QED
    <3>1. k \in 1..Len(toggles) /\ toggles' = Pill!RemoveAt(toggles, k)
      BY <1>1
    <3>2. toggles' \in Seq(PillCalls) /\ (AllDiffer(toggles) => AllDiffer(toggles'))
      BY <2>1, <3>1, OthersStay
    <3>3. \A i \in 1..Len(toggles') : \E m \in 1..Len(toggles) : m # k /\ toggles'[i] = toggles[m]
      BY <2>1, <3>1, OthersStay
    <3>4. \A m \in 1..Len(toggles) : m # k => \E i \in 1..Len(toggles') : toggles'[i] = toggles[m]
      BY <2>1, <3>1, OthersStay
    <3> QED
      BY <3>2, <3>3, <3>4
<1>3. ASSUME clicks' <= 2, lost' = 0, ~started', verified' PROVE Settling'
  <2>1. Settling /\ clicks <= 2
    BY <1>1, <1>3 DEF PillInv
  <2>2. clicks \in {1, 2} /\ toggles # <<>>
    BY <1>1, <2>1 DEF Settling, PillInv
  <2>3. AllDiffer(toggles')
    BY <1>2, <2>1 DEF Settling
  <2>4. \A w, answers : InFlight(toggles', w, answers) <=>
           \E i \in 1..Len(toggles) : i # k /\ toggles[i].was = w /\ toggles[i].answer \in answers
    <3> SUFFICES ASSUME NEW w, NEW answers
                 PROVE  InFlight(toggles', w, answers) <=>
                          \E i \in 1..Len(toggles) :
                            i # k /\ toggles[i].was = w /\ toggles[i].answer \in answers
      OBVIOUS
    <3>1. ASSUME NEW i \in 1..Len(toggles'), toggles'[i].was = w, toggles'[i].answer \in answers
          PROVE  \E m \in 1..Len(toggles) :
                   m # k /\ toggles[m].was = w /\ toggles[m].answer \in answers
      <4>1. PICK m \in 1..Len(toggles) : m # k /\ toggles'[i] = toggles[m]
        BY <1>2
      <4> QED
        BY <3>1, <4>1
    <3>2. ASSUME NEW m \in 1..Len(toggles), m # k, toggles[m].was = w, toggles[m].answer \in answers
          PROVE  \E i \in 1..Len(toggles') : toggles'[i].was = w /\ toggles'[i].answer \in answers
      <4>1. PICK i \in 1..Len(toggles') : toggles'[i] = toggles[m]
        BY <1>2, <3>2
      <4> QED
        BY <3>2, <4>1
    <3> QED
      BY <3>1, <3>2, Zenon DEF InFlight
  <2>5. \A w, answers : InFlight(toggles', w, answers) => InFlight(toggles, w, answers)
    BY <2>4 DEF InFlight
  <2>6. FirstWaits' <=> FirstWaits
    <3>1. \A i \in 1..Len(toggles) : toggles[i].answer \in {"none"} => i # k
      BY <1>1
    <3>2. InFlight(toggles', listed, {"none"}) <=> InFlight(toggles, listed, {"none"})
      BY <2>4, <3>1, Zenon DEF InFlight
    <3> QED
      BY <1>1, <3>2 DEF FirstWaits
  <2>7. CASE toggles[k].answer = "ok"
    <3>1. SecondIsOpen' <=> SecondIsOpen
      <4>1. \A i \in 1..Len(toggles) : toggles[i].answer \in {"none", "refused"} => i # k
        BY <2>7
      <4>2. InFlight(toggles', ~listed, {"none", "refused"})
              <=> InFlight(toggles, ~listed, {"none", "refused"})
        BY <2>4, <4>1, Zenon DEF InFlight
      <4> QED
        BY <1>1, <4>2 DEF SecondIsOpen
    <3>2. override' = override
      BY <1>1, <2>7
    <3> QED
      BY <1>1, <2>1, <2>2, <2>3, <2>5, <2>6, <3>1, <3>2 DEF Settling
  <2>8. CASE toggles[k].answer = "refused"
    <3>1. toggles[k].was = ~listed
      BY <1>1, <2>1, <2>8 DEF Settling, InFlight, PillCalls, PillInv
    <3>2. SecondIsOpen /\ InFlight(toggles, ~listed, Pill!Answers)
      BY <1>1, <2>8, <3>1 DEF SecondIsOpen, InFlight, Pill!Answers
    <3>3. clicks = 2 /\ (joined = listed <=> FirstWaits)
      BY <2>1, <2>2, <3>2 DEF Settling
    <3>4. ~SecondIsOpen'
      BY <1>1, <2>1, <2>4, <3>1 DEF SecondIsOpen, Settling, AllDiffer
    <3>5. override' = {~listed'} /\ ~InFlight(toggles', listed', {"refused"})
      BY <1>1, <2>1, <2>5, <2>8, <3>1 DEF Settling
    <3> QED
      <4>1. clicks' = 2
        BY <1>1, <3>3
      <4>2. joined' = listed' <=> FirstWaits'
        BY <1>1, <2>6, <3>3
      <4> QED
        BY <2>3, <3>4, <3>5, <4>1, <4>2 DEF Settling
  <2> QED
    BY <1>1, <2>7, <2>8 DEF PillCalls, Pill!Answers
<1> QED
  BY <1>1, <1>2, <1>3 DEF PillInv

\* A request that is lost, or a start, is what the promise excludes.
LEMMA PillLost == ASSUME PillInv, NEW k, Pill!Lose(k) PROVE PillInv'
<1>1. /\ k \in 1..Len(toggles) /\ toggles[k] \in PillCalls /\ lost' = lost + 1
      /\ toggles' = [toggles EXCEPT ![k] = [toggles[k] EXCEPT !.answer = "refused"]]
      /\ UNCHANGED <<joined, listed, clicks>>
  BY ElementOfSeq, LenProperties DEF Pill!Lose, PillInv
<1>2. [toggles[k] EXCEPT !.answer = "refused"] \in PillCalls
  BY <1>1 DEF PillCalls, Pill!Answers
<1>3. toggles' \in Seq(PillCalls)
  BY <1>1, <1>2, ExceptSeq DEF PillInv
<1> QED
  BY <1>1, <1>3 DEF PillInv

LEMMA PillStep == ASSUME PillInv, Pill!Next PROVE PillInv'
<1>1. CASE Pill!Start
  BY <1>1 DEF Pill!Start, PillInv
<1> QED
  BY <1>1, PillToggled, PillServed, PillLost, PillAnswered DEF Pill!Next

\* Two clicks in a row of a reader with a confirmed address settle: whatever order
\* the join and the leave are served and answered in, the pill ends up telling what
\* the server has (toggleReg of ContestsPage.jsx).
THEOREM TwoClicksSettle == RoundSpec => []DoubleClickSettles
<1>1. RoundInit => PillInv
  BY PillInit DEF RoundInit
<1>2. PillInv /\ [RoundNext]_<<part, vars, cacheVars, liveVars, pillVars>> => PillInv'
  BY PillStep, PillStands DEF RoundNext
<1>3. PillInv => DoubleClickSettles
  <2> SUFFICES ASSUME PillInv, toggles = <<>>, clicks <= 2, lost = 0, ~started, verified
               PROVE  Pill!Registered = joined
    BY DEF DoubleClickSettles, Pill!DoubleClickSettles
  <2>1. Settling /\ ~FirstWaits /\ ~SecondIsOpen /\ clicks \in 0..2
    BY DEF PillInv, FirstWaits, SecondIsOpen, InFlight
  <2>2. CASE clicks = 0
    BY <2>1, <2>2 DEF Settling, Pill!Registered
  <2>3. CASE clicks # 0
    <3>1. override = {joined}
      BY <2>1, <2>3 DEF Settling, PillInv
    <3> QED
      BY <3>1, RegisteredBoolean DEF PillInv
  <2> QED
    BY <2>2, <2>3
<1> QED
  BY <1>1, <1>2, <1>3, PTL DEF RoundSpec

-----------------------------------------------------------------------------
(* The page that follows its contest.                                       *)
(*                                                                         *)
(* Unless answers crossed or one failed, at most one request of the panel   *)
(* is in flight that still counts.  It asks for the slice on screen and for *)
(* pages that continue what the panel shows or replace all of it, and, when *)
(* no timer runs, it was sent after the last thing the page was told.       *)

Slices == {"registrants", "leaderboard"}
PageNumbers == Nat \ {0}
PanelRow == [slice : Slices, place : Nat, version : Nat]
PanelCall == [kind : {"first", "batch", "more"}, slice : Slices, upTo : PageNumbers,
              mine : BOOLEAN, floor : Nat]
Panels == [rows : Seq(PanelRow), hasMore : BOOLEAN, loading : BOOLEAN, error : BOOLEAN,
           page : PageNumbers, fetching : BOOLEAN]
Messages == [type : {"update", "ended"}, version : Nat]
Sockets == [stage : {"off", "connecting", "joined", "open", "done"}, inbox : Seq(Messages)]

\* The slice on screen.
Here == Live!Slice(open, clock)

LiveTyped ==
  /\ viewer \in {"page", "rail"} /\ clock \in {"soon", "live", "over"}
  /\ viewer = "rail" => clock # "soon"
  /\ open \in BOOLEAN /\ armed \in BOOLEAN /\ crossed \in BOOLEAN
  /\ table \in Nat /\ signalled \in Nat /\ heard \in Nat
  /\ heard <= signalled /\ signalled <= table
  /\ untold \in [update : 0..table, ended : 0..table]
  /\ socket \in Sockets
  /\ board \in Panels /\ fetches \in Seq(PanelCall)

\* What the socket brings was signalled, and it is open only while it is wanted.
SocketTold ==
  /\ \A k \in 1..Len(socket.inbox) : socket.inbox[k].version <= signalled
  /\ socket.stage \in {"connecting", "joined", "open"} => Live!Enabled(open, clock)

\* Of all generations together one further page is being fetched at most.
OneLock(cs, lock) ==
  /\ \A i \in 1..Len(cs) : cs[i].kind = "more" => lock
  /\ \A i, j \in 1..Len(cs) : cs[i].kind = "more" /\ cs[j].kind = "more" => i = j

PanelShows ==
  /\ Len(board.rows) = board.page
  /\ \A p \in 1..Len(board.rows) :
       /\ board.rows[p].place = p /\ board.rows[p].slice = Here
       /\ Here = "leaderboard" /\ ~armed => board.rows[p].version >= heard

CallFits(c) ==
  /\ c.slice = Here /\ (~armed => c.floor >= heard)
  /\ c.kind = "first" => c.upTo = 1 /\ board.page = 1
  /\ c.kind = "batch" => c.upTo = board.page
  /\ c.kind = "more" => c.upTo = board.page + 1

OneFetch(cs) == \A i, j \in 1..Len(cs) : cs[i].mine /\ cs[j].mine => i = j

UpToDate ==
  ~crossed /\ ~board.error /\ Here # "none" =>
    /\ OneFetch(fetches)
    /\ \A i \in 1..Len(fetches) : fetches[i].mine => CallFits(fetches[i])
    /\ (\A i \in 1..Len(fetches) : fetches[i].mine => fetches[i].kind = "more") => PanelShows

LiveInv == LiveTyped /\ SocketTold /\ OneLock(fetches, board.fetching) /\ UpToDate

LEMMA LiveHelpers ==
  /\ \A q, k : Live!RemoveAt(q, k) = RemoveAt(q, k)
  /\ \A s, P : Live!Filtered(s, P) = Filtered(s, P)
<1>1. \A q, k : Live!RemoveAt(q, k) = RemoveAt(q, k)
  BY DEF Live!RemoveAt, RemoveAt
<1>2. \A P : Live!InOrder(P) = InOrder(P) /\ Live!Cardinality(P) = Cardinality(P)
  BY DEF Live!InOrder, InOrder, Live!Cardinality, Cardinality
<1>3. \A s, P : Live!Filtered(s, P) = Filtered(s, P)
  BY <1>2 DEF Live!Filtered, Filtered
<1> QED
  BY <1>1, <1>3

\* Of the requests of an earlier generation only the lock of a further page is left.
LEMMA DisownedCalls ==
  ASSUME fetches \in Seq(PanelCall), NEW lock, OneLock(fetches, lock)
  PROVE  /\ Live!Disowned \in Seq(PanelCall) /\ OneLock(Live!Disowned, lock)
         /\ \A i \in 1..Len(Live!Disowned) : ~Live!Disowned[i].mine
<1> DEFINE P == {i \in DOMAIN fetches : fetches[i].kind = "more"}
           n == Cardinality(P)
           ids == InOrder(P)
           d == Live!Disowned
<1>1. Len(fetches) \in Nat /\ DOMAIN fetches = 1..Len(fetches)
  BY LenProperties
<1>2. P \subseteq 1..Len(fetches) /\ P \subseteq Nat /\ IsFiniteSet(P)
  <2>1. P \in SUBSET (1..Len(fetches))
    BY <1>1
  <2>2. IsFiniteSet(1..Len(fetches))
    BY <1>1, FS_Interval
  <2>3. IsFiniteSet(P)
    BY <2>1, <2>2, FS_Subset
  <2> QED
    BY <1>1, <2>1, <2>3
<1>3. \A i \in P : fetches[i] \in PanelCall /\ fetches[i].kind = "more"
  BY <1>1, ElementOfSeq
<1>4. \A i, j \in P : i = j
  BY <1>1 DEF OneLock
<1>5. /\ n \in Nat /\ ids \in [1..n -> P]
      /\ \A i, j \in 1..n : ids[i] = ids[j] => i = j
  BY <1>2, InOrderLists
<1>6. d = [i \in 1..n |-> [fetches[ids[i]] EXCEPT !.mine = FALSE]]
  <2> DEFINE locks == Live!Filtered(fetches, P)
  <2>1. locks = [k \in 1..n |-> fetches[ids[k]]]
    BY LiveHelpers DEF Filtered
  <2>2. d = [i \in DOMAIN locks |-> [locks[i] EXCEPT !.mine = FALSE]]
    BY DEF Live!Disowned
  <2> HIDE DEF locks, n, ids, d
  <2> QED
    BY <2>1, <2>2
<1>7. P # {} => lock
  BY <1>1 DEF OneLock
<1> HIDE DEF P, n, ids, d
<1>8. \A i \in 1..n : /\ [fetches[ids[i]] EXCEPT !.mine = FALSE] \in PanelCall
                      /\ ~[fetches[ids[i]] EXCEPT !.mine = FALSE].mine
  BY <1>3, <1>5 DEF PanelCall
<1>9. d \in Seq(PanelCall) /\ Len(d) = n /\ \A i \in 1..n : ~d[i].mine
  <2>1. n \in Nat
    BY <1>5
  <2> DEFINE e(i) == [fetches[ids[i]] EXCEPT !.mine = FALSE]
  <2>2. \A i \in 1..n : e(i) \in PanelCall /\ ~e(i).mine
    BY <1>8
  <2>3. d = [i \in 1..n |-> e(i)]
    BY <1>6
  <2> HIDE DEF e
  <2> QED
    BY ONLY <2>1, <2>2, <2>3
<1>10. \A i, j \in 1..n : i = j
  BY <1>4, <1>5
<1>11. \A i \in 1..n : lock
  BY <1>5, <1>7
<1> QED
  BY <1>9, <1>10, <1>11 DEF OneLock, d

\* One more request after those that are in flight.
LEMMA CallAdded ==
  ASSUME NEW cs \in Seq(PanelCall), NEW c \in PanelCall
  PROVE  /\ cs \o <<c>> \in Seq(PanelCall) /\ Len(cs) \in Nat /\ Len(cs \o <<c>>) = Len(cs) + 1
         /\ \A i \in 1..Len(cs) : (cs \o <<c>>)[i] = cs[i]
         /\ (cs \o <<c>>)[Len(cs) + 1] = c
BY LenProperties

\* A new generation starts with page 1, whose request is the only one that counts.
LEMMA FirstPageCalls ==
  ASSUME fetches \in Seq(PanelCall), NEW lock, OneLock(fetches, lock), NEW slice \in Slices,
         signalled \in Nat
  PROVE  LET q == Live!FirstPage(slice) IN
         /\ q \in Seq(PanelCall) /\ OneLock(q, lock)
         /\ \E m \in 1..Len(q) :
              /\ q[m] = [kind |-> "first", slice |-> slice, upTo |-> 1, mine |-> TRUE,
                         floor |-> signalled]
              /\ \A i \in 1..Len(q) : q[i].mine => i = m
<1> DEFINE c == [kind |-> "first", slice |-> slice, upTo |-> 1, mine |-> TRUE, floor |-> signalled]
           d == Live!Disowned
           q == d \o <<c>>
<1>1. d \in Seq(PanelCall) /\ OneLock(d, lock) /\ \A i \in 1..Len(d) : ~d[i].mine
  BY DisownedCalls
<1>2. c \in PanelCall /\ c.kind # "more"
  BY DEF PanelCall, PageNumbers
<1>3. Live!FirstPage(slice) = q
  BY DEF Live!FirstPage, Live!Call, Slices
<1> HIDE DEF c, d
<1>4. /\ q \in Seq(PanelCall) /\ Len(d) \in Nat /\ Len(q) = Len(d) + 1
      /\ \A i \in 1..Len(d) : q[i] = d[i]
      /\ q[Len(d) + 1] = c
  BY <1>1, <1>2, CallAdded
<1> HIDE DEF q
<1>5. \A i \in 1..Len(q) : i \in 1..Len(d) \/ i = Len(d) + 1
  BY <1>4
<1>6. OneLock(q, lock)
  BY <1>1, <1>2, <1>4, <1>5 DEF OneLock
<1>7. Len(d) + 1 \in 1..Len(q) /\ \A i \in 1..Len(q) : q[i].mine => i = Len(d) + 1
  BY <1>1, <1>4, <1>5
<1> QED
  BY <1>3, <1>4, <1>6, <1>7 DEF c

LEMMA NoPageCalls ==
  ASSUME fetches \in Seq(PanelCall), NEW lock, OneLock(fetches, lock)
  PROVE  Live!FirstPage("none") \in Seq(PanelCall) /\ OneLock(Live!FirstPage("none"), lock)
<1>1. Live!Disowned \in Seq(PanelCall) /\ OneLock(Live!Disowned, lock)
  BY DisownedCalls
<1>2. Live!FirstPage("none") = Live!Disowned \o <<>>
  BY DEF Live!FirstPage
<1>3. Live!Disowned \o <<>> = Live!Disowned
  BY <1>1, ConcatEmptySeq
<1> QED
  BY <1>1, <1>2, <1>3

\* A request that replaces what is shown and is the only one that counts.
LEMMA OneAsked ==
  ASSUME NEW m \in 1..Len(fetches'), \A i \in 1..Len(fetches') : fetches'[i].mine => i = m,
         fetches'[m].mine, fetches'[m].kind # "more", CallFits(fetches[m])'
  PROVE  UpToDate'
BY DEF UpToDate, OneFetch

\* The panel is left alone.
LEMMA PanelStill ==
  ASSUME UpToDate, OneLock(fetches, board.fetching), Here' = Here,
         UNCHANGED <<armed, crossed, heard, board, fetches>>
  PROVE  UpToDate' /\ OneLock(fetches, board.fetching)'
<1>1. \A c : CallFits(c)' <=> CallFits(c)
  BY DEF CallFits
<1>2. PanelShows' <=> PanelShows
  BY DEF PanelShows
<1> QED
  BY <1>1, <1>2 DEF UpToDate, OneLock, OneFetch

LEMMA LiveInit == Live!Init => LiveInv
<1> SUFFICES ASSUME Live!Init
             PROVE  LiveInv
  OBVIOUS
<1>1. viewer \in {"page", "rail"} /\ open \in BOOLEAN
  BY ViewerAssumption DEF Live!Init
<1>2. /\ clock = (IF viewer = "page" THEN "soon" ELSE "live")
      /\ table = 0 /\ untold = [update |-> 0, ended |-> 0] /\ signalled = 0
      /\ (open <=> viewer = "page") /\ socket = [stage |-> "off", inbox |-> <<>>] /\ ~armed
      /\ armed \in BOOLEAN /\ crossed \in BOOLEAN /\ heard = 0
      /\ board = [rows |-> <<>>, hasMore |-> FALSE, loading |-> TRUE, error |-> FALSE,
                  page |-> 1, fetching |-> FALSE]
  BY DEF Live!Init, Live!Off
<1> DEFINE c == [kind |-> "first", slice |-> "registrants", upTo |-> 1, mine |-> TRUE, floor |-> 0]
<1>3. fetches = IF viewer = "page" THEN <<c>> ELSE <<>>
  BY <1>2 DEF Live!Init, Live!Call
<1>4. c \in PanelCall
  BY DEF PanelCall, PageNumbers, Slices
<1>5. board \in Panels
  BY <1>2 DEF Panels, PageNumbers
<1>6. LiveTyped
  <2>1. socket \in Sockets
    BY <1>2 DEF Sockets
  <2>2. fetches \in Seq(PanelCall)
    BY <1>3, <1>4
  <2> QED
    BY <1>1, <1>2, <1>5, <2>1, <2>2 DEF LiveTyped
<1>7. SocketTold
  BY <1>2 DEF SocketTold
<1>8. CASE viewer = "page"
  <2>1. Here = "registrants"
    BY <1>2, <1>8 DEF Here, Live!Slice
  <2>2. Len(fetches) = 1 /\ fetches[1] = c
    BY <1>3, <1>8
  <2>3. \A i \in 1..Len(fetches) : i = 1
    BY <2>2
  <2>4. CallFits(c)
    BY <1>2, <2>1 DEF CallFits
  <2>5. c.mine /\ c.kind = "first"
    OBVIOUS
  <2> HIDE DEF c
  <2>6. \A i \in 1..Len(fetches) : fetches[i] = c /\ i = 1
    BY <2>2, <2>3
  <2>7. 1 \in 1..Len(fetches)
    BY <2>2
  <2>8. UpToDate /\ OneLock(fetches, board.fetching)
    BY <2>4, <2>5, <2>6, <2>7 DEF UpToDate, OneFetch, OneLock
  <2> QED
    BY <1>6, <1>7, <2>8 DEF LiveInv
<1>9. CASE viewer = "rail"
  <2>1. Here = "none"
    BY <1>2, <1>9 DEF Here, Live!Slice
  <2>2. \A i \in 1..Len(fetches) : FALSE
    BY <1>3, <1>9
  <2> QED
    BY <1>6, <1>7, <2>1, <2>2 DEF LiveInv, UpToDate, OneLock
<1> QED
  BY <1>1, <1>8, <1>9

\* The oldest message on the socket.
LEMMA FirstMessage ==
  ASSUME LiveTyped, socket.inbox # <<>>
  PROVE  /\ Head(socket.inbox) = socket.inbox[1] /\ 1 \in 1..Len(socket.inbox)
         /\ Head(socket.inbox) \in Messages
         /\ Tail(socket.inbox) \in Seq(Messages)
         /\ \A k \in 1..Len(Tail(socket.inbox)) :
              k + 1 \in 1..Len(socket.inbox) /\ Tail(socket.inbox)[k] = socket.inbox[k + 1]
<1>1. socket.inbox \in Seq(Messages)
  BY DEF LiveTyped, Sockets
<1> QED
  BY <1>1

\* A message that is put on the socket.
LEMMA MessageSent ==
  ASSUME LiveTyped, NEW m \in Messages
  PROVE  /\ Append(socket.inbox, m) \in Seq(Messages)
         /\ \A k \in 1..Len(Append(socket.inbox, m)) :
              (k \in 1..Len(socket.inbox) /\ Append(socket.inbox, m)[k] = socket.inbox[k])
                \/ Append(socket.inbox, m)[k] = m
<1>1. socket.inbox \in Seq(Messages)
  BY DEF LiveTyped, Sockets
<1> QED
  BY <1>1, LenProperties

\* The server writes and signals.
LEMMA LiveServer ==
  ASSUME LiveInv,
         \/ Live!Solve \/ Live!Rate
         \/ \E w \in {"update", "ended"} : Live!Tell(w) \/ Live!TellFails(w)
  PROVE  LiveInv'
<1>1. LiveTyped /\ SocketTold /\ OneLock(fetches, board.fetching) /\ UpToDate
  BY DEF LiveInv
<1>2. UNCHANGED <<viewer, clock, open, armed, crossed, heard, board, fetches>>
  BY DEF Live!Solve, Live!Rate, Live!Tell, Live!TellFails
<1>3. Here' = Here
  BY <1>2 DEF Here, Live!Slice
<1>4. UpToDate' /\ OneLock(fetches, board.fetching)'
  BY <1>1, <1>2, <1>3, PanelStill
<1>5. /\ table' \in Nat /\ signalled' \in Nat /\ signalled <= signalled' /\ signalled' <= table'
      /\ untold' \in [update : 0..table', ended : 0..table']
      /\ socket' \in Sockets /\ SocketTold'
  <2>1. CASE Live!Solve
    <3>1. /\ table' = table + 1 /\ untold' = [untold EXCEPT !.update = table + 1]
          /\ UNCHANGED <<signalled, socket>>
      BY <2>1 DEF Live!Solve
    <3> QED
      BY <1>1, <1>2, <3>1 DEF LiveTyped, SocketTold, Live!Enabled
  <2>2. CASE Live!Rate
    <3>1. /\ table' = table + 1 /\ untold' = [untold EXCEPT !.ended = table + 1]
          /\ UNCHANGED <<signalled, socket>>
      BY <2>2 DEF Live!Rate
    <3> QED
      BY <1>1, <1>2, <3>1 DEF LiveTyped, SocketTold, Live!Enabled
  <2>3. ASSUME NEW w \in {"update", "ended"}, Live!Tell(w) \/ Live!TellFails(w)
        PROVE  /\ table' \in Nat /\ signalled' \in Nat /\ signalled <= signalled'
               /\ signalled' <= table'
               /\ untold' \in [update : 0..table', ended : 0..table']
               /\ socket' \in Sockets /\ SocketTold'
    <3> DEFINE v == untold[w]
               m == [type |-> w, version |-> v]
    <3>1. v \in 0..table /\ untold' = [untold EXCEPT ![w] = 0] /\ table' = table
          /\ signalled' = (IF signalled > v THEN signalled ELSE v)
      BY <1>1, <2>3 DEF LiveTyped, Live!Tell, Live!TellFails, Live!Later
    <3>2. untold' \in [update : 0..table, ended : 0..table]
      BY <1>1, <3>1 DEF LiveTyped
    <3>3. /\ signalled' \in Nat /\ signalled <= signalled' /\ signalled' <= table
          /\ v <= signalled' /\ table \in Nat
      BY <1>1, <3>1 DEF LiveTyped
    <3>4. m \in Messages /\ m.version = v
      BY <3>1, <3>3 DEF Messages
    <3>5. \/ socket' = socket
          \/ Live!Connected /\ socket' = [socket EXCEPT !.inbox = Append(socket.inbox, m)]
      BY <2>3 DEF Live!Tell, Live!TellFails
    <3>6. \A k \in 1..Len(socket.inbox) : socket.inbox[k].version <= signalled'
      <4> SUFFICES ASSUME NEW k \in 1..Len(socket.inbox)
                   PROVE  socket.inbox[k].version <= signalled'
        OBVIOUS
      <4>1. socket.inbox \in Seq(Messages)
        BY <1>1 DEF LiveTyped, Sockets
      <4>2. socket.inbox[k] \in Messages
        BY <4>1, ElementOfSeq
      <4>3. socket.inbox[k].version \in Nat /\ socket.inbox[k].version <= signalled
        BY <1>1, <4>2 DEF Messages, SocketTold
      <4> QED
        BY <1>1, <3>3, <4>3 DEF LiveTyped
    <3> HIDE DEF v, m
    <3>7. CASE socket' = socket
      BY <1>1, <1>2, <3>1, <3>2, <3>3, <3>6, <3>7 DEF LiveTyped, SocketTold, Live!Enabled
    <3>8. CASE Live!Connected /\ socket' = [socket EXCEPT !.inbox = Append(socket.inbox, m)]
      <4>1. /\ Append(socket.inbox, m) \in Seq(Messages)
            /\ \A k \in 1..Len(Append(socket.inbox, m)) :
                 (k \in 1..Len(socket.inbox) /\ Append(socket.inbox, m)[k] = socket.inbox[k])
                   \/ Append(socket.inbox, m)[k] = m
        BY <1>1, <3>4, MessageSent
      <4>2. /\ socket' \in Sockets /\ socket'.inbox = Append(socket.inbox, m)
            /\ socket'.stage = socket.stage
        BY <1>1, <3>8, <4>1 DEF LiveTyped, Sockets
      <4>3. \A k \in 1..Len(socket'.inbox) : socket'.inbox[k].version <= signalled'
        BY <3>3, <3>4, <3>6, <4>1, <4>2
      <4> QED
        BY <1>1, <1>2, <3>1, <3>2, <3>3, <4>2, <4>3 DEF SocketTold, Live!Enabled
    <3> QED
      BY <3>5, <3>7, <3>8
  <2> QED
    BY <2>1, <2>2, <2>3
<1>6. LiveTyped'
  BY <1>1, <1>2, <1>5 DEF LiveTyped
<1> QED
  BY <1>4, <1>5, <1>6 DEF LiveInv

\* The socket comes and goes; an update arms the timer.
LEMMA LiveSocket ==
  ASSUME LiveInv, Live!Join \/ Live!Check \/ Live!Drop \/ Live!HearUpdate
  PROVE  LiveInv'
<1>1. LiveTyped /\ SocketTold /\ OneLock(fetches, board.fetching) /\ UpToDate
  BY DEF LiveInv
<1>2. UNCHANGED <<viewer, clock, table, untold, signalled, open, crossed, board, fetches>>
  BY DEF Live!Join, Live!Check, Live!Drop, Live!HearUpdate, Live!server
<1>3. Here' = Here
  BY <1>2 DEF Here, Live!Slice
<1>4. /\ socket' \in Sockets
      /\ \A k \in 1..Len(socket'.inbox) : socket'.inbox[k].version <= signalled
      /\ socket'.stage \in {"connecting", "joined", "open"}
           => socket.stage \in {"connecting", "joined", "open"}
  <2>1. CASE Live!Join
    <3>1. socket.stage = "connecting" /\ socket' = [socket EXCEPT !.stage = "joined"]
      BY <2>1 DEF Live!Join
    <3> QED
      BY <1>1, <3>1 DEF LiveTyped, SocketTold, Sockets
  <2>2. CASE Live!Check
    <3> DEFINE m == [type |-> "ended", version |-> signalled]
    <3>1. socket.stage = "joined" /\ socket' = [socket EXCEPT !.stage = "open", !.inbox = @ \o Live!Replay]
      BY <2>2 DEF Live!Check
    <3>2. socket.inbox \in Seq(Messages) /\ m \in Messages
      BY <1>1 DEF LiveTyped, Sockets, Messages
    <3>3. \/ socket.inbox \o Live!Replay = socket.inbox
          \/ socket.inbox \o Live!Replay = Append(socket.inbox, m)
      <4>1. Live!Replay = <<>> \/ Live!Replay = <<m>>
        BY DEF Live!Replay
      <4>2. socket.inbox \o <<>> = socket.inbox
        BY <3>2, ConcatEmptySeq
      <4>3. socket.inbox \o <<m>> = Append(socket.inbox, m)
        BY <3>2, AppendIsConcat
      <4> QED
        BY <4>1, <4>2, <4>3
    <3>4. m.version = signalled
      OBVIOUS
    <3> HIDE DEF m
    <3>5. /\ Append(socket.inbox, m) \in Seq(Messages)
          /\ \A k \in 1..Len(Append(socket.inbox, m)) :
               (k \in 1..Len(socket.inbox) /\ Append(socket.inbox, m)[k] = socket.inbox[k])
                 \/ Append(socket.inbox, m)[k] = m
      BY <1>1, <3>2, MessageSent
    <3>6. socket.inbox \o Live!Replay \in Seq(Messages)
      BY <3>2, <3>3, <3>5
    <3>7. /\ socket' \in Sockets /\ socket'.inbox = socket.inbox \o Live!Replay
      BY <1>1, <3>1, <3>6 DEF LiveTyped, Sockets
    <3>8. \A k \in 1..Len(socket'.inbox) : socket'.inbox[k].version <= signalled
      <4>1. CASE socket'.inbox = socket.inbox
        BY <1>1, <4>1 DEF SocketTold
      <4>2. CASE socket'.inbox = Append(socket.inbox, m)
        <5>1. signalled <= signalled
          BY <1>1 DEF LiveTyped
        <5> QED
          BY <1>1, <3>4, <3>5, <4>2, <5>1 DEF SocketTold
      <4> QED
        BY <3>3, <3>7, <4>1, <4>2
    <3> QED
      BY <3>1, <3>7, <3>8
  <2>3. CASE Live!Drop
    <3>1. socket' = [stage |-> "connecting", inbox |-> <<>>] /\ socket.stage \in {"joined", "open"}
      BY <2>3 DEF Live!Drop, Live!Connecting, Live!Connected
    <3> QED
      BY <3>1 DEF Sockets
  <2>4. CASE Live!HearUpdate
    <3>1. socket.inbox # <<>> /\ socket' = [socket EXCEPT !.inbox = Tail(@)]
      BY <2>4 DEF Live!HearUpdate
    <3>2. /\ socket' \in Sockets /\ socket'.inbox = Tail(socket.inbox)
          /\ socket'.stage = socket.stage
      BY <1>1, <3>1, FirstMessage DEF LiveTyped, Sockets
    <3>3. \A k \in 1..Len(socket'.inbox) : socket'.inbox[k].version <= signalled
      BY <1>1, <3>1, <3>2, FirstMessage DEF SocketTold
    <3> QED
      BY <3>2, <3>3
  <2> QED
    BY <2>1, <2>2, <2>3, <2>4
<1>5. SocketTold'
  BY <1>1, <1>2, <1>4 DEF SocketTold, Live!Enabled
<1>6. CASE Live!HearUpdate
  <2>1. /\ armed' = TRUE /\ socket.inbox # <<>>
        /\ heard' = (IF heard > Head(socket.inbox).version THEN heard ELSE Head(socket.inbox).version)
    BY <1>6 DEF Live!HearUpdate, Live!Later
  <2>2. /\ Head(socket.inbox) = socket.inbox[1] /\ 1 \in 1..Len(socket.inbox)
        /\ Head(socket.inbox) \in Messages
    BY <1>1, <2>1, FirstMessage
  <2>3. Head(socket.inbox).version \in Nat /\ Head(socket.inbox).version <= signalled
    BY <1>1, <2>2 DEF SocketTold, Messages
  <2>4. heard' \in Nat /\ heard' <= signalled
    BY <1>1, <2>1, <2>3 DEF LiveTyped
  <2>5. LiveTyped'
    BY <1>1, <1>2, <1>4, <2>1, <2>4 DEF LiveTyped
  <2>6. \A c : CallFits(c) => CallFits(c)'
    BY <1>2, <1>3, <2>1 DEF CallFits
  <2>7. PanelShows => PanelShows'
    BY <1>2, <1>3, <2>1 DEF PanelShows
  <2>8. UpToDate' /\ OneLock(fetches, board.fetching)'
    BY <1>1, <1>2, <1>3, <2>6, <2>7 DEF UpToDate, OneFetch, OneLock
  <2> QED
    BY <1>5, <2>5, <2>8 DEF LiveInv
<1>7. CASE ~Live!HearUpdate
  <2>1. UNCHANGED <<armed, heard>>
    BY <1>7 DEF Live!Join, Live!Check, Live!Drop
  <2>2. UpToDate' /\ OneLock(fetches, board.fetching)'
    BY <1>1, <1>2, <1>3, <2>1, PanelStill
  <2>3. LiveTyped'
    BY <1>1, <1>2, <1>4, <2>1 DEF LiveTyped
  <2> QED
    BY <1>5, <2>2, <2>3 DEF LiveInv
<1> QED
  BY <1>6, <1>7

\* Everything loaded so far is asked for again.
LEMMA BatchAsked ==
  ASSUME LiveTyped, OneLock(fetches, board.fetching), Here' \in Slices,
         fetches' = fetches \o <<[kind |-> "batch", slice |-> Here', upTo |-> board.page,
                                  mine |-> TRUE, floor |-> signalled]>>,
         board' = board, heard' <= signalled,
         crossed' \/ \A i \in 1..Len(fetches) : ~fetches[i].mine
  PROVE  fetches' \in Seq(PanelCall) /\ OneLock(fetches, board.fetching)' /\ UpToDate'
<1>1. PICK c \in PanelCall :
        c = [kind |-> "batch", slice |-> Here', upTo |-> board.page, mine |-> TRUE,
             floor |-> signalled]
  BY DEF LiveTyped, Panels, PanelCall
<1>7. /\ c.kind = "batch" /\ c.mine /\ c.slice = Here' /\ c.upTo = board.page
      /\ c.floor = signalled
  BY <1>1
<1>2. fetches \in Seq(PanelCall) /\ fetches' = fetches \o <<c>>
  BY <1>1 DEF LiveTyped
<1>3. /\ fetches' \in Seq(PanelCall) /\ Len(fetches) \in Nat /\ Len(fetches') = Len(fetches) + 1
      /\ \A i \in 1..Len(fetches) : fetches'[i] = fetches[i]
      /\ fetches'[Len(fetches) + 1] = c
  BY <1>1, <1>2, CallAdded
<1>4. \A i \in 1..Len(fetches') : i \in 1..Len(fetches) \/ i = Len(fetches) + 1
  BY <1>3
<1>5. OneLock(fetches, board.fetching)'
  BY <1>7, <1>3, <1>4 DEF OneLock
<1>6. UpToDate'
  <2>1. CASE crossed'
    BY <2>1 DEF UpToDate
  <2>2. CASE \A i \in 1..Len(fetches) : ~fetches[i].mine
    <3> DEFINE m == Len(fetches) + 1
    <3>1. m \in 1..Len(fetches') /\ fetches'[m] = c
      BY <1>3
    <3>2. \A i \in 1..Len(fetches') : fetches'[i].mine => i = m
      BY <1>3, <1>4, <2>2
    <3> HIDE DEF m
    <3>3. fetches'[m].mine /\ fetches'[m].kind = "batch"
      BY <1>7, <3>1
    <3>4. /\ \A i, j \in 1..Len(fetches') : fetches'[i].mine /\ fetches'[j].mine => i = j
          /\ \A i \in 1..Len(fetches') : fetches'[i].mine => fetches'[i] = c
      BY ONLY <3>1, <3>2
    <3>5. OneFetch(fetches)'
      BY <3>4 DEF OneFetch
    <3>6. \A i \in 1..Len(fetches') : fetches'[i].mine => CallFits(fetches[i])'
      BY <1>7, <3>4 DEF CallFits
    <3> QED
      BY <3>1, <3>3, <3>5, <3>6 DEF UpToDate
  <2> QED
    BY <2>1, <2>2
<1> QED
  BY <1>3, <1>5, <1>6

\* A new generation of the slice on screen.
LEMMA Restarted ==
  ASSUME LiveTyped, OneLock(fetches, board.fetching), NEW slice \in Slices, Here' = slice,
         fetches' = Live!FirstPage(slice), board'.page = 1, board'.fetching = board.fetching,
         heard' = heard
  PROVE  fetches' \in Seq(PanelCall) /\ OneLock(fetches, board.fetching)' /\ UpToDate'
<1> DEFINE c == [kind |-> "first", slice |-> slice, upTo |-> 1, mine |-> TRUE, floor |-> signalled]
<1>1. fetches \in Seq(PanelCall) /\ signalled \in Nat /\ heard <= signalled
  BY DEF LiveTyped
<1>2. /\ fetches' \in Seq(PanelCall) /\ OneLock(fetches', board'.fetching)
      /\ \E m \in 1..Len(fetches') :
           fetches'[m] = c /\ \A i \in 1..Len(fetches') : fetches'[i].mine => i = m
  BY <1>1, FirstPageCalls
<1>3. PICK m \in 1..Len(fetches') :
        fetches'[m] = c /\ \A i \in 1..Len(fetches') : fetches'[i].mine => i = m
  BY <1>2
<1>4. /\ c.kind = "first" /\ c.mine /\ c.slice = slice /\ c.upTo = 1 /\ c.floor = signalled
  OBVIOUS
<1> HIDE DEF c
<1>5. /\ OneFetch(fetches)'
      /\ \A i \in 1..Len(fetches') : fetches'[i].mine => fetches'[i] = c
      /\ fetches'[m].mine /\ fetches'[m].kind = "first"
  BY <1>3, <1>4 DEF OneFetch
<1>6. \A i \in 1..Len(fetches') : fetches'[i].mine => CallFits(fetches[i])'
  BY <1>1, <1>4, <1>5 DEF CallFits
<1>7. UpToDate'
  BY <1>3, <1>5, <1>6 DEF UpToDate
<1> QED
  BY <1>2, <1>7 DEF OneLock

\* The socket is opened and closed with what wants it.
LEMMA Rewired ==
  ASSUME LiveTyped, SocketTold, NEW o \in BOOLEAN, NEW k, Live!Rewire(o, k),
         Live!Enabled(open, clock)' <=> Live!Enabled(o, k), signalled' = signalled
  PROVE  socket' \in Sockets /\ SocketTold'
<1>1. Live!Off \in Sockets /\ Live!Connecting \in Sockets
  BY DEF Sockets, Live!Off, Live!Connecting
<1>2. \A j \in 1..Len(<<>>) : FALSE
  OBVIOUS
<1>3. CASE Live!Enabled(o, k) <=> Live!Enabled(open, clock)
  <2>1. socket' = socket
    BY <1>3 DEF Live!Rewire, Live!Enabled
  <2> QED
    BY <1>3, <2>1 DEF LiveTyped, SocketTold
<1>4. CASE Live!Enabled(o, k) /\ ~Live!Enabled(open, clock)
  <2>1. socket' = Live!Connecting
    BY <1>4 DEF Live!Rewire, Live!Enabled
  <2> QED
    BY <1>1, <1>2, <1>4, <2>1 DEF SocketTold, Live!Connecting
<1>5. CASE ~Live!Enabled(o, k) /\ Live!Enabled(open, clock)
  <2>1. socket' = Live!Off
    BY <1>5 DEF Live!Rewire, Live!Enabled
  <2> QED
    BY <1>1, <1>2, <2>1 DEF SocketTold, Live!Off
<1> QED
  BY <1>3, <1>4, <1>5

LEMMA LiveHearEnd == ASSUME LiveInv, Live!HearEnd PROVE LiveInv'
<1>1. LiveTyped /\ SocketTold /\ OneLock(fetches, board.fetching) /\ UpToDate
  BY DEF LiveInv
<1>2. /\ UNCHANGED <<viewer, clock, table, untold, signalled, open, armed, board>>
      /\ socket.stage \in {"joined", "open"} /\ socket.inbox # <<>>
      /\ socket' = [stage |-> "done", inbox |-> <<>>]
  BY DEF Live!HearEnd, Live!server, Live!Connected
<1>3. Here' = Here
  BY <1>2 DEF Here, Live!Slice
<1>4. socket' \in Sockets /\ SocketTold'
  BY <1>2 DEF Sockets, SocketTold
<1>5. CASE viewer = "page" /\ ~ended
  <2>1. /\ fetches' = fetches \o Live!Batch("leaderboard")
        /\ crossed' = Live!Awaited({"first", "batch", "more"})
        /\ heard' = (IF heard > Head(socket.inbox).version THEN heard ELSE Head(socket.inbox).version)
    BY <1>5 DEF Live!HearEnd, Live!Later
  <2>2. Here = "leaderboard"
    BY <1>1, <1>2, <1>5 DEF SocketTold, Live!Enabled, LiveTyped, Here, Live!Slice
  <2>3. heard' \in Nat /\ heard' <= signalled
    <3>1. /\ Head(socket.inbox) = socket.inbox[1] /\ 1 \in 1..Len(socket.inbox)
          /\ Head(socket.inbox) \in Messages
      BY <1>1, <1>2, FirstMessage
    <3>2. Head(socket.inbox).version \in Nat /\ Head(socket.inbox).version <= signalled
      BY <1>1, <3>1 DEF SocketTold, Messages
    <3> QED
      BY <1>1, <2>1, <3>2 DEF LiveTyped
  <2>4. /\ crossed' \in BOOLEAN
        /\ crossed' \/ \A i \in 1..Len(fetches) : ~fetches[i].mine
    <3>1. DOMAIN fetches = 1..Len(fetches) /\ \A i \in 1..Len(fetches) : fetches[i] \in PanelCall
      BY <1>1, ElementOfSeq, LenProperties DEF LiveTyped
    <3> QED
      BY <2>1, <3>1 DEF Live!Awaited, PanelCall
  <2>5. fetches' = fetches \o <<[kind |-> "batch", slice |-> Here', upTo |-> board.page,
                                 mine |-> TRUE, floor |-> signalled]>>
    BY <1>3, <2>1, <2>2 DEF Live!Batch, Live!Call
  <2>6. Here' \in Slices
    BY <1>3, <2>2 DEF Slices
  <2>7. fetches' \in Seq(PanelCall) /\ OneLock(fetches, board.fetching)' /\ UpToDate'
    BY <1>1, <1>2, <2>3, <2>4, <2>5, <2>6, BatchAsked
  <2>8. LiveTyped'
    BY <1>1, <1>2, <1>4, <2>3, <2>4, <2>7 DEF LiveTyped
  <2> QED
    BY <1>4, <2>7, <2>8 DEF LiveInv
<1>6. CASE ~(viewer = "page" /\ ~ended)
  <2>1. UNCHANGED <<fetches, crossed, heard>>
    BY <1>6 DEF Live!HearEnd
  <2>2. UpToDate' /\ OneLock(fetches, board.fetching)'
    BY <1>1, <1>2, <1>3, <2>1, PanelStill
  <2>3. LiveTyped'
    BY <1>1, <1>2, <1>4, <2>1 DEF LiveTyped
  <2> QED
    BY <1>4, <2>2, <2>3 DEF LiveInv
<1> QED
  BY <1>5, <1>6

LEMMA LiveFire == ASSUME LiveInv, Live!Fire PROVE LiveInv'
<1>1. LiveTyped /\ SocketTold /\ OneLock(fetches, board.fetching) /\ UpToDate
  BY DEF LiveInv
<1>2. /\ UNCHANGED <<viewer, clock, table, untold, signalled, open, socket, heard>>
      /\ armed' = FALSE
  BY DEF Live!Fire, Live!server
<1>3. Here' = Here
  BY <1>2 DEF Here, Live!Slice
<1>4. SocketTold'
  BY <1>1, <1>2 DEF SocketTold, Live!Enabled
<1>5. fetches = fetches /\ heard' <= signalled /\ fetches \in Seq(PanelCall)
  BY <1>1, <1>2 DEF LiveTyped
<1>6. CASE viewer = "page"
  <2>1. /\ fetches' = fetches \o Live!Batch(Here) /\ board' = board
        /\ crossed' = (viewer = "page" /\ Live!Awaited({"first", "batch", "more"}))
    BY <1>6 DEF Live!Fire, Here
  <2>2. Here' \in Slices
    BY <1>1, <1>3, <1>6 DEF LiveTyped, Here, Live!Slice, Slices
  <2>3. /\ crossed' \in BOOLEAN
        /\ crossed' \/ \A i \in 1..Len(fetches) : ~fetches[i].mine
    <3>1. DOMAIN fetches = 1..Len(fetches) /\ \A i \in 1..Len(fetches) : fetches[i] \in PanelCall
      BY <1>1, ElementOfSeq, LenProperties DEF LiveTyped
    <3> QED
      BY <1>6, <2>1, <3>1 DEF Live!Awaited, PanelCall
  <2>4. fetches' = fetches \o <<[kind |-> "batch", slice |-> Here', upTo |-> board.page,
                                 mine |-> TRUE, floor |-> signalled]>>
    BY <1>3, <2>1 DEF Live!Batch, Live!Call
  <2>5. fetches' \in Seq(PanelCall) /\ OneLock(fetches, board.fetching)' /\ UpToDate'
    BY <1>1, <1>5, <2>1, <2>2, <2>3, <2>4, BatchAsked
  <2>6. LiveTyped'
    BY <1>1, <1>2, <2>1, <2>3, <2>5 DEF LiveTyped
  <2> QED
    BY <1>4, <2>5, <2>6 DEF LiveInv
<1>7. CASE viewer = "rail"
  <2>1. /\ fetches' = Live!FirstPage(Here) /\ crossed' = FALSE
        /\ board' = IF open THEN [board EXCEPT !.page = 1] ELSE board
    BY <1>7 DEF Live!Fire, Here
  <2>2. board' \in Panels /\ board'.fetching = board.fetching
    BY <1>1, <2>1 DEF LiveTyped, Panels, PageNumbers
  <2>3. CASE open
    <3>1. Here = "leaderboard" /\ board'.page = 1
      BY <1>1, <1>7, <2>1, <2>3 DEF LiveTyped, Panels, Here, Live!Slice
    <3>2. Here \in Slices
      BY <3>1 DEF Slices
    <3>3. fetches' \in Seq(PanelCall) /\ OneLock(fetches, board.fetching)' /\ UpToDate'
      BY <1>1, <1>2, <1>3, <2>1, <2>2, <3>1, <3>2, Restarted
    <3>4. LiveTyped'
      BY <1>1, <1>2, <2>1, <2>2, <3>3 DEF LiveTyped
    <3> QED
      BY <1>4, <3>3, <3>4 DEF LiveInv
  <2>4. CASE ~open
    <3>1. Here = "none"
      BY <1>7, <2>4 DEF Here, Live!Slice
    <3>2. fetches' \in Seq(PanelCall) /\ OneLock(fetches', board.fetching)
      BY <1>1, <1>5, <2>1, <3>1, NoPageCalls
    <3>3. UpToDate' /\ OneLock(fetches, board.fetching)'
      BY <1>3, <2>2, <3>1, <3>2 DEF UpToDate, OneLock
    <3>4. LiveTyped'
      BY <1>1, <1>2, <2>1, <2>2, <3>2 DEF LiveTyped
    <3> QED
      BY <1>4, <3>3, <3>4 DEF LiveInv
  <2> QED
    BY <2>3, <2>4
<1> QED
  BY <1>1, <1>6, <1>7 DEF LiveTyped

LEMMA LiveLoadMore == ASSUME LiveInv, Live!LoadMore PROVE LiveInv'
<1>1. LiveTyped /\ SocketTold /\ OneLock(fetches, board.fetching) /\ UpToDate
  BY DEF LiveInv
<1>2. /\ UNCHANGED <<viewer, clock, table, untold, signalled, open, socket, armed, heard>>
      /\ ~board.fetching /\ board' = [board EXCEPT !.fetching = TRUE]
      /\ fetches' = Append(fetches, Live!Call("more", Here, board.page + 1))
      /\ crossed' = (crossed \/ Live!Awaited({"first", "batch"}))
  BY DEF Live!LoadMore, Live!server, Here
<1>3. Here' = Here
  BY <1>2 DEF Here, Live!Slice
<1>4. SocketTold'
  BY <1>1, <1>2 DEF SocketTold, Live!Enabled
<1>5. Here \in Slices
  <2>1. Live!View = "rows" /\ open \in BOOLEAN /\ viewer \in {"page", "rail"}
    BY <1>1 DEF Live!LoadMore, LiveTyped
  <2>2. open
    BY <2>1 DEF Live!View, Live!ContestAside, Live!ContestLeaderboard
  <2> QED
    BY <2>1, <2>2 DEF Here, Live!Slice, Slices
<1>6. /\ board' \in Panels /\ board'.fetching /\ board'.rows = board.rows
      /\ board'.page = board.page /\ board'.error = board.error
  BY <1>1, <1>2 DEF LiveTyped, Panels
<1>7. PICK c \in PanelCall :
        c = [kind |-> "more", slice |-> Here, upTo |-> board.page + 1, mine |-> TRUE,
             floor |-> signalled]
  <2>1. board.page \in PageNumbers /\ signalled \in Nat
    BY <1>1 DEF LiveTyped, Panels
  <2>2. board.page + 1 \in PageNumbers
    BY <2>1 DEF PageNumbers
  <2> QED
    BY <1>5, <2>1, <2>2 DEF PanelCall
<1>8. /\ c.kind = "more" /\ c.mine /\ c.slice = Here /\ c.upTo = board.page + 1
      /\ c.floor = signalled
  BY <1>7
<1>9. fetches \in Seq(PanelCall) /\ fetches' = fetches \o <<c>>
  <2>1. fetches \in Seq(PanelCall)
    BY <1>1 DEF LiveTyped
  <2>2. fetches' = Append(fetches, c)
    BY <1>2, <1>7 DEF Live!Call
  <2> QED
    BY <2>1, <2>2, AppendIsConcat
<1>10. /\ fetches' \in Seq(PanelCall) /\ Len(fetches) \in Nat /\ Len(fetches') = Len(fetches) + 1
       /\ \A i \in 1..Len(fetches) : fetches'[i] = fetches[i]
       /\ fetches'[Len(fetches) + 1] = c
  BY <1>9, CallAdded
<1>11. \A i \in 1..Len(fetches') : i \in 1..Len(fetches) \/ i = Len(fetches) + 1
  BY <1>10
<1>12. \A i \in 1..Len(fetches) : fetches[i].kind # "more"
  BY <1>1, <1>2 DEF OneLock
<1>13. OneLock(fetches, board.fetching)'
  <2>1. \A i \in 1..Len(fetches') : fetches'[i].kind = "more" => i = Len(fetches) + 1
    BY <1>10, <1>11, <1>12
  <2> QED
    BY <1>6, <2>1 DEF OneLock
<1>14. UpToDate'
  <2> SUFFICES ASSUME ~crossed', ~board.error, Here # "none"
               PROVE  /\ OneFetch(fetches)'
                      /\ \A i \in 1..Len(fetches') : fetches'[i].mine => CallFits(fetches[i])'
                      /\ PanelShows'
    BY <1>3, <1>6 DEF UpToDate
  <2>1. \A i \in 1..Len(fetches) : ~fetches[i].mine
    <3>1. DOMAIN fetches = 1..Len(fetches) /\ \A i \in 1..Len(fetches) : fetches[i] \in PanelCall
      BY <1>9, ElementOfSeq, LenProperties
    <3>2. ~Live!Awaited({"first", "batch"})
      BY <1>2
    <3> QED
      BY <1>12, <3>1, <3>2 DEF Live!Awaited, PanelCall
  <2>2. ~crossed
    BY <1>2
  <2>3. PanelShows
    BY <1>1, <2>1, <2>2 DEF UpToDate
  <2>4. PanelShows'
    BY <1>2, <1>3, <1>6, <2>3 DEF PanelShows
  <2>5. \A i \in 1..Len(fetches') : fetches'[i].mine => i = Len(fetches) + 1
    BY <1>10, <1>11, <2>1
  <2>6. OneFetch(fetches)' /\ \A i \in 1..Len(fetches') : fetches'[i].mine => fetches'[i] = c
    BY <1>10, <2>5 DEF OneFetch
  <2>7. \A i \in 1..Len(fetches') : fetches'[i].mine => CallFits(fetches[i])'
    BY <1>1, <1>2, <1>3, <1>6, <1>8, <2>6 DEF CallFits, LiveTyped
  <2> QED
    BY <2>4, <2>6, <2>7
<1>15. LiveTyped'
  BY <1>1, <1>2, <1>6, <1>10 DEF LiveTyped
<1> QED
  BY <1>4, <1>13, <1>14, <1>15 DEF LiveInv

LEMMA EmptiedPanel ==
  ASSUME board \in Panels
  PROVE  /\ Live!Emptied \in Panels /\ Live!Emptied.fetching = board.fetching
         /\ [Live!Emptied EXCEPT !.page = 1] \in Panels
         /\ [Live!Emptied EXCEPT !.page = 1].page = 1
         /\ [Live!Emptied EXCEPT !.page = 1].fetching = board.fetching
<1>1. PICK e : e = Live!Emptied
  OBVIOUS
<1>2. <<>> \in Seq(PanelRow) /\ 1 \in PageNumbers
  BY DEF PageNumbers
<1>3. e \in Panels /\ e.fetching = board.fetching
  BY <1>1, <1>2 DEF Live!Emptied, Panels
<1>4. /\ [e EXCEPT !.page = 1] \in Panels /\ [e EXCEPT !.page = 1].page = 1
      /\ [e EXCEPT !.page = 1].fetching = board.fetching
  BY <1>2, <1>3 DEF Panels
<1> QED
  BY <1>1, <1>3, <1>4

LEMMA LiveToggle == ASSUME LiveInv, Live!Toggle PROVE LiveInv'
<1>1. LiveTyped /\ SocketTold /\ OneLock(fetches, board.fetching) /\ UpToDate
  BY DEF LiveInv
<1>2. /\ UNCHANGED <<viewer, clock, table, untold, signalled, armed, heard>>
      /\ open' = ~open /\ Live!Rewire(~open, clock) /\ Live!Rekey(Live!Slice(~open, clock))
  BY DEF Live!Toggle, Live!server
<1>3. socket' \in Sockets /\ SocketTold'
  <2>1. PICK o \in BOOLEAN : o = (~open)
    BY <1>1 DEF LiveTyped
  <2>2. Live!Rewire(o, clock)
    BY <1>2, <2>1
  <2>3. Live!Enabled(open, clock)' <=> Live!Enabled(o, clock)
    BY <1>2, <2>1 DEF Live!Enabled
  <2> QED
    BY <1>1, <1>2, <2>2, <2>3, Rewired
<1>4. CASE viewer = "page"
  <2>1. Here' = Here /\ Live!Slice(~open, clock) = Here
    BY <1>2, <1>4 DEF Here, Live!Slice
  <2>2. UNCHANGED <<board, fetches, crossed>>
    BY <1>2, <2>1 DEF Live!Rekey, Here
  <2>3. UpToDate' /\ OneLock(fetches, board.fetching)'
    BY <1>1, <1>2, <2>1, <2>2, PanelStill
  <2>4. LiveTyped'
    BY <1>1, <1>2, <1>3, <2>2 DEF LiveTyped
  <2> QED
    BY <1>3, <2>3, <2>4 DEF LiveInv
<1>5. CASE viewer = "rail" /\ ~open
  <2>1. Live!Slice(~open, clock) = "leaderboard" /\ Here = "none" /\ Here' = "leaderboard"
    BY <1>2, <1>5 DEF Here, Live!Slice
  <2>2. /\ board' = [Live!Emptied EXCEPT !.page = 1]
        /\ fetches' = Live!FirstPage("leaderboard") /\ crossed' = FALSE
    BY <1>2, <2>1 DEF Live!Rekey, Here
  <2>3. board' \in Panels /\ board'.page = 1 /\ board'.fetching = board.fetching
    BY <1>1, <2>2, EmptiedPanel DEF LiveTyped
  <2>4. "leaderboard" \in Slices
    BY DEF Slices
  <2>5. fetches' \in Seq(PanelCall) /\ OneLock(fetches, board.fetching)' /\ UpToDate'
    BY <1>1, <1>2, <2>1, <2>2, <2>3, <2>4, Restarted
  <2>6. LiveTyped'
    BY <1>1, <1>2, <1>3, <2>2, <2>3, <2>5 DEF LiveTyped
  <2> QED
    BY <1>3, <2>5, <2>6 DEF LiveInv
<1>6. CASE viewer = "rail" /\ open
  <2>1. Live!Slice(~open, clock) = "none" /\ Here = "leaderboard" /\ Here' = "none"
    BY <1>2, <1>6 DEF Here, Live!Slice
  <2>2. /\ board' = Live!Emptied
        /\ fetches' = Live!FirstPage("none") /\ crossed' = FALSE
    <3>1. /\ board' = [Live!Emptied EXCEPT !.page = @]
          /\ fetches' = Live!FirstPage("none") /\ crossed' = FALSE
      BY <1>2, <2>1 DEF Live!Rekey, Here
    <3> QED
      BY <1>1, <3>1 DEF Live!Emptied, LiveTyped, Panels
  <2>3. board' \in Panels /\ board'.fetching = board.fetching
    BY <1>1, <2>2, EmptiedPanel DEF LiveTyped
  <2>4. fetches' \in Seq(PanelCall) /\ OneLock(fetches', board.fetching)
    <3>1. fetches \in Seq(PanelCall)
      BY <1>1 DEF LiveTyped
    <3> QED
      BY <1>1, <2>2, <3>1, NoPageCalls
  <2>5. UpToDate' /\ OneLock(fetches, board.fetching)'
    BY <2>1, <2>3, <2>4 DEF UpToDate, OneLock
  <2>6. LiveTyped'
    BY <1>1, <1>2, <1>3, <2>2, <2>3, <2>4 DEF LiveTyped
  <2> QED
    BY <1>3, <2>5, <2>6 DEF LiveInv
<1> QED
  BY <1>1, <1>4, <1>5, <1>6 DEF LiveTyped

LEMMA LiveRegistered == ASSUME LiveInv, Live!Registered PROVE LiveInv'
<1>1. LiveTyped /\ SocketTold /\ OneLock(fetches, board.fetching) /\ UpToDate
  BY DEF LiveInv
<1>2. /\ UNCHANGED <<viewer, clock, table, untold, signalled, open, socket, armed, heard>>
      /\ viewer = "page" /\ clock = "soon"
      /\ fetches' = Live!FirstPage("registrants") /\ crossed' = FALSE
      /\ board' = [board EXCEPT !.page = 1]
  BY DEF Live!Registered, Live!server
<1>3. SocketTold'
  BY <1>1, <1>2 DEF SocketTold, Live!Enabled
<1>4. Here' = "registrants" /\ "registrants" \in Slices
  BY <1>2 DEF Here, Live!Slice, Slices
<1>5. board' \in Panels /\ board'.page = 1 /\ board'.fetching = board.fetching
  BY <1>1, <1>2 DEF LiveTyped, Panels, PageNumbers
<1>6. fetches' \in Seq(PanelCall) /\ OneLock(fetches, board.fetching)' /\ UpToDate'
  BY <1>1, <1>2, <1>4, <1>5, Restarted
<1>7. LiveTyped'
  BY <1>1, <1>2, <1>5, <1>6 DEF LiveTyped
<1> QED
  BY <1>3, <1>6, <1>7 DEF LiveInv

LEMMA LiveStart == ASSUME LiveInv, Live!Start PROVE LiveInv'
<1>1. LiveTyped /\ SocketTold /\ OneLock(fetches, board.fetching) /\ UpToDate
  BY DEF LiveInv
<1>2. /\ UNCHANGED <<viewer, table, untold, signalled, open, armed, heard>>
      /\ clock = "soon" /\ clock' = "live" /\ Live!Rewire(open, "live")
      /\ fetches' = Live!FirstPage("leaderboard") /\ crossed' = FALSE
      /\ board' = [Live!Emptied EXCEPT !.page = 1]
  BY DEF Live!Start
<1>3. viewer = "page"
  BY <1>1, <1>2 DEF LiveTyped
<1>4. socket' \in Sockets /\ SocketTold'
  <2>1. open \in BOOLEAN
    BY <1>1 DEF LiveTyped
  <2>2. Live!Enabled(open, clock)' <=> Live!Enabled(open, "live")
    BY <1>2 DEF Live!Enabled
  <2> QED
    BY <1>1, <1>2, <2>1, <2>2, Rewired
<1>5. Here' = "leaderboard" /\ "leaderboard" \in Slices
  BY <1>2, <1>3 DEF Here, Live!Slice, Slices
<1>6. board' \in Panels /\ board'.page = 1 /\ board'.fetching = board.fetching
  BY <1>1, <1>2, EmptiedPanel DEF LiveTyped
<1>7. fetches' \in Seq(PanelCall) /\ OneLock(fetches, board.fetching)' /\ UpToDate'
  BY <1>1, <1>2, <1>5, <1>6, Restarted
<1>8. LiveTyped'
  BY <1>1, <1>2, <1>3, <1>4, <1>6, <1>7 DEF LiveTyped
<1> QED
  BY <1>4, <1>7, <1>8 DEF LiveInv

LEMMA LiveEnd == ASSUME LiveInv, Live!End PROVE LiveInv'
<1>1. LiveTyped /\ SocketTold /\ OneLock(fetches, board.fetching) /\ UpToDate
  BY DEF LiveInv
<1>2. /\ UNCHANGED <<viewer, table, untold, signalled, open, armed, heard, board, fetches, crossed>>
      /\ clock = "live" /\ clock' = "over" /\ Live!Rewire(open, "over")
  BY DEF Live!End
<1>3. Here' = Here
  BY <1>2 DEF Here, Live!Slice
<1>4. socket' \in Sockets /\ SocketTold'
  <2>1. open \in BOOLEAN
    BY <1>1 DEF LiveTyped
  <2>2. Live!Enabled(open, clock)' <=> Live!Enabled(open, "over")
    BY <1>2 DEF Live!Enabled
  <2> QED
    BY <1>1, <1>2, <2>1, <2>2, Rewired
<1>5. UpToDate' /\ OneLock(fetches, board.fetching)'
  BY <1>1, <1>2, <1>3, PanelStill
<1>6. LiveTyped'
  BY <1>1, <1>2, <1>4 DEF LiveTyped
<1> QED
  BY <1>4, <1>5, <1>6 DEF LiveInv

\* An answered request leaves the others as they are.
LEMMA CallTaken ==
  ASSUME fetches \in Seq(PanelCall), NEW k \in 1..Len(fetches),
         fetches' = Live!RemoveAt(fetches, k)
  PROVE  /\ fetches' \in Seq(PanelCall)
         /\ \A i \in 1..Len(fetches') :
              \E j \in 1..Len(fetches) : j # k /\ fetches'[i] = fetches[j]
         /\ \A j \in 1..Len(fetches) :
              j # k => \E i \in 1..Len(fetches') : fetches'[i] = fetches[j]
         /\ OneFetch(fetches) => OneFetch(fetches)'
         /\ \A lock : OneLock(fetches, lock) => OneLock(fetches', lock)
<1>1. fetches' = RemoveAt(fetches, k)
  BY LiveHelpers
<1>2. /\ Len(fetches) \in Nat /\ fetches' \in Seq(PanelCall) /\ Len(fetches') = Len(fetches) - 1
      /\ \A i \in 1..Len(fetches) - 1 :
           fetches'[i] = IF i < k THEN fetches[i] ELSE fetches[i + 1]
  BY <1>1, RemoveAtElements, LenProperties
<1>3. \A i \in 1..Len(fetches') :
        \/ i < k /\ i \in 1..Len(fetches) /\ fetches'[i] = fetches[i]
        \/ i >= k /\ i + 1 \in 1..Len(fetches) /\ fetches'[i] = fetches[i + 1]
  BY <1>2
<1>4. \A i \in 1..Len(fetches') :
        \E j \in 1..Len(fetches) : j # k /\ fetches'[i] = fetches[j]
  <2> SUFFICES ASSUME NEW i \in 1..Len(fetches')
               PROVE  \E j \in 1..Len(fetches) : j # k /\ fetches'[i] = fetches[j]
    OBVIOUS
  <2>1. CASE i < k /\ i \in 1..Len(fetches) /\ fetches'[i] = fetches[i]
    <3>1. i # k
      BY <2>1
    <3> QED
      BY <2>1, <3>1
  <2>2. CASE i >= k /\ i + 1 \in 1..Len(fetches) /\ fetches'[i] = fetches[i + 1]
    <3>1. i + 1 # k
      BY <2>2
    <3> QED
      BY <2>2, <3>1
  <2> QED
    BY <1>3, <2>1, <2>2
<1>5. ASSUME NEW j \in 1..Len(fetches), j # k
      PROVE  \E i \in 1..Len(fetches') : fetches'[i] = fetches[j]
  <2>1. CASE j < k
    <3>1. j \in 1..Len(fetches') /\ fetches'[j] = fetches[j]
      BY <1>2, <2>1
    <3> QED
      BY <3>1
  <2>2. CASE j > k
    <3>1. j - 1 \in 1..Len(fetches') /\ fetches'[j - 1] = fetches[j]
      BY <1>2, <2>2
    <3> QED
      BY <3>1
  <2> QED
    BY <1>5, <2>1, <2>2
<1> DEFINE from(i) == IF i < k THEN i ELSE i + 1
<1>8. /\ \A i \in 1..Len(fetches') : from(i) \in 1..Len(fetches) /\ fetches'[i] = fetches[from(i)]
      /\ \A i, j \in 1..Len(fetches') : from(i) = from(j) => i = j
  BY <1>2, <1>3
<1> HIDE DEF from
<1>6. OneFetch(fetches) => OneFetch(fetches)'
  BY <1>8 DEF OneFetch
<1>7. ASSUME NEW lock, OneLock(fetches, lock)
      PROVE  OneLock(fetches', lock)
  <2>1. \A i \in 1..Len(fetches') : fetches'[i].kind = "more" => lock
    BY <1>7, <1>8 DEF OneLock
  <2>2. \A i, j \in 1..Len(fetches') :
          fetches'[i].kind = "more" /\ fetches'[j].kind = "more" => i = j
    BY <1>7, <1>8 DEF OneLock
  <2> QED
    BY <2>1, <2>2 DEF OneLock
<1> QED
  BY <1>2, <1>4, <1>5, <1>6, <1>7

\* The answer to a further page frees the lock of all of them.
LEMMA LockFreed ==
  ASSUME fetches \in Seq(PanelCall), NEW k \in 1..Len(fetches), fetches[k].kind = "more",
         fetches' = Live!RemoveAt(fetches, k), NEW lock, OneLock(fetches, lock)
  PROVE  OneLock(fetches, board.fetching)'
<1>1. \A i \in 1..Len(fetches') :
        \E j \in 1..Len(fetches) : j # k /\ fetches'[i] = fetches[j]
  BY CallTaken
<1>2. \A i \in 1..Len(fetches') : fetches'[i].kind # "more"
  BY <1>1 DEF OneLock
<1> QED
  BY <1>2 DEF OneLock

\* An answer of an earlier generation releases its lock at most.
LEMMA Dropped ==
  ASSUME LiveTyped, UpToDate, NEW k \in 1..Len(fetches), ~fetches[k].mine,
         fetches' = Live!RemoveAt(fetches, k), Here' = Here,
         UNCHANGED <<armed, crossed, heard>>,
         board'.rows = board.rows, board'.page = board.page, board'.error = board.error
  PROVE  UpToDate'
<1>1. /\ \A i \in 1..Len(fetches') :
           \E j \in 1..Len(fetches) : j # k /\ fetches'[i] = fetches[j]
      /\ \A j \in 1..Len(fetches) :
           j # k => \E i \in 1..Len(fetches') : fetches'[i] = fetches[j]
      /\ OneFetch(fetches) => OneFetch(fetches)'
  BY CallTaken DEF LiveTyped
<1>2. \A c : CallFits(c)' <=> CallFits(c)
  BY DEF CallFits
<1>3. PanelShows' <=> PanelShows
  BY DEF PanelShows
<1> SUFFICES ASSUME ~crossed, ~board.error, Here # "none"
             PROVE  /\ OneFetch(fetches)'
                    /\ \A i \in 1..Len(fetches') : fetches'[i].mine => CallFits(fetches[i])'
                    /\ (\A i \in 1..Len(fetches') : fetches'[i].mine => fetches'[i].kind = "more")
                         => PanelShows'
  BY DEF UpToDate
<1>4. /\ OneFetch(fetches)
      /\ \A i \in 1..Len(fetches) : fetches[i].mine => CallFits(fetches[i])
      /\ (\A i \in 1..Len(fetches) : fetches[i].mine => fetches[i].kind = "more") => PanelShows
  BY DEF UpToDate
<1>5. \A i \in 1..Len(fetches') : fetches'[i].mine => CallFits(fetches[i])'
  <2>1. \A i \in 1..Len(fetches') : fetches'[i].mine => CallFits(fetches'[i])
    BY <1>1, <1>4
  <2> QED
    BY <2>1 DEF CallFits
<1>6. (\A i \in 1..Len(fetches') : fetches'[i].mine => fetches'[i].kind = "more") => PanelShows'
  <2> SUFFICES ASSUME \A i \in 1..Len(fetches') : fetches'[i].mine => fetches'[i].kind = "more"
               PROVE  PanelShows
    BY <1>3
  <2>1. \A j \in 1..Len(fetches) : fetches[j].mine => j # k /\ fetches[j].kind = "more"
    BY <1>1
  <2> QED
    BY <1>4, <2>1
<1> QED
  BY <1>1, <1>4, <1>5, <1>6

LEMMA LiveFail ==
  ASSUME LiveInv, NEW k \in DOMAIN fetches, Live!Fail(k)
  PROVE  LiveInv'
<1>1. LiveTyped /\ SocketTold /\ OneLock(fetches, board.fetching) /\ UpToDate
  BY DEF LiveInv
<1>2. fetches \in Seq(PanelCall) /\ board \in Panels /\ k \in 1..Len(fetches)
  BY <1>1, LenProperties DEF LiveTyped
<1>3. fetches[k] \in PanelCall
  BY ONLY <1>2, ElementOfSeq
<1>4. /\ UNCHANGED <<viewer, clock, table, untold, signalled, open, socket, armed, heard, crossed>>
      /\ fetches' = Live!RemoveAt(fetches, k)
      /\ board' = [board EXCEPT
           !.error = board.error \/ fetches[k].mine,
           !.loading = board.loading /\ ~(fetches[k].mine /\ fetches[k].kind = "first"),
           !.fetching = board.fetching /\ fetches[k].kind # "more"]
  BY DEF Live!Fail, Live!server
<1>5. Here' = Here
  BY <1>4 DEF Here, Live!Slice
<1>6. SocketTold'
  BY <1>1, <1>4 DEF SocketTold, Live!Enabled
<1>7. /\ board' \in Panels /\ board'.rows = board.rows /\ board'.page = board.page
      /\ board'.error = (board.error \/ fetches[k].mine)
      /\ board'.fetching = (board.fetching /\ fetches[k].kind # "more")
  BY <1>2, <1>3, <1>4 DEF Panels, PanelCall
<1>8. fetches' \in Seq(PanelCall) /\ OneLock(fetches', board.fetching)
  BY <1>1, <1>2, <1>4, CallTaken
<1>9. OneLock(fetches, board.fetching)'
  <2>1. CASE fetches[k].kind # "more"
    <3>1. board'.fetching = board.fetching
      BY <1>2, <1>7, <2>1 DEF Panels
    <3> QED
      BY <1>8, <3>1 DEF OneLock
  <2>2. CASE fetches[k].kind = "more"
    BY <1>1, <1>2, <1>4, <2>2, LockFreed
  <2> QED
    BY <2>1, <2>2
<1>10. UpToDate'
  <2>1. CASE fetches[k].mine
    <3>1. board'.error
      BY <1>7, <2>1
    <3> QED
      BY <3>1 DEF UpToDate
  <2>2. CASE ~fetches[k].mine
    <3>1. board'.error = board.error
      BY <1>2, <1>7, <2>2 DEF Panels
    <3> QED
      BY <1>1, <1>2, <1>4, <1>5, <1>7, <2>2, <3>1, Dropped
  <2> QED
    BY <2>1, <2>2
<1>11. LiveTyped'
  BY <1>1, <1>4, <1>7, <1>8 DEF LiveTyped
<1> QED
  BY <1>6, <1>9, <1>10, <1>11 DEF LiveInv

\* An answer shows versions that are no older than the request's floor, and the board
\* stays one.
LEMMA Answered ==
  ASSUME LiveTyped, NEW c \in PanelCall, c.mine,
         NEW v \in [1..c.upTo -> Live!Versions(c)], board' = Live!Landed(c, v)
  PROVE  /\ board' \in Panels /\ board'.error = board.error
         /\ \A p \in 1..c.upTo : v[p] \in Live!Versions(c)
         /\ c.kind = "first" =>
              /\ board'.rows = <<[slice |-> c.slice, place |-> 1, version |-> v[1]]>>
              /\ board'.page = board.page /\ board'.fetching = board.fetching
         /\ c.kind = "batch" =>
              /\ board'.rows = [p \in 1..c.upTo |-> [slice |-> c.slice, place |-> p, version |-> v[p]]]
              /\ board'.page = board.page /\ board'.fetching = board.fetching
         /\ c.kind = "more" =>
              /\ board'.rows = Append(board.rows, [slice |-> c.slice, place |-> c.upTo,
                                                   version |-> v[c.upTo]])
              /\ board'.page = c.upTo
<1>1. /\ c.kind \in {"first", "batch", "more"} /\ c.slice \in Slices
      /\ c.upTo \in Nat /\ c.upTo >= 1 /\ c.upTo \in PageNumbers /\ c.floor \in Nat
  BY DEF PanelCall, PageNumbers
<1>2. board \in Panels /\ board.rows \in Seq(PanelRow) /\ table \in Nat
  BY DEF LiveTyped, Panels
<1>3. \A p \in 1..c.upTo : v[p] \in Live!Versions(c) /\ v[p] \in Nat
  BY <1>1, <1>2 DEF Live!Versions
<1>4. \A p \in 1..c.upTo : [slice |-> c.slice, place |-> p, version |-> v[p]] \in PanelRow
  BY <1>1, <1>3 DEF PanelRow
<1>5. 1 \in 1..c.upTo /\ c.upTo \in 1..c.upTo
  BY <1>1
<1>6. CASE c.kind = "first"
  <2> DEFINE r == <<[slice |-> c.slice, place |-> 1, version |-> v[1]]>>
  <2>1. board' = [board EXCEPT !.rows = r, !.hasMore = Pages > 1, !.loading = FALSE]
    BY <1>6 DEF Live!Landed, Live!Own, Live!Row
  <2>2. r \in Seq(PanelRow)
    BY <1>4, <1>5
  <2>3. (Pages > 1) \in BOOLEAN
    BY PagesAssumption
  <2> HIDE DEF r
  <2>4. /\ board' \in Panels /\ board'.error = board.error /\ board'.rows = r
        /\ board'.page = board.page /\ board'.fetching = board.fetching
    BY <1>2, <2>1, <2>2, <2>3 DEF Panels
  <2> QED
    BY <1>3, <1>6, <2>4 DEF r
<1>7. CASE c.kind = "batch"
  <2> DEFINE r == [p \in 1..c.upTo |-> [slice |-> c.slice, place |-> p, version |-> v[p]]]
  <2>1. board' = [board EXCEPT !.rows = r, !.hasMore = Pages > c.upTo]
    BY <1>7 DEF Live!Landed, Live!Own, Live!Row
  <2>2. r \in Seq(PanelRow)
    BY <1>1, <1>4
  <2>3. (Pages > c.upTo) \in BOOLEAN
    BY <1>1, PagesAssumption
  <2> HIDE DEF r
  <2>4. /\ board' \in Panels /\ board'.error = board.error /\ board'.rows = r
        /\ board'.page = board.page /\ board'.fetching = board.fetching
    BY <1>2, <2>1, <2>2, <2>3 DEF Panels
  <2> QED
    BY <1>3, <1>7, <2>4 DEF r
<1>8. CASE c.kind = "more"
  <2> DEFINE r == Append(board.rows, [slice |-> c.slice, place |-> c.upTo, version |-> v[c.upTo]])
  <2>1. board' = [board EXCEPT !.rows = r, !.hasMore = Pages > c.upTo, !.page = c.upTo,
                               !.fetching = FALSE]
    BY <1>8 DEF Live!Landed, Live!Own, Live!Row
  <2>2. r \in Seq(PanelRow)
    BY <1>2, <1>4, <1>5
  <2>3. (Pages > c.upTo) \in BOOLEAN
    BY <1>1, PagesAssumption
  <2> HIDE DEF r
  <2>4. /\ board' \in Panels /\ board'.error = board.error /\ board'.rows = r
        /\ board'.page = c.upTo
    BY <1>1, <1>2, <2>1, <2>2, <2>3 DEF Panels
  <2> QED
    BY <1>3, <1>8, <2>4 DEF r
<1> QED
  BY <1>1, <1>6, <1>7, <1>8

\* What lands fits what is shown, and is no older than what the page was told.
LEMMA NowShows ==
  ASSUME LiveTyped, NEW c \in PanelCall, c.mine, CallFits(c), c.kind = "more" => PanelShows,
         NEW v \in [1..c.upTo -> Live!Versions(c)], board' = Live!Landed(c, v),
         Here' = Here, UNCHANGED <<armed, heard>>
  PROVE  PanelShows'
<1>1. /\ c.kind \in {"first", "batch", "more"} /\ c.upTo \in Nat /\ c.upTo >= 1 /\ c.floor \in Nat
      /\ c.slice = Here
  BY DEF PanelCall, PageNumbers, CallFits
<1>2. /\ board.page \in Nat /\ board.rows \in Seq(PanelRow) /\ table \in Nat /\ heard \in Nat
      /\ heard <= table
  BY DEF LiveTyped, Panels, PageNumbers
<1>3. \A p \in 1..c.upTo : Here = "leaderboard" /\ ~armed => v[p] >= heard
  <2>1. Here = "leaderboard" /\ ~armed => c.floor >= heard /\ table >= heard
    BY <1>2 DEF CallFits
  <2>2. Here = "leaderboard" => Live!Versions(c) = {c.floor, table}
    BY <1>1 DEF Live!Versions
  <2>3. \A p \in 1..c.upTo : v[p] \in Live!Versions(c)
    BY Answered
  <2> QED
    BY <2>1, <2>2, <2>3
<1>4. CASE c.kind = "first"
  <2>1. /\ board'.rows = <<[slice |-> c.slice, place |-> 1, version |-> v[1]]>>
        /\ board'.page = 1
    BY <1>4, Answered DEF CallFits
  <2>2. 1 \in 1..c.upTo
    BY <1>1
  <2> QED
    BY <1>1, <1>3, <2>1, <2>2 DEF PanelShows
<1>5. CASE c.kind = "batch"
  <2>1. /\ board'.rows = [p \in 1..c.upTo |-> [slice |-> c.slice, place |-> p, version |-> v[p]]]
        /\ board'.page = c.upTo
    BY <1>5, Answered DEF CallFits
  <2>2. /\ Len(board'.rows) = c.upTo
        /\ \A p \in 1..c.upTo :
             board'.rows[p] = [slice |-> c.slice, place |-> p, version |-> v[p]]
    BY <1>1, <2>1
  <2> QED
    BY <1>1, <1>3, <2>1, <2>2 DEF PanelShows
<1>6. CASE c.kind = "more"
  <2> DEFINE r == [slice |-> c.slice, place |-> c.upTo, version |-> v[c.upTo]]
  <2>1. /\ board'.rows = Append(board.rows, r) /\ board'.page = c.upTo
        /\ c.upTo = board.page + 1
    BY <1>6, Answered DEF CallFits
  <2>2. PanelShows
    BY <1>6
  <2>3. Len(board.rows) = board.page
    BY <2>2 DEF PanelShows
  <2>4. r.place = c.upTo /\ r.slice = Here /\ (Here = "leaderboard" /\ ~armed => r.version >= heard)
    <3>1. c.upTo \in 1..c.upTo
      BY <1>1
    <3> QED
      BY <1>1, <1>3, <3>1
  <2> HIDE DEF r
  <2>5. /\ Len(board'.rows) = c.upTo
        /\ \A p \in 1..Len(board.rows) : board'.rows[p] = board.rows[p]
        /\ board'.rows[c.upTo] = r
        /\ \A p \in 1..Len(board'.rows) : p \in 1..Len(board.rows) \/ p = c.upTo
    BY <1>1, <1>2, <2>1, <2>3
  <2> QED
    BY <2>1, <2>2, <2>4, <2>5 DEF PanelShows
<1> QED
  BY <1>1, <1>4, <1>5, <1>6

LEMMA LiveArrive ==
  ASSUME LiveInv, NEW k \in DOMAIN fetches, Live!Arrive(k)
  PROVE  LiveInv'
<1>1. LiveTyped /\ SocketTold /\ OneLock(fetches, board.fetching) /\ UpToDate
  BY DEF LiveInv
<1>2. fetches \in Seq(PanelCall) /\ board \in Panels /\ k \in 1..Len(fetches)
  BY <1>1, LenProperties DEF LiveTyped
<1>3. fetches[k] \in PanelCall
  BY ONLY <1>2, ElementOfSeq
<1>4. /\ UNCHANGED <<viewer, clock, table, untold, signalled, open, socket, armed, heard, crossed>>
      /\ fetches' = Live!RemoveAt(fetches, k)
      /\ \E v \in [1..fetches[k].upTo -> Live!Versions(fetches[k])] :
           board' = Live!Landed(fetches[k], v)
  BY DEF Live!Arrive, Live!server
<1>5. Here' = Here
  BY <1>4 DEF Here, Live!Slice
<1>6. SocketTold'
  BY <1>1, <1>4 DEF SocketTold, Live!Enabled
<1>7. /\ fetches' \in Seq(PanelCall) /\ OneLock(fetches', board.fetching)
      /\ \A i \in 1..Len(fetches') :
           \E j \in 1..Len(fetches) : j # k /\ fetches'[i] = fetches[j]
  BY <1>1, <1>2, <1>4, CallTaken
<1>8. fetches[k].kind = "more" => OneLock(fetches, board.fetching)'
  BY <1>1, <1>2, <1>4, LockFreed
<1>9. PICK c \in PanelCall : c = fetches[k]
  BY <1>3
<1>10. PICK v \in [1..c.upTo -> Live!Versions(c)] : board' = Live!Landed(c, v)
  BY <1>4, <1>9
<1>11. CASE c.mine
  <2>1. board' \in Panels /\ board'.error = board.error
    BY <1>1, <1>10, <1>11, Answered
  <2>2. c.kind # "more" => board'.fetching = board.fetching
    BY <1>1, <1>10, <1>11, Answered DEF PanelCall
  <2>3. OneLock(fetches, board.fetching)'
    BY <1>7, <1>8, <1>9, <2>2 DEF OneLock
  <2>4. ASSUME ~crossed, ~board.error, Here # "none"
        PROVE  (\A i \in 1..Len(fetches') : ~fetches'[i].mine) /\ PanelShows'
    <3>1. /\ OneFetch(fetches)
          /\ \A i \in 1..Len(fetches) : fetches[i].mine => CallFits(fetches[i])
          /\ (\A i \in 1..Len(fetches) : fetches[i].mine => fetches[i].kind = "more") => PanelShows
      BY <1>1, <2>4 DEF UpToDate
    <3>2. \A i \in 1..Len(fetches) : fetches[i].mine => i = k
      BY <1>2, <1>9, <1>11, <3>1 DEF OneFetch
    <3>3. CallFits(c) /\ (c.kind = "more" => PanelShows)
      BY <1>2, <1>9, <1>11, <3>1, <3>2
    <3>4. PanelShows'
      BY <1>1, <1>4, <1>5, <1>10, <1>11, <3>3, NowShows
    <3> QED
      BY <1>7, <3>2, <3>4
  <2>5. UpToDate'
    BY <1>4, <1>5, <2>1, <2>4 DEF UpToDate, OneFetch
  <2>6. LiveTyped'
    BY <1>1, <1>4, <1>7, <2>1 DEF LiveTyped
  <2> QED
    BY <1>6, <2>3, <2>5, <2>6 DEF LiveInv
<1>12. CASE ~c.mine
  <2>1. board' = IF c.kind = "more" THEN [board EXCEPT !.fetching = FALSE] ELSE board
    BY <1>10, <1>12 DEF Live!Landed, Live!Own
  <2>2. /\ board' \in Panels /\ board'.rows = board.rows /\ board'.page = board.page
        /\ board'.error = board.error
        /\ c.kind # "more" => board'.fetching = board.fetching
    BY <1>2, <2>1 DEF Panels
  <2>3. OneLock(fetches, board.fetching)'
    BY <1>7, <1>8, <1>9, <2>2 DEF OneLock
  <2>4. UpToDate'
    BY <1>1, <1>2, <1>4, <1>5, <1>9, <1>12, <2>2, Dropped
  <2>5. LiveTyped'
    BY <1>1, <1>4, <1>7, <2>2 DEF LiveTyped
  <2> QED
    BY <1>6, <2>3, <2>4, <2>5 DEF LiveInv
<1> QED
  BY <1>11, <1>12

LEMMA LiveStep == ASSUME LiveInv, Live!Next PROVE LiveInv'
<1>1. CASE \/ Live!Solve \/ Live!Rate
           \/ \E w \in {"update", "ended"} : Live!Tell(w) \/ Live!TellFails(w)
  BY <1>1, LiveServer
<1>2. CASE Live!Proceed \/ Live!Drop
  BY <1>2, LiveSocket, LiveHearEnd DEF Live!Proceed
<1>3. CASE Live!Fire \/ Live!LoadMore \/ Live!Toggle
  BY <1>3, LiveFire, LiveLoadMore, LiveToggle
<1>4. CASE Live!Registered \/ Live!Start \/ Live!End
  BY <1>4, LiveRegistered, LiveStart, LiveEnd
<1>5. CASE \E i \in DOMAIN fetches : Live!Arrive(i) \/ Live!Fail(i)
  BY <1>5, LiveArrive, LiveFail
<1> QED
  BY <1>1, <1>2, <1>3, <1>4, <1>5 DEF Live!Next

LEMMA LiveStands ==
  ASSUME LiveInv, UNCHANGED liveVars
  PROVE  LiveInv'
<1>1. UNCHANGED <<viewer, clock, table, untold, signalled, open, socket, armed, board,
                  fetches, heard, crossed>>
  BY DEF liveVars
<1>2. Here' = Here
  BY <1>1 DEF Here, Live!Slice
<1>3. UpToDate' /\ OneLock(fetches, board.fetching)'
  BY <1>1, <1>2, PanelStill DEF LiveInv
<1> QED
  BY <1>1, <1>3 DEF LiveInv, LiveTyped, SocketTold, Live!Enabled

\* A page that follows a contest and has nothing under way shows what the socket has
\* told it of: the first pages of its own slice, one after the other, none older than
\* the last update or end it heard (useContestPanel, useLeaderboardSignal).
THEOREM PanelIsAsTold == RoundSpec => []ShownIsAsTold
<1>1. RoundInit => LiveInv
  BY LiveInit DEF RoundInit
<1>2. LiveInv /\ [RoundNext]_<<part, vars, cacheVars, liveVars, pillVars>> => LiveInv'
  BY LiveStep, LiveStands DEF RoundNext
<1>3. LiveInv => ShownIsAsTold
  <2> SUFFICES ASSUME LiveInv, fetches = <<>>, ~armed, ~crossed, ~board.error, Here # "none"
               PROVE  /\ Len(board.rows) = board.page
                      /\ \A p \in DOMAIN board.rows :
                           /\ board.rows[p].place = p /\ board.rows[p].slice = Here
                           /\ board.rows[p].slice = "leaderboard"
                                => board.rows[p].version >= heard
    BY DEF ShownIsAsTold, Live!ShownIsAsTold, Live!Settled, Here
  <2>1. \A i \in 1..Len(fetches) : FALSE
    OBVIOUS
  <2>2. PanelShows
    BY <2>1 DEF LiveInv, UpToDate
  <2>3. DOMAIN board.rows = 1..Len(board.rows)
    BY LenProperties DEF LiveInv, LiveTyped, Panels
  <2> QED
    BY <2>2, <2>3 DEF PanelShows
<1> QED
  BY <1>1, <1>2, <1>3, PTL DEF RoundSpec

=============================================================================
