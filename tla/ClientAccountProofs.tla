-------------------------- MODULE ClientAccountProofs --------------------------
(***************************************************************************)
(* What holds of the session, the sign-in pages, the profile page, the     *)
(* feed and the editor for every number of accounts, token pairs, requests,*)
(* members, edits, rows, texts and problems.                               *)
(*                                                                         *)
(* The proofs are about the specification of MCClientAccount, where one    *)
(* part moves at a time: a step of another part leaves these alone.        *)
(***************************************************************************)
EXTENDS MCClientAccount, QueueLemmas, Sequences, TLAPS

-----------------------------------------------------------------------------
(* The editor.                                                              *)

\* Every slot has a model for every language on offer, and the model on screen
\* holds the code of the language on screen.
EditorInv ==
  /\ DOMAIN models = Slots /\ \A s \in Slots : DOMAIN models[s] = Editor!Offered
  /\ DOMAIN codes = Editor!Offered /\ language \in Editor!Offered
  /\ slot \in Slots \cup {None}
  /\ Editor!ShownIsSubmitted

\* A model that is shown holds the code it is shown with.
LEMMA CaughtUpText ==
  \A m, code : /\ Editor!Edited(m, code).text = code
               /\ Editor!CaughtUp(m, code).text = code
BY DEF Editor!CaughtUp, Editor!Edited

LEMMA EditorInit == Editor!Init => EditorInv
<1> SUFFICES ASSUME Editor!Init
             PROVE  EditorInv
  OBVIOUS
<1>1. language \in Editor!Offered
  <2>1. language = Head(<<"py", "cpp">>)
    BY DEF Editor!Init
  <2> QED
    BY <2>1 DEF Editor!Offered, Editor!ToSet
<1> QED
  BY <1>1 DEF Editor!Init, EditorInv, Editor!ShownIsSubmitted

\* A workspace that mounts shows the code of the language it starts in.
LEMMA MountedShows ==
  ASSUME EditorInv, NEW s \in Slots, NEW kept,
         DOMAIN kept = Slots, \A t \in Slots : DOMAIN kept[t] = Editor!Offered,
         Editor!Mounted(s, kept)
  PROVE  EditorInv'
<1>1. language' \in Editor!Offered
  BY DEF Editor!Mounted, Editor!StartLanguage, Editor!Offered, Editor!ToSet
<1>2. slot' = s /\ DOMAIN codes' = Editor!Offered
  BY DEF Editor!Mounted
<1> DEFINE shown == Editor!CaughtUp(Editor!Seeded(kept[s][language'],
                                                   startCodes'[language']), codes'[language'])
<1>3. models' = [kept EXCEPT ![s][language'] = shown]
  BY DEF Editor!Mounted
<1>4. shown.text = codes'[language']
  BY CaughtUpText
<1> HIDE DEF shown
<1>5. models'[s][language'] = shown
  BY <1>1, <1>3
<1>6. DOMAIN models' = Slots /\ \A t \in Slots : DOMAIN models'[t] = Editor!Offered
  BY <1>1, <1>3
<1> QED
  BY <1>1, <1>2, <1>4, <1>5, <1>6 DEF EditorInv, Editor!ShownIsSubmitted, Editor!OnScreen

\* The model on screen and the code of a language become the same text.
LEMMA PutShows ==
  ASSUME EditorInv, slot # None, NEW l \in Editor!Offered, NEW m, NEW code,
         m.text = code,
         models' = [models EXCEPT ![slot][l] = m],
         DOMAIN codes' = DOMAIN codes, codes'[l] = code,
         language' = l, slot' = slot
  PROVE  EditorInv'
<1>1. slot \in Slots
  BY DEF EditorInv
<1>2. DOMAIN models' = Slots /\ \A s \in Slots : DOMAIN models'[s] = Editor!Offered
  BY <1>1 DEF EditorInv
<1>3. models'[slot][l] = m /\ codes'[l] = code /\ DOMAIN codes' = Editor!Offered
  BY <1>1 DEF EditorInv
<1> QED
  BY <1>1, <1>2, <1>3 DEF EditorInv, Editor!ShownIsSubmitted, Editor!OnScreen

LEMMA EditorStep == EditorInv /\ Editor!Next => EditorInv'
<1> SUFFICES ASSUME EditorInv, Editor!Next
             PROVE  EditorInv'
  OBVIOUS
<1>1. CASE Editor!ReloadPage
  <2>1. slot \in Slots
    BY <1>1 DEF EditorInv, Editor!ReloadPage
  <2> DEFINE none == [s \in Slots |-> [l \in Editor!Offered |-> Editor!NoModel]]
  <2>2. DOMAIN none = Slots /\ \A t \in Slots : DOMAIN none[t] = Editor!Offered
    OBVIOUS
  <2>3. Editor!Mounted(slot, none)
    BY <1>1 DEF Editor!ReloadPage
  <2> QED
    BY ONLY EditorInv, <2>1, <2>2, <2>3, MountedShows
<1>2. CASE \E s \in Slots : Editor!Visit(s)
  <2>1. PICK s \in Slots : Editor!Mounted(s, models)
    BY <1>2 DEF Editor!Visit
  <2> QED
    BY <2>1, MountedShows DEF EditorInv
<1>3. ASSUME NEW m, NEW code, Editor!CanEdit, Editor!Put(m, code), m.text = code
      PROVE  EditorInv'
  BY <1>3, PutShows DEF Editor!CanEdit, Editor!Put, EditorInv
<1>4. CASE \E code \in Typed : Editor!Type(code)
  BY <1>3, <1>4, CaughtUpText DEF Editor!Type
<1>5. CASE Editor!Undo
  BY <1>3, <1>5 DEF Editor!Undo
<1>6. CASE Editor!Redo
  BY <1>3, <1>6 DEF Editor!Redo
<1>7. CASE Editor!Reset
  BY <1>3, <1>7, CaughtUpText DEF Editor!Reset
<1>8. CASE \E l \in Editor!Offered : Editor!SetLanguage(l)
  <2>1. PICK l \in Editor!Offered : Editor!SetLanguage(l)
    BY <1>8
  <2> DEFINE shown == Editor!CaughtUp(Editor!Seeded(models[slot][l], startCodes[l]), codes[l])
  <2>2. slot # None /\ models' = [models EXCEPT ![slot][l] = shown] /\ language' = l /\ slot' = slot
    BY <2>1 DEF Editor!SetLanguage, Editor!CanEdit, Editor!Shown
  <2>3. DOMAIN codes' = DOMAIN codes /\ codes'[l] = codes[l]
    BY <2>1 DEF Editor!SetLanguage
  <2>4. shown.text = codes[l]
    BY CaughtUpText
  <2> QED
    BY ONLY EditorInv, <2>2, <2>3, <2>4, PutShows
<1>9. CASE \E i \in 1..(MaxSubmits + 1) : slot # None /\ Editor!LoadSubmission(i)
  <2>1. PICK i \in 1..(MaxSubmits + 1) : slot # None /\ Editor!LoadSubmission(i)
    BY <1>9
  <2> DEFINE r == sent[slot][i]
             shown == Editor!CaughtUp(Editor!Seeded(models[slot][r.lang], startCodes[r.lang]), r.code)
  <2>2. r.lang \in Editor!Offered
    BY <2>1 DEF Editor!LoadSubmission
  <2>3. models' = [models EXCEPT ![slot][r.lang] = shown] /\ language' = r.lang /\ slot' = slot
    BY <2>1 DEF Editor!LoadSubmission, Editor!Shown
  <2>4. DOMAIN codes' = DOMAIN codes /\ codes'[r.lang] = r.code
    BY <2>1, <2>2 DEF Editor!LoadSubmission, EditorInv
  <2>5. shown.text = r.code
    BY CaughtUpText
  <2> HIDE DEF r, shown
  <2> QED
    BY ONLY EditorInv, <2>1, <2>2, <2>3, <2>4, <2>5, PutShows
<1>10. CASE Editor!Submit \/ Editor!FillUp \/ \E s \in Slots, l \in Editor!Offered : Editor!ForeignDraft(s, l)
  BY <1>10 DEF Editor!Submit, Editor!FillUp, Editor!ForeignDraft, Editor!hook, Editor!vars,
     EditorInv, Editor!ShownIsSubmitted, Editor!OnScreen
<1> QED
  BY <1>1, <1>2, <1>4, <1>5, <1>6, <1>7, <1>8, <1>9, <1>10 DEF Editor!Next

-----------------------------------------------------------------------------
(* The drafts.                                                              *)

Models == [past : Seq(Editor!Codes), text : Editor!Codes, future : Seq(Editor!Codes)]

Sent == [lang : Editor!Offered \cup {Gone}, code : Editor!Codes]

\* What is stored and what Monaco keeps are texts, and a reload starts with them.
DraftsTyped ==
  /\ drafts \in [Slots -> [Editor!Offered -> Editor!Codes \cup {None}]]
  /\ remembered \in [Slots -> Editor!Offered \cup {None}]
  /\ storage \in {"ok", "full", "blocked"}
  /\ sent \in [Slots -> Seq(Sent)]
  /\ codes \in [Editor!Offered -> Editor!Codes]
  /\ startCodes \in [Editor!Offered -> Editor!Codes]
  /\ \A s \in Slots, l \in Editor!Offered : models[s][l] \in Models \cup {Editor!NoModel}
  /\ foreign \in Nat

DraftsInv == EditorInv /\ DraftsTyped /\ Editor!ReloadKeepsWork

LEMMA NoneIsNothing ==
  /\ None \notin Editor!Codes /\ None \notin Editor!Offered
  /\ Editor!Template \in Editor!Codes /\ "sent" \in Editor!Codes /\ "theirs" \in Editor!Codes
  /\ Typed \subseteq Editor!Codes
BY DraftAssumption DEF Editor!Codes, Editor!Offered, Editor!ToSet, Editor!Template

\* Seeding, editing, undoing and redoing make a model of texts out of texts.
LEMMA SeededModel ==
  ASSUME NEW m \in Models \cup {Editor!NoModel}, NEW code \in Editor!Codes
  PROVE  Editor!Seeded(m, code) \in Models
<1>1. CASE m = Editor!NoModel
  <2>1. Editor!Seeded(m, code) = [past |-> <<>>, text |-> code, future |-> <<>>]
    BY <1>1 DEF Editor!Seeded, Editor!NoModel
  <2> QED
    BY <2>1 DEF Models
<1>2. CASE m # Editor!NoModel
  BY <1>2 DEF Editor!Seeded
<1> QED
  BY <1>1, <1>2

LEMMA EditedModel ==
  ASSUME NEW m \in Models, NEW code \in Editor!Codes
  PROVE  Editor!Edited(m, code) \in Models /\ Editor!CaughtUp(m, code) \in Models
BY DEF Models, Editor!Edited, Editor!CaughtUp

LEMMA UndoneModel ==
  ASSUME NEW m \in Models
  PROVE  /\ m.past # <<>> => Editor!Undone(m) \in Models
         /\ m.future # <<>> => Editor!Redone(m) \in Models
<1>1. m.past \in Seq(Editor!Codes) /\ m.text \in Editor!Codes /\ m.future \in Seq(Editor!Codes)
  BY DEF Models
<1>2. ASSUME m.past # <<>>
      PROVE  Editor!Undone(m) \in Models
  <2>1. Len(m.past) \in Nat \ {0} /\ m.past[Len(m.past)] \in Editor!Codes
    BY <1>1, <1>2, EmptySeq, ElementOfSeq
  <2>2. SubSeq(m.past, 1, Len(m.past) - 1) \in Seq(Editor!Codes)
    BY <1>1, <2>1, ElementOfSeq
  <2>3. <<m.text>> \o m.future \in Seq(Editor!Codes)
    BY <1>1
  <2> QED
    BY <2>1, <2>2, <2>3 DEF Models, Editor!Undone, Editor!Front, Editor!Last, Front, Last
<1>3. ASSUME m.future # <<>>
      PROVE  Editor!Redone(m) \in Models
  BY <1>1, <1>3 DEF Models, Editor!Redone
<1> QED
  BY <1>2, <1>3

\* The model on screen is not one that was never shown.
LEMMA ScreenModel ==
  ASSUME EditorInv, DraftsTyped, slot # None
  PROVE  Editor!OnScreen \in Models /\ slot \in Slots
<1>1. Editor!OnScreen.text \in Editor!Codes
  BY DEF EditorInv, DraftsTyped, Editor!ShownIsSubmitted
<1> QED
  BY <1>1, NoneIsNothing DEF EditorInv, DraftsTyped, Editor!OnScreen, Editor!NoModel

SentIn(q, l) == {i \in DOMAIN q : q[i].lang = l}

\* A submission goes in front of the earlier ones.
LEMMA FirstSent ==
  ASSUME NEW q \in Seq(Sent), NEW r \in Sent, NEW l
  PROVE  IF r.lang = l
         THEN /\ SentIn(<<r>> \o q, l) # {}
              /\ (<<r>> \o q)[Editor!Min(SentIn(<<r>> \o q, l))] = r
         ELSE /\ SentIn(q, l) = {} <=> SentIn(<<r>> \o q, l) = {}
              /\ SentIn(q, l) # {} =>
                   (<<r>> \o q)[Editor!Min(SentIn(<<r>> \o q, l))] = q[Editor!Min(SentIn(q, l))]
<1> DEFINE p == <<r>> \o q
           old == SentIn(q, l)
           new == SentIn(p, l)
<1>0. old = {i \in DOMAIN q : q[i].lang = l} /\ new = {i \in DOMAIN p : p[i].lang = l}
  BY DEF SentIn
<1>1. /\ Len(q) \in Nat /\ DOMAIN q = 1..Len(q)
      /\ Len(p) = Len(q) + 1 /\ DOMAIN p = 1..(Len(q) + 1)
      /\ p[1] = r /\ \A i \in 1..Len(q) : p[i + 1] = q[i]
  BY LenProperties
<1> HIDE DEF p, old, new
<1>2. old \subseteq Nat /\ new \subseteq Nat /\ old \subseteq 1..Len(q) /\ new \subseteq 1..(Len(q) + 1)
  BY <1>0, <1>1
<1>3. ASSUME NEW I, I \subseteq Nat, I # {}
      PROVE  Editor!Min(I) \in I /\ \A j \in I : Editor!Min(I) <= j
  BY <1>3, FirstPosition DEF Min, Editor!Min
<1>4. \A i \in 1..Len(q) : i + 1 \in new <=> i \in old
  BY <1>0, <1>1
<1>5. ASSUME r.lang = l
      PROVE  new # {} /\ p[Editor!Min(new)] = r
  <2>1. 1 \in new
    BY <1>0, <1>1, <1>5
  <2>2. Editor!Min(new) \in new /\ Editor!Min(new) <= 1
    BY <1>2, <1>3, <2>1
  <2>3. Editor!Min(new) = 1
    <3> DEFINE n == Editor!Min(new)
    <3>1. n \in new /\ n <= 1
      BY <2>2
    <3> HIDE DEF n
    <3>2. n \in 1..(Len(q) + 1)
      BY <1>2, <3>1
    <3>3. n = 1
      BY <1>1, <3>1, <3>2
    <3> QED
      BY <3>3 DEF n
  <2> QED
    BY <1>1, <2>1, <2>3
<1>6. ASSUME r.lang # l
      PROVE  /\ old = {} <=> new = {}
             /\ old # {} => p[Editor!Min(new)] = q[Editor!Min(old)]
  <2>1. \A j \in new : j - 1 \in old /\ j = (j - 1) + 1
    <3> SUFFICES ASSUME NEW j \in new
                 PROVE  j - 1 \in old /\ j = (j - 1) + 1
      OBVIOUS
    <3>1. j \in 1..(Len(q) + 1) /\ j # 1
      BY <1>0, <1>1, <1>6
    <3>2. j - 1 \in 1..Len(q) /\ j = (j - 1) + 1
      BY <1>1, <3>1
    <3> QED
      BY <1>4, <3>2
  <2>2. old = {} <=> new = {}
    <3>1. \A i \in old : i + 1 \in new
      BY <1>2, <1>4
    <3> QED
      BY ONLY <2>1, <3>1
  <2>3. ASSUME old # {}
        PROVE  p[Editor!Min(new)] = q[Editor!Min(old)]
    <3> DEFINE m == Editor!Min(old)
               n == Editor!Min(new)
    <3>1. m \in old /\ \A j \in old : m <= j
      BY <1>2, <1>3, <2>3
    <3>2. n \in new /\ \A j \in new : n <= j
      BY <1>2, <1>3, <2>2, <2>3
    <3> HIDE DEF m, n
    <3>3. n <= m + 1 /\ m <= n - 1
      <4>1. m + 1 \in new
        BY <1>2, <1>4, <3>1
      <4>2. n - 1 \in old
        BY <2>1, <3>2
      <4> QED
        BY <3>1, <3>2, <4>1, <4>2
    <3>4. m \in 1..Len(q) /\ n \in 1..(Len(q) + 1)
      BY <1>2, <3>1, <3>2
    <3>5. n = m + 1
      BY <1>1, <3>3, <3>4
    <3> QED
      BY <1>1, <3>4, <3>5 DEF m, n
  <2> QED
    BY <2>2, <2>3
<1> QED
  BY <1>5, <1>6 DEF p, old, new

\* Where a reload starts is a text and a language.
LEMMA StartTyped ==
  ASSUME DraftsTyped, NEW s \in Slots
  PROVE  /\ \A l \in Editor!Offered : Editor!StartCode(s, l) \in Editor!Codes
         /\ Editor!StartLanguage(s) \in Editor!Offered
<1>1. ASSUME NEW l \in Editor!Offered
      PROVE  Editor!StartCode(s, l) \in Editor!Codes
  <2> DEFINE I == {i \in DOMAIN sent[s] : sent[s][i].lang = l}
  <2>1. drafts[s][l] \in Editor!Codes \cup {None}
    BY DEF DraftsTyped
  <2>2. ASSUME I # {}
        PROVE  sent[s][Editor!Min(I)].code \in Editor!Codes
    <3>1. sent[s] \in Seq(Sent)
      BY DEF DraftsTyped
    <3>2. I \subseteq 1..Len(sent[s]) /\ I \subseteq Nat
      BY <3>1, LenProperties
    <3>3. Editor!Min(I) \in 1..Len(sent[s])
      BY <2>2, <3>2, FirstPosition DEF Min, Editor!Min
    <3>4. sent[s][Editor!Min(I)] \in Sent
      BY <3>1, <3>3, ElementOfSeq
    <3> QED
      BY <3>4 DEF Sent
  <2> HIDE DEF I
  <2>3. Editor!StartCode(s, l) =
          CASE Editor!ReadDraft(s, l) # None -> Editor!ReadDraft(s, l)
            [] Editor!ReadDraft(s, l) = None /\ I # {} -> sent[s][Editor!Min(I)].code
            [] OTHER -> Editor!Template
    BY DEF Editor!StartCode, I
  <2>4. Editor!ReadDraft(s, l) \in Editor!Codes \cup {None}
    BY <2>1 DEF Editor!ReadDraft
  <2> QED
    BY <2>2, <2>3, <2>4, NoneIsNothing
<1>2. Editor!StartLanguage(s) \in Editor!Offered
  BY DEF Editor!StartLanguage, Editor!Offered, Editor!ToSet
<1> QED
  BY <1>1, <1>2

\* A workspace that mounts has what a reload would bring back.
LEMMA MountedKeeps ==
  ASSUME DraftsTyped, NEW s \in Slots, NEW kept,
         DOMAIN kept = Slots,
         \A t \in Slots : DOMAIN kept[t] = Editor!Offered,
         \A t \in Slots, l \in Editor!Offered : kept[t][l] \in Models \cup {Editor!NoModel},
         Editor!Mounted(s, kept),
         UNCHANGED <<drafts, remembered, storage, sent, foreign>>
  PROVE  DraftsTyped' /\ Editor!ReloadKeepsWork'
<1>1. /\ slot' = s
      /\ startCodes' = [l \in Editor!Offered |-> Editor!StartCode(s, l)]
      /\ codes' = startCodes' /\ language' = Editor!StartLanguage(s)
  BY DEF Editor!Mounted
<1>2. startCodes' \in [Editor!Offered -> Editor!Codes] /\ language' \in Editor!Offered
  BY <1>1, StartTyped
<1> DEFINE m == Editor!CaughtUp(Editor!Seeded(kept[s][language'],
                                               startCodes'[language']), codes'[language'])
<1>3. models' = [kept EXCEPT ![s][language'] = m]
  BY DEF Editor!Mounted
<1>4. m \in Models
  <2>1. /\ kept[s][language'] \in Models \cup {Editor!NoModel}
        /\ startCodes'[language'] \in Editor!Codes /\ codes'[language'] \in Editor!Codes
    BY <1>1, <1>2
  <2> QED
    BY <2>1, SeededModel, EditedModel
<1> HIDE DEF m
<1>5. \A t \in Slots, l \in Editor!Offered : models'[t][l] \in Models \cup {Editor!NoModel}
  BY <1>2, <1>3, <1>4
<1>6. DraftsTyped'
  BY <1>1, <1>2, <1>5 DEF DraftsTyped
<1>7. /\ Editor!StartLanguage(s)' = Editor!StartLanguage(s)
      /\ \A l \in Editor!Offered : Editor!StartCode(s, l)' = Editor!StartCode(s, l)
  BY DEF Editor!StartLanguage, Editor!StartCode, Editor!ReadLanguage, Editor!ReadDraft
<1> QED
  BY <1>1, <1>6, <1>7 DEF Editor!ReloadKeepsWork

\* A text put in the editor is filed where a reload looks for it.
LEMMA PutKeeps ==
  ASSUME DraftsInv, slot # None, NEW l \in Editor!Offered,
         NEW m \in Models, NEW code \in Editor!Codes,
         models' = [models EXCEPT ![slot][l] = m],
         codes' = [codes EXCEPT ![l] = code],
         \/ drafts' = Editor!DraftWritten(l, code)
         \/ drafts' = drafts /\ code = codes[l],
         \/ remembered' = Editor!LanguageWritten(l)
         \/ remembered' = remembered /\ l = language,
         language' = l, UNCHANGED <<slot, storage, sent, startCodes, foreign>>
  PROVE  DraftsTyped' /\ Editor!ReloadKeepsWork'
<1>1. DraftsTyped /\ EditorInv /\ slot \in Slots
  BY DEF DraftsInv, EditorInv
<1>2. drafts' \in [Slots -> [Editor!Offered -> Editor!Codes \cup {None}]]
  <2>1. drafts \in [Slots -> [Editor!Offered -> Editor!Codes \cup {None}]]
    BY <1>1 DEF DraftsTyped
  <2>2. drafts' = drafts \/ drafts' = [drafts EXCEPT ![slot][l] = code]
    BY DEF Editor!DraftWritten
  <2> QED
    BY <1>1, <2>1, <2>2
<1>3. remembered' \in [Slots -> Editor!Offered \cup {None}]
  BY <1>1 DEF DraftsTyped, Editor!LanguageWritten
<1>4. codes' \in [Editor!Offered -> Editor!Codes]
  BY <1>1 DEF DraftsTyped
<1>5. \A s \in Slots, k \in Editor!Offered : models'[s][k] \in Models \cup {Editor!NoModel}
  BY <1>1 DEF DraftsTyped, EditorInv
<1>6. DraftsTyped'
  BY <1>1, <1>2, <1>3, <1>4, <1>5 DEF DraftsTyped
<1>7. ASSUME storage = "ok", foreign = 0
      PROVE  /\ Editor!StartLanguage(slot)' = language'
             /\ \A k \in Editor!Offered : Editor!StartCode(slot, k)' = codes'[k]
  <2>1. /\ Editor!StartLanguage(slot) = language
        /\ \A k \in Editor!Offered : Editor!StartCode(slot, k) = codes[k]
    BY <1>7 DEF DraftsInv, Editor!ReloadKeepsWork
  <2>2. Editor!StartLanguage(slot)' = language'
    <3>1. CASE remembered' = Editor!LanguageWritten(l)
      <4>1. remembered'[slot] = l
        BY <1>1, <1>7, <3>1 DEF Editor!LanguageWritten, DraftsTyped
      <4> QED
        BY <1>7, <4>1 DEF Editor!StartLanguage, Editor!ReadLanguage
    <3>2. CASE remembered' = remembered /\ l = language
      <4>1. Editor!StartLanguage(slot)' = Editor!StartLanguage(slot)
        BY <3>2 DEF Editor!StartLanguage, Editor!ReadLanguage
      <4> QED
        BY <2>1, <3>2, <4>1
    <3> QED
      BY <3>1, <3>2
  <2>3. ASSUME NEW k \in Editor!Offered
        PROVE  Editor!StartCode(slot, k)' = codes'[k]
    <3>1. CASE drafts' = drafts
      <4>1. Editor!StartCode(slot, k)' = Editor!StartCode(slot, k)
        BY <3>1 DEF Editor!StartCode, Editor!ReadDraft
      <4>2. CASE code = codes[l]
        BY <1>1, <2>1, <4>1, <4>2 DEF DraftsTyped
      <4>3. CASE drafts' = Editor!DraftWritten(l, code)
        <5>1. drafts[slot][l] = code
          BY <1>1, <1>7, <3>1, <4>3 DEF Editor!DraftWritten, DraftsTyped
        <5>2. Editor!StartCode(slot, l) = code
          BY <1>7, <5>1, NoneIsNothing DEF Editor!StartCode, Editor!ReadDraft
        <5> QED
          BY <1>1, <2>1, <4>1, <5>2 DEF DraftsTyped
      <4> QED
        BY <4>2, <4>3
    <3>2. CASE drafts' = Editor!DraftWritten(l, code)
      <4>1. /\ drafts'[slot][l] = code
            /\ k # l => drafts'[slot][k] = drafts[slot][k]
        BY <1>1, <1>7, <3>2 DEF Editor!DraftWritten, DraftsTyped
      <4>2. CASE k = l
        <5>1. Editor!ReadDraft(slot, k)' = code
          BY <1>7, <4>1, <4>2 DEF Editor!ReadDraft
        <5>2. Editor!StartCode(slot, k)' = code
          BY <5>1, NoneIsNothing DEF Editor!StartCode
        <5> QED
          BY <1>1, <4>2, <5>2 DEF DraftsTyped
      <4>3. CASE k # l
        <5>1. Editor!ReadDraft(slot, k)' = Editor!ReadDraft(slot, k)
          BY <1>7, <4>1, <4>3 DEF Editor!ReadDraft
        <5>2. Editor!StartCode(slot, k)' = Editor!StartCode(slot, k)
          BY <5>1 DEF Editor!StartCode
        <5> QED
          BY <1>1, <2>1, <4>3, <5>2 DEF DraftsTyped
      <4> QED
        BY <4>2, <4>3
    <3> QED
      BY <3>1, <3>2
  <2> QED
    BY <2>2, <2>3
<1> QED
  BY <1>6, <1>7 DEF Editor!ReloadKeepsWork

LEMMA DraftsInit == Editor!Init => DraftsInv
<1> SUFFICES ASSUME Editor!Init
             PROVE  DraftsInv
  OBVIOUS
<1>1. EditorInv
  BY EditorInit
<1>2. ASSUME NEW s \in Slots
      PROVE  sent[s] \in Seq(Sent)
  <2>1. PICK first \in {<<>>} \cup {<<[lang |-> l, code |-> "sent"]>> : l \in Editor!Offered \cup {Gone}} :
          sent = [t \in Slots |-> first]
    BY DEF Editor!Init
  <2>2. CASE first = <<>>
    BY <2>1, <2>2
  <2>3. CASE \E l \in Editor!Offered \cup {Gone} : first = <<[lang |-> l, code |-> "sent"]>>
    <3>1. PICK l \in Editor!Offered \cup {Gone} : first = <<[lang |-> l, code |-> "sent"]>>
      BY <2>3
    <3>2. [lang |-> l, code |-> "sent"] \in Sent
      BY NoneIsNothing DEF Sent
    <3> QED
      BY <2>1, <3>1, <3>2
  <2> QED
    BY <2>1, <2>2, <2>3
<1>3. sent \in [Slots -> Seq(Sent)]
  <2>1. DOMAIN sent = Slots /\ sent = [s \in Slots |-> sent[s]]
    BY DEF Editor!Init
  <2> QED
    BY <1>2, <2>1
<1>4. DraftsTyped
  BY <1>3, NoneIsNothing DEF DraftsTyped, Editor!Init
<1>5. Editor!ReloadKeepsWork
  BY DEF Editor!ReloadKeepsWork, Editor!Init
<1> QED
  BY <1>1, <1>4, <1>5 DEF DraftsInv

LEMMA DraftsStep == DraftsInv /\ Editor!Next => DraftsInv'
<1> SUFFICES ASSUME DraftsInv, Editor!Next
             PROVE  DraftsTyped' /\ Editor!ReloadKeepsWork'
  BY EditorStep DEF DraftsInv
<1> USE NoneIsNothing
<1>1. EditorInv /\ DraftsTyped
  BY DEF DraftsInv
<1>2. CASE Editor!ReloadPage
  <2> DEFINE none == [s \in Slots |-> [l \in Editor!Offered |-> Editor!NoModel]]
  <2>1. slot \in Slots
    BY <1>1, <1>2 DEF EditorInv, Editor!ReloadPage
  <2>2. /\ DOMAIN none = Slots /\ \A t \in Slots : DOMAIN none[t] = Editor!Offered
        /\ \A t \in Slots, l \in Editor!Offered : none[t][l] \in Models \cup {Editor!NoModel}
    OBVIOUS
  <2>3. Editor!Mounted(slot, none) /\ UNCHANGED <<drafts, remembered, storage, sent, foreign>>
    BY <1>2 DEF Editor!ReloadPage, Editor!stored, Editor!bounds
  <2> HIDE DEF none
  <2> QED
    BY ONLY <1>1, <2>1, <2>2, <2>3, MountedKeeps
<1>3. CASE \E s \in Slots : Editor!Visit(s)
  <2>1. PICK s \in Slots : Editor!Visit(s)
    BY <1>3
  <2>2. Editor!Mounted(s, models) /\ UNCHANGED <<drafts, remembered, storage, sent, foreign>>
    BY <2>1 DEF Editor!Visit, Editor!stored, Editor!bounds
  <2>3. /\ DOMAIN models = Slots /\ \A t \in Slots : DOMAIN models[t] = Editor!Offered
        /\ \A t \in Slots, l \in Editor!Offered : models[t][l] \in Models \cup {Editor!NoModel}
    BY <1>1 DEF EditorInv, DraftsTyped
  <2> QED
    BY ONLY <1>1, <2>2, <2>3, MountedKeeps
<1>4. language \in Editor!Offered /\ codes[language] \in Editor!Codes
  BY <1>1 DEF EditorInv, DraftsTyped
<1>5. ASSUME NEW m \in Models, NEW code \in Editor!Codes, Editor!CanEdit, Editor!Put(m, code)
      PROVE  DraftsTyped' /\ Editor!ReloadKeepsWork'
  <2>1. /\ slot # None
        /\ models' = [models EXCEPT ![slot][language] = m]
        /\ codes' = [codes EXCEPT ![language] = code]
        /\ drafts' = Editor!DraftWritten(language, code)
        /\ remembered' = remembered /\ language' = language
        /\ UNCHANGED <<slot, storage, sent, startCodes, foreign>>
    BY <1>5 DEF Editor!CanEdit, Editor!Put
  <2> QED
    BY ONLY DraftsInv, <1>4, <2>1, PutKeeps, m \in Models, code \in Editor!Codes
<1>6. ASSUME Editor!CanEdit
      PROVE  Editor!OnScreen \in Models
  BY <1>1, <1>6, ScreenModel DEF Editor!CanEdit
<1>7. CASE \E code \in Typed : Editor!Type(code)
  <2>1. PICK code \in Typed : Editor!Type(code)
    BY <1>7
  <2>2. Editor!CanEdit /\ Editor!Put(Editor!Edited(Editor!OnScreen, code), code)
    BY <2>1 DEF Editor!Type
  <2> QED
    BY <1>5, <1>6, <2>2, EditedModel
<1>8. CASE Editor!Undo
  <2>1. /\ Editor!CanEdit /\ Editor!OnScreen.past # <<>>
        /\ Editor!Put(Editor!Undone(Editor!OnScreen), Editor!Undone(Editor!OnScreen).text)
    BY <1>8 DEF Editor!Undo
  <2>2. Editor!Undone(Editor!OnScreen) \in Models
    BY <1>6, <2>1, UndoneModel
  <2>3. Editor!Undone(Editor!OnScreen).text \in Editor!Codes
    BY <2>2 DEF Models
  <2> QED
    BY <1>5, <2>1, <2>2, <2>3
<1>9. CASE Editor!Redo
  <2>1. /\ Editor!CanEdit /\ Editor!OnScreen.future # <<>>
        /\ Editor!Put(Editor!Redone(Editor!OnScreen), Editor!Redone(Editor!OnScreen).text)
    BY <1>9 DEF Editor!Redo
  <2>2. Editor!Redone(Editor!OnScreen) \in Models
    BY <1>6, <2>1, UndoneModel
  <2>3. Editor!Redone(Editor!OnScreen).text \in Editor!Codes
    BY <2>2 DEF Models
  <2> QED
    BY <1>5, <2>1, <2>2, <2>3
<1>10. CASE Editor!Reset
  <2>1. Editor!CanEdit /\ Editor!Put(Editor!Edited(Editor!OnScreen, Editor!Template), Editor!Template)
    BY <1>10 DEF Editor!Reset
  <2> QED
    BY <1>5, <1>6, <2>1, EditedModel
<1>11. ASSUME slot # None, NEW l \in Editor!Offered, NEW code \in Editor!Codes
       PROVE  Editor!CaughtUp(Editor!Seeded(models[slot][l], startCodes[l]), code) \in Models
  <2>1. slot \in Slots
    BY <1>1, <1>11 DEF EditorInv
  <2>2. models[slot][l] \in Models \cup {Editor!NoModel} /\ startCodes[l] \in Editor!Codes
    BY <1>1, <2>1 DEF DraftsTyped
  <2> QED
    BY <2>2, SeededModel, EditedModel
<1>12. CASE \E l \in Editor!Offered : Editor!SetLanguage(l)
  <2>1. PICK l \in Editor!Offered : Editor!SetLanguage(l)
    BY <1>12
  <2> DEFINE m == Editor!CaughtUp(Editor!Seeded(models[slot][l], startCodes[l]), codes[l])
  <2>2. /\ slot # None /\ models' = [models EXCEPT ![slot][l] = m]
        /\ language' = l /\ remembered' = Editor!LanguageWritten(l)
        /\ UNCHANGED <<slot, storage, sent, startCodes, foreign>>
    BY <2>1 DEF Editor!SetLanguage, Editor!CanEdit, Editor!Shown
  <2>3. codes' = [codes EXCEPT ![l] = codes[l]] /\ codes[l] \in Editor!Codes
    BY <1>1, <2>1 DEF Editor!SetLanguage, DraftsTyped
  <2>4. \/ drafts' = Editor!DraftWritten(l, codes[l])
        \/ drafts' = drafts
    BY <2>1 DEF Editor!SetLanguage
  <2>5. m \in Models
    BY <1>11, <2>2, <2>3
  <2> HIDE DEF m
  <2> QED
    BY ONLY DraftsInv, <2>2, <2>3, <2>4, <2>5, PutKeeps
<1>13. CASE \E i \in 1..(MaxSubmits + 1) : slot # None /\ Editor!LoadSubmission(i)
  <2>1. PICK i \in 1..(MaxSubmits + 1) : slot # None /\ Editor!LoadSubmission(i)
    BY <1>13
  <2> DEFINE r == sent[slot][i]
             m == Editor!CaughtUp(Editor!Seeded(models[slot][r.lang], startCodes[r.lang]), r.code)
  <2>2. slot # None /\ i \in DOMAIN sent[slot] /\ r.lang \in Editor!Offered
    BY <2>1 DEF Editor!LoadSubmission
  <2>3. /\ models' = [models EXCEPT ![slot][r.lang] = m]
        /\ language' = r.lang /\ remembered' = Editor!LanguageWritten(r.lang)
        /\ codes' = [codes EXCEPT ![r.lang] = r.code]
        /\ drafts' = Editor!DraftWritten(r.lang, r.code)
        /\ UNCHANGED <<slot, storage, sent, startCodes, foreign>>
    BY <2>1 DEF Editor!LoadSubmission, Editor!Shown
  <2>4. r.code \in Editor!Codes
    <3>1. sent[slot] \in Seq(Sent)
      BY <1>1, <2>2 DEF DraftsTyped, EditorInv
    <3>2. r \in Sent
      BY <2>2, <3>1, LenProperties, ElementOfSeq
    <3> QED
      BY <3>2 DEF Sent
  <2>5. m \in Models
    BY <1>11, <2>2, <2>4
  <2> HIDE DEF r, m
  <2> QED
    BY ONLY DraftsInv, <2>2, <2>3, <2>4, <2>5, PutKeeps
<1>14. CASE Editor!Submit
  <2> DEFINE row == [lang |-> language, code |-> codes[language]]
  <2>1. /\ slot \in Slots /\ slot # None
        /\ sent' = [sent EXCEPT ![slot] = <<row>> \o sent[slot]]
        /\ UNCHANGED <<drafts, remembered, storage, slot, language, codes, startCodes, models, foreign>>
    BY <1>1, <1>14 DEF Editor!Submit, Editor!stored, Editor!hook, EditorInv
  <2>2. row \in Sent /\ sent[slot] \in Seq(Sent) /\ sent \in [Slots -> Seq(Sent)]
    BY <1>1, <1>4, <2>1 DEF DraftsTyped, Sent
  <2>3. row.lang = language /\ row.code = codes[language]
    OBVIOUS
  <2> HIDE DEF row
  <2>4. <<row>> \o sent[slot] \in Seq(Sent) /\ <<row>> \o sent[slot] # <<>> /\ Head(<<row>> \o sent[slot]) = row
    BY <2>2
  <2>5. sent'[slot] = <<row>> \o sent[slot] /\ sent' \in [Slots -> Seq(Sent)]
    BY <2>1, <2>2, <2>4
  <2>6. DraftsTyped'
    BY <1>1, <2>1, <2>5 DEF DraftsTyped
  <2>7. ASSUME storage = "ok", foreign = 0
        PROVE  /\ Editor!StartLanguage(slot)' = language'
               /\ \A l \in Editor!Offered : Editor!StartCode(slot, l)' = codes'[l]
    <3>1. /\ Editor!StartLanguage(slot) = language
          /\ \A l \in Editor!Offered : Editor!StartCode(slot, l) = codes[l]
      BY <2>1, <2>7 DEF DraftsInv, Editor!ReloadKeepsWork
    <3>2. Editor!ReadLanguage(slot)' = Editor!ReadLanguage(slot)
      BY <2>1 DEF Editor!ReadLanguage
    <3>3. Editor!StartLanguage(slot)' = language
      BY <1>4, <2>1, <2>3, <2>4, <2>5, <3>1, <3>2 DEF Editor!StartLanguage
    <3>4. ASSUME NEW l \in Editor!Offered
          PROVE  Editor!StartCode(slot, l)' = codes[l]
      <4> DEFINE old == SentIn(sent[slot], l)
                 p   == <<row>> \o sent[slot]
                 new == SentIn(p, l)
      <4>1. IF row.lang = l THEN new # {} /\ p[Editor!Min(new)] = row
            ELSE /\ old = {} <=> new = {}
                 /\ old # {} => p[Editor!Min(new)] = sent[slot][Editor!Min(old)]
        <5>1. \A q \in Seq(Sent), x \in Sent :
                IF x.lang = l
                THEN /\ SentIn(<<x>> \o q, l) # {}
                     /\ (<<x>> \o q)[Editor!Min(SentIn(<<x>> \o q, l))] = x
                ELSE /\ SentIn(q, l) = {} <=> SentIn(<<x>> \o q, l) = {}
                     /\ SentIn(q, l) # {} =>
                          (<<x>> \o q)[Editor!Min(SentIn(<<x>> \o q, l))] = q[Editor!Min(SentIn(q, l))]
          BY ONLY FirstSent
        <5> QED
          BY ONLY <2>2, <5>1
      <4>2. Editor!ReadDraft(slot, l)' = Editor!ReadDraft(slot, l)
        BY <2>1 DEF Editor!ReadDraft
      <4>3. Editor!StartCode(slot, l) =
              CASE Editor!ReadDraft(slot, l) # None -> Editor!ReadDraft(slot, l)
                [] Editor!ReadDraft(slot, l) = None /\ old # {} -> sent[slot][Editor!Min(old)].code
                [] OTHER -> Editor!Template
        BY DEF Editor!StartCode, SentIn
      <4>4. Editor!StartCode(slot, l)' =
              CASE Editor!ReadDraft(slot, l) # None -> Editor!ReadDraft(slot, l)
                [] Editor!ReadDraft(slot, l) = None /\ new # {} -> p[Editor!Min(new)].code
                [] OTHER -> Editor!Template
        BY <2>1, <2>5, <4>2 DEF Editor!StartCode, SentIn
      <4> HIDE DEF old, p, new
      <4>5. Editor!StartCode(slot, l) = codes[l]
        BY <3>1
      <4> QED
        BY ONLY <2>3, <4>1, <4>3, <4>4, <4>5
    <3> QED
      BY <2>1, <3>3, <3>4
  <2> QED
    BY <2>1, <2>6, <2>7 DEF Editor!ReloadKeepsWork
<1>15. CASE Editor!FillUp
  BY <1>1, <1>15 DEF Editor!FillUp, Editor!hook, Editor!bounds, DraftsTyped,
     Editor!ReloadKeepsWork
<1>16. CASE \E s \in Slots, l \in Editor!Offered : Editor!ForeignDraft(s, l)
  <2>1. PICK s \in Slots, l \in Editor!Offered : Editor!ForeignDraft(s, l)
    BY <1>16
  <2>2. /\ drafts' = [drafts EXCEPT ![s][l] = "theirs"] /\ remembered' = [remembered EXCEPT ![s] = l]
        /\ foreign' = foreign + 1
        /\ UNCHANGED <<storage, sent, slot, language, codes, startCodes, models>>
    BY <2>1 DEF Editor!ForeignDraft, Editor!hook
  <2>3. foreign' \in Nat /\ foreign' # 0
    BY <1>1, <2>2 DEF DraftsTyped
  <2>4. drafts \in [Slots -> [Editor!Offered -> Editor!Codes \cup {None}]]
    BY <1>1 DEF DraftsTyped
  <2>5. drafts' \in [Slots -> [Editor!Offered -> Editor!Codes \cup {None}]]
    BY <2>2, <2>4
  <2>6. DraftsTyped'
    BY <1>1, <2>2, <2>3, <2>5 DEF DraftsTyped
  <2> QED
    BY <2>3, <2>6 DEF Editor!ReloadKeepsWork
<1> QED
  BY <1>2, <1>3, <1>7, <1>8, <1>9, <1>10, <1>12, <1>13, <1>14, <1>15, <1>16 DEF Editor!Next

-----------------------------------------------------------------------------
(* The sign-in pages.                                                       *)

Tries ==
  [kind : {"form", "start"}, nr : Nat, from : {"/", "/private"}, form : BOOLEAN]

Locations == {"/private", "/private?q"}

SignInTyped ==
  /\ tries \subseteq Tries /\ begun \in Nat /\ from \in {None} \cup Locations
  /\ auth \in BOOLEAN /\ starting \in BOOLEAN
  /\ away # None => away.from \in {None} \cup Locations
  /\ goal \in {None} \cup Locations

\* No sign-in is in flight while the session is restored, once the browser has left
\* for a provider, and on a page a guest can read or is turned away from.
QuietPlaces ==
  /\ starting \/ away # None \/ path = "/callback" => tries = {}
  /\ ~auth /\ path \in {"/"} \cup Locations => tries = {}

\* The sign-in page that knows where the reader wanted to go.
SentToLogin(p, f) == p = "/login" /\ f \in Locations /\ ~auth /\ ~starting

\* A reader whom PrivateRoute turned away, and who has not gone another way since, is
\* there, or still signed out: on the sign-in page, or on the journey with the page remembered.  At most
\* one sign-in is in flight, and it leads back there.
OnTheWay ==
  goal \in Locations /\ ~missed =>
    /\ \A t \in tries : t.from = "/private" /\ t.form /\ (t.kind = "start" => stash = "/private")
    /\ \A t, u \in tries : t = u
    /\ tries # {} => loading /\ path = "/login"
    /\ away = None => \/ path \in Locations \/ SentToLogin(path, from)
                      \/ path = "/callback" /\ stash = "/private" /\ ~auth /\ ~starting
    /\ away # None => stash = "/private" /\ SentToLogin(away.path, away.from)

SignInInv == SignInTyped /\ QuietPlaces /\ OnTheWay

LEMMA SignInInit == SignIn!Init => SignInInv
<1> SUFFICES ASSUME SignIn!Init
             PROVE  SignInInv
  OBVIOUS
<1>1. SignInTyped
  BY DEF SignIn!Init, SignInTyped
<1>2. QuietPlaces
  BY DEF SignIn!Init, QuietPlaces
<1>3. OnTheWay
  BY AccountAssumption DEF SignIn!Init, OnTheWay, Locations
<1> QED
  BY <1>1, <1>2, <1>3 DEF SignInInv

\* Leaving a form does not change where its sign-in leads.
LEMMA DetachedTries ==
  ASSUME tries \subseteq Tries
  PROVE  /\ SignIn!Detached \subseteq Tries
         /\ tries = {} => SignIn!Detached = {}
BY DEF SignIn!Detached, Tries

\* Every step keeps the types.
LEMMA SignInTypes == SignInInv /\ SignIn!Next => SignInTyped'
<1> SUFFICES ASSUME SignInInv, SignIn!Next
             PROVE  SignInTyped'
  OBVIOUS
<1> USE DEF SignInTyped, SignIn!Goto, SignIn!Clean, Locations, SignIn!PrivatePages,
        SignIn!Private, SignIn!Deep
<1>0. SignInTyped /\ SignIn!Detached \subseteq Tries
  BY DetachedTries DEF SignInInv
<1>1. CASE \E ok \in BOOLEAN : SignIn!Hydrated(ok)
  BY <1>0, <1>1 DEF SignIn!Hydrated, SignIn!route
<1>2. CASE SignIn!PrivateRoute \/ SignIn!GuestRoute
  BY <1>0, <1>2 DEF SignIn!PrivateRoute, SignIn!GuestRoute
<1>3. CASE SignIn!Submit \/ SignIn!StartOAuth
  <2>1. PICK kind_ \in {"form", "start"} : SignIn!Begin(kind_)
    BY <1>3 DEF SignIn!Submit, SignIn!StartOAuth, SignIn!LoginForm, SignIn!RegisterForm,
       SignIn!OAuthButtons
  <2>2. [kind |-> kind_, nr |-> begun, from |-> SignIn!Origin, form |-> TRUE] \in Tries
    BY <1>0 DEF Tries, SignIn!Origin, SignIn!PathOf, SignIn!Home
  <2>3. tries' \subseteq Tries
    BY <1>0, <2>1, <2>2 DEF SignIn!Begin
  <2>4. begun' = begun + 1 /\ UNCHANGED <<from, auth, starting, away>>
    BY <2>1 DEF SignIn!Begin, SignIn!route
  <2>5. goal' = goal
    BY <2>1 DEF SignIn!Begin
  <2> QED
    BY <1>0, <2>3, <2>4, <2>5
<1>4. CASE \E t \in tries : SignIn!Accepted(t) \/ SignIn!Rejected(t) \/ SignIn!Redirected(t)
  <2>1. PICK t \in tries : SignIn!Accepted(t) \/ SignIn!Rejected(t) \/ SignIn!Redirected(t)
    BY <1>4
  <2>2. CASE SignIn!Accepted(t)
    BY <1>0, <2>2 DEF SignIn!Accepted
  <2>3. CASE SignIn!Rejected(t)
    BY <1>0, <2>3 DEF SignIn!Rejected, SignIn!route
  <2>4. CASE SignIn!Redirected(t)
    BY <1>0, <2>4 DEF SignIn!Redirected, SignIn!route
  <2> QED
    BY <2>1, <2>2, <2>3, <2>4
<1>5. CASE SignIn!Back \/ SignIn!Returned \/ SignIn!Redeemed \/ SignIn!RedeemFails
  BY <1>0, <1>5 DEF SignIn!Back, SignIn!Returned, SignIn!Redeemed, SignIn!RedeemFails
<1>6. CASE SignIn!Switch \/ SignIn!Reload \/ SignIn!Logout
  BY <1>0, <1>6 DEF SignIn!Switch, SignIn!Reload, SignIn!Logout, SignIn!route, SignIn!Moves
<1>7. CASE \E p \in SignIn!GuestPaths \cup SignIn!PrivatePages \cup {SignIn!Home} : SignIn!Follow(p)
  BY <1>0, <1>7 DEF SignIn!Follow, SignIn!Moves
<1>9. CASE SignIn!Expired
  BY <1>0, <1>9 DEF SignIn!Expired
<1> QED
  BY <1>1, <1>2, <1>3, <1>4, <1>5, <1>6, <1>7, <1>9 DEF SignIn!Next

\* Every step keeps the quiet places quiet: a form is only sent by a guest who is on a
\* sign-in page, and who leaves one is signed in, or drops what was in flight.
LEMMA SignInQuiet == SignInInv /\ SignIn!Next => QuietPlaces'
<1> SUFFICES ASSUME SignInInv, SignIn!Next
             PROVE  QuietPlaces'
  OBVIOUS
<1> USE DEF QuietPlaces, SignIn!Goto, SignIn!Clean, SignIn!Home, SignIn!GuestPaths, Locations,
        SignIn!PrivatePages, SignIn!Private, SignIn!Deep
<1>0. QuietPlaces /\ (tries = {} => SignIn!Detached = {})
  BY DetachedTries DEF SignInInv, SignInTyped
<1>1. CASE \E ok \in BOOLEAN : SignIn!Hydrated(ok)
  BY <1>0, <1>1 DEF SignIn!Hydrated, SignIn!route
<1>2. CASE SignIn!PrivateRoute \/ SignIn!GuestRoute
  BY <1>0, <1>2 DEF SignIn!PrivateRoute, SignIn!GuestRoute
<1>3. CASE SignIn!Submit \/ SignIn!StartOAuth
  <2>1. PICK kind_ \in {"form", "start"} : SignIn!Begin(kind_)
    BY <1>3 DEF SignIn!Submit, SignIn!StartOAuth, SignIn!LoginForm, SignIn!RegisterForm,
       SignIn!OAuthButtons
  <2> QED
    BY <1>0, <2>1 DEF SignIn!Begin, SignIn!AtForms, SignIn!route
<1>4. CASE \E t \in tries : SignIn!Accepted(t) \/ SignIn!Rejected(t) \/ SignIn!Redirected(t)
  <2>1. PICK t \in tries : SignIn!Accepted(t) \/ SignIn!Rejected(t) \/ SignIn!Redirected(t)
    BY <1>4
  <2>2. ~starting /\ away = None /\ path # "/callback"
    BY <1>0
  <2>3. t.from # "/callback"
    BY DEF SignInInv, SignInTyped, Tries
  <2>4. CASE SignIn!Accepted(t)
    BY <2>2, <2>3, <2>4 DEF SignIn!Accepted
  <2>5. CASE SignIn!Rejected(t)
    BY <1>0, <2>5 DEF SignIn!Rejected, SignIn!route
  <2>6. CASE SignIn!Redirected(t)
    BY <2>6 DEF SignIn!Redirected
  <2> QED
    BY <2>1, <2>4, <2>5, <2>6
<1>5. CASE SignIn!Back \/ SignIn!Returned \/ SignIn!Redeemed \/ SignIn!RedeemFails
  BY <1>0, <1>5 DEF SignIn!Back, SignIn!Returned, SignIn!Redeemed, SignIn!RedeemFails
<1>6. CASE SignIn!Switch \/ SignIn!Reload \/ SignIn!Logout
  BY <1>0, <1>6 DEF SignIn!Switch, SignIn!Reload, SignIn!Logout, SignIn!route, SignIn!Moves,
     SignIn!AtForms
<1>7. CASE \E p \in SignIn!GuestPaths \cup SignIn!PrivatePages \cup {SignIn!Home} : SignIn!Follow(p)
  BY <1>0, <1>7 DEF SignIn!Follow, SignIn!Moves
<1>9. CASE SignIn!Expired
  BY <1>0, <1>9 DEF SignIn!Expired
<1> QED
  BY <1>1, <1>2, <1>3, <1>4, <1>5, <1>6, <1>7, <1>9 DEF SignIn!Next

\* Every step keeps a reader on the way, or takes them another way.
LEMMA SignInGoes == SignInInv /\ SignIn!Next => OnTheWay'
<1> SUFFICES ASSUME SignInInv, SignIn!Next, goal' \in Locations, ~missed'
             PROVE  OnTheWay'
  BY DEF OnTheWay
<1> USE DEF OnTheWay, SentToLogin, SignIn!Goto, SignIn!Clean, SignIn!Home, Locations,
        SignIn!PrivatePages, SignIn!Private, SignIn!Deep
<1>0. SignInTyped /\ QuietPlaces /\ OnTheWay
  BY DEF SignInInv
<1>n. None \notin Locations
  BY AccountAssumption
<1>1. CASE \E ok \in BOOLEAN : SignIn!Hydrated(ok)
  BY <1>0, <1>1 DEF SignIn!Hydrated, SignIn!route
<1>2. CASE SignIn!PrivateRoute
  BY <1>0, <1>2 DEF SignIn!PrivateRoute, QuietPlaces
<1>3. CASE SignIn!GuestRoute
  BY <1>0, <1>3 DEF SignIn!GuestRoute, SignIn!GuestPaths
<1>4. CASE SignIn!Submit \/ SignIn!StartOAuth
  <2>1. PICK kind_ \in {"form", "start"} :
          SignIn!Begin(kind_) /\ (kind_ = "start" => stash' = SignIn!Origin)
                              /\ (kind_ = "form" => stash' = stash)
    BY <1>4 DEF SignIn!Submit, SignIn!StartOAuth, SignIn!LoginForm, SignIn!RegisterForm,
       SignIn!OAuthButtons, SignIn!Stashed
  <2>2. goal \in Locations /\ ~missed /\ away = None /\ path = "/login" /\ from \in Locations
        /\ ~auth /\ ~starting
    BY <1>0, <2>1 DEF SignIn!Begin, SignIn!AtForms, SignIn!GuestPaths
  <2>3. SignIn!Origin = "/private"
    BY <2>2, <1>n DEF SignIn!Origin, SignIn!PathOf
  <2> DEFINE t == [kind |-> kind_, nr |-> begun, from |-> SignIn!Origin, form |-> TRUE]
  <2>4. tries' = tries \cup {t} /\ t.from = "/private" /\ t.kind = kind_
    BY <2>1, <2>3 DEF SignIn!Begin
  <2>5. UNCHANGED <<path, from, auth, starting, away, goal, missed>>
    BY <2>1 DEF SignIn!Begin, SignIn!route
  <2> HIDE DEF t
  <2>6. stash' = "/private" \/ (stash' = stash /\ kind_ = "form")
    BY <2>1, <2>3
  <2>7. tries = {} /\ loading'
    BY <1>0, <2>1, <2>2 DEF SignIn!Begin
  <2>8. t.form
    BY DEF t
  <2> QED
    BY <1>0, <2>2, <2>4, <2>5, <2>6, <2>7, <2>8
<1>5. CASE \E t \in tries : SignIn!Accepted(t) \/ SignIn!Rejected(t) \/ SignIn!Redirected(t)
  <2>1. PICK t \in tries : SignIn!Accepted(t) \/ SignIn!Rejected(t) \/ SignIn!Redirected(t)
    BY <1>5
  <2>2. CASE SignIn!Accepted(t)
    <3>1. goal \in Locations /\ ~missed /\ t.from = "/private" /\ away' = None /\ stash' = stash
          /\ path' = "/private"
      BY <1>0, <2>2 DEF SignIn!Accepted
    <3>2. tries' = {}
      BY <1>0, <2>2, <3>1 DEF SignIn!Accepted, SignIn!Detached
    <3> QED
      BY <3>1, <3>2
  <2>3. CASE SignIn!Rejected(t)
    BY <1>0, <2>3 DEF SignIn!Rejected, SignIn!route
  <2>4. CASE SignIn!Redirected(t)
    BY <1>0, <2>4 DEF SignIn!Redirected, SignIn!route, QuietPlaces
  <2> QED
    BY <2>1, <2>2, <2>3, <2>4
<1>6. CASE SignIn!Back \/ SignIn!Returned \/ SignIn!Redeemed \/ SignIn!RedeemFails
  BY <1>0, <1>n, <1>6 DEF SignIn!Back, SignIn!Returned, SignIn!Redeemed, SignIn!RedeemFails,
     SignIn!Popped, QuietPlaces
<1>7. CASE SignIn!Switch \/ SignIn!Reload \/ SignIn!Logout
  BY <1>0, <1>n, <1>7 DEF SignIn!Switch, SignIn!Reload, SignIn!Logout, SignIn!route, SignIn!Moves
<1>8. CASE \E p \in SignIn!GuestPaths \cup SignIn!PrivatePages \cup {SignIn!Home} : SignIn!Follow(p)
  BY <1>n, <1>8 DEF SignIn!Follow
<1>9. CASE SignIn!Expired
  BY <1>0, <1>9 DEF SignIn!Expired
<1> QED
  BY <1>1, <1>2, <1>3, <1>4, <1>5, <1>6, <1>7, <1>8, <1>9 DEF SignIn!Next

LEMMA SignInStep == SignInInv /\ SignIn!Next => SignInInv'
BY SignInTypes, SignInQuiet, SignInGoes DEF SignInInv

-----------------------------------------------------------------------------
(* The session.                                                             *)

Kinds == {"login", "redeem", "me", "edit", "password", "logout"}
Calls ==
  [kind : Kinds, who : Accounts \cup {None}, with : Nat, retry : BOOLEAN,
   stage : {"sent", "denied", "waiting", "answered"}, got : Nat, body : Nat]

Pairs == [owner : Accounts, live : BOOLEAN, fresh : BOOLEAN]

\* Requests that name pairs among the first n only.
CallsFit(cs, n) ==
  /\ cs \subseteq Calls
  /\ \A c \in cs : c.with <= n /\ c.got <= n
  /\ \A c \in cs : c.kind \in {"login", "redeem"} => c.who \in Accounts

SessionTyped ==
  /\ pairs \in Seq(Pairs)
  /\ access \in 0..Len(pairs) /\ refresh \in 0..Len(pairs) /\ other \in 0..Len(pairs)
  /\ CallsFit(calls, Len(pairs))
  /\ refreshing \in [stage : {"none", "sent", "ok", "refused"}, with : 0..Len(pairs),
                     got : 0..Len(pairs)]
  /\ refreshing.stage = "sent" => refreshing.with # 0
  /\ fails \in Nat /\ others \in Nat /\ reloads \in Nat

\* The second tab has a pair to store only after it did something.
OtherActed == other # 0 => others > 0

\* Signed out, with nothing left that could bring tokens.
StaysOut ==
  (out /\ others = 0 /\ ~straggler) =>
    /\ user = None /\ access = 0 /\ refresh = 0
    /\ refreshing.stage = "none"
    /\ \A c \in calls : c.kind \in {"edit", "logout"}

\* Nothing happened that could cost the session.
Undisturbed == fails = 0 /\ others = 0 /\ reloads = 0 /\ ~changed /\ ~left

Answered(c) == c.kind \in {"login", "redeem"} /\ c.stage = "answered"

\* A guest's tab has one request in flight at most, and tokens only while that is me/.
OneAtATime ==
  /\ \A c \in calls : c.kind # "logout" /\ (user = None <=> c.kind \in {"login", "redeem", "me"})
  /\ user = None => (\A c, d \in calls : c = d) /\ (access = 0 \/ calls # {})
  /\ \A c \in calls : c.kind \in {"login", "redeem"} =>
       access = 0 /\ c.with = 0 /\ c.stage # "waiting"
  /\ \A c \in calls : c.kind = "me" /\ c.stage = "answered" => c.got # 0
  /\ \A c \in calls : c.kind = "password" => c.stage # "answered"
  /\ access = 0 <=> refresh = 0
  /\ refreshing.stage # "none" => \E c \in calls : c.stage = "waiting"

\* Whatever refresh token is stored, on its way or being redeemed has not been used.
Unused ==
  /\ ~kicked /\ refreshing.stage # "refused"
  /\ refreshing.stage = "none" /\ refresh # 0 => pairs[refresh].live
  /\ refreshing.stage = "sent" => pairs[refreshing.with].live
  /\ refreshing.stage = "ok" => refreshing.got # 0 /\ pairs[refreshing.got].live
  /\ \A c \in calls : Answered(c) => c.got # 0 /\ pairs[c.got].live

SurvivesInv == Undisturbed => OneAtATime /\ Unused

\* Nobody else had the tokens, no request was lost, and no answer outlived its session.
Alone == fails = 0 /\ others = 0 /\ ~straggler

Guests == {"login", "redeem", "me"}

\* Who may be calling: a guest signs in or is being looked up, a user works or signs out,
\* an edit may be left over from before.  There are tokens when there is a user, or
\* somebody is being looked up.
Callers ==
  /\ \A c \in calls : c.kind \in IF user = None THEN Guests \cup {"edit"}
                                 ELSE {"edit", "password", "logout"}
  /\ \A c, d \in calls : c.kind \in Guests /\ d.kind \in Guests => c = d
  /\ \A c, d \in calls : c.kind = "logout" /\ d.kind = "logout" => c = d
  /\ access = 0 <=> refresh = 0
  /\ access # 0 <=> user # None \/ \E c \in calls : c.kind = "me"
  /\ \A c \in calls : c.kind \in {"login", "redeem"} => c.with = 0 /\ access = 0
  /\ refreshing.stage # "none" => access # 0

\* Every token around is of one account, the one on screen.
OneOwner(u) ==
  /\ access # 0 => pairs[access].owner = u /\ pairs[refresh].owner = u
  /\ user # None => user = u
  /\ refreshing.stage = "sent" => pairs[refreshing.with].owner = u
  /\ refreshing.stage = "ok" => refreshing.got # 0 /\ pairs[refreshing.got].owner = u
  /\ \A c \in calls : c.kind \in {"me", "password"} =>
       /\ c.with # 0 /\ pairs[c.with].owner = u
       /\ c.stage = "answered" => c.got # 0 /\ pairs[c.got].owner = u

\* Whoever has just signed in has a refresh token nobody used.
FreshSignIn ==
  /\ \A c \in calls : Answered(c) => c.got # 0 /\ pairs[c.got].live
  /\ user = None /\ ~hydrating /\ access # 0 =>
       /\ refreshing.stage # "refused"
       /\ refreshing.stage = "none" => pairs[refresh].live
       /\ refreshing.stage = "sent" => pairs[refreshing.with].live
       /\ refreshing.stage = "ok" => pairs[refreshing.got].live

Aligned == Callers /\ FreshSignIn /\ \E u \in Accounts : OneOwner(u)

AlignedInv == Alone => Aligned

\* Edits made, and answered, as account u.
EditsOf(cs, ps, u) ==
  \A c \in cs : c.kind = "edit" =>
    /\ c.with # 0 /\ ps[c.with].owner = u
    /\ c.stage = "answered" => c.got # 0 /\ ps[c.got].owner = u

\* The fields on screen, and the edits under way, are of the account on screen.
Own ==
  /\ blend \subseteq {user}
  /\ user = None => blend = {} /\ \A c \in calls : c.kind # "edit"
  /\ EditsOf(calls, pairs, user)

OwnFields == Alone /\ ~overdue => Own

SessionInv ==
  SessionTyped /\ OtherActed /\ StaysOut /\ SurvivesInv /\ AlignedInv /\ OwnFields

\* What the server does to the pairs.
LEMMA KilledPairs ==
  ASSUME NEW ps \in Seq(Pairs), NEW k
  PROVE  /\ Session!Killed(ps, k) \in Seq(Pairs) /\ Len(Session!Killed(ps, k)) = Len(ps)
         /\ \A i \in 1..Len(ps) : /\ Session!Killed(ps, k)[i].live <=> (ps[i].live /\ i # k)
                                  /\ Session!Killed(ps, k)[i].owner = ps[i].owner
<1>1. \A r \in Pairs, b \in BOOLEAN :
        /\ [r EXCEPT !.live = b] \in Pairs /\ ([r EXCEPT !.live = b].live <=> b)
        /\ [r EXCEPT !.live = b].owner = r.owner
  BY DEF Pairs
<1>2. Len(ps) \in Nat /\ DOMAIN ps = 1..Len(ps) /\ \A i \in 1..Len(ps) : ps[i] \in Pairs
  OBVIOUS
<1>3. \A i \in 1..Len(ps) :
        LET r == [ps[i] EXCEPT !.live = @ /\ i # k] IN
        r \in Pairs /\ (r.live <=> (ps[i].live /\ i # k)) /\ r.owner = ps[i].owner
  BY <1>1, <1>2 DEF Pairs
<1>4. Session!Killed(ps, k) \in [1..Len(ps) -> Pairs]
  BY <1>2, <1>3 DEF Session!Killed
<1>5. \A f \in [1..Len(ps) -> Pairs] : f \in Seq(Pairs) /\ Len(f) = Len(ps)
  BY <1>2
<1>6. \A i \in 1..Len(ps) : Session!Killed(ps, k)[i] = [ps[i] EXCEPT !.live = @ /\ i # k]
  BY <1>2 DEF Session!Killed
<1> QED
  BY <1>3, <1>4, <1>5, <1>6

LEMMA RevokedPairs ==
  ASSUME NEW ps \in Seq(Pairs), NEW u
  PROVE  /\ Session!Revoked(ps, u) \in Seq(Pairs) /\ Len(Session!Revoked(ps, u)) = Len(ps)
         /\ \A i \in 1..Len(ps) : Session!Revoked(ps, u)[i].owner = ps[i].owner
<1>1. \A r \in Pairs, b \in BOOLEAN :
        [r EXCEPT !.live = b] \in Pairs /\ [r EXCEPT !.live = b].owner = r.owner
  BY DEF Pairs
<1>2. Len(ps) \in Nat /\ DOMAIN ps = 1..Len(ps) /\ \A i \in 1..Len(ps) : ps[i] \in Pairs
  OBVIOUS
<1>3. \A i \in 1..Len(ps) :
        LET r == [ps[i] EXCEPT !.live = @ /\ ps[i].owner # u] IN
        r \in Pairs /\ r.owner = ps[i].owner
  BY <1>1, <1>2 DEF Pairs
<1>4. Session!Revoked(ps, u) \in [1..Len(ps) -> Pairs]
  BY <1>2, <1>3 DEF Session!Revoked
<1>5. \A f \in [1..Len(ps) -> Pairs] : f \in Seq(Pairs) /\ Len(f) = Len(ps)
  BY <1>2
<1>6. \A i \in 1..Len(ps) : Session!Revoked(ps, u)[i] = [ps[i] EXCEPT !.live = @ /\ ps[i].owner # u]
  BY <1>2 DEF Session!Revoked
<1> QED
  BY <1>3, <1>4, <1>5, <1>6

LEMMA MintedPair ==
  ASSUME NEW ps \in Seq(Pairs), NEW u \in Accounts
  PROVE  /\ Session!Minted(ps, u) \in Seq(Pairs) /\ Len(Session!Minted(ps, u)) = Len(ps) + 1
         /\ Session!Minted(ps, u)[Len(ps) + 1].live /\ Session!Minted(ps, u)[Len(ps) + 1].owner = u
         /\ \A i \in 1..Len(ps) : Session!Minted(ps, u)[i] = ps[i]
<1> DEFINE new == [owner |-> u, live |-> TRUE, fresh |-> TRUE]
<1>1. new \in Pairs /\ new.live /\ new.owner = u
  BY DEF Pairs
<1>2. Session!Minted(ps, u) = Append(ps, new)
  BY DEF Session!Minted
<1> HIDE DEF new
<1>3. /\ Append(ps, new) \in Seq(Pairs) /\ Len(Append(ps, new)) = Len(ps) + 1
      /\ Append(ps, new)[Len(ps) + 1] = new
      /\ \A i \in 1..Len(ps) : Append(ps, new)[i] = ps[i]
  BY <1>1
<1> QED
  BY <1>1, <1>2, <1>3

\* What the answers and the interceptor do to a request.
LEMMA CallChanges ==
  ASSUME NEW c \in Calls, NEW n \in Nat
  PROVE  /\ [c EXCEPT !.stage = "denied"] \in Calls
         /\ [c EXCEPT !.stage = "answered", !.got = n] \in Calls
         /\ [c EXCEPT !.stage = "waiting", !.retry = TRUE] \in Calls
         /\ [c EXCEPT !.stage = "sent", !.with = n] \in Calls
BY DEF Calls

\* A new request carries the stored access token, or a given one.
LEMMA NewCall ==
  ASSUME SessionTyped, NEW kind_ \in Kinds, NEW who \in Accounts \cup {None}
  PROVE  LET new == Session!Call(kind_, who) IN
         /\ new \in Calls /\ new.kind = kind_ /\ new.who = who /\ new.with = access
         /\ new.got = 0 /\ new.stage = "sent"
<1> DEFINE body == IF kind_ = "logout" THEN refresh ELSE 0
<1>1. access \in Nat /\ body \in Nat
  BY DEF SessionTyped
<1>2. PICK no \in BOOLEAN : no = FALSE
  OBVIOUS
<1> DEFINE rec == [kind |-> kind_, who |-> who, with |-> access, retry |-> no, stage |-> "sent",
                   got |-> 0, body |-> body]
<1>3. Session!Call(kind_, who) = rec
  BY <1>2, Zenon DEF Session!Call
<1> HIDE DEF body
<1>4. rec \in Calls /\ rec.kind = kind_ /\ rec.who = who /\ rec.with = access /\ rec.got = 0
      /\ rec.stage = "sent"
  BY <1>1 DEF Calls
<1> QED
  BY <1>3, <1>4

LEMMA CallWith ==
  ASSUME NEW c \in Calls, NEW n \in Nat
  PROVE  LET with == [c EXCEPT !.with = n] IN
         /\ with \in Calls /\ with.kind = c.kind /\ with.who = c.who /\ with.with = n
         /\ with.got = c.got /\ with.stage = c.stage
BY DEF Calls

\* The new me/ request with token n.
LEMMA NewMe ==
  ASSUME SessionTyped, NEW n \in Nat
  PROVE  LET me == [Session!Call("me", None) EXCEPT !.with = n] IN
         /\ me \in Calls /\ me.kind = "me" /\ me.with = n /\ me.got = 0 /\ me.stage = "sent"
<1>1. PICK k \in Kinds : k = "me"
  BY DEF Kinds
<1>2. LET new == Session!Call(k, None) IN
      new \in Calls /\ new.kind = k /\ new.got = 0 /\ new.stage = "sent"
  BY NewCall
<1> DEFINE c == Session!Call("me", None)
<1>3. c \in Calls /\ c.kind = "me" /\ c.got = 0 /\ c.stage = "sent"
  BY <1>1, <1>2
<1> HIDE DEF c
<1>4. LET me == [c EXCEPT !.with = n] IN
      /\ me \in Calls /\ me.kind = "me" /\ me.with = n /\ me.got = 0 /\ me.stage = "sent"
  BY <1>3, CallWith
<1> QED
  BY <1>4 DEF c

\* Requests that change, leave and come keep fitting.
LEMMA CallsKeepFitting ==
  ASSUME NEW cs, NEW n \in Nat, NEW m \in Nat, n <= m, CallsFit(cs, n)
  PROVE  /\ CallsFit(cs, m)
         /\ \A c : CallsFit(cs \ {c}, m)
         /\ \A c \in cs, d \in Calls :
              d.with <= m /\ d.got <= m /\ d.kind = c.kind /\ d.who = c.who
                => CallsFit((cs \ {c}) \cup {d}, m)
<1>1. \A c \in cs : c.with \in Nat /\ c.got \in Nat
  BY DEF CallsFit, Calls
<1> QED
  BY <1>1 DEF CallsFit

\* What its caller does with a rejected request.
LEMMA RejectedCall ==
  ASSUME NEW c, c.kind \in Kinds, Session!Rejected(c)
  PROVE  /\ calls' = calls \ {c}
         /\ (access' = 0 /\ refresh' = 0) \/ UNCHANGED <<access, refresh>>
BY DEF Session!Rejected, Session!LoadFails, Session!SignedOut, Session!Done, Session!Cleared,
   Session!storage, Session!store, Kinds

\* What a page load leaves.
LEMMA LoadedCalls ==
  ASSUME SessionTyped, NEW acc \in 0..Len(pairs), Session!Loaded(acc)
  PROVE  CallsFit(calls', Len(pairs)) /\ refreshing' = Session!NoRefresh
<1>1. "me" \in Kinds /\ acc \in Nat /\ Len(pairs) \in Nat
  BY DEF Kinds, SessionTyped
<1> DEFINE me == [Session!Call("me", None) EXCEPT !.with = acc]
<1>2. me \in Calls /\ me.with = acc /\ me.got = 0 /\ me.kind = "me"
  BY <1>1, NewMe
<1>3. calls' = {} \/ calls' = {me}
  BY DEF Session!Loaded
<1> HIDE DEF me
<1>4. CallsFit({}, Len(pairs)) /\ CallsFit({me}, Len(pairs))
  BY <1>1, <1>2 DEF CallsFit
<1> QED
  BY <1>3, <1>4 DEF Session!Loaded

LEMMA ServeTypes ==
  ASSUME SessionTyped, NEW c \in calls, Session!Serve(c)
  PROVE  /\ pairs' \in Seq(Pairs) /\ Len(pairs) <= Len(pairs')
         /\ CallsFit(calls', Len(pairs'))
<1> DEFINE n == Len(pairs)
           answer(k) == [c EXCEPT !.stage = "answered", !.got = k]
<1>1. /\ c \in Calls /\ n \in Nat /\ c.with \in 0..n /\ c.got \in 0..n /\ pairs \in Seq(Pairs)
      /\ CallsFit(calls, n)
  BY DEF SessionTyped, CallsFit, Calls
<1>2. CASE ~Session!Authorized(c)
  <2> DEFINE d == [c EXCEPT !.stage = "denied"]
  <2>1. pairs' = pairs /\ calls' = (calls \ {c}) \cup {d}
    BY <1>2 DEF Session!Serve, Session!Turned
  <2>2. d \in Calls /\ d.with = c.with /\ d.got = c.got /\ d.kind = c.kind /\ d.who = c.who
    BY <1>1 DEF Calls
  <2> HIDE DEF d
  <2>3. CallsFit((calls \ {c}) \cup {d}, n)
    BY <1>1, <2>2, CallsKeepFitting
  <2> QED
    BY <1>1, <2>1, <2>3
<1>3. ASSUME NEW k \in Nat, NEW m \in Nat, n <= m, k <= m
      PROVE  CallsFit((calls \ {c}) \cup {answer(k)}, m)
  <2>1. answer(k) \in Calls /\ answer(k).with = c.with /\ answer(k).got = k
        /\ answer(k).kind = c.kind /\ answer(k).who = c.who
    BY <1>1, <1>3 DEF Calls
  <2> HIDE DEF answer
  <2> QED
    BY <1>1, <1>3, <2>1, CallsKeepFitting
<1>4. CASE Session!Authorized(c) /\ c.kind \in {"login", "redeem"}
  <2>1. pairs' = Session!Minted(pairs, c.who)
        /\ calls' = (calls \ {c}) \cup {answer(Len(pairs'))}
    BY <1>4 DEF Session!Serve, Session!Turned, Session!SignIns
  <2>2. c.who \in Accounts
    BY <1>1, <1>4 DEF CallsFit
  <2>3. pairs' \in Seq(Pairs) /\ Len(pairs') = n + 1
    BY <1>1, <2>1, <2>2, MintedPair
  <2> HIDE DEF answer
  <2> QED
    BY <1>1, <1>3, <2>1, <2>3
<1>5. CASE Session!Authorized(c) /\ c.kind = "password"
  <2>1. /\ pairs' = Session!Minted(Session!Revoked(pairs, pairs[c.with].owner),
                                   pairs[c.with].owner)
        /\ calls' = (calls \ {c}) \cup {answer(Len(pairs'))}
    BY <1>5 DEF Session!Serve, Session!Turned, Session!SignIns
  <2>2. pairs[c.with].owner \in Accounts
    <3>1. c.with \in 1..n
      BY <1>1, <1>5 DEF Session!Authorized
    <3>2. pairs[c.with] \in Pairs
      BY <1>1, <3>1
    <3> QED
      BY <3>2 DEF Pairs
  <2>3. /\ Session!Revoked(pairs, pairs[c.with].owner) \in Seq(Pairs)
        /\ Len(Session!Revoked(pairs, pairs[c.with].owner)) = n
    BY <1>1, <2>2, RevokedPairs
  <2>4. pairs' \in Seq(Pairs) /\ Len(pairs') = n + 1
    BY <2>1, <2>2, <2>3, MintedPair
  <2> HIDE DEF answer
  <2> QED
    BY <1>1, <1>3, <2>1, <2>4
<1>6. CASE Session!Authorized(c) /\ c.kind = "logout"
  <2>1. pairs' = Session!Killed(pairs, c.body) /\ calls' = (calls \ {c}) \cup {answer(0)}
    BY <1>6 DEF Session!Serve, Session!Turned, Session!SignIns
  <2>2. pairs' \in Seq(Pairs) /\ Len(pairs') = n
    BY <1>1, <2>1, KilledPairs
  <2> HIDE DEF answer
  <2> QED
    BY <1>1, <1>3, <2>1, <2>2
<1>7. CASE Session!Authorized(c) /\ c.kind \in {"me", "edit"}
  <2>1. pairs' = pairs /\ calls' = (calls \ {c}) \cup {answer(c.with)}
    BY <1>7 DEF Session!Serve, Session!Turned, Session!SignIns
  <2> HIDE DEF answer
  <2> QED
    BY <1>1, <1>3, <2>1
<1> QED
  BY <1>1, <1>2, <1>4, <1>5, <1>6, <1>7 DEF Calls, Kinds

\* Every step of the session keeps the types.
LEMMA SessionTypes ==
  ASSUME SessionTyped, Session!Next
  PROVE  SessionTyped'
<1> DEFINE n == Len(pairs)
<1>0. /\ pairs \in Seq(Pairs) /\ n \in Nat /\ CallsFit(calls, n) /\ calls \subseteq Calls
      /\ access \in 0..n /\ refresh \in 0..n /\ other \in 0..n
      /\ refreshing.stage \in {"none", "sent", "ok", "refused"}
      /\ refreshing.with \in 0..n /\ refreshing.got \in 0..n
      /\ refreshing = [stage |-> refreshing.stage, with |-> refreshing.with, got |-> refreshing.got]
      /\ refreshing.stage = "sent" => refreshing.with # 0
      /\ fails \in Nat /\ others \in Nat /\ reloads \in Nat
  BY DEF SessionTyped, CallsFit
<1>A. access \in Nat
  BY <1>0
<1>P. DOMAIN pairs = 1..n /\ \A k \in 1..n : pairs[k] \in Pairs /\ pairs[k].owner \in Accounts
  <2>1. DOMAIN pairs = 1..n /\ \A k \in 1..n : pairs[k] \in Pairs
    BY <1>0
  <2> QED
    BY <2>1 DEF Pairs
<1>N. Session!NoRefresh.stage = "none" /\ Session!NoRefresh \in [stage : {"none", "sent", "ok", "refused"}, with : 0..n, got : 0..n]
  BY <1>0 DEF Session!NoRefresh
<1>C. \A cs : cs \subseteq calls => CallsFit(cs, n)
  BY <1>0 DEF CallsFit
<1>S. \A d \in Calls : d.with <= n /\ d.got <= n /\ (d.kind \in {"login", "redeem"} => d.who \in Accounts)
        => CallsFit(calls \cup {d}, n)
  BY <1>0 DEF CallsFit
<1>K. \A k \in Kinds, u \in Accounts \cup {None} :
        LET d == Session!Call(k, u) IN
        d \in Calls /\ d.kind = k /\ d.who = u /\ d.with = access /\ d.got = 0
  BY NewCall
<1> USE DEF SessionTyped
<1>1. CASE \E k \in 1..MaxPairs : Session!Expire(k)
  <2>1. PICK k \in 1..n : pairs' = [pairs EXCEPT ![k].fresh = FALSE]
    BY <1>P, <1>1 DEF Session!Expire
  <2>2. [pairs[k] EXCEPT !.fresh = FALSE] \in Pairs
    BY <1>P DEF Pairs
  <2>3. pairs' = [pairs EXCEPT ![k] = [pairs[k] EXCEPT !.fresh = FALSE]]
    BY <2>1
  <2>4. pairs' \in Seq(Pairs) /\ Len(pairs') = n
    BY <1>0, <2>2, <2>3
  <2> QED
    BY <1>1, <2>4 DEF Session!Expire, Session!storage, Session!store, Session!bounds
<1>2. CASE \E c \in calls : Session!Serve(c)
  <2>1. PICK c \in calls : Session!Serve(c)
    BY <1>2
  <2>2. pairs' \in Seq(Pairs) /\ n <= Len(pairs') /\ CallsFit(calls', Len(pairs'))
    BY <2>1, ServeTypes
  <2>3. UNCHANGED <<access, refresh, refreshing, other, fails, others, reloads>>
    BY <2>1 DEF Session!Serve, Session!storage, Session!bounds
  <2> QED
    BY <1>0, <2>2, <2>3
<1>3. CASE \E c \in calls : Session!Arrive(c)
  <2>1. PICK c \in calls : Session!Arrive(c)
    BY <1>3
  <2>2. UNCHANGED <<pairs, refreshing, other, fails, others, reloads>>
    BY <2>1 DEF Session!Arrive, Session!bounds
  <2>3. c \in Calls /\ c.got \in 0..n /\ c.kind \in Kinds
    BY <1>0, <2>1 DEF CallsFit, Calls
  <2>4. CASE c.kind \in {"login", "redeem"}
    <3> DEFINE me == [Session!Call("me", None) EXCEPT !.with = c.got]
    <3>1. access' = c.got /\ refresh' = c.got /\ calls' = (calls \ {c}) \cup {me}
      BY <2>1, <2>4 DEF Session!Arrive, Session!SignIns, Session!Turned
    <3>2. me \in Calls /\ me.with = c.got /\ me.got = 0 /\ me.kind = "me"
      <4>1. c.got \in Nat
        BY <1>0, <2>3
      <4> QED
        BY <4>1, NewMe
    <3> HIDE DEF me
    <3>3. CallsFit((calls \ {c}) \cup {me}, n)
      BY <1>0, <2>3, <3>2 DEF CallsFit
    <3> QED
      BY <1>0, <2>2, <2>3, <3>1, <3>3
  <2>5. CASE c.kind \notin {"login", "redeem"}
    <3>1. /\ calls' = calls \ {c}
          /\ access' \in {access, 0, c.got} /\ refresh' \in {refresh, 0, c.got}
      BY <2>1, <2>3, <2>5 DEF Session!Arrive, Session!SignIns, Session!Done, Kinds,
         Session!SignedOut, Session!Cleared, Session!storage
    <3> QED
      BY <1>0, <1>C, <2>2, <2>3, <3>1
  <2> QED
    BY <2>4, <2>5
<1>4. CASE \E c \in calls : Session!Fail(c)
  <2>1. PICK c \in calls : Session!Fail(c)
    BY <1>4
  <2>2. c.kind \in Kinds
    BY <1>0, <2>1 DEF Calls
  <2>3. calls' = calls \ {c} /\ ((access' = 0 /\ refresh' = 0) \/ UNCHANGED <<access, refresh>>)
    BY <2>1, <2>2, RejectedCall DEF Session!Fail
  <2>4. UNCHANGED <<pairs, refreshing, other, others, reloads>> /\ fails' = fails + 1
    BY <2>1 DEF Session!Fail, Session!Fails
  <2> QED
    BY <1>0, <1>C, <2>3, <2>4
<1>5. CASE \E c \in calls : Session!Denied(c)
  <2>1. PICK c \in calls : Session!Denied(c)
    BY <1>5
  <2>2. c \in Calls /\ c.kind \in Kinds /\ c.with \in 0..n /\ c.got \in 0..n
    BY <1>0, <2>1 DEF Calls, CallsFit
  <2>3. UNCHANGED <<pairs, other, fails, others, reloads>>
    BY <2>1 DEF Session!Denied, Session!bounds
  <2>4. CASE Session!ShouldRefresh(c)
    <3> DEFINE d == [c EXCEPT !.stage = "waiting", !.retry = TRUE]
    <3>1. /\ refreshing' = Session!Joined /\ calls' = (calls \ {c}) \cup {d}
          /\ UNCHANGED <<access, refresh>>
      BY <2>1, <2>4 DEF Session!Denied, Session!Turned, Session!storage
    <3>2. d \in Calls /\ d.with = c.with /\ d.got = c.got /\ d.kind = c.kind /\ d.who = c.who
      BY <2>2 DEF Calls
    <3> HIDE DEF d
    <3>3. CallsFit((calls \ {c}) \cup {d}, n)
      BY <1>0, <2>1, <2>2, <3>2, CallsKeepFitting
    <3>4. /\ Session!Joined \in [stage : {"none", "sent", "ok", "refused"}, with : 0..n, got : 0..n]
          /\ Session!Joined.stage = "sent" => Session!Joined.with # 0
      BY <1>0, <2>4 DEF Session!Joined, Session!ShouldRefresh
    <3> QED
      BY <1>0, <2>3, <3>1, <3>3, <3>4
  <2>5. CASE ~Session!ShouldRefresh(c)
    <3>1. refreshing' = refreshing /\ Session!Rejected(c)
      BY <2>1, <2>5 DEF Session!Denied
    <3>2. calls' = calls \ {c} /\ ((access' = 0 /\ refresh' = 0) \/ UNCHANGED <<access, refresh>>)
      BY <2>2, <3>1, RejectedCall
    <3> QED
      BY <1>0, <1>C, <2>3, <3>1, <3>2
  <2> QED
    BY <2>4, <2>5
<1>6. CASE Session!Reload
  <2>1. CallsFit(calls', n) /\ refreshing' = Session!NoRefresh
    BY <1>0, <1>6, LoadedCalls DEF Session!Reload
  <2> QED
    BY <1>0, <1>6, <1>N, <2>1 DEF Session!Reload, Session!storage
<1>7. CASE Session!SignOut
  <2> DEFINE d == Session!Call("logout", None)
  <2>1. d \in Calls /\ d.with = access /\ d.got = 0 /\ d.kind = "logout"
    <3>1. PICK k \in Kinds : k = "logout"
      BY DEF Kinds
    <3> QED
      BY <1>K, <3>1
  <2>2. \/ access' = 0 /\ refresh' = 0 /\ calls' = calls
        \/ calls' = calls \cup {d} /\ UNCHANGED <<access, refresh>>
    BY <1>7 DEF Session!SignOut, Session!SignedOut, Session!Cleared, Session!Send, Session!storage
  <2> HIDE DEF d
  <2>3. CallsFit(calls', n)
    BY <1>0, <1>S, <2>1, <2>2
  <2> QED
    BY <1>0, <1>7, <2>2, <2>3 DEF Session!SignOut, Session!bounds
<1>8. CASE \E kind_ \in {"edit", "password"} : Session!Request(kind_)
  <2>1. PICK kind_ \in {"edit", "password"} : Session!Request(kind_)
    BY <1>8
  <2> DEFINE d == Session!Call(kind_, None)
  <2>2. d \in Calls /\ d.with = access /\ d.got = 0 /\ d.kind = kind_
    <3>1. kind_ \in Kinds
      BY DEF Kinds
    <3> QED
      BY <1>K, <3>1
  <2>3. calls' = calls \cup {d}
    BY <2>1 DEF Session!Request, Session!Send
  <2> HIDE DEF d
  <2>4. CallsFit(calls', n)
    BY <1>0, <1>S, <2>2, <2>3
  <2> QED
    BY <1>0, <2>1, <2>4 DEF Session!Request, Session!storage, Session!bounds
<1>9. CASE \E u \in Accounts : Session!SignIn(u)
  <2>1. PICK u \in Accounts : Session!SignIn(u)
    BY <1>9
  <2> DEFINE d == Session!Call("login", u)
  <2>2. d \in Calls /\ d.with = access /\ d.got = 0 /\ d.kind = "login" /\ d.who = u
    <3>1. PICK k \in Kinds : k = "login"
      BY DEF Kinds
    <3> QED
      BY <1>K, <3>1
  <2>3. calls' = calls \cup {d}
    BY <2>1 DEF Session!SignIn, Session!Send
  <2> HIDE DEF d
  <2>4. CallsFit(calls', n)
    BY <1>0, <1>S, <2>2, <2>3
  <2> QED
    BY <1>0, <2>1, <2>4 DEF Session!SignIn, Session!storage, Session!bounds
<1>10. CASE \E u \in Accounts : Session!Callback(u)
  <2>1. PICK u \in Accounts : Session!Callback(u)
    BY <1>10
  <2> DEFINE d == Session!Call("redeem", u)
             me == Session!Call("me", None)
  <2>2. /\ d \in Calls /\ d.with = access /\ d.got = 0 /\ d.kind = "redeem" /\ d.who = u
        /\ me \in Calls /\ me.with = access /\ me.got = 0 /\ me.kind = "me"
    <3>1. PICK k \in Kinds, i \in Kinds : k = "redeem" /\ i = "me"
      BY DEF Kinds
    <3> QED
      BY <1>K, <3>1
  <2>3. calls' \subseteq {d, me} /\ refreshing' = Session!NoRefresh
    BY <2>1 DEF Session!Callback
  <2> HIDE DEF d, me
  <2>4. CallsFit(calls', n)
    BY <1>0, <2>2, <2>3 DEF CallsFit
  <2> QED
    BY <1>0, <1>N, <2>1, <2>3, <2>4 DEF Session!Callback, Session!storage, Session!bounds
<1>11. CASE Session!ServeRefresh
  <2>1. UNCHANGED <<access, refresh, calls, other, fails, others, reloads>>
    BY <1>11 DEF Session!ServeRefresh, Session!storage, Session!bounds
  <2>2. CASE pairs[refreshing.with].live
    <3> DEFINE k == refreshing.with
               killed == Session!Killed(pairs, k)
    <3>1. /\ pairs' = Session!Minted(killed, pairs[k].owner)
          /\ refreshing' = [refreshing EXCEPT !.stage = "ok", !.got = Len(pairs')]
      BY <1>11, <2>2 DEF Session!ServeRefresh
    <3>2. pairs[k].owner \in Accounts
      BY <1>0, <1>P, <1>11 DEF Session!ServeRefresh
    <3>3. killed \in Seq(Pairs) /\ Len(killed) = n
      BY <1>0, <3>2, KilledPairs
    <3> HIDE DEF killed
    <3>4. pairs' \in Seq(Pairs) /\ Len(pairs') = n + 1
      BY <3>1, <3>2, <3>3, MintedPair
    <3>5. CallsFit(calls, n + 1)
      BY <1>0, CallsKeepFitting
    <3>r. refreshing' = [stage |-> "ok", with |-> k, got |-> n + 1]
      BY <1>0, <3>1, <3>4
    <3>6. refreshing' \in [stage : {"none", "sent", "ok", "refused"}, with : 0..(n + 1),
                           got : 0..(n + 1)] /\ refreshing'.stage = "ok"
      BY <1>0, <3>r
    <3> QED
      BY <1>0, <2>1, <3>4, <3>5, <3>6
  <2>3. CASE ~pairs[refreshing.with].live
    <3>1. pairs' = pairs /\ refreshing' = [refreshing EXCEPT !.stage = "refused"]
      BY <1>11, <2>3 DEF Session!ServeRefresh
    <3> QED
      BY <1>0, <2>1, <3>1
  <2> QED
    BY <2>2, <2>3
<1>12. CASE Session!RefreshArrives
  <2> DEFINE sent_(c) == [c EXCEPT !.stage = "sent", !.with = refreshing.got]
  <2>1. calls' = {IF c.stage = "waiting" THEN sent_(c) ELSE c : c \in calls}
    BY <1>12 DEF Session!RefreshArrives
  <2>2. \A c \in calls : /\ sent_(c) \in Calls /\ sent_(c).with = refreshing.got
                         /\ sent_(c).got = c.got /\ sent_(c).kind = c.kind /\ sent_(c).who = c.who
    <3>1. refreshing.got \in Nat
      BY <1>0
    <3> QED
      BY <1>0, <3>1 DEF Calls
  <2> HIDE DEF sent_
  <2>3. CallsFit(calls', n)
    BY <1>0, <2>1, <2>2 DEF CallsFit
  <2> QED
    BY <1>0, <1>12, <1>N, <2>3 DEF Session!RefreshArrives, Session!bounds
<1>13. CASE Session!RefreshRefused \/ Session!RefreshFails
  <2>1. /\ access' = 0 /\ refresh' = 0 /\ UNCHANGED <<pairs, other, others, reloads>>
        /\ fails' \in {fails, fails + 1}
        /\ \/ Session!Loaded(0)
           \/ calls' \subseteq calls /\ refreshing' = Session!NoRefresh
    BY <1>13 DEF Session!RefreshRefused, Session!RefreshFails, Session!ThrownOut, Session!Cleared,
       Session!Fails
  <2>2. CallsFit(calls', n) /\ refreshing' = Session!NoRefresh
    BY <1>0, <1>C, <2>1, LoadedCalls
  <2> QED
    BY <1>0, <1>N, <2>1, <2>2
<1>14. CASE Session!OtherRefreshes
  <2> DEFINE killed == Session!Killed(pairs, refresh)
  <2>1. /\ pairs' = Session!Minted(killed, pairs[refresh].owner) /\ other' = Len(pairs')
        /\ others' = others + 1 /\ refresh # 0
        /\ UNCHANGED <<access, refresh, calls, refreshing, fails, reloads>>
    BY <1>14 DEF Session!OtherRefreshes, Session!Others, Session!storage
  <2>2. pairs[refresh].owner \in Accounts
    BY <1>0, <1>P, <2>1
  <2>3. killed \in Seq(Pairs) /\ Len(killed) = n
    BY <1>0, <2>2, KilledPairs
  <2> HIDE DEF killed
  <2>4. pairs' \in Seq(Pairs) /\ Len(pairs') = n + 1
    BY <2>1, <2>2, <2>3, MintedPair
  <2>5. CallsFit(calls, n + 1)
    BY <1>0, CallsKeepFitting
  <2> QED
    BY <1>0, <2>1, <2>4, <2>5
<1>15. CASE Session!OtherStores
  BY <1>0, <1>15 DEF Session!OtherStores, Session!bounds
<1>16. CASE Session!OtherSignsOut
  <2>1. /\ pairs' = Session!Killed(pairs, refresh) /\ access' = 0 /\ refresh' = 0
        /\ others' = others + 1 /\ refresh # 0
        /\ UNCHANGED <<calls, refreshing, other, fails, reloads>>
    BY <1>16 DEF Session!OtherSignsOut, Session!Others, Session!Cleared
  <2>2. pairs[refresh].owner \in Accounts
    BY <1>0, <1>P, <2>1
  <2>3. pairs' \in Seq(Pairs) /\ Len(pairs') = n
    BY <1>0, <2>1, <2>2, KilledPairs
  <2> QED
    BY <1>0, <2>1, <2>3
<1> QED
  BY <1>1, <1>2, <1>3, <1>4, <1>5, <1>6, <1>7, <1>8, <1>9, <1>10, <1>11, <1>12, <1>13, <1>14,
     <1>15, <1>16 DEF Session!Next

LEMMA OtherActs ==
  ASSUME SessionTyped, OtherActed, Session!Next
  PROVE  OtherActed'
<1> SUFFICES ASSUME other' # 0
             PROVE  others' > 0
  BY DEF OtherActed
<1>0. others \in Nat
  BY DEF SessionTyped
<1>1. CASE UNCHANGED <<other, others>>
  BY <1>1 DEF OtherActed
<1>2. CASE Session!OtherRefreshes \/ Session!OtherStores \/ Session!OtherSignsOut
  BY <1>0, <1>2 DEF Session!OtherRefreshes, Session!OtherStores, Session!OtherSignsOut,
     Session!Others
<1> QED
  BY <1>1, <1>2 DEF Session!Next, Session!Expire, Session!Serve, Session!Arrive, Session!Fail,
     Session!Denied, Session!Reload, Session!SignOut, Session!Request, Session!SignIn,
     Session!Callback, Session!ServeRefresh, Session!RefreshArrives, Session!RefreshRefused,
     Session!RefreshFails, Session!ThrownOut, Session!Fails, Session!bounds

\* A sign-out that leaves no straggler leaves nothing that could bring tokens.
LEMMA SignsOut ==
  ASSUME NEW rest, rest \subseteq Calls, Session!SignedOut(rest), ~straggler'
  PROVE  /\ user' = None /\ access' = 0 /\ refresh' = 0 /\ refreshing.stage = "none"
         /\ \A c \in rest : c.kind \in {"edit", "logout"}
<1>1. /\ user' = None /\ access' = 0 /\ refresh' = 0
  BY DEF Session!SignedOut, Session!Cleared, Session!SetUser
<1>2. /\ ~(refreshing.stage # "none")
      /\ ~(\E c \in rest : c.kind \in {"password", "me"} \cup Session!SignIns)
  BY Zenon DEF Session!SignedOut
<1> QED
  BY <1>1, <1>2 DEF Session!SignIns, Calls, Kinds

\* A request that is rejected signs the reader out, or leaves them as they are.
LEMMA RejectedOut ==
  ASSUME NEW c \in calls, calls \subseteq Calls, Session!Rejected(c)
  PROVE  /\ calls' = calls \ {c}
         /\ \/ c.kind = "me" /\ out' = out /\ (~straggler' => ~straggler)
            \/ Session!SignedOut(calls \ {c})
            \/ UNCHANGED <<access, refresh, user, out, straggler>>
BY DEF Session!Rejected, Session!LoadFails, Session!Done, Session!storage, Session!store,
   Calls, Kinds

\* Every step keeps a reader who is out, out.
LEMMA StaysOutKept ==
  ASSUME SessionTyped, OtherActed, StaysOut, Session!Next
  PROVE  StaysOut'
<1> SUFFICES ASSUME out', others' = 0, ~straggler'
             PROVE  /\ user' = None /\ access' = 0 /\ refresh' = 0 /\ refreshing'.stage = "none"
                    /\ \A c \in calls' : c.kind \in {"edit", "logout"}
  BY DEF StaysOut
<1> DEFINE Quiet == /\ user = None /\ access = 0 /\ refresh = 0 /\ refreshing.stage = "none"
                    /\ \A c \in calls : c.kind \in {"edit", "logout"}
<1>0. calls \subseteq Calls /\ others \in Nat
  BY DEF SessionTyped, CallsFit
<1>r. ASSUME UNCHANGED <<out, others>>, ~straggler
      PROVE  Quiet
  BY <1>r DEF StaysOut
<1>q. ASSUME UNCHANGED <<out, others, straggler>>
      PROVE  Quiet
  BY <1>q, <1>r
<1> HIDE DEF Quiet
<1>1. CASE \E k \in 1..MaxPairs : Session!Expire(k)
  BY <1>q, <1>1 DEF Session!Expire, Session!storage, Session!store, Session!bounds,
     Session!ghosts, Quiet
<1>2. CASE \E c \in calls : Session!Serve(c)
  <2>1. PICK c \in calls : Session!Serve(c)
    BY <1>2
  <2>2. UNCHANGED <<access, refresh, user, refreshing, others, out, straggler>>
    BY <2>1 DEF Session!Serve, Session!storage, Session!store, Session!bounds
  <2>3. \E d : d.kind = c.kind /\ calls' = (calls \ {c}) \cup {d}
    <3>1. c \in Calls
      BY <1>0
    <3>2. \A k : [c EXCEPT !.stage = "answered", !.got = k].kind = c.kind
      BY <3>1 DEF Calls
    <3>3. [c EXCEPT !.stage = "denied"].kind = c.kind
      BY <3>1 DEF Calls
    <3> QED
      BY <2>1, <3>2, <3>3, Zenon DEF Session!Serve, Session!Turned
  <2> QED
    BY <1>q, <2>2, <2>3 DEF Quiet
<1>3. CASE \E c \in calls : Session!Arrive(c)
  <2>1. PICK c \in calls : Session!Arrive(c)
    BY <1>3
  <2>2. UNCHANGED <<refreshing, others>> /\ c.kind \in Kinds
    BY <1>0, <2>1 DEF Session!Arrive, Session!bounds, Calls
  <2>3. CASE c.kind = "logout"
    <3>1. Session!SignedOut(calls \ {c}) /\ calls' = calls \ {c}
      BY <2>1, <2>3 DEF Session!Arrive, Session!SignIns, Session!Done
    <3> QED
      BY <1>0, <2>2, <3>1, SignsOut
  <2>4. CASE c.kind # "logout"
    <3>1. UNCHANGED <<out, straggler>>
      BY <2>1, <2>2, <2>4 DEF Session!Arrive, Session!SignIns, Kinds
    <3>2. Quiet
      BY <1>q, <2>2, <3>1
    <3>3. c.kind = "edit"
      BY <2>4, <3>2 DEF Quiet
    <3>4. calls' = calls \ {c} /\ UNCHANGED <<access, refresh, user>>
      BY <2>1, <3>3 DEF Session!Arrive, Session!SignIns, Session!Done, Session!Edited,
         Session!storage
    <3> QED
      BY <2>2, <3>2, <3>4 DEF Quiet
  <2> QED
    BY <2>3, <2>4
<1>4. ASSUME NEW c \in calls, Session!Rejected(c), refreshing' = refreshing, others' = others
      PROVE  /\ user' = None /\ access' = 0 /\ refresh' = 0 /\ refreshing'.stage = "none"
             /\ \A d \in calls' : d.kind \in {"edit", "logout"}
  <2>1. calls' = calls \ {c}
    BY <1>0, <1>4, RejectedOut
  <2>2. CASE c.kind = "me" /\ out' = out /\ (~straggler' => ~straggler)
    BY <1>4, <1>r, <2>2 DEF Quiet
  <2>3. CASE Session!SignedOut(calls \ {c})
    BY <1>0, <1>4, <2>1, <2>3, SignsOut
  <2>4. CASE UNCHANGED <<access, refresh, user, out, straggler>>
    BY <1>4, <1>q, <2>1, <2>4 DEF Quiet
  <2> QED
    BY <1>0, <1>4, <2>2, <2>3, <2>4, RejectedOut
<1>5. CASE \E c \in calls : Session!Fail(c)
  BY <1>4, <1>5 DEF Session!Fail, Session!Fails
<1>6. CASE \E c \in calls : Session!Denied(c)
  <2>1. PICK c \in calls : Session!Denied(c)
    BY <1>6
  <2>2. others' = others
    BY <2>1 DEF Session!Denied, Session!bounds
  <2>3. CASE Session!ShouldRefresh(c)
    <3>1. UNCHANGED <<out, straggler>> /\ refresh # 0
      BY <2>1, <2>3 DEF Session!Denied, Session!ShouldRefresh
    <3> QED
      BY <1>q, <2>2, <3>1 DEF Quiet
  <2>4. CASE ~Session!ShouldRefresh(c)
    BY <1>4, <2>1, <2>2, <2>4 DEF Session!Denied
  <2> QED
    BY <2>3, <2>4
<1>7. CASE Session!Reload
  <2>1. UNCHANGED <<out, others, straggler, access, refresh>> /\ Session!Loaded(access)
    BY <1>7 DEF Session!Reload, Session!storage, Session!ghosts
  <2>2. Quiet
    BY <1>q, <2>1
  <2>3. user' = None /\ refreshing' = Session!NoRefresh /\ calls' = {}
    BY <2>1, <2>2 DEF Session!Loaded, Quiet, Session!SetUser
  <2> QED
    BY <2>1, <2>2, <2>3 DEF Quiet, Session!NoRefresh
<1>8. CASE Session!SignOut
  <2>1. user # None /\ UNCHANGED <<refreshing, others>>
    BY <1>8 DEF Session!SignOut, Session!bounds
  <2>2. CASE refresh = 0
    BY <1>0, <1>8, <2>1, <2>2, SignsOut DEF Session!SignOut
  <2>3. CASE refresh # 0
    BY <1>8, <1>q, <2>1, <2>3 DEF Session!SignOut, Quiet
  <2> QED
    BY <2>2, <2>3
<1>9. CASE \E kind_ \in {"edit", "password"} : Session!Request(kind_)
  BY <1>9, <1>q DEF Session!Request, Session!bounds, Session!ghosts, Quiet
<1>10. CASE \E u \in Accounts : Session!SignIn(u) \/ Session!Callback(u)
  BY <1>10 DEF Session!SignIn, Session!Callback
<1>11. CASE Session!ServeRefresh \/ Session!RefreshArrives \/ Session!RefreshRefused
            \/ Session!RefreshFails
  <2>1. UNCHANGED <<out, others, straggler>> /\ refreshing.stage # "none"
    BY <1>11 DEF Session!ServeRefresh, Session!RefreshArrives, Session!RefreshRefused,
       Session!RefreshFails, Session!ThrownOut, Session!bounds, Session!ghosts
  <2> QED
    BY <1>q, <2>1 DEF Quiet
<1>12. CASE Session!OtherRefreshes \/ Session!OtherSignsOut
  BY <1>0, <1>12 DEF Session!OtherRefreshes, Session!OtherSignsOut, Session!Others
<1>13. CASE Session!OtherStores
  BY <1>0, <1>13 DEF Session!OtherStores, OtherActed, Session!bounds
<1> QED
  BY <1>1, <1>2, <1>3, <1>5, <1>6, <1>7, <1>8, <1>9, <1>10, <1>11, <1>12, <1>13 DEF Session!Next

\* A request that goes on as another of its kind keeps them one at a time.
LEMMA OneReplaced ==
  ASSUME OneAtATime, NEW c \in calls, NEW d, calls' = (calls \ {c}) \cup {d},
         UNCHANGED <<user, access, refresh>>,
         d.kind = c.kind, d.with = c.with, c.stage # "waiting",
         d.kind = "me" /\ d.stage = "answered" => d.got # 0,
         d.kind \in {"login", "redeem"} => d.stage # "waiting",
         d.kind = "password" => d.stage # "answered",
         refreshing'.stage # "none" => refreshing.stage # "none" \/ d.stage = "waiting"
  PROVE  OneAtATime'
BY DEF OneAtATime

\* Live pairs that stay live keep what is stored, on its way or being redeemed unused.
LEMMA UnusedKept ==
  ASSUME SessionTyped, Unused, UNCHANGED <<refresh, refreshing, kicked>>,
         \A i \in 1..Len(pairs) : pairs[i].live => pairs'[i].live,
         \A c \in calls' : Answered(c) => c \in calls \/ (c.got # 0 /\ pairs'[c.got].live)
  PROVE  Unused'
<1>1. /\ Len(pairs) \in Nat /\ refresh \in 0..Len(pairs) /\ refreshing.with \in 0..Len(pairs)
      /\ refreshing.got \in 0..Len(pairs) /\ \A c \in calls : c.got \in 0..Len(pairs)
      /\ refreshing.stage = "sent" => refreshing.with # 0
  BY DEF SessionTyped, CallsFit, Calls
<1>2. ASSUME NEW c \in calls', Answered(c)
      PROVE  c.got # 0 /\ pairs'[c.got].live
  BY <1>1, <1>2 DEF Unused
<1> QED
  BY <1>1, <1>2 DEF Unused, Answered

\* While nothing is disturbed, no step uses a token twice.
LEMMA SurvivesKept ==
  ASSUME SessionTyped, OtherActed, SurvivesInv, Session!Next
  PROVE  SurvivesInv'
<1> SUFFICES ASSUME Undisturbed'
             PROVE  OneAtATime' /\ Unused'
  BY DEF SurvivesInv
<1> DEFINE n == Len(pairs)
<1>0. /\ calls \subseteq Calls /\ n \in Nat /\ pairs \in Seq(Pairs)
      /\ access \in 0..n /\ refresh \in 0..n /\ fails \in Nat /\ others \in Nat /\ reloads \in Nat
      /\ \A c \in calls : c.with \in 0..n /\ c.got \in 0..n
      /\ refreshing.with \in 0..n /\ refreshing.got \in 0..n
      /\ refreshing.stage = "sent" => refreshing.with # 0
      /\ \A c \in calls : c.kind \in {"login", "redeem"} => c.who \in Accounts
  BY DEF SessionTyped, CallsFit, Calls
<1>P. \A k \in 1..n : pairs[k].owner \in Accounts
  <2>1. \A k \in 1..n : pairs[k] \in Pairs
    BY <1>0
  <2> QED
    BY <2>1 DEF Pairs
<1>u. ASSUME UNCHANGED <<fails, others, reloads, changed, left>>
      PROVE  OneAtATime /\ Unused
  BY <1>u DEF Undisturbed, SurvivesInv
<1>1. CASE \E k \in 1..MaxPairs : Session!Expire(k)
  <2>1. PICK k \in DOMAIN pairs : pairs' = [pairs EXCEPT ![k].fresh = FALSE]
    BY <1>1 DEF Session!Expire
  <2>2. UNCHANGED <<access, refresh, user, calls, refreshing, kicked, fails, others, reloads,
                    changed, left>>
    BY <1>1 DEF Session!Expire, Session!storage, Session!store, Session!bounds, Session!ghosts
  <2>3. \A i \in 1..n : pairs[i].live => pairs'[i].live
    <3>1. \A i \in 1..n : pairs[i] \in Pairs /\ i \in DOMAIN pairs
      BY <1>0
    <3>2. \A r \in Pairs : [r EXCEPT !.fresh = FALSE].live = r.live
      BY DEF Pairs
    <3> QED
      BY <2>1, <3>1, <3>2
  <2>4. OneAtATime'
    BY <1>u, <2>2 DEF OneAtATime
  <2>5. Unused'
    BY <1>u, <2>2, <2>3, UnusedKept
  <2> QED
    BY <2>4, <2>5
<1>2. CASE \E c \in calls : Session!Serve(c)
  <2>1. PICK c \in calls : Session!Serve(c)
    BY <1>2
  <2>2. /\ UNCHANGED <<access, refresh, user, refreshing, kicked, fails, others, reloads, left>>
        /\ c.stage = "sent" /\ c \in Calls
    BY <1>0, <2>1 DEF Session!Serve, Session!storage, Session!store, Session!bounds
  <2> DEFINE answer(k) == [c EXCEPT !.stage = "answered", !.got = k]
  <2>a. \A k \in 0..(n + 1) :
          /\ answer(k).kind = c.kind /\ answer(k).with = c.with /\ answer(k).got = k
          /\ answer(k).stage = "answered"
    BY <2>2 DEF Calls
  <2>3. CASE ~Session!Authorized(c)
    <3> DEFINE d == [c EXCEPT !.stage = "denied"]
    <3>1. pairs' = pairs /\ changed' = changed /\ calls' = (calls \ {c}) \cup {d}
      BY <2>1, <2>3 DEF Session!Serve, Session!Turned
    <3>2. d.kind = c.kind /\ d.with = c.with /\ d.stage = "denied"
      BY <2>2 DEF Calls
    <3> HIDE DEF d
    <3>3. OneAtATime'
      BY <1>u, <2>2, <3>1, <3>2, OneReplaced
    <3>4. Unused'
      BY <1>u, <2>2, <3>1, <3>2, UnusedKept DEF Answered
    <3> QED
      BY <3>3, <3>4
  <2>4. CASE Session!Authorized(c) /\ c.kind \in {"login", "redeem"}
    <3>1. /\ pairs' = Session!Minted(pairs, c.who) /\ changed' = changed
          /\ calls' = (calls \ {c}) \cup {answer(Len(pairs'))}
      BY <2>1, <2>4 DEF Session!Serve, Session!Turned, Session!SignIns
    <3>2. /\ Len(pairs') = n + 1 /\ pairs'[n + 1].live
          /\ \A i \in 1..n : pairs'[i] = pairs[i]
      BY <1>0, <2>4, <3>1, MintedPair
    <3> HIDE DEF answer
    <3>3. OneAtATime'
      BY <1>0, <1>u, <2>2, <2>4, <2>a, <3>1, <3>2, OneReplaced
    <3>4. Unused'
      BY <1>0, <1>u, <2>2, <2>a, <3>1, <3>2, UnusedKept DEF Answered
    <3> QED
      BY <3>3, <3>4
  <2>5. CASE Session!Authorized(c) /\ c.kind = "password"
    BY <2>1, <2>5 DEF Session!Serve, Session!SignIns, Undisturbed
  <2>6. CASE c.kind = "logout"
    <3>1. Session!Authorized(c) => UNCHANGED changed
      BY <2>1, <2>6 DEF Session!Serve, Session!SignIns
    <3> QED
      BY <1>u, <2>2, <2>3, <2>6, <3>1 DEF OneAtATime
  <2>7. CASE Session!Authorized(c) /\ c.kind \in {"me", "edit"}
    <3>1. pairs' = pairs /\ changed' = changed /\ calls' = (calls \ {c}) \cup {answer(c.with)}
      BY <2>1, <2>7 DEF Session!Serve, Session!Turned, Session!SignIns
    <3>2. c.with # 0 /\ c.with \in 0..(n + 1)
      BY <1>0, <2>7 DEF Session!Authorized
    <3> HIDE DEF answer
    <3>3. OneAtATime'
      BY <1>u, <2>2, <2>7, <2>a, <3>1, <3>2, OneReplaced
    <3>4. Unused'
      BY <1>u, <2>2, <2>7, <2>a, <3>1, <3>2, UnusedKept DEF Answered
    <3> QED
      BY <3>3, <3>4
  <2> QED
    BY <2>2, <2>3, <2>4, <2>5, <2>6, <2>7 DEF Calls, Kinds
<1>3. CASE \E c \in calls : Session!Arrive(c)
  <2>1. PICK c \in calls : Session!Arrive(c)
    BY <1>3
  <2>2. /\ UNCHANGED <<pairs, refreshing, kicked, fails, others, reloads, changed, left>>
        /\ c.stage = "answered" /\ c.kind \in Kinds
    BY <1>0, <2>1 DEF Session!Arrive, Session!bounds, Calls
  <2>3. OneAtATime /\ Unused
    BY <1>u, <2>2
  <2>4. CASE c.kind \in {"login", "redeem"}
    <3> DEFINE me == [Session!Call("me", None) EXCEPT !.with = c.got]
    <3>1. /\ access' = c.got /\ refresh' = c.got /\ user' = user
          /\ calls' = (calls \ {c}) \cup {me}
      BY <2>1, <2>4 DEF Session!Arrive, Session!SignIns, Session!Turned, Session!store
    <3>2. me.kind = "me" /\ me.stage = "sent"
      <4>1. c.got \in Nat
        BY <1>0
      <4> QED
        BY <4>1, NewMe
    <3> HIDE DEF me
    <3>3. user = None /\ calls = {c} /\ refreshing.stage = "none"
      BY <2>2, <2>3, <2>4 DEF OneAtATime
    <3>4. c.got # 0 /\ pairs[c.got].live
      BY <2>2, <2>3, <2>4 DEF Unused, Answered
    <3>5. calls' = {me}
      BY <3>1, <3>3
    <3>6. OneAtATime'
      BY <2>2, <3>1, <3>2, <3>3, <3>4, <3>5 DEF OneAtATime
    <3>7. Unused'
      BY <2>2, <2>3, <3>1, <3>2, <3>3, <3>4, <3>5 DEF Unused, Answered
    <3> QED
      BY <3>6, <3>7
  <2>5. CASE c.kind = "me"
    <3>1. /\ UNCHANGED <<access, refresh>> /\ user' = pairs[c.got].owner /\ calls' = calls \ {c}
      BY <2>1, <2>5 DEF Session!Arrive, Session!SignIns, Session!Done, Session!storage,
         Session!SetUser
    <3>2. user' # None
      <4>1. c.got \in 1..n
        BY <1>0, <2>2, <2>3, <2>5 DEF OneAtATime
      <4> QED
        BY <1>P, <3>1, <4>1, AccountAssumption
    <3>3. calls' = {} /\ refreshing.stage = "none"
      BY <2>2, <2>3, <2>5, <3>1 DEF OneAtATime
    <3>4. OneAtATime'
      BY <2>2, <2>3, <3>1, <3>2, <3>3 DEF OneAtATime
    <3>5. Unused'
      BY <2>2, <2>3, <3>1, <3>3 DEF Unused
    <3> QED
      BY <3>4, <3>5
  <2>6. CASE c.kind \in {"password", "logout"}
    BY <2>2, <2>3, <2>6 DEF OneAtATime
  <2>7. CASE c.kind = "edit"
    <3>1. UNCHANGED <<access, refresh, user>> /\ calls' = calls \ {c}
      BY <2>1, <2>7 DEF Session!Arrive, Session!SignIns, Session!Done, Session!Edited,
         Session!storage
    <3>2. OneAtATime'
      BY <2>2, <2>3, <2>7, <3>1, AccountAssumption DEF OneAtATime
    <3>3. Unused'
      BY <2>2, <2>3, <3>1, UnusedKept
    <3> QED
      BY <3>2, <3>3
  <2> QED
    BY <2>2, <2>4, <2>5, <2>6, <2>7 DEF Kinds
<1>4. CASE \/ \E c \in calls : Session!Fail(c)
           \/ Session!Reload \/ Session!SignOut \/ Session!RefreshFails
           \/ Session!OtherRefreshes \/ Session!OtherSignsOut
  BY <1>0, <1>4 DEF Session!Fail, Session!Fails, Session!Reload, Session!SignOut,
     Session!RefreshFails, Session!OtherRefreshes, Session!OtherSignsOut, Session!Others, Undisturbed
<1>5. CASE \E c \in calls : Session!Denied(c)
  <2>1. PICK c \in calls : Session!Denied(c)
    BY <1>5
  <2>2. /\ UNCHANGED <<pairs, kicked, fails, others, reloads, changed, left>>
        /\ c.stage = "denied" /\ c \in Calls
    BY <1>0, <2>1 DEF Session!Denied, Session!bounds
  <2>3. OneAtATime /\ Unused
    BY <1>u, <2>2
  <2>4. CASE Session!ShouldRefresh(c)
    <3> DEFINE d == [c EXCEPT !.stage = "waiting", !.retry = TRUE]
    <3>1. /\ UNCHANGED <<access, refresh, user>> /\ refreshing' = Session!Joined
          /\ calls' = (calls \ {c}) \cup {d} /\ refresh # 0
      BY <2>1, <2>4 DEF Session!Denied, Session!Turned, Session!storage, Session!store,
         Session!ShouldRefresh
    <3>2. d.kind = c.kind /\ d.with = c.with /\ d.stage = "waiting"
      BY <2>2 DEF Calls
    <3> HIDE DEF d
    <3>3. c.kind \notin {"login", "redeem"}
      BY <2>3, <3>1 DEF OneAtATime
    <3>4. OneAtATime'
      BY <2>2, <2>3, <3>1, <3>2, <3>3, OneReplaced
    <3>5. \A e \in calls' : Answered(e) => e \in calls
      BY <3>1, <3>2 DEF Answered
    <3>6. CASE refreshing.stage = "none"
      <4>1. refreshing'.stage = "sent" /\ refreshing'.with = refresh
        BY <3>1, <3>6 DEF Session!Joined
      <4> QED
        BY <2>2, <2>3, <3>1, <3>4, <3>5, <3>6, <4>1 DEF Unused
    <3>7. CASE refreshing.stage # "none"
      <4>1. refreshing' = refreshing
        BY <3>1, <3>7 DEF Session!Joined
      <4> QED
        BY <2>2, <2>3, <3>1, <3>4, <3>5, <4>1 DEF Unused
    <3> QED
      BY <3>6, <3>7
  <2>5. CASE ~Session!ShouldRefresh(c)
    <3>1. refreshing' = refreshing /\ Session!Rejected(c) /\ c.kind # "logout"
      BY <2>1, <2>3, <2>5 DEF Session!Denied, OneAtATime
    <3>2. CASE c.kind = "me"
      <4>1. access' = 0 /\ refresh' = 0 /\ user' = None /\ calls' = calls \ {c}
        BY <3>1, <3>2 DEF Session!Rejected, Session!LoadFails, Session!Cleared, Session!Done,
           Session!SetUser
      <4>2. calls' = {} /\ refreshing.stage = "none"
        BY <2>2, <2>3, <3>2, <4>1 DEF OneAtATime
      <4> QED
        BY <2>2, <2>3, <3>1, <4>1, <4>2 DEF OneAtATime, Unused
    <3>3. CASE c.kind # "me"
      <4>1. UNCHANGED <<access, refresh, user>> /\ calls' = calls \ {c}
        BY <3>1, <3>3 DEF Session!Rejected, Session!Done, Session!storage, Session!store
      <4>2. user = None => access = 0
        BY <2>3, <3>3 DEF OneAtATime
      <4>3. OneAtATime'
        BY <2>2, <2>3, <3>1, <4>1, <4>2 DEF OneAtATime
      <4>4. Unused'
        BY <2>2, <2>3, <3>1, <4>1, UnusedKept
      <4> QED
        BY <4>3, <4>4
    <3> QED
      BY <3>2, <3>3
  <2> QED
    BY <2>4, <2>5
<1>6. CASE \E kind_ \in {"edit", "password"} : Session!Request(kind_)
  <2>1. PICK kind_ \in {"edit", "password"} : Session!Request(kind_)
    BY <1>6
  <2> DEFINE d == Session!Call(kind_, None)
  <2>2. d.kind = kind_ /\ d.stage = "sent"
    <3>1. kind_ \in Kinds
      BY DEF Kinds
    <3> QED
      BY <3>1, NewCall
  <2>3. /\ calls' = calls \cup {d} /\ user # None
        /\ UNCHANGED <<pairs, access, refresh, user, refreshing, kicked, fails, others, reloads,
                       changed, left>>
    BY <2>1 DEF Session!Request, Session!Send, Session!storage, Session!store, Session!bounds,
       Session!ghosts
  <2> HIDE DEF d
  <2>4. OneAtATime'
    BY <1>u, <2>2, <2>3 DEF OneAtATime
  <2>5. Unused'
    BY <1>u, <2>2, <2>3, UnusedKept DEF Answered
  <2> QED
    BY <2>4, <2>5
<1>7. CASE \E u \in Accounts : Session!SignIn(u) \/ Session!Callback(u)
  <2>1. PICK u \in Accounts : Session!SignIn(u) \/ Session!Callback(u)
    BY <1>7
  <2>2. /\ user = None /\ user' = None /\ ~Session!InFlight(Session!SignIns \cup {"me"})
        /\ UNCHANGED <<pairs, access, refresh, kicked, fails, others, reloads, changed, left>>
    BY <2>1 DEF Session!SignIn, Session!Callback, Session!storage, Session!store,
       Session!bounds, Session!SetUser
  <2>3. OneAtATime /\ Unused
    BY <1>u, <2>2
  <2>4. calls = {}
    BY <2>2, <2>3 DEF OneAtATime, Session!InFlight, Session!SignIns
  <2>5. access = 0 /\ refresh = 0 /\ refreshing.stage = "none"
    BY <2>2, <2>3, <2>4 DEF OneAtATime
  <2>6. PICK k \in {"login", "redeem"} : calls' = {Session!Call(k, u)}
    BY <2>1, <2>4, <2>5 DEF Session!SignIn, Session!Callback, Session!Send
  <2>7. refreshing'.stage = "none"
    BY <2>1, <2>5 DEF Session!SignIn, Session!Callback, Session!NoRefresh
  <2> DEFINE d == Session!Call(k, u)
  <2>8. d.kind = k /\ d.stage = "sent" /\ d.with = 0
    <3>1. k \in Kinds
      BY DEF Kinds
    <3> QED
      BY <2>5, <3>1, NewCall
  <2> HIDE DEF d
  <2>9. calls' = {d}
    BY <2>6 DEF d
  <2>10. OneAtATime'
    BY <2>2, <2>5, <2>7, <2>8, <2>9 DEF OneAtATime
  <2>11. Unused'
    BY <2>2, <2>3, <2>5, <2>7, <2>8, <2>9 DEF Unused, Answered
  <2> QED
    BY <2>10, <2>11
<1>8. CASE Session!ServeRefresh
  <2>1. /\ UNCHANGED <<access, refresh, user, calls, kicked, fails, others, reloads, changed, left>>
        /\ refreshing.stage = "sent"
    BY <1>8 DEF Session!ServeRefresh, Session!storage, Session!store, Session!bounds,
       Session!ghosts
  <2>2. OneAtATime /\ Unused
    BY <1>u, <2>1
  <2>3. pairs[refreshing.with].live
    BY <2>1, <2>2 DEF Unused
  <2> DEFINE k == refreshing.with
             killed == Session!Killed(pairs, k)
  <2>4. /\ pairs' = Session!Minted(killed, pairs[k].owner)
        /\ refreshing' = [refreshing EXCEPT !.stage = "ok", !.got = Len(pairs')]
    BY <1>8, <2>3 DEF Session!ServeRefresh
  <2>5. pairs[k].owner \in Accounts
    BY <1>0, <1>P, <2>1
  <2>6. killed \in Seq(Pairs) /\ Len(killed) = n
    BY <1>0, <2>5, KilledPairs
  <2> HIDE DEF killed
  <2>7. Len(pairs') = n + 1 /\ pairs'[n + 1].live
    BY <2>4, <2>5, <2>6, MintedPair
  <2>8. refreshing'.stage = "ok" /\ refreshing'.got = n + 1
    <3>1. refreshing = [stage |-> refreshing.stage, with |-> refreshing.with,
                        got |-> refreshing.got]
      BY DEF SessionTyped
    <3> QED
      BY <2>4, <2>7, <3>1
  <2>9. \A c \in calls : ~Answered(c)
    BY <2>1, <2>2 DEF OneAtATime, Answered
  <2>10. OneAtATime'
    BY <2>1, <2>2, <2>8 DEF OneAtATime
  <2>11. Unused'
    BY <1>0, <2>1, <2>2, <2>7, <2>8, <2>9 DEF Unused
  <2> QED
    BY <2>10, <2>11
<1>9. CASE Session!RefreshArrives
  <2> DEFINE sent_(c) == [c EXCEPT !.stage = "sent", !.with = refreshing.got]
  <2>1. /\ UNCHANGED <<pairs, user, kicked, fails, others, reloads, changed, left>>
        /\ refreshing.stage = "ok" /\ refreshing' = Session!NoRefresh
        /\ access' = refreshing.got /\ refresh' = refreshing.got
        /\ calls' = {IF c.stage = "waiting" THEN sent_(c) ELSE c : c \in calls}
    BY <1>9 DEF Session!RefreshArrives, Session!store, Session!bounds, Session!ghosts
  <2>2. OneAtATime /\ Unused
    BY <1>u, <2>1
  <2>3. \A c \in calls : sent_(c).stage = "sent" /\ sent_(c).kind = c.kind
    <3>1. refreshing.got \in Nat
      BY <1>0
    <3> QED
      BY <1>0, <3>1 DEF Calls
  <2> HIDE DEF sent_
  <2>4. refreshing.got # 0 /\ pairs[refreshing.got].live
    BY <2>1, <2>2 DEF Unused
  <2>5. \A c \in calls : c.kind \notin {"login", "redeem"}
    BY <2>1, <2>2 DEF OneAtATime
  <2>6. \A d \in calls' : \E c \in calls :
          d.kind = c.kind /\ d = (IF c.stage = "waiting" THEN sent_(c) ELSE c)
    BY <2>1, <2>3
  <2>7. refreshing'.stage = "none"
    BY <2>1 DEF Session!NoRefresh
  <2>8. OneAtATime'
    <3>1. \A d \in calls' : d.kind \notin {"login", "redeem"}
      BY <2>5, <2>6
    <3>2. \A d \in calls' : d.kind # "logout" /\ (user' = None <=> d.kind \in {"login", "redeem", "me"})
      BY <2>1, <2>2, <2>6 DEF OneAtATime
    <3>3. user' = None => \A c, d \in calls' : c = d
      BY <2>1, <2>2, <2>6 DEF OneAtATime
    <3>4. calls' # {}
      BY <2>1, <2>2 DEF OneAtATime
    <3>5. \A d \in calls' : d.stage = "answered" => d \in calls
      BY <2>3, <2>6
    <3> QED
      BY <2>1, <2>2, <2>4, <2>7, <3>1, <3>2, <3>3, <3>4, <3>5 DEF OneAtATime
  <2>9. Unused'
    <3>1. \A d \in calls' : ~Answered(d)
      BY <2>5, <2>6 DEF Answered
    <3> QED
      BY <2>1, <2>2, <2>4, <2>7, <3>1 DEF Unused
  <2> QED
    BY <2>8, <2>9
<1>10. CASE Session!RefreshRefused
  <2>1. refreshing.stage = "refused" /\ UNCHANGED <<fails, others, reloads, changed, left>>
    BY <1>10 DEF Session!RefreshRefused, Session!ThrownOut
  <2> QED
    BY <1>u, <2>1 DEF Unused
<1>11. CASE Session!OtherStores
  <2>1. UNCHANGED <<fails, others, reloads, changed, left>> /\ other # 0
    BY <1>11 DEF Session!OtherStores, Session!bounds, Session!ghosts
  <2> QED
    BY <1>0, <2>1 DEF Undisturbed, OtherActed
<1> QED
  BY <1>1, <1>2, <1>3, <1>4, <1>5, <1>6, <1>7, <1>8, <1>9, <1>10, <1>11 DEF Session!Next

\* Requests that go on as others of their kind, and requests that are gone, keep the
\* callers as they are.
LEMMA CallersReplaced ==
  ASSUME Callers, NEW c \in calls, NEW d, calls' = (calls \ {c}) \cup {d},
         UNCHANGED <<user, access, refresh>>, d.kind = c.kind, d.with = c.with,
         refreshing'.stage # "none" => refreshing.stage # "none" \/ access # 0
  PROVE  Callers'
BY DEF Callers

LEMMA CallersFewer ==
  ASSUME Callers, NEW c \in calls, calls' = calls \ {c}, c.kind # "me",
         UNCHANGED <<user, access, refresh, refreshing>>
  PROVE  Callers'
BY DEF Callers

\* Owners that stay and requests that stay keep everything with one owner.
LEMMA OwnerKept ==
  ASSUME SessionTyped, NEW u, OneOwner(u), UNCHANGED <<access, refresh, user, refreshing>>,
         (refresh = 0) <=> (access = 0),
         \A i \in 1..Len(pairs) : pairs'[i].owner = pairs[i].owner,
         \A d \in calls' : d.kind \in {"me", "password"} =>
           d \in calls \/ /\ d.with # 0 /\ pairs'[d.with].owner = u
                          /\ d.stage = "answered" => d.got # 0 /\ pairs'[d.got].owner = u
  PROVE  OneOwner(u)'
<1>1. /\ Len(pairs) \in Nat /\ access \in 0..Len(pairs) /\ refresh \in 0..Len(pairs)
      /\ refreshing.with \in 0..Len(pairs) /\ refreshing.got \in 0..Len(pairs)
      /\ \A c \in calls : c.with \in 0..Len(pairs) /\ c.got \in 0..Len(pairs)
      /\ refreshing.stage = "sent" => refreshing.with # 0
  BY DEF SessionTyped, CallsFit, Calls
<1>2. ASSUME NEW d \in calls', d.kind \in {"me", "password"}
      PROVE  /\ d.with # 0 /\ pairs'[d.with].owner = u
             /\ d.stage = "answered" => d.got # 0 /\ pairs'[d.got].owner = u
  <2>1. CASE d \in calls
    <3>1. /\ d.with # 0 /\ pairs[d.with].owner = u
          /\ d.stage = "answered" => d.got # 0 /\ pairs[d.got].owner = u
      BY <1>2, <2>1 DEF OneOwner
    <3> QED
      BY <1>1, <2>1, <3>1
  <2>2. CASE d \notin calls
    BY <1>2, <2>2
  <2> QED
    BY <2>1, <2>2
<1> QED
  BY <1>1, <1>2 DEF OneOwner

LEMMA FreshKept ==
  ASSUME SessionTyped, FreshSignIn, UNCHANGED <<access, refresh, user, hydrating, refreshing>>,
         (refresh = 0) <=> (access = 0), refreshing.stage = "ok" => refreshing.got # 0,
         \A i \in 1..Len(pairs) : pairs[i].live => pairs'[i].live,
         \A d \in calls' : Answered(d) => d \in calls \/ (d.got # 0 /\ pairs'[d.got].live)
  PROVE  FreshSignIn'
<1>1. /\ Len(pairs) \in Nat /\ refresh \in 0..Len(pairs)
      /\ refreshing.with \in 0..Len(pairs) /\ refreshing.got \in 0..Len(pairs)
      /\ \A c \in calls : c.got \in 0..Len(pairs)
      /\ refreshing.stage = "sent" => refreshing.with # 0
  BY DEF SessionTyped, CallsFit, Calls
<1>2. ASSUME NEW d \in calls', Answered(d)
      PROVE  d.got # 0 /\ pairs'[d.got].live
  BY <1>1, <1>2 DEF FreshSignIn
<1> QED
  BY <1>1, <1>2 DEF FreshSignIn, Answered

\* The server's answer to a request keeps the session aligned.
LEMMA AlignedServe ==
  ASSUME SessionTyped, Aligned, NEW c \in calls, Session!Serve(c)
  PROVE  Aligned'
<1> DEFINE n == Len(pairs)
           answer(k) == [c EXCEPT !.stage = "answered", !.got = k]
           denied == [c EXCEPT !.stage = "denied"]
<1>0. /\ calls \subseteq Calls /\ n \in Nat /\ pairs \in Seq(Pairs) /\ c \in Calls
      /\ c.with \in 0..n /\ access \in 0..n
      /\ c.kind \in {"login", "redeem"} => c.who \in Accounts
  BY DEF SessionTyped, CallsFit, Calls
<1>P. \A k \in 1..n : pairs[k].owner \in Accounts
  <2>1. \A k \in 1..n : pairs[k] \in Pairs
    BY <1>0
  <2> QED
    BY <2>1 DEF Pairs
<1>1. Callers /\ FreshSignIn /\ (refresh = 0 <=> access = 0)
  BY DEF Aligned, Callers
<1>2. PICK u \in Accounts : OneOwner(u)
  BY DEF Aligned
<1>3. UNCHANGED <<access, refresh, user, hydrating, refreshing>>
  BY DEF Session!Serve, Session!storage, Session!store
<1>4. refreshing.stage = "ok" => refreshing.got # 0
  BY <1>2 DEF OneOwner
<1>a. \A k \in 0..(n + 1) :
        /\ answer(k).kind = c.kind /\ answer(k).with = c.with /\ answer(k).got = k
        /\ answer(k).stage = "answered"
  BY <1>0 DEF Calls
<1>d. denied.kind = c.kind /\ denied.with = c.with /\ denied.stage = "denied"
  BY <1>0 DEF Calls
<1>w. c.kind \in {"me", "password"} => c.with \in 1..n /\ pairs[c.with].owner = u
  BY <1>0, <1>2 DEF OneOwner
<1>5. CASE ~Session!Authorized(c)
  <2>1. pairs' = pairs /\ calls' = (calls \ {c}) \cup {denied}
    BY <1>5 DEF Session!Serve, Session!Turned
  <2> HIDE DEF denied
  <2>2. Callers'
    BY <1>1, <1>3, <1>d, <2>1, CallersReplaced
  <2>3. OneOwner(u)'
    BY <1>1, <1>2, <1>3, <1>d, <1>w, <2>1, OwnerKept
  <2>4. FreshSignIn'
    BY <1>1, <1>3, <1>4, <1>d, <2>1, FreshKept DEF Answered
  <2> QED
    BY <2>2, <2>3, <2>4 DEF Aligned
<1>6. ASSUME NEW k \in 0..(n + 1), calls' = (calls \ {c}) \cup {answer(k)},
             \A i \in 1..n : pairs'[i].owner = pairs[i].owner,
             c.kind \in {"me", "password"} => k # 0 /\ pairs'[k].owner = u
      PROVE  Callers' /\ OneOwner(u)'
  <2>1. answer(k).kind = c.kind /\ answer(k).with = c.with /\ answer(k).got = k
    BY <1>a
  <2> HIDE DEF answer
  <2>2. Callers'
    BY <1>1, <1>3, <1>6, <2>1, CallersReplaced
  <2>3. \A d \in calls' : d \in calls \/ d = answer(k)
    BY <1>6
  <2>4. OneOwner(u)'
    BY <1>1, <1>2, <1>3, <1>6, <1>w, <2>1, <2>3, OwnerKept
  <2> QED
    BY <2>2, <2>4
<1>7. CASE Session!Authorized(c) /\ c.kind \in {"login", "redeem"}
  <2>1. pairs' = Session!Minted(pairs, c.who) /\ calls' = (calls \ {c}) \cup {answer(Len(pairs'))}
    BY <1>7 DEF Session!Serve, Session!Turned, Session!SignIns
  <2>2. Len(pairs') = n + 1 /\ pairs'[n + 1].live /\ \A i \in 1..n : pairs'[i] = pairs[i]
    BY <1>0, <1>7, <2>1, MintedPair
  <2>3. n + 1 \in 0..(n + 1) /\ n + 1 # 0 /\ calls' = (calls \ {c}) \cup {answer(n + 1)}
    BY <1>0, <2>1, <2>2
  <2>4. answer(n + 1).got = n + 1
    BY <1>a, <2>3
  <2> HIDE DEF answer
  <2>5. Callers' /\ OneOwner(u)'
    BY <1>6, <1>7, <2>2, <2>3
  <2>6. FreshSignIn'
    BY <1>1, <1>3, <1>4, <2>2, <2>3, <2>4, FreshKept
  <2> QED
    BY <2>5, <2>6 DEF Aligned
<1>8. ASSUME Session!Authorized(c), c.kind \in {"password", "logout"}
      PROVE  FreshSignIn'
  <2>1. user # None /\ \A e \in calls : e.kind \notin Guests
    BY <1>1, <1>8 DEF Callers, Guests
  <2>2. PICK k : calls' = (calls \ {c}) \cup {answer(k)}
    BY <1>8 DEF Session!Serve, Session!Turned, Session!SignIns
  <2>3. answer(k).kind = c.kind
    BY <1>0 DEF Calls
  <2> HIDE DEF answer
  <2>4. \A e \in calls' : ~Answered(e)
    BY <1>8, <2>1, <2>2, <2>3 DEF Answered, Guests
  <2> QED
    BY <1>3, <2>1, <2>4 DEF FreshSignIn
<1>9. CASE Session!Authorized(c) /\ c.kind = "password"
  <2>1. /\ pairs' = Session!Minted(Session!Revoked(pairs, pairs[c.with].owner),
                                   pairs[c.with].owner)
        /\ calls' = (calls \ {c}) \cup {answer(Len(pairs'))}
    BY <1>9 DEF Session!Serve, Session!Turned, Session!SignIns
  <2>2. LET revoked == Session!Revoked(pairs, u) IN
        revoked \in Seq(Pairs) /\ Len(revoked) = n /\ \A i \in 1..n : revoked[i].owner = pairs[i].owner
    BY <1>0, RevokedPairs
  <2> DEFINE revoked == Session!Revoked(pairs, u)
  <2>3. pairs' = Session!Minted(revoked, u)
    BY <1>9, <1>w, <2>1
  <2> HIDE DEF revoked
  <2>4. /\ Len(pairs') = n + 1 /\ pairs'[n + 1].owner = u
        /\ \A i \in 1..n : pairs'[i].owner = pairs[i].owner
    <3>1. /\ revoked \in Seq(Pairs) /\ Len(revoked) = n
          /\ \A i \in 1..n : revoked[i].owner = pairs[i].owner
      BY <2>2 DEF revoked
    <3>2. u \in Accounts
      BY <1>2
    <3>3. /\ Len(pairs') = n + 1 /\ pairs'[n + 1].owner = u
          /\ \A i \in 1..n : pairs'[i] = revoked[i]
      BY <2>3, <3>1, <3>2, MintedPair
    <3> QED
      BY <3>1, <3>3
  <2>5. n + 1 \in 0..(n + 1) /\ n + 1 # 0 /\ calls' = (calls \ {c}) \cup {answer(n + 1)}
    BY <1>0, <2>1, <2>4
  <2> HIDE DEF answer
  <2>6. Callers' /\ OneOwner(u)'
    BY <1>6, <2>4, <2>5
  <2> QED
    BY <1>8, <1>9, <2>6 DEF Aligned
<1>10. CASE Session!Authorized(c) /\ c.kind = "logout"
  <2>1. pairs' = Session!Killed(pairs, c.body) /\ calls' = (calls \ {c}) \cup {answer(0)}
    BY <1>10 DEF Session!Serve, Session!Turned, Session!SignIns
  <2>2. \A i \in 1..n : pairs'[i].owner = pairs[i].owner
    BY <1>0, <2>1, KilledPairs
  <2>3. 0 \in 0..(n + 1)
    BY <1>0
  <2> HIDE DEF answer
  <2>4. Callers' /\ OneOwner(u)'
    BY <1>6, <1>10, <2>1, <2>2, <2>3
  <2> QED
    BY <1>8, <1>10, <2>4 DEF Aligned
<1>11. CASE Session!Authorized(c) /\ c.kind \in {"me", "edit"}
  <2>1. pairs' = pairs /\ calls' = (calls \ {c}) \cup {answer(c.with)}
    BY <1>11 DEF Session!Serve, Session!Turned, Session!SignIns
  <2>2. c.with \in 0..(n + 1)
    BY <1>0
  <2>3. answer(c.with).kind = c.kind
    BY <1>a, <2>2
  <2> HIDE DEF answer
  <2>4. Callers' /\ OneOwner(u)'
    BY <1>6, <1>11, <1>w, <2>1, <2>2
  <2>5. FreshSignIn'
    BY <1>1, <1>3, <1>4, <1>11, <2>1, <2>3, FreshKept DEF Answered
  <2> QED
    BY <2>4, <2>5 DEF Aligned
<1> QED
  BY <1>0, <1>5, <1>7, <1>9, <1>10, <1>11 DEF Calls, Kinds

\* A request that fails for its caller leaves the session aligned, unless an answer with
\* tokens is on its way.
LEMMA AlignedRejected ==
  ASSUME SessionTyped, Aligned, NEW c \in calls, Session!Rejected(c), ~straggler',
         UNCHANGED <<pairs, refreshing>>
  PROVE  Aligned'
<1>0. calls \subseteq Calls /\ c.kind \in Kinds
  BY DEF SessionTyped, CallsFit, Calls
<1>1. Callers /\ FreshSignIn /\ (refresh = 0 <=> access = 0)
  BY DEF Aligned, Callers
<1>2. PICK u \in Accounts : OneOwner(u)
  BY DEF Aligned
<1>3. calls' = calls \ {c}
  BY <1>0, RejectedCall
<1>4. ASSUME access' = 0, refresh' = 0, user' = None, refreshing.stage = "none",
             \A d \in calls' : d.kind = "edit"
      PROVE  Aligned'
  <2>1. Callers'
    BY <1>4 DEF Callers, Guests
  <2>2. FreshSignIn'
    BY <1>4 DEF FreshSignIn, Answered
  <2>3. OneOwner(u)'
    BY <1>4 DEF OneOwner
  <2> QED
    BY <2>1, <2>2, <2>3 DEF Aligned
<1>5. CASE c.kind = "me"
  <2>1. access' = 0 /\ refresh' = 0 /\ user' = None
    BY <1>5 DEF Session!Rejected, Session!LoadFails, Session!Cleared, Session!SetUser
  <2>2. refreshing.stage = "none"
    BY <1>5, Zenon DEF Session!Rejected, Session!LoadFails
  <2>3. user = None
    BY <1>1, <1>5 DEF Callers
  <2>4. \A d \in calls' : d.kind = "edit"
    BY <1>1, <1>3, <1>5, <2>3 DEF Callers, Guests
  <2> QED
    BY <1>4, <2>1, <2>2, <2>4
<1>6. CASE c.kind = "logout"
  <2>1. Session!SignedOut(calls \ {c})
    BY <1>6 DEF Session!Rejected
  <2>2. /\ user' = None /\ access' = 0 /\ refresh' = 0 /\ refreshing.stage = "none"
        /\ \A d \in calls \ {c} : d.kind \in {"edit", "logout"}
    BY <1>0, <2>1, SignsOut
  <2>3. \A d \in calls' : d.kind = "edit"
    BY <1>1, <1>3, <1>6, <2>2 DEF Callers
  <2> QED
    BY <1>4, <2>2, <2>3
<1>7. CASE c.kind \notin {"me", "logout"}
  <2>1. UNCHANGED <<access, refresh, user, hydrating>>
    BY <1>7 DEF Session!Rejected, Session!storage, Session!store
  <2>2. Callers'
    BY <1>1, <1>3, <1>7, <2>1, CallersFewer
  <2>3. OneOwner(u)'
    BY <1>1, <1>2, <1>3, <2>1, OwnerKept
  <2>4. refreshing.stage = "ok" => refreshing.got # 0
    BY <1>2 DEF OneOwner
  <2>5. FreshSignIn'
    BY <1>1, <1>3, <2>1, <2>4, FreshKept
  <2> QED
    BY <2>2, <2>3, <2>5 DEF Aligned
<1> QED
  BY <1>5, <1>6, <1>7

\* An answer that arrives keeps the session aligned.
LEMMA AlignedArrive ==
  ASSUME SessionTyped, Aligned, NEW c \in calls, Session!Arrive(c), ~straggler'
  PROVE  Aligned'
<1> DEFINE n == Len(pairs)
<1>0. /\ calls \subseteq Calls /\ n \in Nat /\ pairs \in Seq(Pairs) /\ c.kind \in Kinds
      /\ c.got \in 0..n
  BY DEF SessionTyped, CallsFit, Calls
<1>P. \A k \in 1..n : pairs[k].owner \in Accounts
  <2>1. \A k \in 1..n : pairs[k] \in Pairs
    BY <1>0
  <2> QED
    BY <2>1 DEF Pairs
<1>1. Callers /\ FreshSignIn /\ (refresh = 0 <=> access = 0)
  BY DEF Aligned, Callers
<1>2. PICK u \in Accounts : OneOwner(u)
  BY DEF Aligned
<1>3. UNCHANGED <<pairs, refreshing>> /\ c.stage = "answered"
  BY DEF Session!Arrive
<1>4. CASE c.kind \in {"login", "redeem"}
  <2> DEFINE me == [Session!Call("me", None) EXCEPT !.with = c.got]
  <2>1. /\ access' = c.got /\ refresh' = c.got /\ UNCHANGED <<user, hydrating>>
        /\ calls' = (calls \ {c}) \cup {me}
    BY <1>4 DEF Session!Arrive, Session!SignIns, Session!Turned, Session!store
  <2>2. me.kind = "me" /\ me.with = c.got /\ me.stage = "sent"
    <3>1. c.got \in Nat
      BY <1>0
    <3> QED
      BY <3>1, NewMe
  <2> HIDE DEF me
  <2>3. user = None /\ access = 0 /\ refreshing.stage = "none"
    BY <1>1, <1>4 DEF Callers
  <2>4. \A d \in calls \ {c} : d.kind = "edit"
    BY <1>1, <1>4, <2>3 DEF Callers, Guests
  <2>5. c.got # 0 /\ pairs[c.got].live
    BY <1>1, <1>3, <1>4 DEF FreshSignIn, Answered
  <2>6. pairs[c.got].owner \in Accounts
    BY <1>0, <1>P, <2>5
  <2>7. Callers'
    <3>1. \A d \in calls' : d.kind = "edit" \/ d = me
      BY <2>1, <2>4
    <3> QED
      BY <1>3, <2>1, <2>2, <2>3, <2>5, <3>1 DEF Callers, Guests
  <2>8. OneOwner(pairs[c.got].owner)'
    <3>1. \A d \in calls' : d.kind = "edit" \/ d = me
      BY <2>1, <2>4
    <3> QED
      BY <1>3, <2>1, <2>2, <2>3, <2>5, <3>1 DEF OneOwner
  <2>9. FreshSignIn'
    BY <1>3, <2>1, <2>2, <2>3, <2>4, <2>5 DEF FreshSignIn, Answered
  <2> QED
    BY <1>3, <2>6, <2>7, <2>8, <2>9 DEF Aligned
<1>5. CASE c.kind = "me"
  <2>1. UNCHANGED <<access, refresh>> /\ user' = pairs[c.got].owner /\ calls' = calls \ {c}
    BY <1>5 DEF Session!Arrive, Session!SignIns, Session!Done, Session!storage, Session!SetUser
  <2>2. user' = u /\ u # None
    BY <1>2, <1>3, <1>5, <2>1, AccountAssumption DEF OneOwner
  <2>3. user = None /\ access # 0
    BY <1>1, <1>5 DEF Callers
  <2>4. \A d \in calls' : d.kind = "edit"
    BY <1>1, <1>5, <2>1, <2>3 DEF Callers, Guests
  <2>5. Callers'
    BY <1>1, <1>3, <2>1, <2>2, <2>3, <2>4 DEF Callers
  <2>6. OneOwner(u)'
    BY <1>2, <1>3, <2>1, <2>2, <2>4 DEF OneOwner
  <2>7. FreshSignIn'
    BY <2>2, <2>4 DEF FreshSignIn, Answered
  <2> QED
    BY <2>5, <2>6, <2>7 DEF Aligned
<1>6. CASE c.kind = "password"
  <2>1. /\ access' = c.got /\ refresh' = c.got /\ UNCHANGED <<user, hydrating>>
        /\ calls' = calls \ {c}
    BY <1>6 DEF Session!Arrive, Session!SignIns, Session!Done, Session!store
  <2>2. c.got # 0 /\ pairs[c.got].owner = u
    BY <1>2, <1>3, <1>6 DEF OneOwner
  <2>3. user # None /\ \A d \in calls' : d.kind \in {"edit", "password", "logout"}
    BY <1>1, <1>6, <2>1 DEF Callers, Guests
  <2>4. Callers'
    BY <1>1, <1>3, <2>1, <2>2, <2>3 DEF Callers, Guests
  <2>5. OneOwner(u)'
    BY <1>2, <1>3, <2>1, <2>2 DEF OneOwner
  <2>6. FreshSignIn'
    BY <2>1, <2>3 DEF FreshSignIn, Answered
  <2> QED
    BY <2>4, <2>5, <2>6 DEF Aligned
<1>7. CASE c.kind = "logout"
  <2>1. Session!SignedOut(calls \ {c}) /\ calls' = calls \ {c}
    BY <1>7 DEF Session!Arrive, Session!SignIns, Session!Done
  <2>2. /\ user' = None /\ access' = 0 /\ refresh' = 0 /\ refreshing.stage = "none"
        /\ \A d \in calls \ {c} : d.kind \in {"edit", "logout"}
    BY <1>0, <2>1, SignsOut
  <2>3. \A d \in calls' : d.kind = "edit"
    BY <1>1, <1>7, <2>1, <2>2 DEF Callers
  <2>4. Callers'
    BY <1>3, <2>2, <2>3 DEF Callers, Guests
  <2>5. OneOwner(u)'
    BY <1>3, <2>2, <2>3 DEF OneOwner
  <2>6. FreshSignIn'
    BY <2>2, <2>3 DEF FreshSignIn, Answered
  <2> QED
    BY <2>4, <2>5, <2>6 DEF Aligned
<1>8. CASE c.kind = "edit"
  <2>1. UNCHANGED <<access, refresh, user, hydrating>> /\ calls' = calls \ {c}
    BY <1>8 DEF Session!Arrive, Session!SignIns, Session!Done, Session!Edited, Session!storage
  <2>2. Callers'
    BY <1>1, <1>3, <1>8, <2>1, CallersFewer
  <2>3. OneOwner(u)'
    BY <1>1, <1>2, <1>3, <2>1, OwnerKept
  <2>4. refreshing.stage = "ok" => refreshing.got # 0
    BY <1>2 DEF OneOwner
  <2>5. FreshSignIn'
    BY <1>1, <1>3, <2>1, <2>4, FreshKept
  <2> QED
    BY <2>2, <2>3, <2>5 DEF Aligned
<1> QED
  BY <1>0, <1>4, <1>5, <1>6, <1>7, <1>8 DEF Kinds

\* Every step keeps the session aligned, as long as it is alone.
LEMMA AlignedKept ==
  ASSUME SessionTyped, OtherActed, AlignedInv, Session!Next
  PROVE  AlignedInv'
<1> SUFFICES ASSUME Alone'
             PROVE  Aligned'
  BY DEF AlignedInv
<1> DEFINE n == Len(pairs)
<1>0. /\ calls \subseteq Calls /\ n \in Nat /\ pairs \in Seq(Pairs)
      /\ access \in 0..n /\ refresh \in 0..n /\ fails \in Nat /\ others \in Nat
      /\ refreshing.with \in 0..n /\ refreshing.got \in 0..n
      /\ refreshing.stage = "sent" => refreshing.with # 0
      /\ \A c \in calls : c.with \in 0..n /\ c.got \in 0..n
  BY DEF SessionTyped, CallsFit, Calls
<1>f. fails' = 0 /\ others' = 0 /\ ~straggler'
  BY DEF Alone
<1>r. ASSUME UNCHANGED <<fails, others>>, ~straggler
      PROVE  Aligned
  BY <1>f, <1>r DEF AlignedInv, Alone
<1>a. ASSUME UNCHANGED <<fails, others, straggler>>
      PROVE  Aligned
  BY <1>f, <1>a, <1>r
<1>b. ASSUME Aligned
      PROVE  /\ Callers /\ FreshSignIn /\ (refresh = 0 <=> access = 0)
             /\ \E u \in Accounts : OneOwner(u)
             /\ refreshing.stage = "ok" => refreshing.got # 0
  BY <1>b DEF Aligned, Callers, OneOwner
<1>1. CASE \E k \in 1..MaxPairs : Session!Expire(k)
  <2>1. PICK k \in DOMAIN pairs : pairs' = [pairs EXCEPT ![k].fresh = FALSE]
    BY <1>1 DEF Session!Expire
  <2>2. UNCHANGED <<access, refresh, user, hydrating, calls, refreshing, fails, others, straggler>>
    BY <1>1 DEF Session!Expire, Session!storage, Session!store, Session!bounds, Session!ghosts
  <2>3. \A i \in 1..n : (pairs[i].live => pairs'[i].live) /\ pairs'[i].owner = pairs[i].owner
    <3>1. \A i \in 1..n : pairs[i] \in Pairs /\ i \in DOMAIN pairs
      BY <1>0
    <3>2. \A r \in Pairs : /\ [r EXCEPT !.fresh = FALSE].live = r.live
                           /\ [r EXCEPT !.fresh = FALSE].owner = r.owner
      BY DEF Pairs
    <3> QED
      BY <2>1, <3>1, <3>2
  <2>4. Aligned
    BY <1>a, <2>2
  <2>5. PICK u \in Accounts : OneOwner(u)
    BY <2>4 DEF Aligned
  <2>6. Callers'
    BY <2>2, <2>4 DEF Aligned, Callers
  <2>7. OneOwner(u)'
    BY <1>b, <2>2, <2>3, <2>4, <2>5, OwnerKept
  <2>8. FreshSignIn'
    BY <1>b, <2>2, <2>3, <2>4, FreshKept
  <2> QED
    BY <2>6, <2>7, <2>8 DEF Aligned
<1>2. CASE \E c \in calls : Session!Serve(c)
  <2>1. UNCHANGED <<fails, others, straggler>>
    BY <1>2 DEF Session!Serve, Session!bounds
  <2> QED
    BY <1>2, <1>a, <2>1, AlignedServe
<1>3. CASE \E c \in calls : Session!Arrive(c)
  <2>1. PICK c \in calls : Session!Arrive(c)
    BY <1>3
  <2>2. UNCHANGED <<fails, others>> /\ c.kind \in Kinds
    BY <1>0, <2>1 DEF Session!Arrive, Session!bounds, Calls
  <2>3. ~straggler
    <3>1. CASE c.kind = "logout"
      <4>1. Session!SignedOut(calls \ {c})
        BY <2>1, <3>1 DEF Session!Arrive, Session!SignIns
      <4> QED
        BY <1>f, <4>1, Zenon DEF Session!SignedOut
    <3>2. CASE c.kind # "logout"
      <4>1. straggler' = straggler
        BY <2>1, <2>2, <3>2 DEF Session!Arrive, Session!SignIns, Kinds
      <4> QED
        BY <1>f, <4>1
    <3> QED
      BY <3>1, <3>2
  <2> QED
    BY <1>f, <1>r, <2>1, <2>2, <2>3, AlignedArrive
<1>4. CASE \/ \E c \in calls : Session!Fail(c)
           \/ Session!RefreshFails \/ Session!OtherRefreshes \/ Session!OtherSignsOut
  BY <1>0, <1>4, <1>f DEF Session!Fail, Session!Fails, Session!RefreshFails,
     Session!OtherRefreshes, Session!OtherSignsOut, Session!Others
<1>5. CASE \E c \in calls : Session!Denied(c)
  <2>1. PICK c \in calls : Session!Denied(c)
    BY <1>5
  <2>2. UNCHANGED <<pairs, fails, others>> /\ c \in Calls
    BY <1>0, <2>1 DEF Session!Denied, Session!bounds
  <2>3. CASE ~Session!ShouldRefresh(c)
    <3>1. Session!Rejected(c) /\ refreshing' = refreshing
      BY <2>1, <2>3 DEF Session!Denied
    <3>2. ~straggler
      <4>1. CASE c.kind = "me"
        BY <1>f, <3>1, <4>1, Zenon DEF Session!Rejected, Session!LoadFails
      <4>2. CASE c.kind = "logout"
        <5>1. Session!SignedOut(calls \ {c})
          BY <3>1, <4>2 DEF Session!Rejected
        <5> QED
          BY <1>f, <5>1, Zenon DEF Session!SignedOut
      <4>3. CASE c.kind \notin {"me", "logout"}
        <5>1. straggler' = straggler
          BY <3>1, <4>3 DEF Session!Rejected
        <5> QED
          BY <1>f, <5>1
      <4> QED
        BY <4>1, <4>2, <4>3
    <3> QED
      BY <1>f, <1>r, <2>2, <3>1, <3>2, AlignedRejected
  <2>4. CASE Session!ShouldRefresh(c)
    <3> DEFINE d == [c EXCEPT !.stage = "waiting", !.retry = TRUE]
    <3>1. /\ UNCHANGED <<access, refresh, user, hydrating, straggler>>
          /\ refreshing' = Session!Joined /\ calls' = (calls \ {c}) \cup {d} /\ refresh # 0
      BY <2>1, <2>4 DEF Session!Denied, Session!Turned, Session!storage, Session!store,
         Session!ShouldRefresh
    <3>2. d.kind = c.kind /\ d.with = c.with /\ d.stage = "waiting"
      BY <2>2 DEF Calls
    <3> HIDE DEF d
    <3>3. Aligned
      BY <1>a, <2>2, <3>1
    <3>4. Callers /\ FreshSignIn /\ access # 0
      BY <1>b, <3>1, <3>3
    <3>5. PICK u \in Accounts : OneOwner(u)
      BY <3>3 DEF Aligned
    <3>6. Callers'
      BY <3>1, <3>2, <3>4, CallersReplaced
    <3>7. \/ refreshing.stage = "none" /\ refreshing'.stage = "sent" /\ refreshing'.with = refresh
          \/ refreshing.stage # "none" /\ refreshing' = refreshing
      BY <3>1 DEF Session!Joined
    <3>8. \A e \in calls' : e \in calls \/ e = d
      BY <3>1
    <3>9. OneOwner(u)'
      BY <2>2, <3>1, <3>2, <3>4, <3>5, <3>7, <3>8 DEF OneOwner
    <3>10. FreshSignIn'
      BY <2>2, <3>1, <3>2, <3>4, <3>7, <3>8 DEF FreshSignIn, Answered
    <3> QED
      BY <3>6, <3>9, <3>10 DEF Aligned
  <2> QED
    BY <2>3, <2>4
<1>6. CASE Session!Reload
  <2>1. /\ UNCHANGED <<pairs, access, refresh, fails, others, straggler>>
        /\ user' = None /\ refreshing'.stage = "none" /\ hydrating' = (access # 0)
    BY <1>6 DEF Session!Reload, Session!Loaded, Session!storage, Session!ghosts,
       Session!NoRefresh, Session!SetUser
  <2>2. Aligned
    BY <1>a, <2>1
  <2>3. PICK u \in Accounts : OneOwner(u)
    BY <2>2 DEF Aligned
  <2> DEFINE me == [Session!Call("me", None) EXCEPT !.with = access]
  <2>4. me.kind = "me" /\ me.with = access /\ me.stage = "sent"
    <3>1. access \in Nat
      BY <1>0
    <3> QED
      BY <3>1, NewMe
  <2>5. (access = 0 /\ calls' = {}) \/ (access # 0 /\ calls' = {me})
    BY <1>6 DEF Session!Reload, Session!Loaded
  <2> HIDE DEF me
  <2>6. Callers'
    BY <1>b, <2>1, <2>2, <2>4, <2>5 DEF Callers, Guests
  <2>7. OneOwner(u)'
    BY <2>1, <2>3, <2>4, <2>5 DEF OneOwner
  <2>8. FreshSignIn'
    BY <2>1, <2>4, <2>5 DEF FreshSignIn, Answered
  <2> QED
    BY <2>6, <2>7, <2>8 DEF Aligned
<1>7. ASSUME UNCHANGED <<pairs, access, refresh, user, hydrating, refreshing, fails, others, straggler>>,
             user # None,
             NEW d, d.kind \in {"edit", "password", "logout"}, d.with = access, d.stage = "sent",
             calls' = calls \cup {d}, d.kind = "logout" => \A c \in calls : c.kind # "logout"
      PROVE  Aligned'
  <2>1. Aligned
    BY <1>7, <1>a
  <2>2. PICK u \in Accounts : OneOwner(u)
    BY <2>1 DEF Aligned
  <2>3. Callers /\ FreshSignIn /\ access # 0
    BY <1>7, <2>1 DEF Aligned, Callers
  <2>4. Callers'
    <3>1. \A e \in calls' : e \in calls \/ e = d
      BY <1>7
    <3> QED
      BY <1>7, <2>3, <3>1 DEF Callers, Guests
  <2>5. OneOwner(u)'
    BY <1>7, <2>2, <2>3 DEF OneOwner
  <2>6. FreshSignIn'
    BY <1>7, <2>3 DEF FreshSignIn, Answered
  <2> QED
    BY <2>4, <2>5, <2>6 DEF Aligned
<1>8. CASE Session!SignOut
  <2>1. user # None /\ UNCHANGED <<pairs, refreshing, fails, others>>
    BY <1>8 DEF Session!SignOut, Session!bounds
  <2>2. ~straggler
    <3>1. CASE refresh = 0
      BY <1>8, <1>f, <3>1, Zenon DEF Session!SignOut, Session!SignedOut
    <3>2. CASE refresh # 0
      BY <1>8, <1>f, <3>2 DEF Session!SignOut
    <3> QED
      BY <3>1, <3>2
  <2>3. refresh # 0
    BY <1>r, <1>b, <2>1, <2>2 DEF Callers
  <2> DEFINE d == Session!Call("logout", None)
  <2>4. /\ calls' = calls \cup {d} /\ \A c \in calls : c.kind # "logout"
        /\ UNCHANGED <<access, refresh, user, hydrating, straggler>>
    BY <1>8, <2>3 DEF Session!SignOut, Session!Send, Session!storage, Session!store,
       Session!InFlight
  <2>5. d.kind = "logout" /\ d.with = access /\ d.stage = "sent"
    <3>1. PICK k \in Kinds : k = "logout"
      BY DEF Kinds
    <3>2. LET e == Session!Call(k, None) IN e.kind = k /\ e.with = access /\ e.stage = "sent"
      BY NewCall
    <3> QED
      BY <3>1, <3>2
  <2> HIDE DEF d
  <2> QED
    BY <1>7, <2>1, <2>4, <2>5
<1>9. CASE \E kind_ \in {"edit", "password"} : Session!Request(kind_)
  <2>1. PICK kind_ \in {"edit", "password"} : Session!Request(kind_)
    BY <1>9
  <2> DEFINE d == Session!Call(kind_, None)
  <2>2. d.kind = kind_ /\ d.with = access /\ d.stage = "sent"
    <3>1. kind_ \in Kinds
      BY DEF Kinds
    <3> QED
      BY <3>1, NewCall
  <2>3. /\ calls' = calls \cup {d} /\ user # None
        /\ UNCHANGED <<pairs, access, refresh, user, hydrating, refreshing, fails, others, straggler>>
    BY <2>1 DEF Session!Request, Session!Send, Session!storage, Session!store, Session!bounds,
       Session!ghosts
  <2> HIDE DEF d
  <2> QED
    BY <1>7, <2>2, <2>3
<1>10. CASE \E u \in Accounts : Session!SignIn(u) \/ Session!Callback(u)
  <2>1. PICK u \in Accounts : Session!SignIn(u) \/ Session!Callback(u)
    BY <1>10
  <2>2. /\ user = None /\ user' = None /\ ~Session!InFlight(Session!SignIns \cup {"me"})
        /\ UNCHANGED <<pairs, access, refresh, fails, others, straggler>>
    BY <2>1 DEF Session!SignIn, Session!Callback, Session!storage, Session!store,
       Session!bounds, Session!SetUser
  <2>3. Aligned
    BY <1>a, <2>2
  <2>4. \A c \in calls : c.kind = "edit"
    BY <1>b, <2>2, <2>3 DEF Callers, Guests, Session!InFlight, Session!SignIns
  <2>5. access = 0 /\ refresh = 0 /\ refreshing.stage = "none"
    BY <1>b, <2>2, <2>3, <2>4 DEF Callers
  <2>6. PICK k \in {"login", "redeem"} : \A c \in calls' : c \in calls \/ c = Session!Call(k, u)
    BY <2>1, <2>5 DEF Session!SignIn, Session!Callback, Session!Send
  <2>7. refreshing'.stage = "none"
    BY <2>1, <2>5 DEF Session!SignIn, Session!Callback, Session!NoRefresh
  <2> DEFINE d == Session!Call(k, u)
  <2>8. d.kind = k /\ d.stage = "sent" /\ d.with = 0
    <3>1. k \in Kinds
      BY DEF Kinds
    <3> QED
      BY <2>5, <3>1, NewCall
  <2> HIDE DEF d
  <2>9. \A c \in calls' : c \in calls \/ c = d
    BY <2>6 DEF d
  <2>10. Callers'
    BY <2>2, <2>4, <2>5, <2>7, <2>8, <2>9 DEF Callers, Guests
  <2>11. OneOwner(u)'
    BY <2>2, <2>4, <2>5, <2>7, <2>8, <2>9 DEF OneOwner
  <2>12. FreshSignIn'
    BY <2>2, <2>4, <2>5, <2>8, <2>9 DEF FreshSignIn, Answered
  <2> QED
    BY <2>10, <2>11, <2>12 DEF Aligned
<1>11. CASE Session!ServeRefresh
  <2>1. /\ UNCHANGED <<access, refresh, user, hydrating, calls, fails, others, straggler>>
        /\ refreshing.stage = "sent"
    BY <1>11 DEF Session!ServeRefresh, Session!storage, Session!store, Session!bounds,
       Session!ghosts
  <2>2. Aligned
    BY <1>a, <2>1
  <2>3. PICK u \in Accounts : OneOwner(u)
    BY <2>2 DEF Aligned
  <2>4. Callers /\ FreshSignIn /\ access # 0
    BY <1>b, <2>1, <2>2 DEF Callers
  <2>5. \A c \in calls : ~Answered(c)
    BY <2>4 DEF Callers, Answered
  <2>6. Callers'
    BY <2>1, <2>4 DEF Callers
  <2>7. refreshing = [stage |-> refreshing.stage, with |-> refreshing.with, got |-> refreshing.got]
    BY DEF SessionTyped
  <2> DEFINE k == refreshing.with
             killed == Session!Killed(pairs, k)
  <2>8. CASE pairs[k].live
    <3>1. /\ pairs' = Session!Minted(killed, pairs[k].owner)
          /\ refreshing' = [refreshing EXCEPT !.stage = "ok", !.got = Len(pairs')]
      BY <1>11, <2>8 DEF Session!ServeRefresh
    <3>2. pairs[k].owner = u
      BY <2>1, <2>3 DEF OneOwner
    <3>3. killed \in Seq(Pairs) /\ Len(killed) = n /\ \A i \in 1..n : killed[i].owner = pairs[i].owner
      BY <1>0, KilledPairs
    <3>u. u \in Accounts
      BY <2>3
    <3> HIDE DEF killed
    <3>4. /\ Len(pairs') = n + 1 /\ pairs'[n + 1].live /\ pairs'[n + 1].owner = u
          /\ \A i \in 1..n : pairs'[i].owner = pairs[i].owner
      BY <3>1, <3>2, <3>3, <3>u, MintedPair
    <3>5. refreshing'.stage = "ok" /\ refreshing'.got = n + 1
      BY <2>7, <3>1, <3>4
    <3>6. OneOwner(u)'
      <4>1. /\ pairs'[access].owner = u /\ pairs'[refresh].owner = u
        BY <1>0, <1>b, <2>2, <2>3, <2>4, <3>4 DEF OneOwner
      <4>2. ASSUME NEW c \in calls, c.kind \in {"me", "password"}
            PROVE  /\ c.with # 0 /\ pairs'[c.with].owner = u
                   /\ c.stage = "answered" => c.got # 0 /\ pairs'[c.got].owner = u
        BY <1>0, <2>3, <3>4, <4>2 DEF OneOwner
      <4> QED
        BY <1>0, <2>1, <2>3, <3>4, <3>5, <4>1, <4>2 DEF OneOwner
    <3>7. FreshSignIn'
      BY <2>1, <2>5, <3>4, <3>5 DEF FreshSignIn
    <3> QED
      BY <2>3, <2>6, <3>6, <3>7 DEF Aligned
  <2>9. CASE ~pairs[k].live
    <3>1. pairs' = pairs /\ refreshing' = [refreshing EXCEPT !.stage = "refused"]
      BY <1>11, <2>9 DEF Session!ServeRefresh
    <3>2. refreshing'.stage = "refused"
      BY <2>7, <3>1
    <3>3. user # None \/ hydrating
      BY <2>1, <2>4, <2>9 DEF FreshSignIn
    <3>4. OneOwner(u)'
      BY <2>1, <2>3, <3>1, <3>2 DEF OneOwner
    <3>5. FreshSignIn'
      BY <2>1, <2>5, <3>1, <3>3 DEF FreshSignIn
    <3> QED
      BY <2>3, <2>6, <3>4, <3>5 DEF Aligned
  <2> QED
    BY <2>8, <2>9
<1>12. CASE Session!RefreshArrives
  <2> DEFINE sent_(c) == [c EXCEPT !.stage = "sent", !.with = refreshing.got]
  <2>1. /\ UNCHANGED <<pairs, user, hydrating, fails, others, straggler>>
        /\ refreshing.stage = "ok" /\ refreshing' = Session!NoRefresh
        /\ access' = refreshing.got /\ refresh' = refreshing.got
        /\ calls' = {IF c.stage = "waiting" THEN sent_(c) ELSE c : c \in calls}
    BY <1>12 DEF Session!RefreshArrives, Session!store, Session!bounds, Session!ghosts
  <2>2. Aligned
    BY <1>a, <2>1
  <2>3. PICK u \in Accounts : OneOwner(u)
    BY <2>2 DEF Aligned
  <2>4. Callers /\ FreshSignIn /\ access # 0
    BY <1>b, <2>1, <2>2 DEF Callers
  <2>5. \A c \in calls : /\ sent_(c).stage = "sent" /\ sent_(c).kind = c.kind
                         /\ sent_(c).with = refreshing.got
    <3>1. refreshing.got \in Nat
      BY <1>0
    <3> QED
      BY <1>0, <3>1 DEF Calls
  <2> HIDE DEF sent_
  <2>6. refreshing.got # 0 /\ pairs[refreshing.got].owner = u
    BY <2>1, <2>3 DEF OneOwner
  <2>7. \A c \in calls : c.kind \notin {"login", "redeem"}
    BY <2>4 DEF Callers
  <2>8. \A d \in calls' : \E c \in calls :
          d.kind = c.kind /\ d = (IF c.stage = "waiting" THEN sent_(c) ELSE c)
    BY <2>1, <2>5
  <2>9. \A d \in calls' : d \in calls \/ (d.stage = "sent" /\ d.with = refreshing.got)
    BY <2>5, <2>8
  <2>10. refreshing'.stage = "none"
    BY <2>1 DEF Session!NoRefresh
  <2>11. Callers'
    <3>1. \A d \in calls' : /\ d.kind \notin {"login", "redeem"}
                            /\ d.kind \in IF user' = None THEN Guests \cup {"edit"}
                                          ELSE {"edit", "password", "logout"}
      BY <2>1, <2>4, <2>7, <2>8 DEF Callers
    <3>2. \A c, d \in calls' : c.kind \in Guests /\ d.kind \in Guests => c = d
      BY <2>4, <2>8 DEF Callers
    <3>3. \A c, d \in calls' : c.kind = "logout" /\ d.kind = "logout" => c = d
      BY <2>4, <2>8 DEF Callers
    <3>4. (\E c \in calls : c.kind = "me") => \E d \in calls' : d.kind = "me"
      BY <2>1, <2>5
    <3> QED
      BY <2>1, <2>4, <2>6, <2>10, <3>1, <3>2, <3>3, <3>4 DEF Callers
  <2>12. OneOwner(u)'
    BY <2>1, <2>3, <2>6, <2>9, <2>10 DEF OneOwner
  <2>13. FreshSignIn'
    <3>1. \A d \in calls' : ~Answered(d)
      BY <2>7, <2>8 DEF Answered
    <3> QED
      BY <2>1, <2>4, <2>10, <3>1 DEF FreshSignIn
  <2> QED
    BY <2>3, <2>11, <2>12, <2>13 DEF Aligned
<1>13. CASE Session!RefreshRefused
  <2>1. /\ refreshing.stage = "refused" /\ access' = 0 /\ refresh' = 0
        /\ UNCHANGED <<pairs, fails, others, straggler>>
    BY <1>13 DEF Session!RefreshRefused, Session!ThrownOut, Session!Cleared
  <2>2. Aligned
    BY <1>a, <2>1
  <2>3. ~(user = None /\ ~hydrating)
    BY <1>b, <2>1, <2>2 DEF Callers, FreshSignIn
  <2>4. user' = None /\ calls' = {} /\ refreshing' = Session!NoRefresh
    BY <1>13, <2>3 DEF Session!RefreshRefused, Session!ThrownOut, Session!Loaded, Session!SetUser
  <2>5. Callers' /\ FreshSignIn'
    BY <2>1, <2>4 DEF Callers, FreshSignIn, Session!NoRefresh
  <2>6. \A u \in Accounts : OneOwner(u)'
    BY <2>1, <2>4 DEF OneOwner, Session!NoRefresh
  <2> QED
    BY <2>2, <2>5, <2>6 DEF Aligned
<1>14. CASE Session!OtherStores
  <2>1. others' = others /\ other # 0
    BY <1>14 DEF Session!OtherStores, Session!bounds
  <2> QED
    BY <1>0, <1>f, <2>1 DEF OtherActed
<1> QED
  BY <1>1, <1>2, <1>3, <1>4, <1>5, <1>6, <1>8, <1>9, <1>10, <1>11, <1>12, <1>13, <1>14
     DEF Session!Next

\* What the server does to a request leaves every pair its owner.
LEMMA ServeOwners ==
  ASSUME SessionTyped, NEW c \in calls, Session!Serve(c)
  PROVE  /\ \A i \in 1..Len(pairs) : pairs'[i].owner = pairs[i].owner
         /\ \E d : /\ calls' = (calls \ {c}) \cup {d} /\ d.kind = c.kind /\ d.with = c.with
                   /\ c.kind = "edit" /\ d.stage = "answered" => d.got = c.with
<1> DEFINE n == Len(pairs)
           answer(k) == [c EXCEPT !.stage = "answered", !.got = k]
           denied == [c EXCEPT !.stage = "denied"]
<1>0. /\ calls \subseteq Calls /\ n \in Nat /\ pairs \in Seq(Pairs) /\ c \in Calls /\ c.with \in 0..n
      /\ c.kind \in {"login", "redeem"} => c.who \in Accounts
  BY DEF SessionTyped, CallsFit, Calls
<1>a. \A k : /\ answer(k).kind = c.kind /\ answer(k).with = c.with /\ answer(k).got = k
  BY <1>0 DEF Calls
<1>d. denied.kind = c.kind /\ denied.with = c.with /\ denied.stage = "denied"
  BY <1>0 DEF Calls
<1>1. CASE ~Session!Authorized(c)
  <2>1. pairs' = pairs /\ calls' = (calls \ {c}) \cup {denied}
    BY <1>1 DEF Session!Serve, Session!Turned
  <2> HIDE DEF denied
  <2> QED
    BY <1>d, <2>1
<1>2. CASE Session!Authorized(c)
  <2>1. PICK k : calls' = (calls \ {c}) \cup {answer(k)} /\ (c.kind = "edit" => k = c.with)
    BY <1>2 DEF Session!Serve, Session!Turned, Session!SignIns
  <2>2. \A i \in 1..n : pairs'[i].owner = pairs[i].owner
    <3>1. CASE c.kind \in {"login", "redeem"}
      <4>1. pairs' = Session!Minted(pairs, c.who)
        BY <1>2, <3>1 DEF Session!Serve, Session!SignIns
      <4> QED
        BY <1>0, <3>1, <4>1, MintedPair
    <3>2. CASE c.kind = "password"
      <4> DEFINE u == pairs[c.with].owner
                 revoked == Session!Revoked(pairs, u)
      <4>1. pairs' = Session!Minted(revoked, u)
        BY <1>2, <3>2 DEF Session!Serve, Session!SignIns
      <4>2. u \in Accounts
        <5>1. c.with \in 1..n
          BY <1>0, <1>2, <3>2 DEF Session!Authorized
        <5>2. pairs[c.with] \in Pairs
          BY <1>0, <5>1
        <5> QED
          BY <5>2 DEF Pairs
      <4>3. /\ revoked \in Seq(Pairs) /\ Len(revoked) = n
            /\ \A i \in 1..n : revoked[i].owner = pairs[i].owner
        BY <1>0, RevokedPairs
      <4> HIDE DEF revoked, u
      <4>4. \A i \in 1..n : pairs'[i] = revoked[i]
        BY <4>1, <4>2, <4>3, MintedPair
      <4> QED
        BY <4>3, <4>4
    <3>3. CASE c.kind = "logout"
      <4>1. pairs' = Session!Killed(pairs, c.body)
        BY <1>2, <3>3 DEF Session!Serve, Session!SignIns
      <4> QED
        BY <1>0, <4>1, KilledPairs
    <3>4. CASE c.kind \in {"me", "edit"}
      BY <1>2, <3>4 DEF Session!Serve, Session!SignIns
    <3> QED
      BY <1>0, <3>1, <3>2, <3>3, <3>4 DEF Calls, Kinds
  <2>3. answer(k).kind = c.kind /\ answer(k).with = c.with /\ answer(k).got = k
    BY <1>a
  <2> HIDE DEF answer
  <2> QED
    BY <2>1, <2>2, <2>3
<1> QED
  BY <1>1, <1>2

\* A request that is not an edit, or is one of the account on screen, leaves its fields.
LEMMA OwnStays ==
  ASSUME SessionTyped, Own, UNCHANGED <<user, blend>>,
         \A i \in 1..Len(pairs) : pairs'[i].owner = pairs[i].owner,
         \A d \in calls' : d.kind = "edit" =>
           \/ d \in calls
           \/ /\ user # None /\ d.with # 0 /\ pairs'[d.with].owner = user
              /\ d.stage = "answered" => d.got # 0 /\ pairs'[d.got].owner = user
  PROVE  Own'
<1>1. \A c \in calls : c.with \in 0..Len(pairs) /\ c.got \in 0..Len(pairs)
  BY DEF SessionTyped, CallsFit, Calls
<1>2. Len(pairs) \in Nat
  BY DEF SessionTyped
<1>3. ASSUME NEW d \in calls', d.kind = "edit"
      PROVE  /\ user # None /\ d.with # 0 /\ pairs'[d.with].owner = user
             /\ d.stage = "answered" => d.got # 0 /\ pairs'[d.got].owner = user
  <2>1. CASE d \in calls
    <3>1. /\ user # None /\ d.with # 0 /\ pairs[d.with].owner = user
          /\ d.stage = "answered" => d.got # 0 /\ pairs[d.got].owner = user
      BY <1>3, <2>1 DEF Own, EditsOf
    <3> QED
      BY <1>1, <1>2, <2>1, <3>1
  <2>2. CASE d \notin calls
    BY <1>3, <2>2
  <2> QED
    BY <2>1, <2>2
<1> QED
  BY <1>3 DEF Own, EditsOf

\* Nothing is left of the user before.
LEMMA OwnAnew ==
  ASSUME blend' = {}, \A d \in calls' : d.kind # "edit"
  PROVE  Own'
BY DEF Own, EditsOf

\* A rejected request leaves every field with its account, or nobody's.
LEMMA OwnRejected ==
  ASSUME SessionTyped, Aligned, Own, NEW c \in calls, Session!Rejected(c), ~overdue',
         UNCHANGED pairs
  PROVE  Own'
<1>0. c.kind \in Kinds
  BY DEF SessionTyped, CallsFit, Calls
<1>1. calls' = calls \ {c}
  BY <1>0, RejectedCall
<1>2. CASE c.kind = "me"
  <2>1. user = None
    BY <1>2 DEF Aligned, Callers
  <2>2. blend' = {}
    BY <1>2 DEF Session!Rejected, Session!LoadFails, Session!SetUser
  <2> QED
    BY <1>1, <2>1, <2>2, OwnAnew DEF Own
<1>3. CASE c.kind = "logout"
  <2>1. Session!SignedOut(calls \ {c})
    BY <1>3 DEF Session!Rejected
  <2>2. blend' = {} /\ ~(\E d \in calls \ {c} : d.kind = "edit")
    BY <2>1, Zenon DEF Session!SignedOut, Session!SetUser
  <2> QED
    BY <1>1, <2>2, OwnAnew
<1>4. CASE c.kind \notin {"me", "logout"}
  <2>1. UNCHANGED <<user, blend>>
    BY <1>4 DEF Session!Rejected, Session!store
  <2> QED
    BY <1>1, <2>1, OwnStays
<1> QED
  BY <1>2, <1>3, <1>4

\* An answer that arrives is merged into the account it is of.
LEMMA OwnArrive ==
  ASSUME SessionTyped, Aligned, Own, NEW c \in calls, Session!Arrive(c), ~overdue'
  PROVE  Own'
<1>0. c.kind \in Kinds /\ UNCHANGED pairs /\ c.got \in Nat
  BY DEF SessionTyped, CallsFit, Calls, Session!Arrive
<1>1. CASE c.kind \in {"login", "redeem"}
  <2> DEFINE me == [Session!Call("me", None) EXCEPT !.with = c.got]
  <2>1. calls' = (calls \ {c}) \cup {me} /\ UNCHANGED <<user, blend>>
    BY <1>1 DEF Session!Arrive, Session!SignIns, Session!Turned, Session!store
  <2>2. me.kind = "me"
    BY <1>0, NewMe
  <2> HIDE DEF me
  <2> QED
    BY <1>0, <2>1, <2>2, OwnStays
<1>2. CASE c.kind = "me"
  <2>1. user = None
    BY <1>2 DEF Aligned, Callers
  <2>2. blend' = {} /\ calls' = calls \ {c}
    BY <1>2 DEF Session!Arrive, Session!SignIns, Session!Done, Session!SetUser
  <2> QED
    BY <2>1, <2>2, OwnAnew DEF Own
<1>3. CASE c.kind = "password"
  <2>1. calls' = calls \ {c} /\ UNCHANGED <<user, blend>>
    BY <1>3 DEF Session!Arrive, Session!SignIns, Session!Done, Session!store
  <2> QED
    BY <1>0, <2>1, OwnStays
<1>4. CASE c.kind = "logout"
  <2>1. Session!SignedOut(calls \ {c}) /\ calls' = calls \ {c}
    BY <1>4 DEF Session!Arrive, Session!SignIns, Session!Done
  <2>2. blend' = {} /\ ~(\E d \in calls \ {c} : d.kind = "edit")
    BY <2>1, Zenon DEF Session!SignedOut, Session!SetUser
  <2> QED
    BY <2>1, <2>2, OwnAnew
<1>5. CASE c.kind = "edit"
  <2>1. /\ c.stage = "answered" /\ calls' = calls \ {c} /\ user' = user
        /\ blend' = IF user = None THEN {} ELSE blend \cup {pairs[c.got].owner}
    BY <1>5 DEF Session!Arrive, Session!SignIns, Session!Done, Session!Edited
  <2>2. user # None /\ pairs[c.got].owner = user
    BY <1>5, <2>1 DEF Own, EditsOf
  <2> QED
    BY <1>0, <2>1, <2>2 DEF Own, EditsOf
<1> QED
  BY <1>0, <1>1, <1>2, <1>3, <1>4, <1>5 DEF Kinds

\* Every step keeps the fields on screen with their account, as long as no edit is
\* under way at a sign-out.
LEMMA OwnKept ==
  ASSUME SessionTyped, OtherActed, AlignedInv, OwnFields, Session!Next
  PROVE  OwnFields'
<1> SUFFICES ASSUME Alone', ~overdue'
             PROVE  Own'
  BY DEF OwnFields
<1> DEFINE n == Len(pairs)
<1>0. /\ calls \subseteq Calls /\ n \in Nat /\ pairs \in Seq(Pairs)
      /\ access \in 0..n /\ fails \in Nat /\ others \in Nat /\ refreshing.got \in Nat
  BY DEF SessionTyped, CallsFit
<1>f. fails' = 0 /\ others' = 0 /\ ~straggler'
  BY DEF Alone
<1>r. ASSUME UNCHANGED <<fails, others>>, ~straggler, ~overdue
      PROVE  Aligned /\ Own
  BY <1>f, <1>r DEF AlignedInv, OwnFields, Alone
<1>a. ASSUME UNCHANGED <<fails, others, straggler, overdue>>
      PROVE  Aligned /\ Own
  BY <1>f, <1>a, <1>r
<1>1. CASE \E k \in 1..MaxPairs : Session!Expire(k)
  <2>1. PICK k \in DOMAIN pairs : pairs' = [pairs EXCEPT ![k].fresh = FALSE]
    BY <1>1 DEF Session!Expire
  <2>2. UNCHANGED <<user, blend, calls, fails, others, straggler, overdue>>
    BY <1>1 DEF Session!Expire, Session!store, Session!bounds, Session!ghosts
  <2>3. \A i \in 1..n : pairs'[i].owner = pairs[i].owner
    <3>1. \A i \in 1..n : pairs[i] \in Pairs /\ i \in DOMAIN pairs
      BY <1>0
    <3>2. \A p \in Pairs : [p EXCEPT !.fresh = FALSE].owner = p.owner
      BY DEF Pairs
    <3> QED
      BY <2>1, <3>1, <3>2
  <2> QED
    BY <1>a, <2>2, <2>3, OwnStays
<1>2. CASE \E c \in calls : Session!Serve(c)
  <2>1. PICK c \in calls : Session!Serve(c)
    BY <1>2
  <2>2. UNCHANGED <<user, blend, fails, others, straggler, overdue>>
    BY <2>1 DEF Session!Serve, Session!store, Session!bounds
  <2>3. Own
    BY <1>a, <2>2
  <2>4. \A i \in 1..n : pairs'[i].owner = pairs[i].owner
    BY <2>1, ServeOwners
  <2>5. PICK d : /\ calls' = (calls \ {c}) \cup {d} /\ d.kind = c.kind /\ d.with = c.with
                 /\ c.kind = "edit" /\ d.stage = "answered" => d.got = c.with
    BY <2>1, ServeOwners
  <2>6. c.with \in 0..n
    BY DEF SessionTyped, CallsFit, Calls
  <2>7. c.kind = "edit" => user # None /\ c.with # 0 /\ pairs'[c.with].owner = user
    BY <1>0, <2>3, <2>4, <2>6 DEF Own, EditsOf
  <2> QED
    BY <2>2, <2>3, <2>4, <2>5, <2>7, OwnStays
<1>3. CASE \E c \in calls : Session!Arrive(c)
  <2>1. PICK c \in calls : Session!Arrive(c)
    BY <1>3
  <2>2. UNCHANGED <<fails, others>> /\ c.kind \in Kinds
    BY <1>0, <2>1 DEF Session!Arrive, Session!bounds, Calls
  <2>3. ~straggler /\ ~overdue
    <3>1. CASE c.kind = "logout"
      <4>1. Session!SignedOut(calls \ {c})
        BY <2>1, <3>1 DEF Session!Arrive, Session!SignIns
      <4> QED
        BY <1>f, <4>1, Zenon DEF Session!SignedOut
    <3>2. CASE c.kind # "logout"
      <4>1. UNCHANGED <<straggler, overdue>>
        BY <2>1, <2>2, <3>2 DEF Session!Arrive, Session!SignIns, Kinds
      <4> QED
        BY <1>f, <4>1
    <3> QED
      BY <3>1, <3>2
  <2> QED
    BY <1>r, <2>1, <2>2, <2>3, OwnArrive
<1>4. CASE \/ \E c \in calls : Session!Fail(c)
           \/ Session!RefreshFails \/ Session!OtherRefreshes \/ Session!OtherSignsOut
  BY <1>0, <1>4, <1>f DEF Session!Fail, Session!Fails, Session!RefreshFails,
     Session!OtherRefreshes, Session!OtherSignsOut, Session!Others
<1>5. CASE \E c \in calls : Session!Denied(c)
  <2>1. PICK c \in calls : Session!Denied(c)
    BY <1>5
  <2>2. UNCHANGED <<pairs, fails, others>> /\ c \in Calls
    BY <1>0, <2>1 DEF Session!Denied, Session!bounds
  <2>3. CASE ~Session!ShouldRefresh(c)
    <3>1. Session!Rejected(c)
      BY <2>1, <2>3 DEF Session!Denied
    <3>2. ~straggler /\ ~overdue
      <4>1. CASE c.kind = "me"
        BY <1>f, <3>1, <4>1, Zenon DEF Session!Rejected, Session!LoadFails
      <4>2. CASE c.kind = "logout"
        <5>1. Session!SignedOut(calls \ {c})
          BY <3>1, <4>2 DEF Session!Rejected
        <5> QED
          BY <1>f, <5>1, Zenon DEF Session!SignedOut
      <4>3. CASE c.kind \notin {"me", "logout"}
        <5>1. UNCHANGED <<straggler, overdue>>
          BY <3>1, <4>3 DEF Session!Rejected
        <5> QED
          BY <1>f, <5>1
      <4> QED
        BY <4>1, <4>2, <4>3
    <3> QED
      BY <1>r, <2>2, <3>1, <3>2, OwnRejected
  <2>4. CASE Session!ShouldRefresh(c)
    <3> DEFINE d == [c EXCEPT !.stage = "waiting", !.retry = TRUE]
    <3>1. /\ UNCHANGED <<user, blend, straggler, overdue>> /\ calls' = (calls \ {c}) \cup {d}
      BY <2>1, <2>4 DEF Session!Denied, Session!Turned, Session!store
    <3>2. d.kind = c.kind /\ d.with = c.with /\ d.stage = "waiting"
      BY <2>2 DEF Calls
    <3> HIDE DEF d
    <3>3. Own
      BY <1>a, <2>2, <3>1
    <3>4. c.kind = "edit" => user # None /\ c.with # 0 /\ pairs[c.with].owner = user
      BY <3>3 DEF Own, EditsOf
    <3> QED
      BY <2>2, <3>1, <3>2, <3>3, <3>4, OwnStays
  <2> QED
    BY <2>3, <2>4
<1>6. CASE Session!Reload
  <2>1. blend' = {}
    BY <1>6 DEF Session!Reload, Session!Loaded, Session!SetUser
  <2> DEFINE me == [Session!Call("me", None) EXCEPT !.with = access]
  <2>2. me.kind = "me"
    <3>1. access \in Nat
      BY <1>0
    <3> QED
      BY <3>1, NewMe
  <2>3. calls' \subseteq {me}
    BY <1>6 DEF Session!Reload, Session!Loaded
  <2> HIDE DEF me
  <2> QED
    BY <2>1, <2>2, <2>3, OwnAnew
<1>7. CASE Session!SignOut
  <2>1. UNCHANGED <<pairs, fails, others>>
    BY <1>7 DEF Session!SignOut, Session!bounds
  <2>2. CASE refresh = 0
    <3>1. Session!SignedOut(calls) /\ calls' = calls
      BY <1>7, <2>2 DEF Session!SignOut
    <3>2. blend' = {} /\ ~(\E d \in calls : d.kind = "edit")
      BY <3>1, Zenon DEF Session!SignedOut, Session!SetUser
    <3> QED
      BY <3>1, <3>2, OwnAnew
  <2>3. CASE refresh # 0
    <3> DEFINE d == Session!Call("logout", None)
    <3>1. calls' = calls \cup {d} /\ UNCHANGED <<user, blend, straggler, overdue>>
      BY <1>7, <2>3 DEF Session!SignOut, Session!Send, Session!store
    <3>2. d.kind = "logout"
      <4>1. PICK k \in Kinds : k = "logout"
        BY DEF Kinds
      <4>2. LET e == Session!Call(k, None) IN e.kind = k
        BY NewCall
      <4> QED
        BY <4>1, <4>2
    <3> HIDE DEF d
    <3> QED
      BY <1>a, <2>1, <3>1, <3>2, OwnStays
  <2> QED
    BY <2>2, <2>3
<1>8. CASE \E kind_ \in {"edit", "password"} : Session!Request(kind_)
  <2>1. PICK kind_ \in {"edit", "password"} : Session!Request(kind_)
    BY <1>8
  <2> DEFINE d == Session!Call(kind_, None)
  <2>2. d.with = access /\ d.stage = "sent"
    <3>1. kind_ \in Kinds
      BY DEF Kinds
    <3> QED
      BY <3>1, NewCall
  <2>3. /\ calls' = calls \cup {d} /\ user # None
        /\ UNCHANGED <<pairs, user, blend, fails, others, straggler, overdue>>
    BY <2>1 DEF Session!Request, Session!Send, Session!store, Session!bounds, Session!ghosts
  <2> HIDE DEF d
  <2>4. Aligned /\ Own
    BY <1>a, <2>3
  <2>5. access # 0 /\ pairs[access].owner = user
    BY <2>3, <2>4 DEF Aligned, Callers, OneOwner
  <2> QED
    BY <2>2, <2>3, <2>4, <2>5, OwnStays
<1>9. CASE \E u \in Accounts : Session!SignIn(u) \/ Session!Callback(u)
  <2>1. PICK u \in Accounts : Session!SignIn(u) \/ Session!Callback(u)
    BY <1>9
  <2>2. user = None /\ UNCHANGED <<pairs, fails, others, straggler, overdue>>
    BY <2>1 DEF Session!SignIn, Session!Callback, Session!bounds
  <2>3. Own /\ \A c \in calls : c.kind # "edit"
    BY <1>a, <2>2 DEF Own
  <2>4. blend' = {}
    BY <2>1, <2>2, <2>3 DEF Session!SignIn, Session!Callback, Session!store, Session!SetUser, Own
  <2> DEFINE in == Session!Call("login", u)
             back == Session!Call("redeem", u)
             me == Session!Call("me", None)
  <2>5. in.kind # "edit" /\ back.kind # "edit" /\ me.kind # "edit"
    <3>1. PICK i \in Kinds, b \in Kinds, m \in Kinds : i = "login" /\ b = "redeem" /\ m = "me"
      BY DEF Kinds
    <3>2. /\ LET c == Session!Call(i, u) IN c.kind = i
          /\ LET c == Session!Call(b, u) IN c.kind = b
          /\ LET c == Session!Call(m, None) IN c.kind = m
      BY NewCall
    <3> QED
      BY <3>1, <3>2
  <2>6. calls' \subseteq calls \cup {in, back, me}
    BY <2>1 DEF Session!SignIn, Session!Callback, Session!Send
  <2> HIDE DEF in, back, me
  <2> QED
    BY <2>3, <2>4, <2>5, <2>6, OwnAnew
<1>10. CASE Session!ServeRefresh
  <2>1. UNCHANGED <<user, blend, calls, fails, others, straggler, overdue>>
    BY <1>10 DEF Session!ServeRefresh, Session!store, Session!bounds, Session!ghosts
  <2>2. Aligned /\ Own
    BY <1>a, <2>1
  <2>3. refreshing.stage = "sent" /\ refreshing.with \in 1..n
    BY <1>10 DEF Session!ServeRefresh, SessionTyped
  <2> DEFINE u == pairs[refreshing.with].owner
             killed == Session!Killed(pairs, refreshing.with)
  <2>4. pairs' = pairs \/ pairs' = Session!Minted(killed, u)
    BY <1>10 DEF Session!ServeRefresh
  <2>5. u \in Accounts
    <3>1. pairs[refreshing.with] \in Pairs
      BY <1>0, <2>3
    <3> QED
      BY <3>1 DEF Pairs
  <2>6. killed \in Seq(Pairs) /\ Len(killed) = n /\ \A i \in 1..n : killed[i].owner = pairs[i].owner
    BY <1>0, KilledPairs
  <2> HIDE DEF u, killed
  <2>7. \A i \in 1..n : pairs'[i].owner = pairs[i].owner
    <3>1. CASE pairs' = Session!Minted(killed, u)
      <4>1. \A i \in 1..n : pairs'[i] = killed[i]
        BY <2>5, <2>6, <3>1, MintedPair
      <4> QED
        BY <2>6, <4>1
    <3> QED
      BY <2>4, <3>1
  <2> QED
    BY <2>1, <2>2, <2>7, OwnStays
<1>11. CASE Session!RefreshArrives
  <2> DEFINE sent_(c) == [c EXCEPT !.stage = "sent", !.with = refreshing.got]
  <2>1. /\ UNCHANGED <<pairs, user, blend, fails, others, straggler, overdue>>
        /\ refreshing.stage = "ok"
        /\ calls' = {IF c.stage = "waiting" THEN sent_(c) ELSE c : c \in calls}
    BY <1>11 DEF Session!RefreshArrives, Session!store, Session!bounds, Session!ghosts
  <2>2. Aligned /\ Own
    BY <1>a, <2>1
  <2>3. \A c \in calls : /\ sent_(c).stage = "sent" /\ sent_(c).kind = c.kind
                         /\ sent_(c).with = refreshing.got
    BY <1>0 DEF Calls
  <2> HIDE DEF sent_
  <2>4. refreshing.got # 0 /\ (user # None => pairs[refreshing.got].owner = user)
    BY <2>1, <2>2 DEF Aligned, OneOwner
  <2>5. ASSUME NEW d \in calls', d.kind = "edit", d \notin calls
        PROVE  /\ user # None /\ d.with # 0 /\ pairs[d.with].owner = user /\ d.stage = "sent"
    <3>1. PICK c \in calls : d = (IF c.stage = "waiting" THEN sent_(c) ELSE c)
      BY <2>1
    <3>2. d = sent_(c) /\ c.kind = "edit"
      BY <2>3, <2>5, <3>1
    <3>3. user # None
      BY <2>2, <3>2 DEF Own
    <3> QED
      BY <2>3, <2>4, <3>2, <3>3
  <2> QED
    BY <2>1, <2>2, <2>5, OwnStays
<1>12. CASE Session!RefreshRefused
  <2>1. UNCHANGED <<pairs, fails, others, straggler, overdue>>
    BY <1>12 DEF Session!RefreshRefused, Session!ThrownOut
  <2>2. Own
    BY <1>a, <2>1
  <2>3. \/ blend' = {} /\ calls' = {}
        \/ calls' \subseteq calls /\ UNCHANGED <<user, blend>>
    BY <1>12 DEF Session!RefreshRefused, Session!ThrownOut, Session!Loaded, Session!SetUser,
       Session!store
  <2> QED
    BY <2>1, <2>2, <2>3, OwnAnew, OwnStays
<1>13. CASE Session!OtherStores
  <2>1. others' = others /\ other # 0
    BY <1>13 DEF Session!OtherStores, Session!bounds
  <2> QED
    BY <1>0, <1>f, <2>1 DEF OtherActed
<1> QED
  BY <1>1, <1>2, <1>3, <1>4, <1>5, <1>6, <1>7, <1>8, <1>9, <1>10, <1>11, <1>12, <1>13
     DEF Session!Next

LEMMA SessionInit == Session!Init => SessionInv
<1> SUFFICES ASSUME Session!Init
             PROVE  SessionInv
  OBVIOUS
<1>1. PICK u \in Accounts, f \in BOOLEAN : pairs = <<[owner |-> u, live |-> TRUE, fresh |-> f]>>
  BY DEF Session!Init
<1> DEFINE new == [owner |-> u, live |-> TRUE, fresh |-> f]
<1>2. new \in Pairs /\ new.live
  BY DEF Pairs
<1>3. pairs = <<new>>
  BY <1>1
<1> HIDE DEF new
<1>4. pairs \in Seq(Pairs) /\ Len(pairs) = 1 /\ pairs[1].live
  BY <1>2, <1>3
<1>5. access \in {0, 1} /\ refresh = access /\ user = None
  BY DEF Session!Init
<1> DEFINE me == Session!Call("me", None)
<1>6. me \in Calls /\ me.kind = "me" /\ me.with = access /\ me.got = 0 /\ me.stage = "sent"
  <2>1. PICK no \in BOOLEAN, k \in Kinds : no = FALSE /\ k = "me"
    BY DEF Kinds
  <2>2. me = [kind |-> k, who |-> None, with |-> access, retry |-> no, stage |-> "sent",
              got |-> 0, body |-> 0]
    BY <2>1, Zenon DEF Session!Call
  <2>3. access \in Nat
    BY <1>5
  <2> HIDE DEF me
  <2> QED
    BY <2>1, <2>2, <2>3 DEF Calls
<1> HIDE DEF me
<1>7. (access = 0 => calls = {}) /\ (access # 0 => calls = {me})
  BY DEF Session!Init, me
<1>8. /\ refreshing = [stage |-> "none", with |-> 0, got |-> 0]
      /\ other = 0 /\ fails = 0 /\ others = 0 /\ reloads = 0 /\ ~out /\ ~kicked
  BY DEF Session!Init, Session!NoRefresh
<1>9. SessionTyped
  BY <1>4, <1>5, <1>6, <1>7, <1>8 DEF SessionTyped, CallsFit
<1>10. OtherActed /\ StaysOut
  BY <1>8 DEF OtherActed, StaysOut
<1>11. OneAtATime
  BY <1>5, <1>6, <1>7, <1>8 DEF OneAtATime
<1>12. Unused
  BY <1>4, <1>5, <1>6, <1>7, <1>8 DEF Unused, Answered
<1>13. pairs[1].owner = u
  BY <1>3 DEF new
<1>14. Callers
  BY <1>5, <1>6, <1>7, <1>8 DEF Callers, Guests
<1>15. OneOwner(u)
  BY <1>5, <1>6, <1>7, <1>8, <1>13 DEF OneOwner
<1>16. FreshSignIn
  BY <1>4, <1>5, <1>6, <1>7, <1>8 DEF FreshSignIn, Answered
<1>17. AlignedInv
  BY <1>14, <1>15, <1>16 DEF AlignedInv, Aligned
<1>18. OwnFields
  <2>1. blend = {}
    BY DEF Session!Init
  <2> QED
    BY <1>6, <1>7, <2>1 DEF OwnFields, Own, EditsOf
<1> QED
  BY <1>9, <1>10, <1>11, <1>12, <1>17, <1>18 DEF SessionInv, SurvivesInv

LEMMA SessionStep == SessionInv /\ Session!Next => SessionInv'
BY SessionTypes, OtherActs, StaysOutKept, SurvivesKept, AlignedKept, OwnKept DEF SessionInv

-----------------------------------------------------------------------------
(* The profile page.                                                        *)
(*                                                                         *)
(* Every request in flight is about the member in the address; a block that *)
(* waits for none shows that member, or an error.  What the owner's page    *)
(* shows is current, or a load will tell, or an edit that is served has yet *)
(* to ask for that load.  What the shell shows is current, or the answer to *)
(* an edit brings it.                                                       *)

Names == Members \cup {Ghost}
Versions == [fields : Nat, pic : Nat]
Errors == {None, "missing", "broken"}
Answers == [who : Names \cup {None}, ver : Versions, error : Errors]
BlockStates == [data : Answers, error : Errors, loading : BOOLEAN]
Loads == [block : {"page", "slice"}, of : Names, served : BOOLEAN, got : Answers]

\* A request for u, whose answer is about u or says why there is none.
About(l, u) == l.of = u /\ (l.served => l.got.error # None \/ l.got.who = u)

ViewTyped ==
  /\ acct \in Versions /\ at \in Names /\ kind \in {"page", "card"}
  /\ page \in BlockStates /\ slice \in BlockStates /\ loads \subseteq Loads

PageIsAt == ~Profile!Loading("page") /\ page.error = None => page.data.who = at

SliceIsAt ==
  Profile!Mounts(page) /\ ~Profile!Loading("slice") =>
    ~slice.loading /\ (slice.error = None => slice.data.who = at)

ViewInv ==
  ViewTyped /\ (\A l \in loads : About(l, at)) /\ PageIsAt /\ SliceIsAt

LEMMA NothingTyped ==
  /\ Profile!Blank \in Versions /\ Profile!Nothing \in Answers
  /\ Profile!Nothing.who = None /\ Profile!Nothing.error = None
BY DEF Profile!Blank, Versions, Profile!Nothing, Profile!Answer, Answers, Errors

LEMMA FreshTyped ==
  /\ Profile!Fresh \in BlockStates
  /\ Profile!Fresh.data = Profile!Nothing /\ Profile!Fresh.error = None
BY NothingTyped DEF Profile!Fresh, BlockStates, Errors

\* A request that was just sent.
LEMMA LoadTyped ==
  ASSUME NEW b \in {"page", "slice"}, NEW u \in Names
  PROVE  LET l == Profile!Load(b, u)
         IN  l \in Loads /\ l.block = b /\ ~l.served /\ l.of = u /\ About(l, u)
BY NothingTyped DEF Profile!Load, Loads, About

\* A card appears with the header only.
LEMMA FreshMounts == Profile!Mounts(Profile!Fresh) <=> kind = "page"
BY FreshTyped DEF Profile!Mounts

LEMMA ViewInit == Profile!Init => ViewInv
<1> SUFFICES ASSUME Profile!Init PROVE ViewInv
  OBVIOUS
<1>1. /\ acct = Profile!Blank /\ at \in Names /\ kind \in {"page", "card"}
      /\ page = Profile!Fresh /\ slice = Profile!Fresh
      /\ loads = {Profile!Load("page", at)}
                   \cup {l \in {Profile!Load("slice", at)} : kind = "page"}
  BY DEF Profile!Init, Profile!Kinds, Names
<1>2. \A l \in loads : \/ l = Profile!Load("page", at)
                       \/ l = Profile!Load("slice", at)
  BY <1>1
<1>3. \A l \in loads : l \in Loads /\ About(l, at)
  BY <1>1, <1>2, LoadTyped
<1>4. ViewTyped
  BY <1>1, <1>3, NothingTyped, FreshTyped DEF ViewTyped
<1>5. Profile!Loading("page") /\ (kind = "page" => Profile!Loading("slice"))
  BY <1>1, LoadTyped DEF Profile!Loading
<1>6. Profile!Mounts(page) <=> kind = "page"
  BY <1>1, FreshMounts
<1> QED
  BY <1>3, <1>4, <1>5, <1>6 DEF ViewInv, PageIsAt, SliceIsAt

\* The address changes.
LEMMA ViewVisits ==
  ASSUME ViewInv, NEW u \in Names, Profile!Visit(u) \/ Profile!Return(u)
  PROVE  ViewInv'
<1>1. /\ at' = u /\ acct' = acct /\ kind' = kind
      /\ loads \subseteq Loads
  BY DEF Profile!Visit, Profile!Return, ViewInv, ViewTyped
<1>2. \A l \in Profile!Killed(loads, {"page", "slice"}) : FALSE
  BY <1>1 DEF Profile!Killed, Loads
<1>3. CASE Profile!Visit(u)
  <2>1. /\ page' = page /\ slice' = slice
        /\ loads' = Profile!Killed(loads, {"page", "slice"}) \cup {Profile!Load("page", u)}
                      \cup {l \in {Profile!Load("slice", u)} : Profile!Mounts(page)}
    BY <1>3 DEF Profile!Visit
  <2>2. /\ Profile!Load("page", u) \in loads'
        /\ Profile!Mounts(page) => Profile!Load("slice", u) \in loads'
        /\ \A l \in loads' : l = Profile!Load("page", u) \/ l = Profile!Load("slice", u)
    BY <1>2, <2>1
  <2>3. \A l \in loads' : l \in Loads /\ About(l, u)
    BY <2>2, LoadTyped
  <2>4. Profile!Loading("page")' /\ (Profile!Mounts(page) => Profile!Loading("slice")')
    BY <2>2, LoadTyped DEF Profile!Loading
  <2>5. Profile!Mounts(page)' <=> Profile!Mounts(page)
    BY <1>1, <2>1 DEF Profile!Mounts
  <2>6. ViewTyped'
    BY <1>1, <2>1, <2>3 DEF ViewInv, ViewTyped
  <2> QED
    BY <1>1, <2>3, <2>4, <2>5, <2>6 DEF ViewInv, PageIsAt, SliceIsAt
<1>4. CASE Profile!Return(u)
  <2>1. /\ page' = Profile!Fresh /\ slice' = Profile!Fresh
        /\ loads' = Profile!Killed(loads, {"page", "slice"}) \cup {Profile!Load("page", u)}
                      \cup {l \in {Profile!Load("slice", u)} : kind = "page"}
    BY <1>4 DEF Profile!Return
  <2>2. /\ Profile!Load("page", u) \in loads'
        /\ kind = "page" => Profile!Load("slice", u) \in loads'
        /\ \A l \in loads' : l = Profile!Load("page", u) \/ l = Profile!Load("slice", u)
    BY <1>2, <2>1
  <2>3. \A l \in loads' : l \in Loads /\ About(l, u)
    BY <2>2, LoadTyped
  <2>4. Profile!Loading("page")' /\ (kind = "page" => Profile!Loading("slice")')
    BY <2>2, LoadTyped DEF Profile!Loading
  <2>5. Profile!Mounts(page)' <=> kind = "page"
    BY <1>1, <2>1, FreshTyped DEF Profile!Mounts
  <2>6. ViewTyped'
    BY <1>1, <2>1, <2>3, FreshTyped DEF ViewInv, ViewTyped
  <2> QED
    BY <1>1, <2>3, <2>4, <2>5, <2>6 DEF ViewInv, PageIsAt, SliceIsAt
<1> QED
  BY <1>3, <1>4

\* The view stands still: only what the server holds may move.
LEMMA ViewStays ==
  ASSUME ViewInv, acct' \in Versions, UNCHANGED <<at, kind, page, slice, loads>>
  PROVE  ViewInv'
<1>1. ViewTyped' /\ \A l \in loads' : About(l, at')
  BY DEF ViewInv, ViewTyped
<1>2. PageIsAt' /\ SliceIsAt'
  BY DEF ViewInv, PageIsAt, SliceIsAt, Profile!Loading, Profile!Mounts
<1> QED
  BY <1>1, <1>2 DEF ViewInv

\* What the server answers about u.
Brought(u) ==
  IF u = Ghost THEN Profile!Answer(None, Profile!Blank, "missing")
  ELSE Profile!Answer(u, IF u = Me THEN acct ELSE Profile!Blank, None)

Completed(l) == [l EXCEPT !.served = TRUE, !.got = Brought(l.of)]

LEMMA LoadAnswered ==
  ASSUME ViewInv, NEW l \in loads
  PROVE  /\ Completed(l) \in Loads /\ About(Completed(l), at)
         /\ Completed(l).block = l.block /\ Completed(l).of = l.of /\ Completed(l).served
         /\ Completed(l).got = Brought(l.of)
<1>1. l \in Loads /\ l.of = at /\ at \in Names /\ acct \in Versions
  BY DEF ViewInv, ViewTyped, About
<1>2. /\ Brought(at) \in Answers
      /\ Brought(at).error # None \/ Brought(at).who = at
  BY <1>1, NothingTyped, MemberAssumption DEF Brought, Profile!Answer, Answers, Names, Errors
<1>3. /\ Completed(l) \in Loads
      /\ Completed(l).block = l.block /\ Completed(l).of = l.of /\ Completed(l).served
      /\ Completed(l).got = Brought(l.of)
  BY <1>1, <1>2 DEF Completed, Loads
<1> QED
  BY <1>1, <1>2, <1>3 DEF About

LEMMA ViewServes ==
  ASSUME ViewInv, NEW l \in loads, Profile!ServeLoad(l)
  PROVE  ViewInv'
<1>1. /\ loads' = (loads \ {l}) \cup {Completed(l)}
      /\ UNCHANGED <<acct, at, kind, page, slice>>
  BY DEF Profile!ServeLoad, Completed, Brought, Profile!Missing
<1>2. \A k \in loads' : k \in Loads /\ About(k, at)
  BY <1>1, LoadAnswered DEF ViewInv, ViewTyped
<1>3. \A b \in {"page", "slice"} : Profile!Loading(b)' <=> Profile!Loading(b)
  BY <1>1, LoadAnswered DEF Profile!Loading
<1>4. Profile!Mounts(page)' <=> Profile!Mounts(page)
  BY <1>1 DEF Profile!Mounts
<1>5. ViewTyped'
  BY <1>1, <1>2 DEF ViewInv, ViewTyped
<1>6. PageIsAt' /\ SliceIsAt'
  BY <1>1, <1>3, <1>4 DEF ViewInv, PageIsAt, SliceIsAt
<1> QED
  BY <1>1, <1>2, <1>5, <1>6 DEF ViewInv

\* What an effect leaves of its answer.
LEMMA SettledTyped ==
  ASSUME NEW b \in BlockStates, NEW got \in Answers
  PROVE  LET s == Profile!Settled(b, got)
         IN  /\ s \in BlockStates /\ ~s.loading
             /\ got.error # None => s.error # None
             /\ got.error = None => s.data = got /\ s.error = b.error
BY DEF BlockStates, Answers, Profile!Settled

\* An answer, or a failure, comes in.
LEMMA ViewLands ==
  ASSUME ViewInv, NEW l \in loads, NEW got \in Answers, got.error # None \/ got.who = at,
         Profile!Land(l, got), UNCHANGED <<acct, at, kind>>
  PROVE  ViewInv'
<1>1. /\ l \in Loads /\ loads \subseteq Loads /\ page \in BlockStates /\ slice \in BlockStates
      /\ at \in Names
  BY DEF ViewInv, ViewTyped
<1>2. CASE l.block = "page"
  <2> DEFINE p == Profile!Settled(page, got)
  <2>1. Profile!Redrawn(p, loads \ {l})
    BY <1>2 DEF Profile!Land
  <2>2. page' = p /\ p \in BlockStates /\ (p.error = None => p.data.who = at)
    BY <1>1, <2>1, SettledTyped DEF Profile!Redrawn
  <2>3. Profile!Mounts(page)' <=> Profile!Mounts(p)
    BY <2>2 DEF Profile!Mounts
  <2>4. /\ Profile!Load("slice", at) \in Loads /\ About(Profile!Load("slice", at), at)
        /\ Profile!Load("slice", at).block = "slice"
    BY <1>1, LoadTyped
  <2> HIDE DEF p
  <2>5. CASE Profile!Mounts(p) /\ Profile!Mounts(page)
    <3>1. loads' = loads \ {l} /\ slice' = slice
      BY <2>1, <2>5 DEF Profile!Redrawn
    <3>2. Profile!Loading("slice")' <=> Profile!Loading("slice")
      BY <1>2, <3>1 DEF Profile!Loading
    <3> QED
      BY <1>1, <2>2, <2>5, <3>1, <3>2 DEF ViewInv, ViewTyped, PageIsAt, SliceIsAt
  <2>6. CASE Profile!Mounts(p) /\ ~Profile!Mounts(page)
    <3>1. loads' = (loads \ {l}) \cup {Profile!Load("slice", at)} /\ slice' = Profile!Fresh
      BY <2>1, <2>6 DEF Profile!Redrawn
    <3>2. Profile!Loading("slice")'
      BY <2>4, <3>1 DEF Profile!Loading
    <3>3. ViewTyped'
      BY <1>1, <2>2, <2>4, <3>1, FreshTyped DEF ViewInv, ViewTyped
    <3>4. \A k \in loads' : About(k, at)
      BY <2>4, <3>1 DEF ViewInv
    <3> QED
      BY <2>2, <3>2, <3>3, <3>4 DEF ViewInv, PageIsAt, SliceIsAt
  <2>7. CASE ~Profile!Mounts(p)
    <3>1. loads' \subseteq loads /\ slice' = Profile!Fresh
      BY <2>1, <2>7 DEF Profile!Redrawn, Profile!Killed
    <3>2. ViewTyped' /\ \A k \in loads' : About(k, at)
      BY <1>1, <2>2, <3>1, FreshTyped DEF ViewInv, ViewTyped
    <3> QED
      BY <2>2, <2>3, <2>7, <3>2 DEF ViewInv, PageIsAt, SliceIsAt
  <2> QED
    BY <2>5, <2>6, <2>7
<1>3. CASE l.block # "page"
  <2>1. slice' = Profile!Settled(slice, got) /\ loads' = loads \ {l} /\ page' = page
    BY <1>3 DEF Profile!Land
  <2>2. /\ slice' \in BlockStates /\ ~slice'.loading
        /\ slice'.error = None => slice'.data.who = at
    BY <1>1, <2>1, SettledTyped
  <2>3. Profile!Loading("page")' <=> Profile!Loading("page")
    BY <1>3, <2>1 DEF Profile!Loading
  <2>4. ViewTyped' /\ \A k \in loads' : About(k, at)
    BY <1>1, <2>1, <2>2 DEF ViewInv, ViewTyped
  <2> QED
    BY <2>1, <2>2, <2>3, <2>4 DEF ViewInv, PageIsAt, SliceIsAt
<1> QED
  BY <1>2, <1>3

LEMMA ViewArrives ==
  ASSUME ViewInv, NEW l \in loads, Profile!ArriveLoad(l) \/ Profile!FailLoad(l)
  PROVE  ViewInv'
<1>1. Profile!Answer(None, Profile!Blank, "broken") \in Answers
  BY NothingTyped DEF Profile!Answer, Answers, Errors
<1>2. Profile!Answer(None, Profile!Blank, "broken").error # None
  BY MemberAssumption DEF Profile!Answer
<1>3. l.got \in Answers
  BY DEF ViewInv, ViewTyped, Loads
<1>4. CASE Profile!ArriveLoad(l)
  BY <1>3, <1>4, ViewLands DEF Profile!ArriveLoad, ViewInv, About
<1>5. CASE Profile!FailLoad(l)
  BY <1>1, <1>2, <1>5, ViewLands DEF Profile!FailLoad, Profile!Broken
<1> QED
  BY <1>4, <1>5

\* The page asks anew, whatever it was waiting for.
LEMMA ReloadAsks ==
  ASSUME ViewInv
  PROVE  /\ Profile!Refetched \subseteq Loads
         /\ \A l \in Profile!Refetched : About(l, at) /\ (l.block = "page" => ~l.served)
         /\ \E l \in Profile!Refetched : l.block = "page"
         /\ \A b \in {"slice"} : (\E l \in Profile!Refetched : l.block = b)
                                   <=> Profile!Loading(b)
<1>1. loads \subseteq Loads /\ at \in Names
  BY DEF ViewInv, ViewTyped
<1>2. Profile!Refetched = {l \in loads : l.block # "page"} \cup {Profile!Load("page", at)}
  BY <1>1 DEF Profile!Refetched, Profile!Killed
<1> QED
  BY <1>1, <1>2, LoadTyped DEF ViewInv, Profile!Loading

LEMMA ViewReloads ==
  ASSUME ViewInv, loads' = Profile!Refetched, UNCHANGED <<acct, at, kind, page, slice>>
  PROVE  ViewInv'
<1>1. Profile!Loading("page")' /\ (Profile!Loading("slice")' <=> Profile!Loading("slice"))
  BY ReloadAsks DEF Profile!Loading
<1>2. Profile!Mounts(page)' <=> Profile!Mounts(page)
  BY DEF Profile!Mounts
<1>3. ViewTyped' /\ \A l \in loads' : About(l, at')
  BY ReloadAsks DEF ViewInv, ViewTyped
<1> QED
  BY <1>1, <1>2, <1>3 DEF ViewInv, PageIsAt, SliceIsAt

\* The edits in flight, seen by kind.  A form that goes changes none of this.
Edits == [kind : {"save", "password", "avatar"}, nr : Nat, form : BOOLEAN,
          home : BOOLEAN, row : {None} \cup Versions, served : BOOLEAN, got : Nat]

OneEach(es) == \A e, f \in es : e.kind = f.kind => e = f
AtHome(es) == \A e \in es : e.home
Waits(es, k) == \E e \in es : e.kind = k /\ e.served
Told(es, k, v) == \A e \in es : e.kind = k /\ e.served => e.got = v
Due(es) == Waits(es, "save") \/ Waits(es, "avatar")

SameEdits(es, fs) ==
  /\ fs \subseteq Edits
  /\ OneEach(es) => OneEach(fs)
  /\ AtHome(es) => AtHome(fs)
  /\ \A k \in {"save", "avatar"} : Waits(es, k) <=> Waits(fs, k)
  /\ \A k \in {"save", "avatar"}, v \in Nat : Told(es, k, v) => Told(fs, k, v)

\* The shell is told by the last edit served, of each of the two kinds that count,
\* as long as no save has written an older picture back.
ShellIsTold ==
  /\ OneEach(edits)
  /\ Told(edits, "save", acct.fields)
  /\ ~Waits(edits, "save") => shell.fields = acct.fields
  /\ ~overwritten => /\ Told(edits, "avatar", acct.pic)
                     /\ ~Waits(edits, "avatar") => shell.pic = acct.pic

EditInv ==
  /\ edits \subseteq Edits /\ shell \in Versions /\ edited \in Nat /\ lost \in Nat
  /\ ~stranded => AtHome(edits)
  /\ lost = 0 /\ ~crossed => ShellIsTold

\* The owner's page shows the last version, or a load or a served edit will bring it.
PageIsTold ==
  /\ \A l \in loads : l.block = "page" /\ l.of = Me /\ l.served /\ l.got.error = None
                        => l.got.ver = acct
  /\ ~Profile!Loading("page") /\ page.error = None /\ at = Me => page.data.ver = acct

PageInv == lost = 0 /\ ~stranded /\ ~Due(edits) => PageIsTold

ProfileInv == ViewInv /\ EditInv /\ PageInv

LEMMA EditsStay == ASSUME NEW es, es \subseteq Edits PROVE SameEdits(es, es)
BY DEF SameEdits

LEMMA FormsGo ==
  ASSUME NEW es, es \subseteq Edits, NEW ks
  PROVE  SameEdits(es, Profile!Orphaned(es, ks))
<1> DEFINE gone(e) == IF e.kind \in ks THEN [e EXCEPT !.form = FALSE] ELSE e
           fs == Profile!Orphaned(es, ks)
<1>1. \A e \in es : /\ gone(e) \in Edits /\ gone(e).kind = e.kind
                    /\ gone(e).served = e.served /\ gone(e).got = e.got
                    /\ gone(e).home = e.home
  BY DEF Edits
<1>2. fs = {gone(e) : e \in es}
  BY DEF Profile!Orphaned
<1> HIDE DEF gone, fs
<1>3. fs \subseteq Edits
  BY <1>1, <1>2
<1>4. OneEach(es) => OneEach(fs)
  BY <1>1, <1>2 DEF OneEach
<1>5. AtHome(es) => AtHome(fs)
  BY <1>1, <1>2 DEF AtHome
<1>6. ASSUME NEW k PROVE Waits(es, k) <=> Waits(fs, k)
  BY <1>1, <1>2 DEF Waits
<1>7. ASSUME NEW k, NEW v PROVE Told(es, k, v) => Told(fs, k, v)
  BY <1>1, <1>2 DEF Told
<1>8. SameEdits(es, fs)
  BY <1>3, <1>4, <1>5, <1>6, <1>7 DEF SameEdits
<1> QED
  BY <1>8 DEF fs

LEMMA SameDue ==
  ASSUME NEW es, NEW fs, SameEdits(es, fs)
  PROVE  Due(es) <=> Due(fs)
BY DEF SameEdits, Due

LEMMA EditsAlike ==
  ASSUME EditInv, acct \in Versions, SameEdits(edits, edits'),
         UNCHANGED <<acct, shell, edited, lost, crossed, stranded, overwritten>>
  PROVE  EditInv'
<1>1. acct.fields \in Nat /\ acct.pic \in Nat
  BY DEF Versions
<1>2. /\ edits' \subseteq Edits
      /\ OneEach(edits) => OneEach(edits')
      /\ AtHome(edits) => AtHome(edits')
      /\ Waits(edits, "save") <=> Waits(edits', "save")
      /\ Waits(edits, "avatar") <=> Waits(edits', "avatar")
      /\ Told(edits, "save", acct.fields) => Told(edits', "save", acct.fields)
      /\ Told(edits, "avatar", acct.pic) => Told(edits', "avatar", acct.pic)
  BY <1>1 DEF SameEdits
<1>3. ShellIsTold => ShellIsTold'
  BY <1>2 DEF ShellIsTold
<1> QED
  BY <1>2, <1>3 DEF EditInv

LEMMA PageAlike ==
  ASSUME PageInv, Due(edits') <=> Due(edits),
         UNCHANGED <<acct, at, page, loads, lost, stranded>>
  PROVE  PageInv'
BY DEF PageInv, PageIsTold, Profile!Loading

LEMMA ProfileInit == Profile!Init => ProfileInv
<1> SUFFICES ASSUME Profile!Init PROVE ProfileInv
  OBVIOUS
<1>1. ViewInv
  BY ViewInit
<1>2. /\ edits = {} /\ acct = Profile!Blank /\ shell = acct /\ edited = 0 /\ lost = 0
      /\ loads = {Profile!Load("page", at)}
                   \cup {l \in {Profile!Load("slice", at)} : kind = "page"}
  BY DEF Profile!Init
<1>3. EditInv
  BY <1>2, NothingTyped DEF EditInv, ShellIsTold, OneEach, AtHome, Waits, Told
<1>4. /\ Profile!Load("page", at) \in loads
      /\ \A l \in loads : l = Profile!Load("page", at) \/ l = Profile!Load("slice", at)
  BY <1>2
<1>5. Profile!Loading("page") /\ \A l \in loads : ~l.served
  BY <1>1, <1>4, LoadTyped DEF Profile!Loading, ViewInv, ViewTyped
<1> QED
  BY <1>1, <1>3, <1>5 DEF ProfileInv, PageInv, PageIsTold

LEMMA ProfileVisits ==
  ASSUME ProfileInv, NEW u \in Names, Profile!Visit(u) \/ Profile!Return(u)
  PROVE  ProfileInv'
<1>1. ViewInv' /\ acct \in Versions /\ edits \subseteq Edits
  BY ViewVisits DEF ProfileInv, ViewInv, ViewTyped, EditInv
<1>2. /\ Profile!Load("page", u) \in loads'
      /\ \A l \in loads' : l = Profile!Load("page", u) \/ l = Profile!Load("slice", u)
  BY DEF Profile!Visit, Profile!Return, Profile!Killed, ProfileInv, ViewInv, ViewTyped, Loads
<1>3. Profile!Loading("page")' /\ \A l \in loads' : ~l.served
  BY <1>2, LoadTyped DEF Profile!Loading
<1>4. PageIsTold'
  BY <1>3 DEF PageIsTold
<1>5. EditInv'
  <2>1. CASE Profile!Visit(u)
    <3>1. UNCHANGED <<acct, shell, edits, edited, lost, crossed, stranded, overwritten>>
      BY <2>1 DEF Profile!Visit, Profile!forms, Profile!ghosts
    <3>2. SameEdits(edits, edits')
      BY <1>1, <3>1, EditsStay
    <3> QED
      BY <1>1, <3>1, <3>2, EditsAlike DEF ProfileInv
  <2>2. CASE Profile!Return(u)
    <3>1. /\ edits' = {[e EXCEPT !.form = FALSE, !.home = FALSE] : e \in edits}
          /\ stranded' = (stranded \/ edits # {})
          /\ UNCHANGED <<acct, shell, edited, lost, crossed, overwritten>>
      BY <2>2 DEF Profile!Return
    <3> DEFINE orphan(e) == [e EXCEPT !.form = FALSE, !.home = FALSE]
    <3>2. \A e \in edits : /\ orphan(e) \in Edits /\ orphan(e).kind = e.kind
                           /\ orphan(e).served = e.served /\ orphan(e).got = e.got
      BY <1>1 DEF Edits
    <3>3. edits' = {orphan(e) : e \in edits}
      BY <3>1
    <3> HIDE DEF orphan
    <3>4. edits' \subseteq Edits /\ (OneEach(edits) => OneEach(edits'))
      BY <3>2, <3>3 DEF OneEach
    <3>5. ASSUME NEW k PROVE Waits(edits, k) <=> Waits(edits', k)
      BY <3>2, <3>3 DEF Waits
    <3>6. ASSUME NEW k, NEW v PROVE Told(edits, k, v) => Told(edits', k, v)
      BY <3>2, <3>3 DEF Told
    <3>7. ShellIsTold => ShellIsTold'
      BY <3>1, <3>4, <3>5, <3>6 DEF ShellIsTold
    <3>8. ~stranded' => AtHome(edits')
      BY <3>1, <3>3 DEF AtHome
    <3> QED
      BY <3>1, <3>4, <3>7, <3>8 DEF EditInv, ProfileInv
  <2> QED
    BY <2>1, <2>2
<1> QED
  BY <1>1, <1>4, <1>5 DEF ProfileInv, PageInv

LEMMA ProfileServes ==
  ASSUME ProfileInv, NEW l \in loads, Profile!ServeLoad(l)
  PROVE  ProfileInv'
<1>1. ViewInv' /\ acct \in Versions
  BY ViewServes DEF ProfileInv, ViewInv, ViewTyped
<1>2. /\ loads' = (loads \ {l}) \cup {Completed(l)}
      /\ UNCHANGED <<acct, at, page, shell, edits, edited, lost, crossed, stranded, overwritten>>
  BY DEF Profile!ServeLoad, Completed, Brought, Profile!Missing, Profile!forms,
         Profile!counters, Profile!ghosts
<1>3. EditInv'
  BY <1>1, <1>2, EditsStay, EditsAlike DEF ProfileInv, EditInv
<1>4. Completed(l).block = l.block /\ Completed(l).of = l.of /\ Completed(l).got = Brought(l.of)
  BY LoadAnswered DEF ProfileInv
<1>5. Completed(l).of = Me /\ Completed(l).got.error = None => Completed(l).got.ver = acct
  BY <1>4, MemberAssumption DEF Brought, Profile!Answer
<1>6. Profile!Loading("page")' <=> Profile!Loading("page")
  BY <1>2, <1>4 DEF Profile!Loading
<1>7. PageIsTold => PageIsTold'
  BY <1>2, <1>5, <1>6 DEF PageIsTold
<1> QED
  BY <1>1, <1>2, <1>3, <1>7 DEF ProfileInv, PageInv

LEMMA ProfileArrives ==
  ASSUME ProfileInv, NEW l \in loads, Profile!ArriveLoad(l) \/ Profile!FailLoad(l)
  PROVE  ProfileInv'
<1> DEFINE got == IF Profile!ArriveLoad(l) THEN l.got
                  ELSE Profile!Answer(None, Profile!Blank, "broken")
<1>1. /\ ViewInv' /\ acct \in Versions /\ page \in BlockStates /\ edits \subseteq Edits
      /\ loads \subseteq Loads
  BY ViewArrives DEF ProfileInv, ViewInv, ViewTyped, EditInv
<1>2. Profile!Land(l, got) /\ UNCHANGED <<acct, at, shell, edited, crossed, stranded, overwritten>>
  BY DEF Profile!ArriveLoad, Profile!FailLoad, Profile!Broken, Profile!counters, Profile!ghosts
<1>3. SameEdits(edits, edits')
  <2> HIDE DEF got
  <2>1. edits' = edits \/ \E ks : edits' = Profile!Orphaned(edits, ks)
    BY <1>2 DEF Profile!Land, Profile!Redrawn, Profile!forms
  <2> QED
    BY <1>1, <2>1, EditsStay, FormsGo
<1>4. /\ lost \in Nat
      /\ lost' = lost \/ lost' = lost + 1
      /\ lost' = lost => Profile!ArriveLoad(l)
  BY DEF Profile!ArriveLoad, Profile!FailLoad, Profile!counters, ProfileInv, EditInv
<1> HIDE DEF got
<1>5. CASE lost' = lost
  <2>1. EditInv'
    BY <1>1, <1>2, <1>3, <1>5, EditsAlike DEF ProfileInv
  <2>2. got = l.got /\ l.served /\ got \in Answers
    BY <1>1, <1>4, <1>5 DEF got, Profile!ArriveLoad, Loads
  <2>3. ASSUME PageIsTold PROVE PageIsTold'
    <3>1. CASE l.block = "page"
      <4> DEFINE p == Profile!Settled(page, got)
      <4>1. Profile!Redrawn(p, loads \ {l})
        BY <1>2, <3>1 DEF Profile!Land
      <4>2. page' = p /\ (p.error = None => got.error = None /\ p.data = got)
        BY <1>1, <2>2, <4>1, SettledTyped DEF Profile!Redrawn
      <4>3. \A k \in loads' : k \in loads \/ k = Profile!Load("slice", at)
        BY <4>1 DEF Profile!Redrawn, Profile!Killed
      <4>4. \A k \in loads' : k \in loads \/ ~k.served
        BY <4>3, LoadTyped DEF ProfileInv, ViewInv, ViewTyped
      <4>5. at = Me /\ got.error = None => got.ver = acct
        BY <2>2, <2>3, <3>1 DEF PageIsTold, ProfileInv, ViewInv, About
      <4> HIDE DEF p
      <4> QED
        BY <1>2, <2>3, <4>2, <4>4, <4>5 DEF PageIsTold
    <3>2. CASE l.block # "page"
      <4>1. loads' = loads \ {l} /\ page' = page
        BY <1>2, <3>2 DEF Profile!Land
      <4>2. Profile!Loading("page")' <=> Profile!Loading("page")
        BY <3>2, <4>1 DEF Profile!Loading
      <4> QED
        BY <1>2, <2>3, <4>1, <4>2 DEF PageIsTold
    <3> QED
      BY <3>1, <3>2
  <2>4. Due(edits') <=> Due(edits)
    BY <1>3, SameDue
  <2> QED
    BY <1>1, <1>2, <1>5, <2>1, <2>3, <2>4 DEF ProfileInv, PageInv
<1>6. CASE lost' = lost + 1
  <2>1. lost' \in Nat /\ lost' # 0
    BY <1>4, <1>6
  <2>2. EditInv'
    BY <1>2, <1>3, <2>1 DEF ProfileInv, EditInv, SameEdits
  <2> QED
    BY <1>1, <2>1, <2>2 DEF ProfileInv, PageInv
<1> QED
  BY <1>4, <1>5, <1>6

\* The dialog opens, closes or changes its tab; the toast goes or comes.
LEMMA ProfileTurns ==
  ASSUME ProfileInv, SameEdits(edits, edits'), UNCHANGED <<acct, shell, at, kind, page, slice,
                                                loads, edited, lost, crossed, stranded, overwritten>>
  PROVE  ProfileInv'
<1>1. acct \in Versions
  BY DEF ProfileInv, ViewInv, ViewTyped
<1>2. ViewInv'
  BY <1>1, ViewStays DEF ProfileInv
<1>3. EditInv'
  BY <1>1, EditsAlike DEF ProfileInv
<1>4. PageInv'
  BY SameDue, PageAlike DEF ProfileInv
<1> QED
  BY <1>2, <1>3, <1>4 DEF ProfileInv

\* An edit is sent.
LEMMA ProfileSends ==
  ASSUME ProfileInv, NEW k \in {"save", "password", "avatar"}, Profile!Send(k)
  PROVE  ProfileInv'
<1> DEFINE e == [kind |-> k, nr |-> edited, form |-> TRUE, home |-> TRUE,
                 row |-> None, served |-> FALSE, got |-> 0]
<1>1. /\ edits' = edits \cup {e} /\ edited' = edited + 1
      /\ crossed' = (crossed \/ \E f \in edits : f.kind = k)
      /\ UNCHANGED <<acct, shell, at, kind, page, slice, loads, lost, stranded, overwritten>>
  BY DEF Profile!Send, Profile!loaders
<1>2. /\ acct \in Versions /\ edits \subseteq Edits /\ edited \in Nat
  BY DEF ProfileInv, ViewInv, ViewTyped, EditInv
<1>3. e \in Edits /\ ~e.served /\ e.home /\ e.kind = k
  BY <1>2 DEF Edits
<1> HIDE DEF e
<1>4. \A j : Waits(edits', j) <=> Waits(edits, j)
  BY <1>1, <1>3 DEF Waits
<1>5. \A j, v : Told(edits', j, v) <=> Told(edits, j, v)
  BY <1>1, <1>3 DEF Told
<1>6. ~crossed' => ~crossed /\ (OneEach(edits) => OneEach(edits'))
  BY <1>1, <1>3 DEF OneEach
<1>7. AtHome(edits) => AtHome(edits')
  BY <1>1, <1>3 DEF AtHome
<1>8. ~crossed' /\ ShellIsTold => ShellIsTold'
  BY <1>1, <1>4, <1>5, <1>6 DEF ShellIsTold
<1>9. EditInv'
  BY <1>1, <1>2, <1>3, <1>6, <1>7, <1>8 DEF ProfileInv, EditInv
<1>10. ViewInv'
  BY <1>1, <1>2, ViewStays DEF ProfileInv
<1>11. PageInv'
  BY <1>1, <1>4, PageAlike DEF ProfileInv, Due
<1> QED
  BY <1>9, <1>10, <1>11 DEF ProfileInv

\* The row a save reads is one the account had.
LEMMA ProfileReads ==
  ASSUME ProfileInv, NEW e \in edits, Profile!ReadRow(e)
  PROVE  ProfileInv'
<1> DEFINE s == [e EXCEPT !.row = acct]
<1>1. /\ edits \subseteq Edits /\ e \in Edits /\ acct \in Versions
  BY DEF ProfileInv, EditInv, ViewInv, ViewTyped
<1>2. /\ edits' = (edits \ {e}) \cup {s}
      /\ UNCHANGED <<acct, shell, at, kind, page, slice, loads, edited, lost, crossed,
                     stranded, overwritten>>
  BY DEF Profile!ReadRow, Profile!loaders, Profile!counters, Profile!ghosts
<1>3. /\ s \in Edits /\ s.kind = e.kind /\ s.served = e.served /\ s.got = e.got
      /\ s.home = e.home
  BY <1>1 DEF Edits
<1> HIDE DEF s
<1>4. edits' \subseteq Edits
  BY <1>1, <1>2, <1>3
<1>5. (OneEach(edits) => OneEach(edits')) /\ (AtHome(edits) => AtHome(edits'))
  BY <1>2, <1>3 DEF OneEach, AtHome
<1>6. ASSUME NEW k PROVE Waits(edits, k) <=> Waits(edits', k)
  BY <1>2, <1>3 DEF Waits
<1>7. ASSUME NEW k, NEW v PROVE Told(edits, k, v) => Told(edits', k, v)
  BY <1>2, <1>3 DEF Told
<1>8. SameEdits(edits, edits')
  BY <1>4, <1>5, <1>6, <1>7 DEF SameEdits
<1> QED
  BY <1>2, <1>8, ProfileTurns

\* What the server made of an edit: only a save that read the row before an upload was
\* stored changes another column than its own.
LEMMA EditAnswered ==
  ASSUME ProfileInv, NEW e \in edits, Profile!ServeEdit(e)
  PROVE  \E s \in Edits :
           /\ edits' = (edits \ {e}) \cup {s} /\ s.kind = e.kind /\ s.served /\ s.home = e.home
           /\ acct' \in Versions
           /\ s.kind = "save" => s.got = acct'.fields
           /\ s.kind = "avatar" => s.got = acct'.pic
           /\ s.kind # "save" => acct'.fields = acct.fields
           /\ s.kind # "avatar" /\ ~overwritten' => acct'.pic = acct.pic
           /\ s.kind = "password" => acct' = acct
           /\ ~overwritten' => ~overwritten
<1>1. /\ e \in Edits /\ acct \in Versions
  BY DEF ProfileInv, EditInv, ViewInv, ViewTyped
<1> DEFINE got == e.nr + 1
           s == [e EXCEPT !.served = TRUE, !.got = got]
<1>2. /\ acct' = Profile!Written(e)
      /\ edits' = (edits \ {e}) \cup {s}
      /\ e.kind = "save" => e.row # None
      /\ ~overwritten' => ~overwritten /\ (e.kind = "save" => acct'.pic = acct.pic)
  BY DEF Profile!ServeEdit
<1>3. /\ e.kind \in {"save", "password", "avatar"} /\ got \in Nat
      /\ e.row \in {None} \cup Versions
  BY <1>1 DEF Edits
<1>4. /\ acct' = CASE e.kind = "save" -> [e.row EXCEPT !.fields = got]
                   [] e.kind = "avatar" -> [acct EXCEPT !.pic = got]
                   [] e.kind = "password" -> acct
  BY <1>2 DEF Profile!Written
<1>5. s \in Edits /\ s.kind = e.kind /\ s.served /\ s.home = e.home /\ s.got = got
  BY <1>1, <1>3 DEF Edits
<1> HIDE DEF got, s
<1>6. /\ acct' \in Versions
      /\ e.kind = "save" => acct'.fields = got
      /\ e.kind = "avatar" => acct'.pic = got
      /\ e.kind # "save" => acct'.fields = acct.fields
      /\ e.kind = "password" => acct' = acct
  <2>1. CASE e.kind = "save"
    <3>1. e.row \in Versions /\ acct' = [e.row EXCEPT !.fields = got]
      BY <1>2, <1>3, <1>4, <2>1
    <3> QED
      BY <1>3, <2>1, <3>1 DEF Versions
  <2>2. CASE e.kind = "avatar"
    BY <1>1, <1>3, <1>4, <2>2 DEF Versions
  <2>3. CASE e.kind = "password"
    BY <1>1, <1>4, <2>3
  <2> QED
    BY <1>3, <2>1, <2>2, <2>3
<1> QED
  BY <1>2, <1>3, <1>5, <1>6

LEMMA ProfileEdited ==
  ASSUME ProfileInv, NEW e \in edits, Profile!ServeEdit(e)
  PROVE  ProfileInv'
<1>1. PICK s \in Edits :
        /\ edits' = (edits \ {e}) \cup {s} /\ s.kind = e.kind /\ s.served /\ s.home = e.home
        /\ acct' \in Versions
        /\ s.kind = "save" => s.got = acct'.fields
        /\ s.kind = "avatar" => s.got = acct'.pic
        /\ s.kind # "save" => acct'.fields = acct.fields
        /\ s.kind # "avatar" /\ ~overwritten' => acct'.pic = acct.pic
        /\ s.kind = "password" => acct' = acct
        /\ ~overwritten' => ~overwritten
  BY EditAnswered
<1>2. ~e.served /\ UNCHANGED <<shell, at, kind, page, slice, loads, edited, lost, crossed,
                               stranded>>
  BY DEF Profile!ServeEdit, Profile!loaders, Profile!counters, Profile!ghosts
<1>3. ViewInv'
  BY <1>1, <1>2, ViewStays DEF ProfileInv
<1>4. \A k : Waits(edits', k) <=> k = s.kind \/ Waits(edits, k)
  BY <1>1, <1>2 DEF Waits
<1>5. ASSUME ShellIsTold PROVE ShellIsTold'
  <2>1. OneEach(edits')
    BY <1>1, <1>5 DEF ShellIsTold, OneEach
  <2>2. Told(edits', "save", acct'.fields) /\ (~overwritten' => Told(edits', "avatar", acct'.pic))
    BY <1>1, <1>5 DEF ShellIsTold, OneEach, Told
  <2> QED
    BY <1>1, <1>2, <1>4, <1>5, <2>1, <2>2 DEF ShellIsTold
<1>6. AtHome(edits) => AtHome(edits')
  BY <1>1 DEF AtHome
<1>7. edits' \subseteq Edits
  BY <1>1 DEF ProfileInv, EditInv
<1>8. EditInv'
  BY <1>2, <1>5, <1>6, <1>7 DEF ProfileInv, EditInv
<1>9. PageInv'
  <2>1. CASE s.kind = "password"
    <3>1. Due(edits') <=> Due(edits)
      BY <1>4, <2>1 DEF Due
    <3> QED
      BY <1>1, <1>2, <2>1, <3>1, PageAlike DEF ProfileInv
  <2>2. CASE s.kind # "password"
    <3>1. s.kind \in {"save", "avatar"}
      BY <2>2 DEF Edits
    <3>2. Due(edits')
      BY <1>4, <3>1 DEF Due
    <3> QED
      BY <3>2 DEF PageInv
  <2> QED
    BY <2>1, <2>2
<1> QED
  BY <1>3, <1>8, <1>9 DEF ProfileInv

\* An edit that is no longer in flight.
LEMMA EditsFewer ==
  ASSUME NEW es, NEW e \in es
  PROVE  LET fs == es \ {e}
         IN  /\ OneEach(es) => OneEach(fs)
             /\ AtHome(es) => AtHome(fs)
             /\ \A k : Waits(fs, k) => Waits(es, k)
             /\ \A k : k # e.kind => (Waits(es, k) <=> Waits(fs, k))
             /\ \A k, v : Told(es, k, v) => Told(fs, k, v)
<1> DEFINE fs == es \ {e}
<1>1. (OneEach(es) => OneEach(fs)) /\ (AtHome(es) => AtHome(fs))
  BY DEF OneEach, AtHome
<1>2. \A k : Waits(fs, k) => Waits(es, k)
  BY DEF Waits
<1>3. \A k : k # e.kind => (Waits(es, k) <=> Waits(fs, k))
  BY DEF Waits
<1>4. \A k, v : Told(es, k, v) => Told(fs, k, v)
  BY DEF Told
<1> QED
  BY <1>1, <1>2, <1>3, <1>4

LEMMA ProfileTold ==
  ASSUME ProfileInv, NEW e \in edits, Profile!ArriveEdit(e)
  PROVE  ProfileInv'
<1>1. /\ edits \subseteq Edits /\ e \in Edits /\ shell \in Versions /\ acct \in Versions
  BY DEF ProfileInv, EditInv, ViewInv, ViewTyped
<1>2. e.served /\ UNCHANGED <<acct, at, kind, page, slice, edited, lost, crossed, stranded, overwritten>>
  BY DEF Profile!ArriveEdit, Profile!counters, Profile!ghosts
<1>3. e.kind \in {"save", "password", "avatar"} /\ e.got \in Nat /\ e.home \in BOOLEAN
  BY <1>1 DEF Edits
<1> DEFINE fs == edits \ {e}
<1>4. /\ edits' = fs \/ \E ks : edits' = Profile!Orphaned(fs, ks)
      /\ e.kind = "save" => shell' = [shell EXCEPT !.fields = e.got]
      /\ e.kind = "avatar" => shell' = [shell EXCEPT !.pic = e.got]
      /\ e.kind = "password" => shell' = shell /\ loads' = loads
      /\ e.kind # "password" => loads' = IF e.home THEN Profile!Refetched ELSE loads
  BY <1>3 DEF Profile!ArriveEdit
<1>5. /\ OneEach(edits) => OneEach(fs)
      /\ AtHome(edits) => AtHome(fs)
      /\ \A k : k # e.kind => (Waits(edits, k) <=> Waits(fs, k))
      /\ \A k, v : Told(edits, k, v) => Told(fs, k, v)
  BY EditsFewer
<1>6. fs \subseteq Edits
  BY <1>1
<1> HIDE DEF fs
<1>7. SameEdits(fs, edits')
  BY <1>4, <1>6, EditsStay, FormsGo
<1>8. /\ shell' \in Versions
      /\ e.kind = "save" => shell'.fields = e.got
      /\ e.kind # "save" => shell'.fields = shell.fields
      /\ e.kind = "avatar" => shell'.pic = e.got
      /\ e.kind # "avatar" => shell'.pic = shell.pic
  BY <1>1, <1>3, <1>4 DEF Versions
<1>9. ViewInv'
  BY <1>1, <1>2, <1>3, <1>4, ViewStays, ViewReloads DEF ProfileInv
<1>10. ASSUME ShellIsTold PROVE ShellIsTold'
  <2>1. acct.fields \in Nat /\ acct.pic \in Nat
    BY <1>1 DEF Versions
  <2>2. /\ OneEach(edits') /\ Told(edits', "save", acct'.fields)
        /\ ~overwritten => Told(edits', "avatar", acct'.pic)
    BY <1>2, <1>5, <1>7, <1>10, <2>1 DEF ShellIsTold, SameEdits
  <2>3. /\ e.kind = "save" => e.got = acct.fields
        /\ e.kind = "avatar" /\ ~overwritten => e.got = acct.pic
    BY <1>2, <1>10 DEF ShellIsTold, Told
  <2>4. \A k \in {"save", "avatar"} : k # e.kind => (Waits(edits', k) <=> Waits(edits, k))
    BY <1>5, <1>7 DEF SameEdits
  <2> QED
    BY <1>2, <1>8, <1>10, <2>2, <2>3, <2>4 DEF ShellIsTold
<1>11. EditInv'
  BY <1>2, <1>5, <1>7, <1>8, <1>10 DEF ProfileInv, EditInv, SameEdits
<1>12. PageInv'
  <2>1. CASE e.kind = "password"
    <3>1. Due(edits') <=> Due(edits)
      BY <1>5, <1>7, <2>1 DEF Due, SameEdits
    <3> QED
      BY <1>2, <1>4, <2>1, <3>1, PageAlike DEF ProfileInv
  <2>2. CASE e.kind # "password" /\ ~stranded
    <3>1. e.home
      BY <2>2 DEF ProfileInv, EditInv, AtHome
    <3>2. loads' = Profile!Refetched
      BY <1>4, <2>2, <3>1
    <3>3. Profile!Loading("page")' /\ \A l \in loads' : l.block = "page" => ~l.served
      BY <3>2, ReloadAsks DEF ProfileInv, Profile!Loading
    <3> QED
      BY <3>3 DEF PageInv, PageIsTold
  <2>3. CASE stranded
    BY <1>2, <2>3 DEF PageInv
  <2> QED
    BY <2>1, <2>2, <2>3
<1> QED
  BY <1>9, <1>11, <1>12 DEF ProfileInv

LEMMA ProfileRefused ==
  ASSUME ProfileInv, NEW e \in edits, Profile!FailEdit(e)
  PROVE  ProfileInv'
<1>1. /\ acct \in Versions /\ edits \subseteq Edits /\ lost \in Nat
  BY DEF ProfileInv, EditInv, ViewInv, ViewTyped
<1>2. /\ lost' = lost + 1 /\ edits' = edits \ {e}
      /\ UNCHANGED <<acct, shell, at, kind, page, slice, loads, edited, crossed, stranded, overwritten>>
  BY DEF Profile!FailEdit, Profile!loaders, Profile!ghosts
<1>3. lost' \in Nat /\ lost' # 0
  BY <1>1, <1>2
<1>4. ViewInv'
  BY <1>1, <1>2, ViewStays DEF ProfileInv
<1>5. AtHome(edits) => AtHome(edits')
  BY <1>2 DEF AtHome
<1>6. EditInv'
  BY <1>1, <1>2, <1>3, <1>5 DEF ProfileInv, EditInv
<1> QED
  BY <1>3, <1>4, <1>6 DEF ProfileInv, PageInv

LEMMA ProfileStep == ProfileInv /\ Profile!Next => ProfileInv'
<1> SUFFICES ASSUME ProfileInv, Profile!Next
             PROVE  ProfileInv'
  OBVIOUS
<1>1. edits \subseteq Edits
  BY DEF ProfileInv, EditInv
<1>2. SameEdits(edits, edits) /\ SameEdits(edits, Profile!Leaving)
  BY <1>1, EditsStay, FormsGo DEF Profile!Leaving
<1>3. ASSUME NEW u \in Members \cup {Ghost}, Profile!Visit(u) \/ Profile!Return(u)
      PROVE  ProfileInv'
  BY <1>3, ProfileVisits DEF Names
<1>4. ASSUME NEW l \in loads,
             Profile!ServeLoad(l) \/ Profile!ArriveLoad(l) \/ Profile!FailLoad(l)
      PROVE  ProfileInv'
  BY <1>4, ProfileServes, ProfileArrives
<1>5. ASSUME Profile!OpenSettings \/ Profile!SwitchTab \/ Profile!CloseSettings
               \/ Profile!DismissToast
      PROVE  ProfileInv'
  <2>1. edits' = edits \/ edits' = Profile!Leaving
    BY <1>5 DEF Profile!OpenSettings, Profile!SwitchTab, Profile!CloseSettings,
                Profile!DismissToast
  <2>2. UNCHANGED <<acct, shell, at, kind, page, slice, loads, edited, lost, crossed, stranded, overwritten>>
    BY <1>5 DEF Profile!OpenSettings, Profile!SwitchTab, Profile!CloseSettings,
                Profile!DismissToast, Profile!loaders, Profile!counters, Profile!ghosts
  <2> QED
    BY <1>2, <2>1, <2>2, ProfileTurns
<1>6. ASSUME Profile!SaveProfile \/ Profile!ChangePassword \/ Profile!PickPhoto
      PROVE  ProfileInv'
  <2>1. \/ \E k \in {"save", "password", "avatar"} : Profile!Send(k)
        \/ UNCHANGED <<acct, shell, at, kind, page, slice, loads, edits, edited, lost,
                       crossed, stranded, overwritten>>
    BY <1>6 DEF Profile!SaveProfile, Profile!ChangePassword, Profile!PickPhoto,
                Profile!loaders, Profile!counters, Profile!ghosts
  <2> QED
    BY <1>2, <2>1, ProfileSends, ProfileTurns
<1>7. ASSUME NEW e \in edits,
             \/ Profile!ReadRow(e) \/ Profile!ServeEdit(e)
             \/ Profile!ArriveEdit(e) \/ Profile!FailEdit(e)
      PROVE  ProfileInv'
  BY <1>7, ProfileReads, ProfileEdited, ProfileTold, ProfileRefused
<1> QED
  BY <1>3, <1>4, <1>5, <1>6, <1>7 DEF Profile!Next

LEMMA ProfileRests == ProfileInv /\ UNCHANGED profileVars => ProfileInv'
<1> SUFFICES ASSUME ProfileInv, UNCHANGED profileVars
             PROVE  ProfileInv'
  OBVIOUS
<1>1. UNCHANGED <<acct, shell, at, kind, page, slice, loads, edits, edited, lost, crossed,
                  stranded, overwritten>>
  BY DEF profileVars
<1> QED
  BY <1>1, EditsStay, ProfileTurns DEF ProfileInv, EditInv

-----------------------------------------------------------------------------
(* The notification feed.                                                   *)

FeedRow == [id : Int, fresh : BOOLEAN]

PageAsked == [kind : {"first", "ring", "more"}, page : Nat, mine : BOOLEAN, done : BOOLEAN,
              rows : Seq(FeedRow), next : BOOLEAN, base : Nat]

Panels == [open : BOOLEAN, items : Seq(FeedRow), loading : BOOLEAN, error : BOOLEAN,
           hasMore : BOOLEAN, page : Nat, fetching : BOOLEAN, base : Nat]

\* A served page has every row of its slice, and is the last one if it says so.
PageFits(c) ==
  /\ c.page >= 1 /\ (c.kind = "first" => c.page = 1)
  /\ c.done =>
       /\ c.base <= created
       /\ \A id \in 1..c.base :
            (id > c.base - PageSize * c.page /\ id <= c.base - PageSize * (c.page - 1))
              => id \in Feed!Ids(c.rows)
       /\ ~c.next => c.base <= PageSize * c.page

FeedTyped ==
  /\ created \in Nat
  /\ pages \in Seq(PageAsked) /\ \A i \in 1..Len(pages) : PageFits(pages[i])
  /\ panel \in Panels

\* The current generation has one request of the first page or one of the next, in the
\* state of the panel that belongs to it.
FeedTurn ==
  /\ ~panel.open => pages = <<>>
  /\ \A i \in 1..Len(pages) : pages[i].mine =>
       /\ pages[i].kind = "first" => panel.loading /\ panel.page = 1 /\ panel.base = 0
       /\ pages[i].kind = "more" =>
            panel.fetching /\ ~panel.loading /\ pages[i].page = panel.page + 1
  /\ \A i, j \in 1..Len(pages) :
       (pages[i].mine /\ pages[j].mine /\ pages[i].kind = pages[j].kind /\ pages[i].kind # "ring")
         => i = j

\* The list has every row newer than n that existed when its first page was taken.
Covered(n) == \A id \in 1..panel.base : id > n => id \in Feed!Ids(panel.items)

\* What the list lacks is below the pages it has read.  A page that is served while new
\* rows push the older ones down starts no lower than the list ends.
FeedCovers ==
  /\ Covered(created - PageSize * panel.page)
  /\ ~panel.hasMore => Covered(0)
  /\ \A i \in 1..Len(pages) :
       (pages[i].mine /\ pages[i].kind = "more" /\ pages[i].done)
         => Covered(pages[i].base - PageSize * panel.page)

FeedInv == FeedTyped /\ FeedTurn /\ FeedCovers

\* One page more is PageSize rows more.
LEMMA NextPage ==
  ASSUME NEW n \in Nat
  PROVE  /\ PageSize * n \in Nat
         /\ PageSize * (n + 1) = PageSize * n + PageSize
         /\ n >= 1 => PageSize * n = PageSize * (n - 1) + PageSize /\ PageSize * (n - 1) \in Nat
BY PageAssumption

LEMMA IdsOf ==
  ASSUME NEW list \in Seq(FeedRow)
  PROVE  /\ Feed!Ids(list) = {list[k].id : k \in 1..Len(list)}
         /\ Feed!Ids(list) = {r.id : r \in Range(list)}
<1>1. DOMAIN list = 1..Len(list) /\ Range(list) = {list[k] : k \in 1..Len(list)}
  BY LenProperties, RangeEquality
<1> QED
  BY <1>1 DEF Feed!Ids

\* merge() keeps the list in one piece and adds the rows it lacks before or after it.
LEMMA MergeAdds ==
  ASSUME NEW list \in Seq(FeedRow), NEW rows \in Seq(FeedRow), NEW atTop \in BOOLEAN
  PROVE  /\ Feed!Merge(list, rows, atTop) \in Seq(FeedRow)
         /\ Feed!Ids(Feed!Merge(list, rows, atTop)) = Feed!Ids(list) \cup Feed!Ids(rows)
         /\ \E k \in 0..Len(Feed!Merge(list, rows, atTop)) :
              /\ k + Len(list) <= Len(Feed!Merge(list, rows, atTop))
              /\ \A j \in DOMAIN list : Feed!Merge(list, rows, atTop)[k + j] = list[j]
<1> DEFINE P == {k \in DOMAIN rows : rows[k].id \notin Feed!Ids(list)}
           added == Feed!Filtered(rows, P)
           merged == Feed!Merge(list, rows, atTop)
<1>1. DOMAIN rows = 1..Len(rows) /\ DOMAIN list = 1..Len(list) /\ Len(list) \in Nat
  BY LenProperties
<1>2. P \subseteq 1..Len(rows)
  BY <1>1
<1>3. \A k \in 1..Len(rows) : k \in P <=> rows[k].id \notin Feed!Ids(list)
  BY <1>1
<1>4. merged = IF atTop THEN added \o list ELSE list \o added
  BY DEF Feed!Merge
<1> HIDE DEF P, merged
<1>5. added = Filtered(rows, P)
  <2>1. Feed!Cardinality(P) = Cardinality(P)
    BY DEF Feed!Cardinality, Cardinality
  <2> QED
    BY <2>1 DEF Filtered, InOrder, Feed!Filtered, Feed!InOrder
<1>6. added \in Seq(FeedRow) /\ Range(added) = {rows[i] : i \in P}
  BY <1>2, <1>5, FilteredElements
<1> HIDE DEF added
<1>7. /\ added \o list \in Seq(FeedRow) /\ list \o added \in Seq(FeedRow)
      /\ Len(added \o list) = Len(added) + Len(list) /\ Len(list \o added) = Len(list) + Len(added)
      /\ Len(added) \in Nat
      /\ \A j \in 1..Len(list) : (added \o list)[Len(added) + j] = list[j]
      /\ \A j \in 1..Len(list) : (list \o added)[0 + j] = list[j]
  BY <1>1, <1>6, ConcatProperties, LenProperties
<1>8. merged \in Seq(FeedRow)
  BY <1>4, <1>7
<1>9. Feed!Ids(merged) = Feed!Ids(list) \cup Feed!Ids(added)
  <2>1. Range(merged) = Range(list) \cup Range(added)
    <3>0. added \in Seq(FeedRow) /\ list \in Seq(FeedRow)
      BY <1>6
    <3>1. Range(added \o list) = Range(added) \cup Range(list)
      BY <3>0, RangeConcatenation, Zenon
    <3>2. Range(list \o added) = Range(list) \cup Range(added)
      BY <3>0, RangeConcatenation, Zenon
    <3> QED
      BY <1>4, <3>1, <3>2
  <2> QED
    BY <1>6, <1>8, <2>1, IdsOf
<1>10. Feed!Ids(added) = {rows[i].id : i \in P}
  BY <1>6, IdsOf
<1>11. Feed!Ids(rows) = {rows[i].id : i \in 1..Len(rows)}
  BY IdsOf
<1>12. Feed!Ids(merged) = Feed!Ids(list) \cup Feed!Ids(rows)
  BY <1>2, <1>3, <1>9, <1>10, <1>11
<1>13. \E k \in 0..Len(merged) :
         k + Len(list) <= Len(merged) /\ \A j \in DOMAIN list : merged[k + j] = list[j]
  <2>1. CASE atTop
    <3>1. /\ Len(added) \in 0..Len(merged) /\ Len(added) + Len(list) <= Len(merged)
          /\ \A j \in DOMAIN list : merged[Len(added) + j] = list[j]
      BY <1>1, <1>4, <1>7, <2>1
    <3> QED
      BY <3>1
  <2>2. CASE ~atTop
    <3>1. /\ 0 \in 0..Len(merged) /\ 0 + Len(list) <= Len(merged)
          /\ \A j \in DOMAIN list : merged[0 + j] = list[j]
      BY <1>1, <1>4, <1>7, <2>2
    <3> QED
      BY <3>1
  <2> QED
    BY <2>1, <2>2
<1> QED
  BY <1>8, <1>12, <1>13 DEF merged

\* The smaller of two numbers.
LEMMA SmallerOf ==
  ASSUME NEW a \in Int, NEW b \in Int
  PROVE  Feed!Min({a, b}) = IF a <= b THEN a ELSE b
BY DEF Feed!Min

\* The server answers with the slice of the page.
LEMMA SliceServed ==
  ASSUME FeedTyped, NEW i \in 1..Len(pages), Feed!Serve(i)
  PROVE  \E c \in PageAsked :
           /\ PageFits(c) /\ pages' = [pages EXCEPT ![i] = c]
           /\ c.kind = pages[i].kind /\ c.page = pages[i].page /\ c.mine = pages[i].mine
           /\ c.done /\ c.base = created
<1> DEFINE p == pages[i].page
           before == PageSize * (p - 1)
           m == Feed!Min({PageSize, created - before})
           rows == [k \in 1..m |-> [id |-> created - before + 1 - k,
                                    fresh |-> created - before + 1 - k \notin seen]]
           later == created > before + PageSize
           c == [pages[i] EXCEPT !.done = TRUE, !.rows = rows, !.next = later, !.base = created]
<1>1. pages[i] \in PageAsked /\ PageFits(pages[i]) /\ created \in Nat
  BY ElementOfSeq DEF FeedTyped
<1>2. p \in Nat /\ p >= 1
  BY <1>1 DEF PageAsked, PageFits
<1>3. before \in Nat /\ PageSize * p = before + PageSize /\ PageSize \in Nat
  BY <1>2, NextPage, PageAssumption
<1>4. pages' = [pages EXCEPT ![i] = c]
  BY DEF Feed!Serve
<1> HIDE DEF p, before
<1>5. m = IF PageSize <= created - before THEN PageSize ELSE created - before
  BY <1>1, <1>3, SmallerOf
<1> HIDE DEF m
<1>6. m \in Int
  BY <1>1, <1>3, <1>5
<1>7. rows \in Seq(FeedRow)
  <2>1. \A k \in 1..m : [id |-> created - before + 1 - k,
                         fresh |-> created - before + 1 - k \notin seen] \in FeedRow
    BY <1>1, <1>3, <1>6 DEF FeedRow
  <2>2. CASE m >= 0
    BY <1>6, <2>1, <2>2
  <2>3. CASE m < 0
    <3>1. 1..m = 1..0
      BY <1>6, <2>3
    <3>2. rows \in [1..0 -> FeedRow]
      BY <2>1, <3>1
    <3> QED
      BY <3>2, SeqDef
  <2> QED
    BY <1>6, <2>2, <2>3
<1>8. ASSUME NEW id \in 1..created, id > created - before - PageSize, id <= created - before
      PROVE  id \in Feed!Ids(rows)
  <2> DEFINE k == created - before + 1 - id
  <2>1. k \in 1..m /\ created - before + 1 - k = id
    BY <1>1, <1>3, <1>5, <1>8
  <2> HIDE DEF k
  <2>2. rows[k].id = id /\ k \in DOMAIN rows
    BY <2>1
  <2> QED
    BY <2>2 DEF Feed!Ids
<1>9. later \in BOOLEAN /\ (~later => created <= before + PageSize)
  BY <1>1, <1>3
<1> HIDE DEF rows, later
<1>10. /\ c \in PageAsked /\ c.kind = pages[i].kind /\ c.page = p /\ c.mine = pages[i].mine
       /\ c.done /\ c.base = created /\ c.rows = rows /\ c.next = later
  BY <1>1, <1>7, <1>9 DEF PageAsked, p
<1> HIDE DEF c
<1>11. PageFits(c)
  <2>1. c.kind = "first" => c.page = 1
    BY <1>1, <1>10 DEF PageFits, p
  <2>2. ~c.next => c.base <= PageSize * c.page
    BY <1>1, <1>3, <1>9, <1>10
  <2>3. \A id \in 1..c.base :
          (id > c.base - PageSize * c.page /\ id <= c.base - PageSize * (c.page - 1))
            => id \in Feed!Ids(c.rows)
    BY <1>1, <1>3, <1>8, <1>10 DEF before
  <2> QED
    BY <1>1, <1>2, <1>10, <2>1, <2>2, <2>3 DEF PageFits
<1> QED
  BY <1>4, <1>10, <1>11 DEF p

\* The other requests of the same panel.
LEMMA PagesFewer ==
  ASSUME pages \in Seq(PageAsked), NEW k \in 1..Len(pages), pages' = RemoveAt(pages, k)
  PROVE  /\ pages' \in Seq(PageAsked) /\ Len(pages') = Len(pages) - 1
         /\ \A i \in 1..Len(pages') : \E j \in 1..Len(pages) : j # k /\ pages'[i] = pages[j]
         /\ \A i, j \in 1..Len(pages') : i # j =>
              \E a, b \in 1..Len(pages) : a # b /\ pages'[i] = pages[a] /\ pages'[j] = pages[b]
<1>1. /\ Len(pages) \in Nat /\ k \in Nat
      /\ pages' \in Seq(PageAsked) /\ Len(pages') = Len(pages) - 1
      /\ \A i \in 1..Len(pages) - 1 : pages'[i] = IF i < k THEN pages[i] ELSE pages[i + 1]
  BY RemoveAtElements, LenProperties
<1> DEFINE old(i) == IF i < k THEN i ELSE i + 1
<1>2. \A i \in 1..Len(pages') : /\ old(i) \in 1..Len(pages) /\ old(i) # k
                                /\ pages'[i] = pages[old(i)]
  BY <1>1
<1>3. \A i, j \in 1..Len(pages') : i # j => old(i) # old(j)
  BY <1>1
<1> HIDE DEF old
<1> QED
  BY <1>1, <1>2, <1>3

\* A panel that is not open, or has just been, has taken no page.
LEMMA NothingTaken ==
  ASSUME panel' = Feed!Closed \/ panel' = Feed!Mounted,
         \A i \in 1..Len(pages') : pages'[i].mine => pages'[i].kind = "first"
  PROVE  /\ FeedCovers' /\ panel'.page = 1 /\ panel'.base = 0
         /\ panel' = Feed!Mounted => panel'.open /\ panel'.loading
         /\ panel' \in Panels
<1>0. Feed!Closed \in Panels /\ Feed!Closed.base = 0 /\ Feed!Closed.page = 1
  BY DEF Feed!Closed, Panels
<1> DEFINE m == [Feed!Closed EXCEPT !.open = TRUE, !.loading = TRUE]
<1>4. m = Feed!Mounted
  BY DEF Feed!Mounted
<1>5. m \in Panels /\ m.open /\ m.loading /\ m.base = 0 /\ m.page = 1
  BY <1>0 DEF Panels
<1> HIDE DEF m
<1>1. panel'.base = 0 /\ panel'.page = 1
  BY <1>0, <1>4, <1>5
<1>2. \A n : Covered(n)'
  BY <1>1 DEF Covered
<1>3. FeedCovers'
  BY <1>2 DEF FeedCovers
<1> QED
  BY <1>0, <1>1, <1>3, <1>4, <1>5

\* Nothing the list covers is lost while its rows and its pages stay as they are.
LEMMA CoversKept ==
  ASSUME FeedInv, created' \in Nat, created' >= created,
         panel'.items = panel.items, panel'.base = panel.base, panel'.page = panel.page,
         panel'.hasMore = panel.hasMore,
         \A i \in 1..Len(pages') :
           (pages'[i].mine /\ pages'[i].kind = "more" /\ pages'[i].done)
             => \E j \in 1..Len(pages) : pages'[i] = pages[j]
  PROVE  FeedCovers'
<1>1. /\ created \in Nat /\ panel.page \in Nat /\ panel.base \in Nat
      /\ PageSize * panel.page \in Nat
  BY NextPage DEF FeedInv, FeedTyped, Panels
<1>2. \A n : Covered(n) => Covered(n)'
  BY DEF Covered
<1>3. Covered(created - PageSize * panel.page)'
  <2> DEFINE n == created - PageSize * panel.page
             k == created' - PageSize * panel.page
  <2>1. n \in Int /\ k \in Int /\ n <= k
    BY <1>1
  <2>2. Covered(n)
    BY DEF FeedInv, FeedCovers
  <2> HIDE DEF n, k
  <2>3. \A id \in 1..panel.base : id > k => id > n
    BY <1>1, <2>1
  <2>4. \A id \in 1..panel'.base : id > k => id \in Feed!Ids(panel'.items)
    BY <2>2, <2>3 DEF Covered
  <2> QED
    BY <2>4 DEF Covered, k
<1>4. ASSUME NEW i \in 1..Len(pages'), pages'[i].mine, pages'[i].kind = "more", pages'[i].done
      PROVE  Covered(pages[i].base - PageSize * panel.page)'
  <2>1. PICK j \in 1..Len(pages) : pages'[i] = pages[j]
    BY <1>4
  <2>2. Covered(pages[j].base - PageSize * panel.page)
    BY <1>4, <2>1 DEF FeedInv, FeedCovers
  <2> QED
    BY <2>1, <2>2 DEF Covered
<1>5. ~panel'.hasMore => Covered(0)'
  BY <1>2 DEF FeedInv, FeedCovers
<1> QED
  BY <1>3, <1>4, <1>5 DEF FeedCovers

LEMMA PageSent ==
  ASSUME NEW k \in {"first", "ring", "more"}, NEW n \in Nat, n >= 1,
         k = "first" => n = 1
  PROVE  /\ Feed!Request(k, n) \in PageAsked
         /\ Feed!Request(k, n).kind = k /\ Feed!Request(k, n).page = n
         /\ Feed!Request(k, n).mine /\ ~Feed!Request(k, n).done
         /\ PageFits(Feed!Request(k, n))'
BY DEF Feed!Request, PageAsked, PageFits

\* What a request has brought stays true of the server.
LEMMA FitsStill ==
  ASSUME created \in Nat, created' \in Nat, created' >= created, NEW c \in PageAsked, PageFits(c)
  PROVE  PageFits(c)'
<1>1. c.base \in Nat
  BY DEF PageAsked
<1>2. c.done => c.base <= created'
  BY <1>1 DEF PageFits
<1> QED
  BY <1>2 DEF PageFits

LEMMA FeedInit == Feed!Init => FeedInv
<1> SUFFICES ASSUME Feed!Init
             PROVE  FeedInv
  OBVIOUS
<1>1. /\ created \in Nat /\ pages = <<>> /\ panel = Feed!Closed
  BY DEF Feed!Init
<1>2. panel.base = 0 /\ ~panel.open
  BY <1>1 DEF Feed!Closed
<1>3. FeedTyped
  BY <1>1 DEF FeedTyped, Feed!Closed, Panels
<1>4. FeedTurn
  BY <1>1 DEF FeedTurn
<1>5. FeedCovers
  BY <1>1, <1>2 DEF FeedCovers, Covered
<1> QED
  BY <1>3, <1>4, <1>5 DEF FeedInv

LEMMA FeedServer == FeedInv /\ (Feed!CreateRow \/ Feed!MarkRow) => FeedInv'
<1> SUFFICES ASSUME FeedInv, Feed!CreateRow \/ Feed!MarkRow
             PROVE  FeedInv'
  OBVIOUS
<1>1. /\ created \in Nat /\ created' \in Nat /\ created' >= created
      /\ panel' = panel /\ pages' = pages
  BY DEF FeedInv, FeedTyped, Feed!CreateRow, Feed!MarkRow
<1>2. \A i \in 1..Len(pages) : pages[i] \in PageAsked /\ PageFits(pages[i])
  BY ElementOfSeq DEF FeedInv, FeedTyped
<1>3. \A i \in 1..Len(pages) : PageFits(pages[i])'
  BY <1>1, <1>2, FitsStill
<1>4. FeedTyped'
  BY <1>1, <1>3 DEF FeedInv, FeedTyped
<1>5. FeedTurn'
  BY <1>1 DEF FeedInv, FeedTurn
<1>6. FeedCovers'
  BY <1>1, CoversKept
<1> QED
  BY <1>4, <1>5, <1>6 DEF FeedInv

LEMMA FeedOpens == FeedInv /\ (Feed!Open \/ Feed!Close) => FeedInv'
<1> SUFFICES ASSUME FeedInv, Feed!Open \/ Feed!Close
             PROVE  FeedInv'
  OBVIOUS
<1>1. created \in Nat /\ created' = created
  BY DEF FeedInv, FeedTyped, Feed!Open, Feed!Close, Feed!server
<1>2. CASE Feed!Close
  <2>1. panel' = Feed!Closed /\ pages' = <<>>
    BY <1>2 DEF Feed!Close
  <2>2. FeedTurn'
    BY <2>1 DEF FeedTurn
  <2> QED
    BY <1>1, <2>1, <2>2, NothingTaken DEF FeedInv, FeedTyped
<1>3. CASE Feed!Open
  <2> DEFINE c == Feed!Request("first", 1)
  <2>1. panel' = Feed!Mounted /\ pages' = <<c>>
    BY <1>3 DEF Feed!Open
  <2>2. c \in PageAsked /\ c.kind = "first" /\ c.mine /\ PageFits(c)'
    BY PageSent
  <2> HIDE DEF c
  <2>3. pages' \in Seq(PageAsked) /\ Len(pages') = 1 /\ pages'[1] = c
    BY <2>1, <2>2
  <2>4. /\ FeedCovers' /\ panel'.page = 1 /\ panel'.base = 0 /\ panel'.open /\ panel'.loading
        /\ panel' \in Panels
    BY <2>1, <2>2, <2>3, NothingTaken
  <2>5. \A i \in 1..Len(pages') : i = 1 /\ pages'[i] = c
    BY <2>3
  <2>6. FeedTurn'
    BY <2>2, <2>4, <2>5 DEF FeedTurn
  <2>7. FeedTyped'
    BY <1>1, <2>2, <2>3, <2>4, <2>5 DEF FeedTyped
  <2> QED
    BY <2>4, <2>6, <2>7 DEF FeedInv
<1> QED
  BY <1>2, <1>3

\* One more request: those in flight are as they were, or not of the panel any more.
LEMMA PageAsks ==
  ASSUME FeedInv, NEW q \in Seq(PageAsked), NEW c \in PageAsked,
         Len(q) = Len(pages), pages' = Append(q, c), created' = created,
         \A i \in 1..Len(pages) : q[i] = pages[i] \/ (PageFits(q[i]) /\ ~q[i].mine),
         PageFits(c)', panel' \in Panels
  PROVE  /\ FeedTyped'
         /\ Len(pages') = Len(pages) + 1 /\ pages'[Len(pages) + 1] = c
         /\ \A i \in 1..Len(pages) : pages'[i] = q[i]
<1>1. /\ Len(pages) \in Nat /\ created \in Nat
      /\ \A i \in 1..Len(pages) : PageFits(pages[i])
  BY LenProperties DEF FeedInv, FeedTyped
<1>2. /\ pages' \in Seq(PageAsked) /\ Len(pages') = Len(pages) + 1
      /\ pages'[Len(pages) + 1] = c /\ \A i \in 1..Len(pages) : pages'[i] = q[i]
  BY AppendProperties
<1>3. ASSUME NEW i \in 1..Len(pages')
      PROVE  PageFits(pages[i])'
  <2>1. CASE i \in 1..Len(pages)
    <3>1. PageFits(q[i])
      BY <1>1, <2>1
    <3> QED
      BY <1>2, <2>1, <3>1 DEF PageFits
  <2>2. CASE i = Len(pages) + 1
    BY <1>2, <2>2 DEF PageFits
  <2> QED
    BY <1>1, <1>2, <2>1, <2>2
<1> QED
  BY <1>1, <1>2, <1>3 DEF FeedTyped

LEMMA FeedAsks == FeedInv /\ (Feed!Ring \/ Feed!LoadMore) => FeedInv'
<1> SUFFICES ASSUME FeedInv, Feed!Ring \/ Feed!LoadMore
             PROVE  FeedInv'
  OBVIOUS
<1>1. /\ created \in Nat /\ panel \in Panels /\ pages \in Seq(PageAsked) /\ Len(pages) \in Nat
      /\ panel.page \in Nat
  BY LenProperties DEF FeedInv, FeedTyped, Panels
<1>2. ASSUME NEW c \in PageAsked, PageFits(c)', c.mine, ~c.done,
             pages' = Append(pages, c), created' = created, panel' \in Panels, panel.open,
             panel'.open = panel.open, panel'.loading = panel.loading,
             panel'.items = panel.items, panel'.base = panel.base, panel'.page = panel.page,
             panel'.hasMore = panel.hasMore,
             \/ c.kind = "ring" /\ panel'.fetching = panel.fetching
             \/ /\ c.kind = "more" /\ c.page = panel.page + 1 /\ panel'.fetching
                /\ ~panel.loading /\ ~panel.fetching
      PROVE  FeedInv'
  <2>1. /\ FeedTyped'
        /\ Len(pages') = Len(pages) + 1 /\ pages'[Len(pages) + 1] = c
        /\ \A i \in 1..Len(pages) : pages'[i] = pages[i]
    BY ONLY FeedInv, <1>1, <1>2, PageAsks
  <2>2. \A i \in 1..Len(pages') : i \in 1..Len(pages) \/ i = Len(pages) + 1
    BY <1>1, <2>1
  <2>3. FeedCovers'
    <3>1. \A i \in 1..Len(pages') : pages'[i].done => \E j \in 1..Len(pages) : pages'[i] = pages[j]
      BY <1>2, <2>1, <2>2
    <3> QED
      BY <1>1, <1>2, <3>1, CoversKept
  <2>4. FeedTurn
    BY DEF FeedInv
  <2>5. pages' # <<>>
    BY <1>1, <2>1
  <2>6. ASSUME NEW i \in 1..Len(pages'), pages'[i].mine
        PROVE  /\ pages'[i].kind = "first" => panel'.loading /\ panel'.page = 1 /\ panel'.base = 0
               /\ pages'[i].kind = "more" =>
                    panel'.fetching /\ ~panel'.loading /\ pages'[i].page = panel'.page + 1
    <3>1. CASE i \in 1..Len(pages)
      BY <1>2, <2>1, <2>4, <2>6, <3>1 DEF FeedTurn
    <3>2. CASE i = Len(pages) + 1
      BY <1>2, <2>1, <3>2
    <3> QED
      BY <2>2, <3>1, <3>2
  <2>7. ASSUME NEW i \in 1..Len(pages'), NEW j \in 1..Len(pages'), pages'[i].mine, pages'[j].mine,
               pages'[i].kind = pages'[j].kind, pages'[i].kind # "ring"
        PROVE  i = j
    <3>1. ASSUME NEW k \in 1..Len(pages), pages[k].mine, pages[k].kind = c.kind, c.kind # "ring"
          PROVE  FALSE
      BY <1>2, <2>4, <3>1 DEF FeedTurn
    <3>2. CASE i \in 1..Len(pages) /\ j \in 1..Len(pages)
      BY <2>1, <2>4, <2>7, <3>2 DEF FeedTurn
    <3>3. CASE i = Len(pages) + 1 \/ j = Len(pages) + 1
      BY <2>1, <2>2, <2>7, <3>1, <3>3
    <3> QED
      BY <2>2, <3>2, <3>3
  <2>8. FeedTurn'
    <3>1. panel'.open
      BY <1>2
    <3> QED
      BY <2>6, <2>7, <3>1 DEF FeedTurn
  <2> QED
    BY <2>1, <2>3, <2>8 DEF FeedInv
<1>3. CASE Feed!Ring
  <2> DEFINE c == Feed!Request("ring", 1)
  <2>1. pages' = Append(pages, c) /\ panel' = panel /\ created' = created /\ panel.open
    BY <1>3 DEF Feed!Ring, Feed!server
  <2>2. c \in PageAsked /\ c.kind = "ring" /\ c.mine /\ ~c.done /\ PageFits(c)'
    BY PageSent
  <2> HIDE DEF c
  <2> QED
    BY <1>1, <1>2, <2>1, <2>2
<1>4. CASE Feed!LoadMore
  <2>0. PICK n \in Nat : n = panel.page + 1 /\ n >= 1
    BY <1>1
  <2> DEFINE c == Feed!Request("more", n)
  <2>1. /\ pages' = Append(pages, c) /\ panel' = [panel EXCEPT !.fetching = TRUE]
        /\ created' = created /\ panel.open /\ ~panel.fetching /\ Feed!View = "rows"
    BY <1>4, <2>0 DEF Feed!LoadMore, Feed!server
  <2>2. ~panel.loading
    BY <2>1 DEF Feed!View
  <2>3. /\ c \in PageAsked /\ c.kind = "more" /\ c.page = n /\ c.mine /\ ~c.done /\ PageFits(c)'
    BY <2>0, PageSent
  <2> HIDE DEF c
  <2>4. /\ panel' \in Panels /\ panel'.fetching
        /\ panel'.open = panel.open /\ panel'.loading = panel.loading
        /\ panel'.items = panel.items /\ panel'.base = panel.base /\ panel'.page = panel.page
        /\ panel'.hasMore = panel.hasMore
    BY <1>1, <2>1 DEF Panels
  <2> QED
    BY <1>2, <2>0, <2>1, <2>2, <2>3, <2>4
<1> QED
  BY <1>3, <1>4

LEMMA PageLeft ==
  ASSUME NEW c \in PageAsked, PageFits(c)
  PROVE  /\ [c EXCEPT !.mine = FALSE] \in PageAsked /\ PageFits([c EXCEPT !.mine = FALSE])
         /\ ~[c EXCEPT !.mine = FALSE].mine
<1> DEFINE d == [c EXCEPT !.mine = FALSE]
<1>1. d \in PageAsked /\ ~d.mine
  BY DEF PageAsked
<1>2. d.kind = c.kind /\ d.page = c.page /\ d.done = c.done
  BY DEF PageAsked
<1>3. d.rows = c.rows /\ d.next = c.next /\ d.base = c.base
  BY DEF PageAsked
<1> HIDE DEF d
<1>4. PageFits(d)
  BY <1>2, <1>3 DEF PageFits
<1> QED
  BY <1>1, <1>4 DEF d

LEMMA FeedReloads == FeedInv /\ Feed!Reload => FeedInv'
<1> SUFFICES ASSUME FeedInv, Feed!Reload
             PROVE  FeedInv'
  OBVIOUS
<1> DEFINE q == [i \in DOMAIN pages |-> [pages[i] EXCEPT !.mine = FALSE]]
           c == Feed!Request("first", 1)
<1>1. /\ pages \in Seq(PageAsked) /\ Len(pages) \in Nat /\ DOMAIN pages = 1..Len(pages)
      /\ \A i \in 1..Len(pages) : pages[i] \in PageAsked /\ PageFits(pages[i])
  BY LenProperties, ElementOfSeq DEF FeedInv, FeedTyped
<1>2. /\ pages' = Append(q, c) /\ panel' = Feed!Mounted /\ created' = created
  BY DEF Feed!Reload, Feed!server
<1>3. c \in PageAsked /\ c.kind = "first" /\ c.mine /\ PageFits(c)'
  BY PageSent
<1>4. \A i \in 1..Len(pages) : q[i] \in PageAsked /\ PageFits(q[i]) /\ ~q[i].mine
  <2> SUFFICES ASSUME NEW i \in 1..Len(pages)
               PROVE  q[i] \in PageAsked /\ PageFits(q[i]) /\ ~q[i].mine
    OBVIOUS
  <2>1. pages[i] \in PageAsked /\ PageFits(pages[i]) /\ q[i] = [pages[i] EXCEPT !.mine = FALSE]
    BY <1>1
  <2> HIDE DEF q
  <2> QED
    BY <2>1, PageLeft
<1>5. q \in Seq(PageAsked) /\ Len(q) = Len(pages)
  BY <1>1, <1>4
<1> HIDE DEF q, c
<1>6. PICK p \in Seq(PageAsked), d \in PageAsked : p = q /\ d = c
  BY <1>3, <1>5
<1>7. PageFits(d)'
  <2>1. ~d.done /\ d.page = 1
    BY <1>6, PageSent DEF c
  <2> QED
    BY <2>1 DEF PageFits
<1>8. panel' \in Panels
  <2>1. /\ Feed!Closed \in Panels
    BY DEF Feed!Closed, Panels
  <2> QED
    BY <1>2, <2>1 DEF Feed!Mounted, Panels
<1>9. /\ FeedTyped'
      /\ Len(pages') = Len(pages) + 1 /\ pages'[Len(pages) + 1] = d
      /\ \A i \in 1..Len(pages) : pages'[i] = p[i]
  BY ONLY FeedInv, <1>2, <1>4, <1>5, <1>6, <1>7, <1>8, PageAsks
<1>10. \A i \in 1..Len(pages') : pages'[i].mine => i = Len(pages) + 1 /\ pages'[i] = c
  BY <1>1, <1>4, <1>6, <1>9
<1>11. /\ FeedCovers' /\ panel'.page = 1 /\ panel'.base = 0 /\ panel'.open /\ panel'.loading
  BY <1>2, <1>3, <1>10, NothingTaken
<1>12. FeedTurn'
  BY <1>3, <1>10, <1>11 DEF FeedTurn
<1> QED
  BY <1>9, <1>11, <1>12 DEF FeedInv

LEMMA FeedServes == FeedInv /\ (\E i \in 1..MaxPages : Feed!Serve(i)) => FeedInv'
<1> SUFFICES ASSUME FeedInv, NEW i \in 1..MaxPages, Feed!Serve(i)
             PROVE  FeedInv'
  OBVIOUS
<1>1. /\ pages \in Seq(PageAsked) /\ DOMAIN pages = 1..Len(pages)
      /\ created \in Nat /\ panel \in Panels /\ FeedTyped
      /\ \A j \in 1..Len(pages) : PageFits(pages[j])
  BY LenProperties DEF FeedInv, FeedTyped
<1>2. /\ i \in 1..Len(pages) /\ panel' = panel /\ created' = created
  BY <1>1 DEF Feed!Serve, Feed!server
<1>3. PICK c \in PageAsked :
        /\ PageFits(c) /\ pages' = [pages EXCEPT ![i] = c]
        /\ c.kind = pages[i].kind /\ c.page = pages[i].page /\ c.mine = pages[i].mine
        /\ c.done /\ c.base = created
  BY <1>1, <1>2, SliceServed
<1>4. /\ pages' \in Seq(PageAsked) /\ Len(pages') = Len(pages) /\ pages' # <<>>
      /\ pages'[i] = c /\ \A j \in 1..Len(pages) : j # i => pages'[j] = pages[j]
  BY <1>1, <1>2, <1>3
<1>5. \A j \in 1..Len(pages) : /\ pages'[j].kind = pages[j].kind /\ pages'[j].page = pages[j].page
                               /\ pages'[j].mine = pages[j].mine
  BY <1>3, <1>4
<1>6. FeedTyped'
  <2>1. \A j \in 1..Len(pages) : PageFits(pages[j])'
    BY <1>1, <1>2, <1>3, <1>4 DEF PageFits
  <2> QED
    BY <1>1, <1>2, <1>4, <2>1 DEF FeedTyped
<1>7. pages # <<>>
  BY <1>1, <1>2
<1>8. FeedTurn'
  BY <1>2, <1>4, <1>5, <1>7 DEF FeedInv, FeedTurn
<1>9. \A n : Covered(n)' <=> Covered(n)
  BY <1>2 DEF Covered
<1>10. FeedCovers'
  <2>1. FeedCovers
    BY DEF FeedInv
  <2>2. ASSUME NEW j \in 1..Len(pages'), pages'[j].mine, pages'[j].kind = "more", pages'[j].done
        PROVE  Covered(pages[j].base - PageSize * panel.page)'
    <3>1. CASE j = i
      <4>1. Covered(created - PageSize * panel.page)
        BY <2>1 DEF FeedCovers
      <4>2. pages'[j].base - PageSize * panel'.page = created - PageSize * panel.page
        BY <1>2, <1>3, <1>4, <3>1
      <4> QED
        BY <1>2, <4>1, <4>2 DEF Covered
    <3>2. CASE j # i
      <4>1. Covered(pages[j].base - PageSize * panel.page) /\ pages'[j] = pages[j]
        BY <1>4, <2>1, <2>2, <3>2 DEF FeedCovers
      <4> QED
        BY <1>2, <4>1 DEF Covered
    <3> QED
      BY <3>1, <3>2
  <2>3. Covered(created - PageSize * panel.page)'
    BY <1>2, <2>1 DEF FeedCovers, Covered
  <2>4. ~panel'.hasMore => Covered(0)'
    BY <1>2, <1>9, <2>1 DEF FeedCovers
  <2> QED
    BY <2>2, <2>3, <2>4 DEF FeedCovers
<1> QED
  BY <1>6, <1>8, <1>10 DEF FeedInv

\* With one answer less in flight, and a panel that stands where its requests say.
LEMMA FeedSettles ==
  ASSUME FeedInv, NEW k \in 1..Len(pages), pages' = RemoveAt(pages, k), created' = created,
         panel' \in Panels, panel'.open = panel.open, FeedCovers',
         \A i \in 1..Len(pages) : (i # k /\ pages[i].mine) =>
           /\ pages[i].kind = "first" => panel'.loading /\ panel'.page = 1 /\ panel'.base = 0
           /\ pages[i].kind = "more" =>
                panel'.fetching /\ ~panel'.loading /\ pages[i].page = panel'.page + 1
  PROVE  FeedInv'
<1>1. /\ pages \in Seq(PageAsked) /\ created \in Nat
      /\ \A i \in 1..Len(pages) : PageFits(pages[i])
  BY DEF FeedInv, FeedTyped
<1>2. /\ pages' \in Seq(PageAsked) /\ Len(pages') = Len(pages) - 1
      /\ \A i \in 1..Len(pages') : \E j \in 1..Len(pages) : j # k /\ pages'[i] = pages[j]
      /\ \A i, j \in 1..Len(pages') : i # j =>
           \E a, b \in 1..Len(pages) : a # b /\ pages'[i] = pages[a] /\ pages'[j] = pages[b]
  BY <1>1, PagesFewer
<1>3. FeedTyped'
  <2>1. ASSUME NEW i \in 1..Len(pages')
        PROVE  PageFits(pages[i])'
    <3>1. PICK j \in 1..Len(pages) : pages'[i] = pages[j]
      BY <1>2
    <3> QED
      BY <1>1, <3>1 DEF PageFits
  <2> QED
    BY <1>1, <1>2, <2>1 DEF FeedTyped
<1>4. panel'.open
  <2>1. pages # <<>>
    OBVIOUS
  <2> QED
    BY <2>1 DEF FeedInv, FeedTurn, FeedTyped, Panels
<1>5. ASSUME NEW i \in 1..Len(pages'), pages'[i].mine
      PROVE  /\ pages'[i].kind = "first" => panel'.loading /\ panel'.page = 1 /\ panel'.base = 0
             /\ pages'[i].kind = "more" =>
                  panel'.fetching /\ ~panel'.loading /\ pages'[i].page = panel'.page + 1
  <2>1. PICK j \in 1..Len(pages) : j # k /\ pages'[i] = pages[j]
    BY <1>2
  <2> QED
    BY <1>5, <2>1
<1>6. ASSUME NEW i \in 1..Len(pages'), NEW j \in 1..Len(pages'), pages'[i].mine, pages'[j].mine,
             pages'[i].kind = pages'[j].kind, pages'[i].kind # "ring"
      PROVE  i = j
  <2>1. SUFFICES ASSUME i # j
                 PROVE  FALSE
    OBVIOUS
  <2>2. PICK a \in 1..Len(pages), b \in 1..Len(pages) :
          a # b /\ pages'[i] = pages[a] /\ pages'[j] = pages[b]
    BY <1>2, <2>1
  <2> QED
    BY <1>6, <2>2 DEF FeedInv, FeedTurn
<1>7. FeedTurn'
  BY <1>4, <1>5, <1>6 DEF FeedTurn
<1> QED
  BY <1>3, <1>7 DEF FeedInv

\* The state of the panel after an answer, in terms of what it was.
LEMMA LandedPanel ==
  ASSUME NEW p \in Panels, NEW c \in PageAsked
  PROVE  LET q == Feed!Landed(p, c) IN
         /\ q \in Panels /\ q.open = p.open
         /\ q.items = Feed!Merge(p.items, c.rows, c.kind = "ring")
         /\ c.kind = "ring" => /\ q.hasMore = p.hasMore /\ q.base = p.base /\ q.page = p.page
                               /\ q.loading = p.loading /\ q.fetching = p.fetching
         /\ c.kind = "first" => /\ q.hasMore = c.next /\ q.base = c.base /\ q.page = p.page
                                /\ ~q.loading /\ q.fetching = p.fetching
         /\ c.kind = "more" => /\ q.hasMore = c.next /\ q.base = p.base /\ q.page = c.page
                               /\ q.loading = p.loading /\ ~q.fetching
<1>1. PICK items \in Seq(FeedRow) : items = Feed!Merge(p.items, c.rows, c.kind = "ring")
  BY MergeAdds DEF Panels, PageAsked
<1> DEFINE m == [p EXCEPT !.items = items]
<1>2. /\ m \in Panels /\ m.open = p.open /\ m.items = items /\ m.hasMore = p.hasMore
      /\ m.base = p.base /\ m.page = p.page /\ m.loading = p.loading /\ m.fetching = p.fetching
  BY DEF Panels
<1>3. Feed!Landed(p, c) =
        CASE c.kind = "ring"  -> m
          [] c.kind = "first" -> [m EXCEPT !.hasMore = c.next, !.loading = FALSE, !.base = c.base]
          [] c.kind = "more"  -> [m EXCEPT !.hasMore = c.next, !.error = FALSE,
                                           !.page = c.page, !.fetching = FALSE]
  BY <1>1 DEF Feed!Landed
<1> HIDE DEF m
<1>4. CASE c.kind = "ring"
  BY <1>1, <1>2, <1>3, <1>4
<1>5. CASE c.kind = "first"
  <2> DEFINE q == [m EXCEPT !.hasMore = c.next, !.loading = FALSE, !.base = c.base]
  <2>1. /\ q \in Panels /\ q.open = m.open /\ q.items = m.items /\ q.hasMore = c.next
        /\ q.base = c.base /\ q.page = m.page /\ ~q.loading /\ q.fetching = m.fetching
    BY <1>2 DEF Panels, PageAsked
  <2>2. Feed!Landed(p, c) = q
    BY <1>3, <1>5
  <2> HIDE DEF q
  <2> QED
    BY <1>1, <1>2, <1>5, <2>1, <2>2
<1>6. CASE c.kind = "more"
  <2> DEFINE q == [m EXCEPT !.hasMore = c.next, !.error = FALSE, !.page = c.page, !.fetching = FALSE]
  <2>1. /\ q \in Panels /\ q.open = m.open /\ q.items = m.items /\ q.hasMore = c.next
        /\ q.base = m.base /\ q.page = c.page /\ q.loading = m.loading /\ ~q.fetching
    BY <1>2 DEF Panels, PageAsked
  <2>2. Feed!Landed(p, c) = q
    BY <1>3, <1>6
  <2> HIDE DEF q
  <2> QED
    BY <1>1, <1>2, <1>6, <2>1, <2>2
<1> QED
  BY <1>4, <1>5, <1>6 DEF PageAsked

\* An answer of the current generation adds its rows where they belong.
LEMMA LandedCovers ==
  ASSUME FeedInv, NEW k \in 1..Len(pages), pages' = RemoveAt(pages, k), created' = created,
         pages[k].mine, pages[k].done, panel' = Feed!Landed(panel, pages[k])
  PROVE  FeedCovers'
<1> DEFINE c == pages[k]
           n == PageSize * panel.page
<1>1. /\ pages \in Seq(PageAsked) /\ c \in PageAsked /\ PageFits(c) /\ FeedTurn /\ FeedCovers
      /\ panel \in Panels /\ created \in Nat
  BY ElementOfSeq DEF FeedInv, FeedTyped
<1>2. /\ panel.page \in Nat /\ panel.base \in Nat /\ panel.items \in Seq(FeedRow)
      /\ c.base \in Nat /\ c.page \in Nat /\ c.rows \in Seq(FeedRow) /\ c.next \in BOOLEAN
      /\ c.kind \in {"first", "ring", "more"}
  BY <1>1 DEF Panels, PageAsked
<1>3. c.mine /\ c.done /\ panel' = Feed!Landed(panel, c)
  OBVIOUS
<1>4. \A i \in 1..Len(pages') : \E j \in 1..Len(pages) : j # k /\ pages'[i] = pages[j]
  BY <1>1, PagesFewer
<1>5. n \in Nat /\ PageSize * (panel.page + 1) = n + PageSize /\ PageSize \in Nat
  BY <1>2, NextPage, PageAssumption
<1>6. /\ c.base <= created
      /\ \A id \in 1..c.base :
           (id > c.base - PageSize * c.page /\ id <= c.base - PageSize * (c.page - 1))
             => id \in Feed!Ids(c.rows)
      /\ ~c.next => c.base <= PageSize * c.page
  BY <1>1, <1>3 DEF PageFits
<1>7. Feed!Ids(panel'.items) = Feed!Ids(panel.items) \cup Feed!Ids(c.rows)
  <2>1. panel'.items = Feed!Merge(panel.items, c.rows, c.kind = "ring")
    BY <1>1, <1>3, LandedPanel
  <2>2. \A top \in BOOLEAN :
          Feed!Ids(Feed!Merge(panel.items, c.rows, top)) = Feed!Ids(panel.items) \cup Feed!Ids(c.rows)
    <3>1. panel.items \in Seq(FeedRow) /\ c.rows \in Seq(FeedRow)
      BY <1>2
    <3> QED
      BY ONLY <3>1, MergeAdds
  <2> DEFINE top == c.kind = "ring"
  <2>3. top \in BOOLEAN
    OBVIOUS
  <2>4. panel'.items = Feed!Merge(panel.items, c.rows, top)
    BY <2>1
  <2> HIDE DEF top
  <2> QED
    BY <2>2, <2>3, <2>4
<1> HIDE DEF c
<1>8. CASE c.kind = "ring"
  <2>1. panel'.hasMore = panel.hasMore /\ panel'.base = panel.base /\ panel'.page = panel.page
    BY <1>1, <1>3, <1>8, LandedPanel
  <2>2. ASSUME NEW m, Covered(m)
        PROVE  \A id \in 1..panel'.base : id > m => id \in Feed!Ids(panel'.items)
    BY <1>7, <2>1, <2>2 DEF Covered
  <2>3. Covered(created - PageSize * panel.page)'
    BY <1>1, <2>1, <2>2 DEF FeedCovers, Covered
  <2>4. ~panel'.hasMore => Covered(0)'
    BY <1>1, <2>1, <2>2 DEF FeedCovers, Covered
  <2>5. ASSUME NEW i \in 1..Len(pages'), pages'[i].mine, pages'[i].kind = "more", pages'[i].done
        PROVE  Covered(pages[i].base - PageSize * panel.page)'
    <3>1. PICK j \in 1..Len(pages) : pages'[i] = pages[j]
      BY <1>4
    <3>2. Covered(pages[j].base - PageSize * panel.page)
      BY <1>1, <2>5, <3>1 DEF FeedCovers
    <3> QED
      BY <2>1, <2>2, <3>1, <3>2 DEF Covered
  <2> QED
    BY <2>3, <2>4, <2>5 DEF FeedCovers
<1>9. CASE c.kind = "first"
  <2>1. panel'.hasMore = c.next /\ panel'.base = c.base /\ panel'.page = panel.page
    <3>1. panel \in Panels /\ c \in PageAsked
      BY <1>1
    <3>2. panel' = Feed!Landed(panel, c)
      BY <1>3
    <3> QED
      BY ONLY <1>9, <3>1, <3>2, LandedPanel
  <2>2. panel.page = 1 /\ panel.loading
    BY <1>1, <1>3, <1>9 DEF FeedTurn, c
  <2>3. c.page = 1
    BY <1>1, <1>9 DEF PageFits
  <2>4. PageSize * 1 = PageSize /\ PageSize * (1 - 1) = 0
    BY <1>5
  <2>5. \A id \in 1..panel'.base : id > c.base - PageSize => id \in Feed!Ids(panel'.items)
    BY <1>2, <1>5, <1>6, <1>7, <2>1, <2>3, <2>4
  <2>6. Covered(created - PageSize * panel.page)'
    BY <1>1, <1>2, <1>5, <1>6, <2>1, <2>2, <2>4, <2>5 DEF Covered
  <2>7. ~panel'.hasMore => Covered(0)'
    <3>1. ASSUME ~c.next, NEW id \in 1..panel'.base
          PROVE  id > c.base - PageSize
      BY <1>2, <1>5, <1>6, <2>1, <2>3, <2>4, <3>1
    <3> QED
      BY <2>1, <2>5, <3>1 DEF Covered
  <2>8. \A i \in 1..Len(pages') : ~(pages'[i].mine /\ pages'[i].kind = "more")
    BY <1>1, <1>4, <2>2 DEF FeedTurn
  <2> QED
    BY <2>6, <2>7, <2>8 DEF FeedCovers
<1>10. CASE c.kind = "more"
  <2>1. panel'.hasMore = c.next /\ panel'.base = panel.base /\ panel'.page = c.page
    BY <1>1, <1>3, <1>10, LandedPanel
  <2>2. c.page = panel.page + 1
    BY <1>1, <1>3, <1>10 DEF FeedTurn, c
  <2>3. PageSize * c.page = n + PageSize /\ PageSize * (c.page - 1) = n
    BY <1>2, <1>5, <2>2
  <2>4. Covered(c.base - n)
    BY <1>1, <1>3, <1>10 DEF FeedCovers, c
  <2> HIDE DEF n
  <2>5. ASSUME NEW id \in 1..panel'.base, id > c.base - (n + PageSize)
        PROVE  id \in Feed!Ids(panel'.items)
    <3>1. CASE id > c.base - n
      BY <1>7, <2>1, <2>4, <3>1 DEF Covered
    <3>2. CASE id <= c.base - n
      <4>1. id \in 1..c.base
        BY <1>2, <1>5, <2>1, <2>5, <3>2
      <4> QED
        BY <1>6, <1>7, <2>3, <2>5, <3>2, <4>1
    <3> QED
      BY <1>2, <1>5, <2>1, <2>5, <3>1, <3>2
  <2>6. Covered(created - PageSize * panel.page)'
    <3>1. \A id \in 1..panel'.base : id > created - (n + PageSize) => id > c.base - (n + PageSize)
      BY <1>1, <1>2, <1>5, <1>6, <2>1
    <3>2. created' - PageSize * panel'.page = created - (n + PageSize)
      BY <2>1, <2>3
    <3> QED
      BY <2>5, <3>1, <3>2 DEF Covered
  <2>7. ~panel'.hasMore => Covered(0)'
    <3>1. ASSUME ~c.next, NEW id \in 1..panel'.base
          PROVE  id > c.base - (n + PageSize)
      BY <1>2, <1>5, <1>6, <2>1, <2>3, <3>1
    <3> QED
      BY <2>1, <2>5, <3>1 DEF Covered
  <2>8. \A i \in 1..Len(pages') : ~(pages'[i].mine /\ pages'[i].kind = "more")
    BY <1>1, <1>3, <1>4, <1>10 DEF FeedTurn, c
  <2> QED
    BY <2>6, <2>7, <2>8 DEF FeedCovers
<1> QED
  BY <1>2, <1>8, <1>9, <1>10

LEMMA FeedArrives == FeedInv /\ (\E k \in 1..MaxPages : Feed!Arrive(k)) => FeedInv'
<1> SUFFICES ASSUME FeedInv, NEW k \in 1..MaxPages, Feed!Arrive(k)
             PROVE  FeedInv'
  OBVIOUS
<1>1. /\ pages \in Seq(PageAsked) /\ DOMAIN pages = 1..Len(pages) /\ FeedTurn
      /\ created \in Nat /\ panel \in Panels
  BY LenProperties DEF FeedInv, FeedTyped
<1>2. /\ k \in 1..Len(pages) /\ pages[k].done /\ created' = created
      /\ pages' = RemoveAt(pages, k)
      /\ panel' = IF pages[k].mine THEN Feed!Landed(panel, pages[k]) ELSE panel
  BY <1>1 DEF Feed!Arrive, Feed!server, Feed!RemoveAt, RemoveAt
<1>3. pages[k] \in PageAsked
  BY <1>1, <1>2, ElementOfSeq
<1>4. CASE ~pages[k].mine
  <2>1. panel' = panel
    BY <1>2, <1>4
  <2>2. \A i \in 1..Len(pages') : \E j \in 1..Len(pages) : j # k /\ pages'[i] = pages[j]
    BY ONLY <1>1, <1>2, PagesFewer
  <2>3. FeedCovers'
    BY <1>1, <1>2, <2>1, <2>2, CoversKept
  <2>4. \A i \in 1..Len(pages) : (i # k /\ pages[i].mine) =>
           /\ pages[i].kind = "first" => panel'.loading /\ panel'.page = 1 /\ panel'.base = 0
           /\ pages[i].kind = "more" =>
                panel'.fetching /\ ~panel'.loading /\ pages[i].page = panel'.page + 1
    BY <1>1, <2>1 DEF FeedTurn
  <2> QED
    BY <1>1, <1>2, <2>1, <2>3, <2>4, FeedSettles
<1>5. CASE pages[k].mine
  <2> DEFINE c == pages[k]
  <2>1. FeedCovers'
    BY <1>2, <1>5, LandedCovers
  <2>2. panel' = Feed!Landed(panel, c) /\ c \in PageAsked /\ c.mine
    BY <1>2, <1>3, <1>5
  <2>3. panel' \in Panels /\ panel'.open = panel.open
    BY <1>1, <2>2, LandedPanel
  <2>4. ASSUME NEW i \in 1..Len(pages), i # k, pages[i].mine
        PROVE  /\ pages[i].kind = "first" => panel'.loading /\ panel'.page = 1 /\ panel'.base = 0
               /\ pages[i].kind = "more" =>
                    panel'.fetching /\ ~panel'.loading /\ pages[i].page = panel'.page + 1
    <3>1. /\ pages[i].kind = "first" => panel.loading /\ panel.page = 1 /\ panel.base = 0
          /\ pages[i].kind = "more" =>
               panel.fetching /\ ~panel.loading /\ pages[i].page = panel.page + 1
      BY <1>1, <2>4 DEF FeedTurn
    <3>2. CASE c.kind = "ring"
      <4>1. /\ panel'.page = panel.page /\ panel'.base = panel.base
            /\ panel'.loading = panel.loading /\ panel'.fetching = panel.fetching
        BY <1>1, <2>2, <3>2, LandedPanel
      <4> QED
        BY <3>1, <4>1
    <3>3. CASE c.kind # "ring"
      <4>1. pages[i].kind # c.kind
        BY <1>1, <1>2, <2>2, <2>4, <3>3 DEF FeedTurn
      <4>2. c.kind = "first" => panel.loading
        BY <1>1, <1>2, <2>2 DEF FeedTurn
      <4>3. c.kind = "more" => ~panel.loading
        BY <1>1, <1>2, <2>2 DEF FeedTurn
      <4>4. c.kind \in {"first", "more"}
        BY <2>2, <3>3 DEF PageAsked
      <4> QED
        BY <3>1, <4>1, <4>2, <4>3, <4>4
    <3> QED
      BY <3>2, <3>3
  <2> HIDE DEF c
  <2> QED
    BY <1>1, <1>2, <2>1, <2>3, <2>4, FeedSettles
<1> QED
  BY <1>4, <1>5

LEMMA FeedFails == FeedInv /\ (\E k \in 1..MaxPages : Feed!Fail(k)) => FeedInv'
<1> SUFFICES ASSUME FeedInv, NEW k \in 1..MaxPages, Feed!Fail(k)
             PROVE  FeedInv'
  OBVIOUS
<1>1. /\ pages \in Seq(PageAsked) /\ DOMAIN pages = 1..Len(pages) /\ FeedTurn
      /\ created \in Nat /\ panel \in Panels
  BY LenProperties DEF FeedInv, FeedTyped
<1>2. /\ k \in 1..Len(pages) /\ created' = created
      /\ pages' = RemoveAt(pages, k)
      /\ panel' = IF pages[k].mine THEN Feed!Failed(panel, pages[k].kind) ELSE panel
  BY <1>1 DEF Feed!Fail, Feed!server, Feed!RemoveAt, RemoveAt
<1>3. pages[k] \in PageAsked /\ pages[k].kind \in {"first", "ring", "more"}
  <2>1. pages[k] \in PageAsked
    BY <1>1, <1>2, ElementOfSeq
  <2> QED
    BY <2>1 DEF PageAsked
<1>4. \A i \in 1..Len(pages') : \E j \in 1..Len(pages) : pages'[i] = pages[j]
  BY <1>1, <1>2, PagesFewer
<1>5. /\ panel' \in Panels /\ panel'.open = panel.open /\ panel'.items = panel.items
      /\ panel'.base = panel.base /\ panel'.page = panel.page /\ panel'.hasMore = panel.hasMore
      /\ ~(pages[k].mine /\ pages[k].kind = "first") => panel'.loading = panel.loading
      /\ ~(pages[k].mine /\ pages[k].kind = "more") => panel'.fetching = panel.fetching
      /\ panel'.loading => panel.loading
  <2>1. CASE ~pages[k].mine \/ pages[k].kind = "ring"
    <3>1. panel' = panel
      BY <1>2, <2>1 DEF Feed!Failed
    <3> QED
      BY <1>1, <3>1
  <2>2. CASE pages[k].mine /\ pages[k].kind = "first"
    <3> DEFINE q == [panel EXCEPT !.error = TRUE, !.loading = FALSE]
    <3>1. panel' = q
      BY <1>2, <2>2 DEF Feed!Failed
    <3>2. /\ q \in Panels /\ q.open = panel.open /\ q.items = panel.items /\ q.base = panel.base
          /\ q.page = panel.page /\ q.hasMore = panel.hasMore /\ q.fetching = panel.fetching
          /\ ~q.loading
      BY <1>1 DEF Panels
    <3> HIDE DEF q
    <3> QED
      BY <2>2, <3>1, <3>2
  <2>3. CASE pages[k].mine /\ pages[k].kind = "more"
    <3> DEFINE q == [panel EXCEPT !.error = TRUE, !.fetching = FALSE]
    <3>1. panel' = q
      BY <1>2, <2>3 DEF Feed!Failed
    <3>2. /\ q \in Panels /\ q.open = panel.open /\ q.items = panel.items /\ q.base = panel.base
          /\ q.page = panel.page /\ q.hasMore = panel.hasMore /\ q.loading = panel.loading
      BY <1>1 DEF Panels
    <3> HIDE DEF q
    <3> QED
      BY <2>3, <3>1, <3>2
  <2> QED
    BY <1>3, <2>1, <2>2, <2>3
<1>6. FeedCovers'
  BY <1>1, <1>2, <1>4, <1>5, CoversKept
<1>7. ASSUME NEW i \in 1..Len(pages), i # k, pages[i].mine
      PROVE  /\ pages[i].kind = "first" => panel'.loading /\ panel'.page = 1 /\ panel'.base = 0
             /\ pages[i].kind = "more" =>
                  panel'.fetching /\ ~panel'.loading /\ pages[i].page = panel'.page + 1
  <2>1. /\ pages[i].kind = "first" => panel.loading /\ panel.page = 1 /\ panel.base = 0
        /\ pages[i].kind = "more" =>
             panel.fetching /\ ~panel.loading /\ pages[i].page = panel.page + 1
    BY <1>1, <1>7 DEF FeedTurn
  <2>2. pages[k].mine /\ pages[k].kind # "ring" => pages[i].kind # pages[k].kind
    BY <1>1, <1>2, <1>7 DEF FeedTurn
  <2> QED
    BY <1>5, <2>1, <2>2
<1> QED
  BY <1>1, <1>2, <1>5, <1>6, <1>7, FeedSettles

LEMMA FeedStep == FeedInv /\ Feed!Next => FeedInv'
BY FeedServer, FeedOpens, FeedAsks, FeedReloads, FeedServes, FeedArrives, FeedFails DEF Feed!Next

LEMMA FeedRests == FeedInv /\ UNCHANGED feedVars => FeedInv'
<1> SUFFICES ASSUME FeedInv, UNCHANGED feedVars
             PROVE  FeedInv'
  OBVIOUS
<1>1. UNCHANGED <<created, panel, pages>>
  BY DEF feedVars
<1>2. FeedTyped'
  BY <1>1 DEF FeedInv, FeedTyped, PageFits
<1>3. FeedTurn'
  BY <1>1 DEF FeedInv, FeedTurn
<1>4. FeedCovers'
  BY <1>1 DEF FeedInv, FeedCovers, Covered
<1> QED
  BY <1>2, <1>3, <1>4 DEF FeedInv

\* A step of the feed leaves the rows of an open panel in one piece.
LEMMA PlacesKept ==
  ASSUME FeedInv, [Feed!Next]_feedVars, panel.open, panel'.open
  PROVE  \E k \in 0..Len(panel'.items) :
           /\ k + Len(panel.items) <= Len(panel'.items)
           /\ \A j \in DOMAIN panel.items : panel'.items[k + j] = panel.items[j]
<1>1. /\ pages \in Seq(PageAsked) /\ DOMAIN pages = 1..Len(pages) /\ panel \in Panels
      /\ panel.items \in Seq(FeedRow) /\ Len(panel.items) \in Nat
      /\ DOMAIN panel.items = 1..Len(panel.items)
  BY LenProperties DEF FeedInv, FeedTyped, Panels
<1>2. CASE panel'.items = panel.items
  <2>1. /\ 0 \in 0..Len(panel'.items) /\ 0 + Len(panel.items) <= Len(panel'.items)
        /\ \A j \in DOMAIN panel.items : panel'.items[0 + j] = panel.items[j]
    BY <1>1, <1>2
  <2> QED
    BY <2>1
<1>3. CASE \E k \in 1..MaxPages : Feed!Arrive(k) /\ pages[k].mine
  <2>1. PICK k \in 1..MaxPages : Feed!Arrive(k) /\ pages[k].mine
    BY <1>3
  <2> DEFINE c == pages[k]
             top == c.kind = "ring"
  <2>2. panel' = Feed!Landed(panel, c) /\ k \in 1..Len(pages)
    BY <1>1, <2>1 DEF Feed!Arrive
  <2>3. c \in PageAsked
    BY <1>1, <2>2, ElementOfSeq
  <2>4. top \in BOOLEAN /\ c.rows \in Seq(FeedRow)
    BY <2>3 DEF PageAsked
  <2>5. panel'.items = Feed!Merge(panel.items, c.rows, top)
    BY <1>1, <2>2, <2>3, LandedPanel
  <2>6. panel.items \in Seq(FeedRow) /\ c.rows \in Seq(FeedRow)
    BY <1>1, <2>4
  <2>7. \A t \in BOOLEAN :
          \E m \in 0..Len(Feed!Merge(panel.items, c.rows, t)) :
            /\ m + Len(panel.items) <= Len(Feed!Merge(panel.items, c.rows, t))
            /\ \A j \in DOMAIN panel.items :
                 Feed!Merge(panel.items, c.rows, t)[m + j] = panel.items[j]
    BY ONLY <2>6, MergeAdds
  <2> HIDE DEF c, top
  <2> QED
    BY <2>4, <2>5, <2>7
<1>4. CASE Feed!Reload
  <2>1. panel.items = <<>> /\ panel' = Feed!Mounted
    BY <1>4 DEF Feed!Reload, Feed!View
  <2>2. panel'.items = <<>>
    BY <2>1 DEF Feed!Mounted, Feed!Closed
  <2> QED
    BY <1>2, <2>1, <2>2
<1>5. CASE \E k \in 1..MaxPages : Feed!Fail(k)
  <2>1. PICK k \in 1..MaxPages : Feed!Fail(k)
    BY <1>5
  <2>2. panel' = (IF pages[k].mine THEN Feed!Failed(panel, pages[k].kind) ELSE panel) /\ k \in 1..Len(pages)
    BY <1>1, <2>1 DEF Feed!Fail
  <2>3. pages[k].kind \in {"first", "ring", "more"}
    <3>1. pages[k] \in PageAsked
      BY <1>1, <2>2, ElementOfSeq
    <3> QED
      BY <3>1 DEF PageAsked
  <2>4. panel'.items = panel.items
    BY <1>1, <2>2, <2>3 DEF Feed!Failed, Panels
  <2> QED
    BY <1>2, <2>4
<1>6. CASE Feed!LoadMore
  <2>1. panel'.items = panel.items
    BY <1>1, <1>6 DEF Feed!LoadMore, Panels
  <2> QED
    BY <1>2, <2>1
<1>7. CASE \/ Feed!CreateRow \/ Feed!MarkRow \/ Feed!Ring \/ UNCHANGED feedVars
           \/ \E k \in 1..MaxPages : Feed!Serve(k) \/ (Feed!Arrive(k) /\ ~pages[k].mine)
  <2>1. panel' = panel
    BY <1>7 DEF Feed!CreateRow, Feed!MarkRow, Feed!Ring, Feed!Serve, Feed!Arrive, feedVars
  <2> QED
    BY <1>2, <2>1
<1>8. CASE Feed!Open \/ Feed!Close
  <2>1. panel' = Feed!Closed
    BY <1>8 DEF Feed!Open, Feed!Close
  <2>2. ~panel'.open
    BY <2>1 DEF Feed!Closed
  <2> QED
    BY <2>2
<1> QED
  BY <1>3, <1>4, <1>5, <1>6, <1>7, <1>8 DEF Feed!Next

-----------------------------------------------------------------------------
(* One part moves, the others stand still.                                  *)

mcVars == <<part, sessionVars, signInVars, profileVars, feedVars, editorVars>>

LEMMA DraftsRests == DraftsInv /\ UNCHANGED editorVars => DraftsInv'
<1> SUFFICES ASSUME DraftsInv, UNCHANGED editorVars
             PROVE  DraftsInv'
  OBVIOUS
<1>1. EditorInv'
  BY DEF DraftsInv, EditorInv, editorVars, Editor!ShownIsSubmitted, Editor!OnScreen
<1>2. DraftsTyped'
  BY DEF DraftsInv, DraftsTyped, editorVars
<1>3. Editor!ReloadKeepsWork'
  BY DEF DraftsInv, editorVars, Editor!ReloadKeepsWork, Editor!StartLanguage, Editor!StartCode,
     Editor!ReadLanguage, Editor!ReadDraft
<1> QED
  BY <1>1, <1>2, <1>3 DEF DraftsInv

LEMMA SignInRests == SignInInv /\ UNCHANGED signInVars => SignInInv'
BY DEF SignInInv, signInVars, SignInTyped, QuietPlaces, OnTheWay, SentToLogin

LEMMA SessionRests == SessionInv /\ UNCHANGED sessionVars => SessionInv'
<1> SUFFICES ASSUME SessionInv, UNCHANGED sessionVars
             PROVE  SessionInv'
  OBVIOUS
<1>1. UNCHANGED <<pairs, access, refresh, user, hydrating, calls, refreshing, other, fails,
                  others, reloads, blend, out, left, kicked, changed, straggler, overdue>>
  BY DEF sessionVars
<1>2. SessionTyped'
  BY <1>1 DEF SessionInv, SessionTyped
<1>3. OtherActed' /\ StaysOut'
  BY <1>1 DEF SessionInv, OtherActed, StaysOut
<1>4. SurvivesInv'
  BY <1>1, Zenon DEF SessionInv, SurvivesInv, Undisturbed, OneAtATime, Unused
<1>5. AlignedInv'
  <2> SUFFICES ASSUME Alone'
               PROVE  Aligned'
    BY DEF AlignedInv
  <2>1. Alone
    BY <1>1 DEF Alone
  <2>2. Aligned
    BY <2>1 DEF SessionInv, AlignedInv
  <2>3. PICK u \in Accounts : OneOwner(u)
    BY <2>2 DEF Aligned
  <2>4. Callers'
    BY <1>1, <2>2 DEF Aligned, Callers
  <2>5. OneOwner(u)'
    BY <1>1, <2>3 DEF OneOwner
  <2>6. FreshSignIn'
    BY <1>1, <2>2 DEF Aligned, FreshSignIn, Answered
  <2> QED
    BY <2>3, <2>4, <2>5, <2>6 DEF Aligned
<1>6. OwnFields'
  BY <1>1 DEF SessionInv, OwnFields, Own, EditsOf, Alone
<1> QED
  BY <1>2, <1>3, <1>4, <1>5, <1>6 DEF SessionInv

AccountInv == DraftsInv /\ SignInInv /\ SessionInv /\ ProfileInv /\ FeedInv

LEMMA AccountInit == Init => AccountInv
BY DraftsInit, SignInInit, SessionInit, ProfileInit, FeedInit DEF Init, AccountInv

LEMMA AccountStep == AccountInv /\ [Next]_mcVars => AccountInv'
<1> SUFFICES ASSUME AccountInv, [Next]_mcVars
             PROVE  AccountInv'
  OBVIOUS
<1>1. DraftsInv /\ SignInInv /\ SessionInv /\ ProfileInv /\ FeedInv
  BY DEF AccountInv
<1>2. Editor!Next \/ UNCHANGED editorVars
  BY DEF Next, mcVars
<1>3. SignIn!Next \/ UNCHANGED signInVars
  BY DEF Next, mcVars
<1>4. Session!Next \/ UNCHANGED sessionVars
  BY DEF Next, mcVars
<1>5. Profile!Next \/ UNCHANGED profileVars
  BY DEF Next, mcVars
<1>6. DraftsInv'
  BY <1>1, <1>2, DraftsStep, DraftsRests
<1>7. SignInInv'
  BY <1>1, <1>3, SignInStep, SignInRests
<1>8. SessionInv'
  BY <1>1, <1>4, SessionStep, SessionRests
<1>9. ProfileInv'
  BY <1>1, <1>5, ProfileStep, ProfileRests
<1>10. Feed!Next \/ UNCHANGED feedVars
  BY DEF Next, mcVars
<1>11. FeedInv'
  BY <1>1, <1>10, FeedStep, FeedRests
<1> QED
  BY <1>6, <1>7, <1>8, <1>9, <1>11 DEF AccountInv

LEMMA AccountInvariant == Spec => []AccountInv
BY AccountInit, AccountStep, PTL DEF Spec, mcVars

\* What is on screen is what gets submitted, for any problems and texts, any number of
\* edits, submissions and drafts of another tab (CodeEditor.jsx, catchUp).
THEOREM WhatYouSeeIsSent == Spec => []ShownIsSubmitted
<1>1. AccountInv => ShownIsSubmitted
  BY DEF AccountInv, DraftsInv, EditorInv, ShownIsSubmitted
<1> QED
  BY <1>1, AccountInvariant, PTL

\* As long as writes succeed and no other tab writes, a reload brings back the code of
\* every language and the language, whatever was typed, undone, reset, loaded and
\* submitted, for any texts, the empty one too (useCodeDraft.js).
THEOREM WorkOutlivesReload == Spec => []ReloadKeepsWork
<1>1. AccountInv => ReloadKeepsWork
  BY DEF AccountInv, DraftsInv, ReloadKeepsWork
<1> QED
  BY <1>1, AccountInvariant, PTL

\* A feed read to its end holds every row that existed when its first page was taken, for
\* any number of rows, any page size, and any requests served, lost and answered in any
\* order while new rows push the older ones down the pages (useNotificationFeed.js).
THEOREM FeedReadsOn == Spec => []FeedSkipsNothing
<1>1. AccountInv => FeedSkipsNothing
  <2> SUFFICES ASSUME AccountInv, ~panel.hasMore, NEW id \in 1..panel.base
               PROVE  id \in Feed!Ids(panel.items)
    BY DEF FeedSkipsNothing, Feed!FeedSkipsNothing
  <2>1. Covered(0) /\ panel.base \in Nat
    BY DEF AccountInv, FeedInv, FeedTyped, FeedCovers, Panels
  <2> QED
    BY <2>1 DEF Covered
<1> QED
  BY <1>1, AccountInvariant, PTL

\* No row of an open panel loses its place or its mark, whichever answers come and in
\* whichever order: rows only come on top or at the end (merge()).
THEOREM PlaceIsKept == Spec => FeedKeepsItsPlace
<1>1. AccountInv /\ [Next]_mcVars =>
        [(panel.open /\ panel'.open) =>
           \E k \in 0..Len(panel'.items) :
              /\ k + Len(panel.items) <= Len(panel'.items)
              /\ \A j \in DOMAIN panel.items : panel'.items[k + j] = panel.items[j]]_feedVars
  <2> SUFFICES ASSUME AccountInv, [Next]_mcVars, panel.open, panel'.open
               PROVE  \E k \in 0..Len(panel'.items) :
                        /\ k + Len(panel.items) <= Len(panel'.items)
                        /\ \A j \in DOMAIN panel.items : panel'.items[k + j] = panel.items[j]
    OBVIOUS
  <2>1. FeedInv
    BY DEF AccountInv
  <2>2. [Feed!Next]_feedVars
    BY DEF Next, mcVars
  <2> QED
    BY <2>1, <2>2, PlacesKept
<1> QED
  BY <1>1, AccountInvariant, PTL DEF Spec, mcVars, FeedKeepsItsPlace, Feed!FeedKeepsItsPlace,
     Feed!vars, feedVars

\* A reader whom PrivateRoute turned away from a page ends on its path once signed in,
\* however many sign-ins they begin and whichever way they go about it (oauthReturn.js,
\* AuthPage.jsx).
THEOREM BackWhereYouWanted == Spec => []LandsWhereItStarted
<1>1. AccountInv => LandsWhereItStarted
  <2> SUFFICES ASSUME AccountInv, auth, ~starting, tries = {}, away = None,
                      goal # None, ~missed
               PROVE  SignIn!PathOf(path) = SignIn!PathOf(goal)
    BY DEF LandsWhereItStarted, SignIn!LandsWhereItStarted, SignIn!SignedIn
  <2>1. goal \in Locations
    BY DEF AccountInv, SignInInv, SignInTyped
  <2>2. path \in Locations
    BY <2>1 DEF AccountInv, SignInInv, OnTheWay, SentToLogin
  <2> QED
    BY <2>1, <2>2 DEF Locations, SignIn!PathOf, SignIn!Private, SignIn!Deep
<1> QED
  BY <1>1, AccountInvariant, PTL

\* After a sign-out no answer, retry or reload brings the user or the tokens back, for
\* any number of requests in flight (logout and setUser of authStore.js).
THEOREM SignOutLasts == Spec => []SignedOutStaysOut
<1>1. AccountInv => SignedOutStaysOut
  BY DEF AccountInv, SessionInv, StaysOut, SignedOutStaysOut, Session!SignedOutStaysOut
<1> QED
  BY <1>1, AccountInvariant, PTL

\* The account on screen is the one the requests are made as, and its fields are its own
\* unless an edit outlived a sign-out, for any number of accounts, pairs and requests
\* (loadUser and setUser of authStore.js).
THEOREM ScreenAndTokensAgree == Spec => []ShownIsSignedIn
<1>1. AccountInv => ShownIsSignedIn
  <2> SUFFICES ASSUME AccountInv, user # None, Alone
               PROVE  /\ access # 0 /\ pairs[access].owner = user
                      /\ overdue \/ blend \subseteq {user}
    BY DEF ShownIsSignedIn, Session!ShownIsSignedIn, Alone
  <2>1. Aligned
    BY DEF AccountInv, SessionInv, AlignedInv
  <2>2. access # 0
    BY <2>1 DEF Aligned, Callers
  <2>3. PICK u \in Accounts : OneOwner(u)
    BY <2>1 DEF Aligned
  <2>4. overdue \/ blend \subseteq {user}
    BY DEF AccountInv, SessionInv, OwnFields, Own
  <2> QED
    BY <2>2, <2>3, <2>4 DEF OneOwner
<1> QED
  BY <1>1, AccountInvariant, PTL

\* However many requests an expired access token turns down at once, the session
\* survives, for any number of pairs and requests (refreshPromise of client.js).
THEOREM ExpiryCostsNothing == Spec => []SessionSurvivesExpiry
<1>1. AccountInv => SessionSurvivesExpiry
  <2> SUFFICES ASSUME AccountInv, kicked, ~(fails > 0), ~(others > 0), ~(reloads > 0), ~changed, ~left
               PROVE  FALSE
    BY DEF SessionSurvivesExpiry, Session!SessionSurvivesExpiry
  <2>1. fails = 0 /\ others = 0 /\ reloads = 0
    BY DEF AccountInv, SessionInv, SessionTyped
  <2> QED
    BY <2>1 DEF AccountInv, SessionInv, SurvivesInv, Undisturbed, Unused
<1> QED
  BY <1>1, AccountInvariant, PTL

\* Once nothing is loading, every block of the profile page without an error is about the
\* member in the address, for any number of members and of links followed (the active
\* flags of useProfile.js and of the slices' hooks).
THEOREM BlocksAreAboutOne == Spec => []BlocksAgree
<1>1. AccountInv => BlocksAgree
  <2> SUFFICES ASSUME AccountInv
               PROVE  /\ PageIsAt
                      /\ Profile!Mounts(page) /\ ~Profile!Loading("slice")
                           /\ slice.error = None => Profile!Figures(slice, at)
    BY DEF BlocksAgree, Profile!BlocksAgree, PageIsAt
  <2>1. ViewTyped /\ PageIsAt /\ SliceIsAt
    BY DEF AccountInv, ProfileInv, ViewInv
  <2>2. ASSUME Profile!Mounts(page), ~Profile!Loading("slice"), slice.error = None
        PROVE  Profile!Figures(slice, at)
    <3>1. ~slice.loading /\ slice.data.who = at
      BY <2>1, <2>2 DEF SliceIsAt
    <3>2. at # None
      BY <2>1, MemberAssumption DEF ViewTyped, Names
    <3>3. slice.data # Profile!Nothing
      BY <3>1, <3>2, NothingTyped
    <3>4. Profile!Card(slice) = {at}
      BY <2>2, <3>1, <3>2 DEF Profile!Card
    <3> QED
      BY <3>1, <3>3, <3>4 DEF Profile!Figures, Profile!StatsStrip,
           Profile!DifficultyBreakdown, Profile!ExtraStats, Profile!ActivityHeatmap,
           Profile!RecentSubmissions, Profile!PastContests
  <2> QED
    BY <2>1, <2>2
<1> QED
  BY <1>1, AccountInvariant, PTL

\* Once nothing is under way, the owner's page shows what the server holds, and the shell
\* too unless a save took an upload back, for any number of saves, uploads, reloads and
\* visits (refetch of useProfile.js, setUser of authStore.js, MeView).
THEOREM OwnPageIsCurrent == Spec => []ProfileIsCurrent
<1>1. AccountInv => ProfileIsCurrent
  <2> SUFFICES ASSUME AccountInv, edits = {}, lost = 0
               PROVE  /\ Profile!IsOwner /\ ~Profile!Loading("page")
                           /\ page.error = None /\ ~stranded => page.data.ver = acct
                      /\ ~crossed => /\ shell.fields = acct.fields
                                     /\ ~overwritten => shell.pic = acct.pic
    BY DEF ProfileIsCurrent, Profile!ProfileIsCurrent
  <2>1. ViewInv /\ EditInv /\ PageInv
    BY DEF AccountInv, ProfileInv
  <2>2. \A k : ~Waits(edits, k)
    BY DEF Waits
  <2>3. ASSUME Profile!IsOwner, ~Profile!Loading("page"), page.error = None, ~stranded
        PROVE  page.data.ver = acct
    <3>1. page.data.who = Me
      BY <2>3 DEF Profile!IsOwner, Profile!Owns
    <3>2. at = Me
      BY <2>1, <2>3, <3>1 DEF ViewInv, PageIsAt
    <3> QED
      BY <2>1, <2>2, <2>3, <3>2 DEF PageInv, Due, PageIsTold
  <2>4. ASSUME ~crossed
        PROVE  shell.fields = acct.fields /\ (~overwritten => shell.pic = acct.pic)
    BY <2>1, <2>2, <2>4 DEF EditInv, ShellIsTold
  <2> QED
    BY <2>3, <2>4
<1> QED
  BY <1>1, AccountInvariant, PTL

=============================================================================
