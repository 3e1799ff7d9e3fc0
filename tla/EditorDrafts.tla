---------------------------- MODULE EditorDrafts ----------------------------
(***************************************************************************)
(* The editor of the problem page: the code of each language kept as a     *)
(* draft in localStorage (useCodeDraft.js, codeDrafts.js), and the Monaco  *)
(* models that outlive the workspace (CodeEditor.jsx).                     *)
(*                                                                         *)
(* A slot is one problem in one place (the catalogue, or one round).  A    *)
(* second tab writes the same drafts; storage may be blocked, or fill up.  *)
(***************************************************************************)
EXTENDS Integers, Sequences, SequencesExt, FiniteSetsExt

CONSTANTS None,          \* null: no draft, no remembered language
          Slots,
          Langs,         \* the languages on offer, in the order they are offered
          Gone,          \* a language that is no longer offered
          Typed,         \* texts the reader types
          MaxEdits,      \* bound: edits of the reader
          MaxSubmits,    \* bound: submissions sent from here
          MaxForeign     \* bound: drafts written by another tab

VARIABLES drafts,        \* localStorage: slot -> language -> code, or None
          remembered,    \* localStorage: slot -> the last language, or None
          storage,       \* "ok", "full": writes are dropped, "blocked": reads too
          rows,          \* the reader's submissions of each slot, newest first
          at,            \* the slot on screen, None before the first visit
          language, codes, startCodes,   \* useCodeDraft's state
          models,        \* Monaco: slot -> language -> model
          edits, submits, foreign

stored == <<drafts, remembered, storage>>
hook == <<language, codes, startCodes>>
bounds == <<edits, submits, foreign>>
vars == <<stored, rows, at, hook, models, bounds>>

Offered == ToSet(Langs)
Template == "template"
Codes == Typed \cup {Template, "sent", "theirs"}
NoModel == [past |-> <<>>, text |-> None, future |-> <<>>]

-----------------------------------------------------------------------------
(* Storage: reads come back empty and writes are dropped when it fails. *)

ReadDraft(s, l) == IF storage = "blocked" THEN None ELSE drafts[s][l]
ReadLanguage(s) == IF storage = "blocked" THEN None ELSE remembered[s]

\* drafts with code filed for language l of the slot on screen.
DraftWritten(l, code) == IF storage = "ok" THEN [drafts EXCEPT ![at][l] = code] ELSE drafts

LanguageWritten(l) ==
  IF storage = "ok" THEN [remembered EXCEPT ![at] = l] ELSE remembered

-----------------------------------------------------------------------------
(* Where the code and the language start. *)

\* The saved draft, an empty one too, else the latest submission in the language,
\* else the template.
StartCode(s, l) ==
  LET sent == {i \in DOMAIN rows[s] : rows[s][i].lang = l}
  IN  CASE ReadDraft(s, l) # None -> ReadDraft(s, l)
        [] ReadDraft(s, l) = None /\ sent # {} -> rows[s][Min(sent)].code
        [] OTHER -> Template

\* The remembered language, else the latest submission's, else the first.
StartLanguage(s) ==
  CASE ReadLanguage(s) \in Offered -> ReadLanguage(s)
    [] ReadLanguage(s) \notin Offered /\ rows[s] # <<>> /\ Head(rows[s]).lang \in Offered
         -> Head(rows[s]).lang
    [] OTHER -> Head(Langs)

-----------------------------------------------------------------------------
(* Monaco. *)

\* A model on its first visit holds the code its language started with.
Seeded(m, code) == IF m = NoModel THEN [m EXCEPT !.text = code] ELSE m

\* An ordinary edit: undo can take it back, redo is gone.
Edited(m, code) ==
  IF m.text = code THEN m
  ELSE [past |-> Append(m.past, m.text), text |-> code, future |-> <<>>]

\* Slip: a kept model is shown as it was left.
CaughtUpSlip(m, code) == m

\* catchUp(): a kept model that fell behind the draft is brought up to it.
CaughtUp(m, code) == Edited(m, code)

Undone(m) == [past |-> Front(m.past), text |-> Last(m.past), future |-> <<m.text>> \o m.future]
Redone(m) == [past |-> Append(m.past, m.text), text |-> Head(m.future), future |-> Tail(m.future)]

-----------------------------------------------------------------------------
(* The workspace. *)

\* useCodeDraft's initial state, read once, when the workspace of s mounts, and
\* the editor that comes up with it.  (No change listener is attached yet.)
Mounted(s, kept) ==
  /\ at' = s
  /\ startCodes' = [l \in Offered |-> StartCode(s, l)]
  /\ codes' = startCodes'
  /\ language' = StartLanguage(s)
  /\ models' = [kept EXCEPT ![s][language'] =
                  CaughtUp(Seeded(@, startCodes'[language']), codes'[language'])]

\* The page shows another problem: the workspace is keyed by the problem.
Visit(s) ==
  /\ s # at
  /\ Mounted(s, models)
  /\ UNCHANGED <<stored, rows, bounds>>

\* The browser reloads the page: the models are gone.
ReloadPage ==
  /\ at # None
  /\ Mounted(at, [s \in Slots |-> [l \in Offered |-> NoModel]])
  /\ UNCHANGED <<stored, rows, bounds>>

CanEdit == at # None /\ edits < MaxEdits /\ edits' = edits + 1

\* setCode(): the code and the draft of the language on screen.
Put(m, code) ==
  /\ models' = [models EXCEPT ![at][language] = m]
  /\ codes' = [codes EXCEPT ![language] = code]
  /\ drafts' = DraftWritten(language, code)
  /\ UNCHANGED <<remembered, storage, rows, at, language, startCodes, submits, foreign>>

OnScreen == models[at][language]

Type(code) ==
  /\ CanEdit /\ code # OnScreen.text
  /\ Put(Edited(OnScreen, code), code)

\* The toolbar's buttons, each inactive without a history to step through.
Undo == CanEdit /\ OnScreen.past # <<>> /\ Put(Undone(OnScreen), Undone(OnScreen).text)
Redo == CanEdit /\ OnScreen.future # <<>> /\ Put(Redone(OnScreen), Redone(OnScreen).text)

\* Slip: the draft is dropped instead of holding the template.
ResetSlip ==
  /\ CanEdit
  /\ models' = [models EXCEPT ![at][language] = Edited(OnScreen, Template)]
  /\ codes' = [codes EXCEPT ![language] = Template]
  /\ drafts' = DraftWritten(language, None)
  /\ UNCHANGED <<remembered, storage, rows, at, language, startCodes, submits, foreign>>

\* The template is saved as the draft.
Reset == CanEdit /\ Put(Edited(OnScreen, Template), Template)

\* The language on screen becomes l, holding code.  When its model falls behind,
\* the catching up is an edit, and the listener files it under l.
Shown(l, code) ==
  LET m == Seeded(models[at][l], startCodes[l]) IN
  /\ language' = l
  /\ remembered' = LanguageWritten(l)
  /\ models' = [models EXCEPT ![at][l] = CaughtUp(m, code)]

SetLanguage(l) ==
  /\ CanEdit /\ l # language
  /\ Shown(l, codes[l])
  /\ drafts' = IF Seeded(models[at][l], startCodes[l]).text = codes[l] THEN drafts
               ELSE DraftWritten(l, codes[l])
  /\ UNCHANGED <<storage, rows, at, codes, startCodes, submits, foreign>>

\* A click on a row of the Submissions tab.
LoadSubmission(i) ==
  LET r == rows[at][i] IN
  /\ CanEdit /\ i \in DOMAIN rows[at] /\ r.lang \in Offered
  /\ Shown(r.lang, r.code)
  /\ codes' = [codes EXCEPT ![r.lang] = r.code]
  /\ drafts' = DraftWritten(r.lang, r.code)
  /\ UNCHANGED <<storage, rows, at, startCodes, submits, foreign>>

\* What is sent is the hook's code, not the editor's.  The list is reloaded.
Submit ==
  /\ at # None /\ submits < MaxSubmits /\ submits' = submits + 1
  /\ rows' = [rows EXCEPT ![at] = <<[lang |-> language, code |-> codes[language]]>> \o @]
  /\ UNCHANGED <<stored, at, hook, models, edits, foreign>>

-----------------------------------------------------------------------------
(* The environment. *)

\* Another tab of the same reader edits the same problem.
ForeignDraft(s, l) ==
  /\ storage = "ok" /\ foreign < MaxForeign /\ foreign' = foreign + 1
  /\ drafts' = [drafts EXCEPT ![s][l] = "theirs"]
  /\ remembered' = [remembered EXCEPT ![s] = l]
  /\ UNCHANGED <<storage, rows, at, hook, models, edits, submits>>

FillUp ==
  /\ storage = "ok" /\ storage' = "full"
  /\ UNCHANGED <<drafts, remembered, rows, at, hook, models, bounds>>

Init ==
  /\ storage \in {"ok", "blocked"}
  /\ drafts = [s \in Slots |-> [l \in Offered |-> None]]
  /\ remembered = [s \in Slots |-> None]
  /\ \E first \in {<<>>} \cup {<<[lang |-> l, code |-> "sent"]>> : l \in Offered \cup {Gone}} :
       rows = [s \in Slots |-> first]
  /\ at = None /\ language = Head(Langs)
  /\ codes = [l \in Offered |-> Template] /\ startCodes = codes
  /\ models = [s \in Slots |-> [l \in Offered |-> NoModel]]
  /\ edits = 0 /\ submits = 0 /\ foreign = 0

Next ==
  \/ ReloadPage \/ Undo \/ Redo \/ Reset \/ Submit \/ FillUp
  \/ \E s \in Slots : Visit(s)
  \/ \E code \in Typed : Type(code)
  \/ \E l \in Offered : SetLanguage(l)
  \/ \E i \in 1..(MaxSubmits + 1) : at # None /\ LoadSubmission(i)
  \/ \E s \in Slots, l \in Offered : ForeignDraft(s, l)

Spec == Init /\ [][Next]_vars

-----------------------------------------------------------------------------
(* Properties *)

TypeOK ==
  /\ drafts \in [Slots -> [Offered -> Codes \cup {None}]]
  /\ remembered \in [Slots -> Offered \cup {None}]
  /\ storage \in {"ok", "full", "blocked"} /\ at \in Slots \cup {None}
  /\ language \in Offered /\ codes \in [Offered -> Codes] /\ startCodes \in [Offered -> Codes]
  /\ edits \in 0..MaxEdits /\ submits \in 0..MaxSubmits /\ foreign \in 0..MaxForeign

\* What is on screen is always what gets submitted, also when the kept model of
\* an earlier visit fell behind a draft that another tab wrote or that could
\* not be saved (CodeEditor.jsx, catchUp).
ShownIsSubmitted == at # None => OnScreen.text = codes[language]

\* A reload brings back the code of every language as it is, and the language,
\* whatever was typed, undone, reset, loaded and submitted before; only a full
\* or blocked storage, or another tab, can change that (useCodeDraft.js).
ReloadKeepsWork ==
  (at # None /\ storage = "ok" /\ foreign = 0) =>
    /\ StartLanguage(at) = language
    /\ \A l \in Offered : StartCode(at, l) = codes[l]
=============================================================================
