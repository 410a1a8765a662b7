-------------------------- MODULE NotebookDrafts --------------------------
(***************************************************************************)
(* The track-side notebook: pages (tabs, reloads, windows) over one        *)
(* localStorage that holds the saved sessions and, while auto-save is on,  *)
(* one draft.  A page load is a writer of its own, so a page is named by   *)
(* its number and never comes back; a refresh closes one and opens the     *)
(* next.                                                                   *)
(*                                                                         *)
(* A handler runs to completion within its page, so it is one step, except *)
(* where a confirm dialog parks it while other pages go on, and where the  *)
(* page dies in the middle of a save.  What is typed is abstracted to the  *)
(* set of edits it is made of, so that a later version of a form is a      *)
(* superset of an earlier one.  Reads of the storage succeed; a mutation   *)
(* may be lost, or may happen and not be confirmed.                        *)
(***************************************************************************)
EXTENDS Naturals, FiniteSets

CONSTANTS
    MaxOpen,             \* pages open at once
    MaxPages,            \* page loads, bound
    MaxEdits,            \* edits, copies and carried-over forms, bound
    MaxIds,              \* session ids ever made, bound
    MaxFaults,           \* handlers in which the storage fails, bound
    MaxBackIns           \* presses of Back in, bound

ASSUME NotebookAssumption ==
    /\ MaxOpen \in Nat /\ MaxPages \in Nat /\ MaxEdits \in Nat
    /\ MaxIds \in Nat /\ MaxFaults \in Nat /\ MaxBackIns \in Nat

VARIABLES
    page,                \* the state of each page load
    loads,               \* page loads so far
    draft,               \* DRAFT_KEY
    history,             \* the saved sessions by id, {} where there is none
    autosaveKey,         \* AUTOSAVE_KEY
    ids, edits,          \* handed out so far
    faults, backIns,     \* bound the model only
    reported,            \* history: ids a rider was told are saved
    unrecorded,          \* history: ids of attempts the draft could not name
    reoffered,           \* history: saved forms the code took for unsaved again
    misled               \* history: pages that know another draft's number

storage == <<draft, history, autosaveKey>>
bounds  == <<loads, ids, edits, faults, backIns>>
told    == <<reported, unrecorded, reoffered, misled>>

vars == <<page, storage, bounds, told>>

Pages == 1 .. MaxPages
Edits == 1 .. MaxEdits
Ids   == 1 .. MaxIds
None  == 0

(* postUnlocked and preEditable: (no, yes), (yes, no), (yes, yes).         *)
Stages == {"pre", "post", "corrected"}

NoDraft == [kind |-> "none", writer |-> None, rev |-> 0, edits |-> {},
            stage |-> "pre", pendingId |-> None, savedAs |-> None]

(* _verified: the draft this page takes to be its own.                     *)
Nothing == [writer |-> None, rev |-> 0]

(* saved is lastSavedId # null; behind is editSeq > keptSeq; trouble is    *)
(* failed or conflict; suspended is unreadable too.  inFlight is never     *)
(* seen: a save is synchronous.                                            *)
Closed == [pc |-> "closed", autosave |-> FALSE, edits |-> {}, blank |-> TRUE,
           stage |-> "pre", undo |-> FALSE, timer |-> FALSE, behind |-> TRUE,
           trouble |-> FALSE, suspended |-> FALSE, verified |-> Nothing,
           dirty |-> FALSE, saved |-> FALSE, pendingId |-> None,
           seen |-> {}, raw |-> NoDraft]

Ready(p) == page[p].pc = "ready"
IsOpen(p) == page[p].pc # "closed"

Set(p, pg) == page' = [page EXCEPT ![p] = pg]

(***************************************************************************)
(* What a mutation of the storage comes to: done, lost (it threw, or       *)
(* silently did nothing), or unseen (it happened, and reading it back did  *)
(* not show it).  A handler that makes n of them follows one of Plans(n);  *)
(* a fault is a handler in which any of them fail.                         *)
(***************************************************************************)
Outcomes == {"done", "lost", "unseen"}

Faults(plan) == IF \A i \in DOMAIN plan : plan[i] = "done" THEN 0 ELSE 1

Plans(n) == {plan \in [1 .. n -> Outcomes] : faults + Faults(plan) <= MaxFaults}

Charge(plan) == faults' = faults + Faults(plan)

-----------------------------------------------------------------------------
(* The draft path.  These operators take a page and a stored draft and     *)
(* return both as a call leaves them.                                      *)

Result(pg, d) == [page |-> pg, draft |-> d]

(* Slip: the id is the device's, and its tabs share it.                    *)
WriterOfDevice(p) == 1

(* TAB_ID: made on each page load.                                         *)
Writer(p) == p

(* Slip: what cannot be parsed counts as nothing stored.                   *)
MayWriteOverUnreadable(p, pg, d) ==
    \/ d.kind # "ok"
    \/ d.writer = Writer(p) \/ (pg.verified # Nothing /\ pg.verified.rev = d.rev)

(* Slip: a page that knows of no draft may write over any.                 *)
MayWriteUnaware(p, pg, d) ==
    \/ d.kind = "none"
    \/ /\ d.kind = "ok"
       /\ d.writer = Writer(p) \/ pg.verified = Nothing \/ pg.verified.rev = d.rev

(* writeDraft's guard: the key is empty, or holds this page's own draft,   *)
(* or one whose revision is the one this page last saw.                    *)
MayWrite(p, pg, d) ==
    \/ d.kind = "none"
    \/ /\ d.kind = "ok"
       /\ d.writer = Writer(p) \/ (pg.verified # Nothing /\ pg.verified.rev = d.rev)

(* Slip: the revision is the one last seen, and is not counted up.         *)
WriteUncounted(p, pg, d, id, outcome) ==
    LET tried == [pg EXCEPT !.timer = FALSE, !.trouble = TRUE]
        seen  == [writer |-> Writer(p), rev |-> pg.verified.rev]
        next  == [kind |-> "ok", writer |-> Writer(p), rev |-> seen.rev,
                  edits |-> pg.edits, stage |-> pg.stage, pendingId |-> id,
                  savedAs |-> None]
    IN  IF ~ MayWrite(p, pg, d)
        THEN Result(tried, d)
        ELSE Result(IF outcome = "done"
                    THEN [tried EXCEPT !.trouble = FALSE, !.behind = FALSE,
                                       !.verified = seen]
                    ELSE tried,
                    IF outcome = "lost" THEN d ELSE next)

WriteDraftNow(p, pg, d, id, outcome) ==
    LET tried == IF d.kind = "unreadable"
                 THEN [pg EXCEPT !.timer = FALSE, !.suspended = TRUE]
                 ELSE [pg EXCEPT !.timer = FALSE, !.trouble = TRUE]
        rev   == pg.verified.rev + 1
        next  == [kind |-> "ok", writer |-> Writer(p), rev |-> rev, edits |-> pg.edits,
                  stage |-> pg.stage, pendingId |-> id, savedAs |-> None]
    IN  IF ~ MayWrite(p, pg, d)
        THEN Result(tried, d)
        ELSE Result(IF outcome = "done"
                    THEN [tried EXCEPT !.trouble = FALSE, !.behind = FALSE,
                                       !.verified = [writer |-> Writer(p), rev |-> rev]]
                    ELSE tried,
                    IF outcome = "lost" THEN d ELSE next)

(* Slip: reset leaves keptSeq where it was.                                *)
ForgottenButKept(pg) == [pg EXCEPT !.timer = FALSE, !.trouble = FALSE]

(* draftState.reset, after cancelDraftWrite.                               *)
Forgotten(pg) == [pg EXCEPT !.timer = FALSE, !.behind = TRUE, !.trouble = FALSE]

(* clearDraft removes exactly the draft the page has verified.             *)
Removable(pg, d) ==
    d.kind = "ok" /\ pg.verified = [writer |-> d.writer, rev |-> d.rev]

DiscardDraft(pg, d, outcome) ==
    LET left == Forgotten(pg) IN
    IF ~ pg.autosave \/ pg.suspended
    THEN Result(left, d)
    ELSE IF d.kind = "none" \/ (Removable(pg, d) /\ outcome = "done")
    THEN Result([left EXCEPT !.verified = Nothing], NoDraft)
    ELSE Result([left EXCEPT !.trouble = d.kind = "ok" /\ ~ Removable(pg, d)],
                IF Removable(pg, d) /\ outcome = "unseen" THEN NoDraft ELSE d)

(* retireDraftAfterSave: remove the draft, or else stamp it.               *)
RetireDraft(pg, d, id, remove, stamp) ==
    LET left == Forgotten(pg)
        gone == IF Removable(pg, d) /\ remove # "lost" THEN NoDraft ELSE d
    IN  IF ~ pg.autosave
        THEN Result(left, d)
        ELSE IF d.kind = "none" \/ (Removable(pg, d) /\ remove = "done")
        THEN Result([left EXCEPT !.verified = Nothing], NoDraft)
        ELSE Result(left, IF Removable(pg, gone) /\ stamp # "lost"
                          THEN [gone EXCEPT !.savedAs = id]
                          ELSE gone)

(* A page counts its revisions from the one it last saw, so once a draft   *)
(* is removed the numbers begin again, and a write that was not confirmed  *)
(* is made again under its number: another page may store entries under    *)
(* the very number this page knows as its own.                             *)
Numbered(d) == [kind |-> d.kind, writer |-> d.writer, rev |-> d.rev, edits |-> d.edits]

NumberTaken(p) ==
    /\ draft'.kind = "ok" /\ draft'.writer # p /\ Numbered(draft)' # Numbered(draft)
    /\ page[p].verified # Nothing /\ page[p].verified.rev = draft'.rev

Misled ==
    {p \in Pages : /\ page'[p].verified = page[p].verified
                   /\ p \in misled \/ NumberTaken(p)}

(* Slip: an edit starts the timer and is not counted.                      *)
ScheduledUncounted(pg) ==
    IF pg.autosave /\ ~ pg.suspended THEN [pg EXCEPT !.timer = TRUE] ELSE pg

(* scheduleDraftWrite.                                                     *)
Scheduled(pg) ==
    IF pg.autosave /\ ~ pg.suspended
    THEN [pg EXCEPT !.behind = TRUE, !.timer = TRUE]
    ELSE pg

-----------------------------------------------------------------------------
(* Loading and leaving.                                                    *)

AlreadySaved(d) == d.savedAs # None /\ history[d.savedAs] # {}

(* restoreDraftOnLoad, with auto-save on.                                  *)
Loaded(fresh, d, outcome) ==
    CASE d.kind = "none"       -> Result(fresh, d)
      [] d.kind = "unreadable" -> Result([fresh EXCEPT !.suspended = TRUE], d)
      [] d.kind = "ok" /\ AlreadySaved(d) ->
             Result(fresh, IF outcome = "lost" THEN d ELSE NoDraft)
      [] OTHER ->
             Result([fresh EXCEPT
                         !.edits = d.edits, !.blank = FALSE, !.seen = d.edits,
                         !.stage = d.stage, !.pendingId = d.pendingId,
                         !.dirty = TRUE, !.behind = FALSE,
                         !.verified = [writer |-> d.writer, rev |-> d.rev]], d)

Load ==
    /\ loads < MaxPages
    /\ Cardinality({p \in Pages : IsOpen(p)}) < MaxOpen
    /\ loads' = loads + 1
    /\ \E plan \in Plans(1) :
         LET fresh == [Closed EXCEPT !.pc = "ready", !.autosave = autosaveKey]
             after == IF autosaveKey THEN Loaded(fresh, draft, plan[1])
                                     ELSE Result(fresh, draft)
         IN  /\ Set(loads', after.page)
             /\ draft' = after.draft
             /\ Charge(plan)
    /\ UNCHANGED <<history, autosaveKey, ids, edits, backIns, told>>

(* A tab closed, refreshed, or killed by the phone.                        *)
Leave(p) ==
    /\ IsOpen(p)
    /\ Set(p, Closed)
    /\ UNCHANGED <<storage, bounds, told>>

-----------------------------------------------------------------------------
(* Working on the form.                                                    *)

Unsaved(pg) == [pg EXCEPT !.dirty = TRUE]

(* alreadySaved.                                                           *)
Clean(pg) == pg.saved /\ ~ pg.dirty

(* Three handlers take the form for new work without looking at whether it *)
(* has just been saved: undoing Back in, turning auto-save on, and going   *)
(* on after an unreadable draft was discarded.                             *)
Reoffered(p) == IF Clean(page[p]) THEN {page[p].edits} ELSE {}

(* A keystroke, a stepper, a ruler: blank when it empties the last field.  *)
Edit(p, blank) ==
    /\ Ready(p)
    /\ edits < MaxEdits
    /\ edits' = edits + 1
    /\ Set(p, Scheduled(Unsaved([page[p] EXCEPT !.edits = @ \cup {edits'},
                                                !.seen = @ \cup {edits'},
                                                !.blank = blank])))
    /\ UNCHANGED <<storage, loads, ids, faults, backIns, told>>

TimerFires(p) ==
    /\ Ready(p)
    /\ page[p].timer
    /\ \E plan \in Plans(1) :
         LET pg    == [page[p] EXCEPT !.timer = FALSE]
             after == IF ~ pg.autosave \/ pg.suspended THEN Result(pg, draft)
                      ELSE IF pg.blank THEN DiscardDraft(pg, draft, plan[1])
                      ELSE WriteDraftNow(p, pg, draft, pg.pendingId, plan[1])
         IN  /\ Set(p, after.page)
             /\ draft' = after.draft
             /\ Charge(plan)
    /\ misled' = Misled
    /\ UNCHANGED <<history, autosaveKey, loads, ids, edits, backIns,
                   reported, unrecorded, reoffered>>

(* saveState.reset or saveState.advanced, with a new form.                 *)
NewForm(pg, content) ==
    [pg EXCEPT !.edits = content, !.blank = (content = {}), !.seen = @ \cup content,
               !.stage = "pre", !.dirty = FALSE, !.saved = FALSE, !.pendingId = None]

Reset(p) ==
    /\ Ready(p)
    /\ \E plan \in Plans(1) :
         LET after == DiscardDraft(NewForm(page[p], {}), draft, plan[1]) IN
         /\ Set(p, after.page)
         /\ draft' = after.draft
         /\ Charge(plan)
    /\ UNCHANGED <<history, autosaveKey, loads, ids, edits, backIns, told>>

(* Slip: the copy is scheduled before the old draft's state is reset.      *)
CopyThenForget(p, i) ==
    /\ Ready(p)
    /\ history[i] # {}
    /\ edits < MaxEdits
    /\ edits' = edits + 1
    /\ Set(p, Forgotten(Scheduled(Unsaved(NewForm(page[p], {edits'})))))
    /\ UNCHANGED <<storage, loads, ids, faults, backIns, told>>

(* Slip: the copy takes over the identity of the session it came from.     *)
CopyIdentity(p, i) ==
    /\ Ready(p)
    /\ history[i] # {}
    /\ edits < MaxEdits
    /\ edits' = edits + 1
    /\ Set(p, [Scheduled(Forgotten(Unsaved(NewForm(page[p], {edits'})))) EXCEPT
                   !.pendingId = i])
    /\ UNCHANGED <<storage, loads, ids, faults, backIns, told>>

CopyToForm(p, i) ==
    /\ Ready(p)
    /\ history[i] # {}
    /\ edits < MaxEdits
    /\ edits' = edits + 1
    /\ Set(p, Scheduled(Forgotten(Unsaved(NewForm(page[p], {edits'})))))
    /\ UNCHANGED <<storage, loads, ids, faults, backIns, told>>

DeleteSession(p, i) ==
    /\ Ready(p)
    /\ history[i] # {}
    /\ history' = [history EXCEPT ![i] = {}]
    /\ reported' = reported \ {i}
    /\ UNCHANGED <<page, draft, autosaveKey, bounds, unrecorded, reoffered, misled>>

-----------------------------------------------------------------------------
(* Saving.  The id is claimed and noted in the draft before the history is *)
(* written; a page may die after either.                                   *)

SaveId(p) == IF page[p].pendingId = None THEN ids + 1 ELSE page[p].pendingId

ClaimSaveId(p) ==
    /\ SaveId(p) <= MaxIds
    /\ ids' = IF page[p].pendingId = None THEN ids + 1 ELSE ids

(* persistDraftImmediately: only a form with content, kept by auto-save.   *)
Notes(pg) == pg.autosave /\ ~ pg.suspended /\ ~ pg.blank

(* Slip: the timer is cancelled and the draft is not written.              *)
NoteNothing(p, outcome) ==
    Result([page[p] EXCEPT !.timer = FALSE, !.pendingId = SaveId(p)], draft)

(* Slip: the draft is written without the id this attempt has claimed.     *)
NoteAnonymously(p, outcome) ==
    LET pg == [page[p] EXCEPT !.timer = FALSE, !.pendingId = SaveId(p)] IN
    IF Notes(pg)
    THEN WriteDraftNow(p, [pg EXCEPT !.behind = TRUE], draft, page[p].pendingId, outcome)
    ELSE Result(pg, draft)

NoteIdentity(p, outcome) ==
    LET pg == [page[p] EXCEPT !.timer = FALSE, !.pendingId = SaveId(p)] IN
    IF Notes(pg)
    THEN WriteDraftNow(p, [pg EXCEPT !.behind = TRUE], draft, SaveId(p), outcome)
    ELSE Result(pg, draft)

(* The stored draft could not be made to name this attempt: the write was  *)
(* not confirmed, or a draft was left behind when auto-save went off.      *)
Unnamed(p, noted) ==
    LET pg == noted.page IN
    IF (Notes(pg) /\ pg.behind) \/ (~ pg.autosave /\ draft.kind # "none")
    THEN {SaveId(p)} ELSE {}

Put(p) == [history EXCEPT ![SaveId(p)] = page[p].edits]

(* doSave puts the record and reads it back.                               *)
SaveSucceeds(p, put) == ~ page[p].blank /\ put = "done"

SaveSucceeded(p, noted, remove, stamp) ==
    RetireDraft([noted.page EXCEPT !.dirty = FALSE, !.saved = TRUE, !.pendingId = None],
                noted.draft, SaveId(p), remove, stamp)

SaveFails(p) ==
    /\ Ready(p)
    /\ ~ Clean(page[p])
    /\ ClaimSaveId(p)
    /\ \E plan \in Plans(2) :
         LET noted == NoteIdentity(p, plan[1]) IN
         /\ ~ SaveSucceeds(p, plan[2])
         /\ Set(p, noted.page)
         /\ draft' = noted.draft
         /\ history' = IF page[p].blank \/ plan[2] = "lost" THEN history ELSE Put(p)
         /\ unrecorded' = unrecorded \cup Unnamed(p, noted)
         /\ Charge(plan)
    /\ misled' = Misled
    /\ UNCHANGED <<autosaveKey, loads, edits, backIns, reported, reoffered>>

SaveOnly(p) ==
    /\ Ready(p)
    /\ ~ Clean(page[p])
    /\ ClaimSaveId(p)
    /\ \E plan \in Plans(4) :
         LET noted == NoteIdentity(p, plan[1])
             after == SaveSucceeded(p, noted, plan[3], plan[4]) IN
         /\ SaveSucceeds(p, plan[2])
         /\ Set(p, after.page)
         /\ draft' = after.draft
         /\ history' = Put(p)
         /\ reported' = reported \cup {SaveId(p)}
         /\ unrecorded' = unrecorded \cup Unnamed(p, noted)
         /\ Charge(plan)
    /\ misled' = Misled
    /\ UNCHANGED <<autosaveKey, loads, edits, backIns, reoffered>>

(* advanceToNextSession: what carries over is the content of a new form.   *)
CarriedOver == {{}} \cup (IF edits < MaxEdits THEN {{edits + 1}} ELSE {})

Advance(pg, d, content, outcome) == DiscardDraft(NewForm(pg, content), d, outcome)

SaveAndNext(p) ==
    /\ Ready(p)
    /\ ~ Clean(page[p])
    /\ ClaimSaveId(p)
    /\ \E plan \in Plans(5), content \in CarriedOver :
         LET noted == NoteIdentity(p, plan[1])
             done  == SaveSucceeded(p, noted, plan[3], plan[4])
             after == Advance(done.page, done.draft, content, plan[5]) IN
         /\ SaveSucceeds(p, plan[2])
         /\ Set(p, after.page)
         /\ draft' = after.draft
         /\ history' = Put(p)
         /\ reported' = reported \cup {SaveId(p)}
         /\ unrecorded' = unrecorded \cup Unnamed(p, noted)
         /\ edits' = edits + Cardinality(content)
         /\ Charge(plan)
    /\ misled' = Misled
    /\ UNCHANGED <<autosaveKey, loads, backIns, reoffered>>

(* Save & next of a form that holds nothing new only moves on.             *)
NextOnly(p) ==
    /\ Ready(p)
    /\ Clean(page[p])
    /\ \E plan \in Plans(1), content \in CarriedOver :
         LET after == Advance(page[p], draft, content, plan[1]) IN
         /\ Set(p, after.page)
         /\ draft' = after.draft
         /\ edits' = edits + Cardinality(content)
         /\ Charge(plan)
    /\ UNCHANGED <<history, autosaveKey, loads, ids, backIns, told>>

SaveDies(p) ==
    /\ Ready(p)
    /\ ~ Clean(page[p])
    /\ ~ page[p].blank
    /\ ClaimSaveId(p)
    /\ \E plan \in Plans(1) :
         LET noted == NoteIdentity(p, plan[1]) IN
         /\ Set(p, Closed)
         /\ draft' = noted.draft
         /\ history' \in {history, Put(p)}
         /\ unrecorded' = unrecorded \cup Unnamed(p, noted)
         /\ Charge(plan)
    /\ misled' = Misled
    /\ UNCHANGED <<autosaveKey, loads, edits, backIns, reported, reoffered>>

-----------------------------------------------------------------------------
(* The stages.  Back in opens a ten-second window to undo it, which a POST *)
(* reading closes early; undo is offered on the POST stage only.           *)
BackIn(p) ==
    /\ Ready(p)
    /\ backIns < MaxBackIns
    /\ backIns' = backIns + 1
    /\ Set(p, [page[p] EXCEPT !.stage = "post", !.undo = TRUE])
    /\ UNCHANGED <<storage, loads, ids, edits, faults, told>>

CorrectPre(p) ==
    /\ Ready(p)
    /\ page[p].stage = "post"
    /\ Set(p, [page[p] EXCEPT !.stage = "corrected"])
    /\ UNCHANGED <<storage, bounds, told>>

UndoPost(p) ==
    /\ Ready(p)
    /\ page[p].undo
    /\ page[p].stage # "pre"
    /\ Set(p, Scheduled(Unsaved([page[p] EXCEPT !.stage = "pre", !.undo = FALSE])))
    /\ reoffered' = reoffered \cup Reoffered(p)
    /\ UNCHANGED <<storage, bounds, reported, unrecorded, misled>>

UndoWindowEnds(p) ==
    /\ Ready(p)
    /\ page[p].undo
    /\ Set(p, [page[p] EXCEPT !.undo = FALSE])
    /\ UNCHANGED <<storage, bounds, told>>

-----------------------------------------------------------------------------
(* The auto-save switch.  Turning it off asks first if a draft is stored.  *)
TurnOn(p) ==
    /\ Ready(p)
    /\ ~ page[p].autosave
    /\ LET on == [page[p] EXCEPT !.autosave = TRUE] IN
       Set(p, IF on.blank THEN on ELSE Scheduled(on))
    /\ autosaveKey' = TRUE
    /\ reoffered' = reoffered \cup Reoffered(p)
    /\ UNCHANGED <<draft, history, bounds, reported, unrecorded, misled>>

AskTurnOff(p) ==
    /\ Ready(p)
    /\ page[p].autosave
    /\ draft.kind # "none"
    /\ Set(p, [page[p] EXCEPT !.pc = "asking"])
    /\ UNCHANGED <<storage, bounds, told>>

TurnOff(p) ==
    /\ \/ Ready(p) /\ page[p].autosave /\ draft.kind = "none"
       \/ page[p].pc = "asking"
    /\ \E plan \in Plans(1) :
         LET after == DiscardDraft([page[p] EXCEPT !.pc = "ready"], draft, plan[1]) IN
         /\ Set(p, [after.page EXCEPT !.autosave = FALSE])
         /\ draft' = after.draft
         /\ Charge(plan)
    /\ autosaveKey' = FALSE
    /\ UNCHANGED <<history, loads, ids, edits, backIns, told>>

-----------------------------------------------------------------------------
(* A draft this build cannot read: another version's, or damaged.  Its     *)
(* exact text may be downloaded, and then discarded.                       *)
BecomesUnreadable ==
    /\ draft.kind # "unreadable"
    /\ faults < MaxFaults
    /\ faults' = faults + 1
    /\ draft' = [NoDraft EXCEPT !.kind = "unreadable", !.edits = draft.edits]
    /\ UNCHANGED <<page, history, autosaveKey, loads, ids, edits, backIns, told>>

Download(p) ==
    /\ Ready(p)
    /\ page[p].autosave /\ page[p].suspended
    /\ draft.kind # "none"
    /\ Set(p, [page[p] EXCEPT !.pc = "recovering", !.raw = draft])
    /\ UNCHANGED <<storage, bounds, told>>

Back(pg) == [pg EXCEPT !.pc = "ready", !.raw = NoDraft]

Decline(p) ==
    /\ page[p].pc \in {"asking", "recovering"}
    /\ Set(p, Back(page[p]))
    /\ UNCHANGED <<storage, bounds, told>>

DiscardDownloaded(p) ==
    /\ page[p].pc = "recovering"
    /\ \E plan \in Plans(1) :
         LET pg      == Back(page[p])
             same    == draft = page[p].raw
             resumed == Forgotten([pg EXCEPT !.suspended = FALSE, !.verified = Nothing])
             next    == IF draft.kind = "none" \/ (same /\ plan[1] = "done")
                        THEN resumed ELSE pg IN
         /\ Set(p, IF next.blank THEN next ELSE Scheduled(next))
         /\ draft' = IF same /\ plan[1] # "lost" THEN NoDraft ELSE draft
         /\ Charge(plan)
    /\ reoffered' = reoffered \cup Reoffered(p)
    /\ UNCHANGED <<history, autosaveKey, loads, ids, edits, backIns,
                   reported, unrecorded, misled>>

-----------------------------------------------------------------------------
Init ==
    /\ page = [p \in Pages |-> Closed]
    /\ loads = 0 /\ draft = NoDraft
    /\ history = [i \in Ids |-> {}]
    /\ autosaveKey = FALSE
    /\ ids = 0 /\ edits = 0 /\ faults = 0 /\ backIns = 0
    /\ reported = {} /\ unrecorded = {} /\ reoffered = {} /\ misled = {}

FormStep(p) ==
    \/ \E blank \in BOOLEAN : Edit(p, blank)
    \/ \E i \in Ids : CopyToForm(p, i) \/ DeleteSession(p, i)
    \/ Reset(p) \/ TimerFires(p)
    \/ SaveFails(p) \/ SaveOnly(p) \/ SaveAndNext(p) \/ NextOnly(p)

StageStep(p) == BackIn(p) \/ CorrectPre(p) \/ UndoPost(p) \/ UndoWindowEnds(p)

SwitchStep(p) ==
    \/ TurnOn(p) \/ AskTurnOff(p) \/ TurnOff(p)
    \/ Download(p) \/ Decline(p) \/ DiscardDownloaded(p)

Next ==
    \/ Load
    \/ BecomesUnreadable
    \/ \E p \in Pages :
          FormStep(p) \/ StageStep(p) \/ SwitchStep(p) \/ SaveDies(p) \/ Leave(p)

Spec == Init /\ [][Next]_vars

-----------------------------------------------------------------------------
DraftKinds ==
    [kind : {"none", "unreadable", "ok"}, writer : Pages \cup {None}, rev : Nat,
     edits : SUBSET Edits, stage : Stages, pendingId : Ids \cup {None},
     savedAs : Ids \cup {None}]

PageStates ==
    [pc : {"closed", "ready", "asking", "recovering"}, autosave : BOOLEAN,
     edits : SUBSET Edits, blank : BOOLEAN, stage : Stages, undo : BOOLEAN,
     timer : BOOLEAN, behind : BOOLEAN, trouble : BOOLEAN, suspended : BOOLEAN,
     verified : [writer : Pages \cup {None}, rev : Nat],
     dirty : BOOLEAN, saved : BOOLEAN, pendingId : Ids \cup {None},
     seen : SUBSET Edits, raw : DraftKinds]

(* Every variable has its type, and a draft that can be read has a         *)
(* revision, from 1 on.                                                    *)
TypeOK ==
    /\ page \in [Pages -> PageStates]
    /\ loads \in 0 .. MaxPages
    /\ draft \in DraftKinds /\ (draft.kind = "ok" => draft.rev > 0)
    /\ history \in [Ids -> SUBSET Edits]
    /\ autosaveKey \in BOOLEAN
    /\ ids \in 0 .. MaxIds /\ edits \in 0 .. MaxEdits
    /\ faults \in 0 .. MaxFaults /\ backIns \in 0 .. MaxBackIns
    /\ reported \subseteq Ids /\ unrecorded \subseteq Ids
    /\ reoffered \subseteq SUBSET Edits /\ misled \subseteq Pages

(* draftIsStored.                                                          *)
DraftIsStored(p) == page[p].autosave /\ Removable(page[p], draft)

(* The footer's "A refresh brings your draft back" and the status line's   *)
(* "draft kept on this device".                                            *)
SaysKept(p) ==
    IsOpen(p) /\ DraftIsStored(p) /\ ~ page[p].blank /\ ~ page[p].behind
             /\ ~ page[p].trouble /\ ~ page[p].suspended

(* The form comes back as it is on the screen: the next load looks for a   *)
(* draft, finds this one, and does not take it for saved.                  *)
RefreshBringsBack(p) ==
    /\ autosaveKey
    /\ draft.kind = "ok" /\ ~ AlreadySaved(draft)
    /\ draft.edits = page[p].edits

(* With one page at a time, a page that says that its draft is kept is     *)
(* right: whatever was cancelled, lost, discarded or restored before, a    *)
(* refresh brings back the entries on the screen and no others             *)
(* (footerDraftNote).                                                      *)
KeptMeansKept == \A p \in Pages : SaysKept(p) => RefreshBringsBack(p)

(* With other tabs about, that promise depends on them (OwnKeptComesBack   *)
(* below), but not the draft: while a page says that the draft it wrote is *)
(* kept, what is stored is what it has on the screen, for no other tab     *)
(* writes under its {writer, rev} (TAB_ID, writeDraft, clearDraft,         *)
(* markDraftSaved).                                                        *)
OwnKeptMeansKept ==
    \A p \in Pages :
        SaysKept(p) /\ draft.writer = p => draft.edits = page[p].edits

(* With auto-save on, unsaved entries that the stored draft does not yet   *)
(* hold have a write coming, or the page says that it is not keeping them: *)
(* no handler that cancels the timer forgets what the timer was for.       *)
EditsAreKeptOrComing ==
    \A p \in Pages :
        LET pg == page[p] IN
        IsOpen(p) /\ pg.autosave /\ pg.dirty /\ ~ pg.blank /\ pg.behind
            => pg.timer \/ pg.trouble \/ pg.suspended

Duplicates(ok) ==
    {i \in Ids \ unrecorded :
        history[i] \notin ok /\ \E j \in Ids \ (unrecorded \cup {i}) : history[i] = history[j]}

(* One outing is one record: however often its save dies, fails or cannot  *)
(* be confirmed, and whatever a refresh brings back, a retry lands on the  *)
(* id the attempt recorded (guardedSave), unless the draft could not       *)
(* record it, or a saved form was taken for unsaved again.                 *)
NoDuplicateRecord == Duplicates(reoffered \cup {{}}) = {}

(* "Stops the same unchanged session being written twice"                  *)
(* (session-progress.js:63), with no exception for forms taken for unsaved *)
(* again: the code breaks it.                                              *)
NeverSavedTwice == Duplicates({{}}) = {}

(* What a rider was told is saved is never replaced by an older version of *)
(* itself, for instance by a draft that comes back after the save with the *)
(* id of an earlier attempt (draftAlreadySaved, retireDraftAfterSave).     *)
SavedSurvives ==
    [][\A i \in reported \ unrecorded :
         history[i] \subseteq history'[i] \/ i \notin reported']_vars

(* A stored draft the code cannot read is changed by no handler but the    *)
(* discard of a page that has downloaded exactly that text                 *)
(* (draft-recovery, clearDraft's raw form).                                *)
UnreadableSpared ==
    [][draft.kind = "unreadable" /\ draft' # draft
       => \E p \in Pages : page[p].raw = draft]_vars

(* No page changes another's draft that holds entries this page has never  *)
(* shown: a draft written by another page load is replaced, stamped or     *)
(* removed only by a page that restored those entries, or after they are   *)
(* a saved record ("no draft mutation may destroy another tab's work",     *)
(* tests/draft-autosave.test.js:499).  The code keeps this for any number  *)
(* of tabs, except for a page that takes the number of a later draft for   *)
(* its own (misled).                                                       *)
SparesOthersWork(excepted) ==
    \A p \in Pages \ excepted :
        /\ draft.kind = "ok" /\ draft.writer # p
        /\ draft' # draft /\ draft'.kind # "unreadable"
        /\ page'[p] # page[p]
        => draft.edits \subseteq page[p].seen \/ draft.savedAs # None
           \/ page[p].raw = draft

OnlyMisledTouchOthersWork == [][SparesOthersWork(misled)]_vars

-----------------------------------------------------------------------------
(* What comments and tests of the code say, and the code does not keep.    *)

(* The same with no exception: the numbers begin again, and a page that    *)
(* knows an old number may write over a draft it has never seen.           *)
OthersWorkSpared == [][SparesOthersWork({})]_vars

(* "A refresh brings your draft back" (session-progress.js:342), said of a *)
(* draft this page wrote while another tab may have turned auto-save off   *)
(* for the device, or saved the same entries.                              *)
OwnKeptComesBack ==
    \A p \in Pages : SaysKept(p) /\ draft.writer = p => RefreshBringsBack(p)
===========================================================================
