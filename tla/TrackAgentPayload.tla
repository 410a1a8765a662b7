------------------------ MODULE TrackAgentPayload -------------------------
(***************************************************************************)
(* What the Track Agent does to a reviewed payload on its way from the     *)
(* provider to the tables: the normalisation with its two deduplications,  *)
(* the review form, which has room for one lap, two hot pressures, one     *)
(* setup change and one note, and the payload the form is turned back      *)
(* into.                                                                   *)
(*                                                                         *)
(* A text is a set of words, some of which are mere marks; one text occurs *)
(* in another (String.includes after compareText) when its words, marks    *)
(* apart, do, and its length is their number.  An area stands for a note's *)
(* type and area, a component for a change's component and adjustment, a   *)
(* detail for the length of its other fields.  The names of track and      *)
(* bike, the session's number, confidence, the warnings the schema adds    *)
(* and its key and type checks are left out: every payload here has the    *)
(* canonical shape, which is the shape both callers build.                 *)
(***************************************************************************)
EXTENDS Naturals, FiniteSets, Sequences

CONSTANTS
    Words,               \* what a rider's or a model's text may be made of
    Marks,               \* those without a letter, a digit or an underscore
    SoftOneClick,        \* texts that name a softening by one click
    LowValue             \* texts LOW_VALUE_WARNING_PATTERNS match

ASSUME PayloadAssumption == IsFiniteSet(Words)

Texts == SUBSET Words
Blank == {}
NoLap == 0
NoPsi == 0

Note(area, words) == [area |-> area, note |-> words]
Change(component, words, detail) ==
    [component |-> component, change |-> words, detail |-> detail]
Pressure(position, timing, psi) ==
    [position |-> position, timing |-> timing, psi |-> psi]

NoteRow     == [area : Texts, note : Texts]
ChangeRow   == [component : Texts, change : Texts, detail : Nat]
PressureRow == [position : {"front", "rear", "unknown"},
                timing : {"cold", "hot", "before", "after", "unknown"}, psi : Nat]
Payloads    == [session_label : Texts, lap_times : Seq(Nat),
                tire_pressures : Seq(PressureRow), setup_changes : Seq(ChangeRow),
                notes : Seq(NoteRow), warnings : Seq(Texts)]

(* compareText: whatever is no letter, digit or underscore is blanked, so  *)
(* "+2" and "-2" are the same text.                                        *)
Compared(text) == text \ Marks

NotesOverlap(a, b) ==
    /\ Compared(a.area) = Compared(b.area)
    /\ \/ Compared(a.note) \subseteq Compared(b.note)
       \/ Compared(b.note) \subseteq Compared(a.note)

(* Slip: the first of two overlapping notes is kept.                       *)
PreferEarlierNote(a, b) == a

PreferLongerNote(a, b) ==
    IF Cardinality(Compared(b.note)) > Cardinality(Compared(a.note)) THEN b ELSE a

(* "softer one click" said twice in different words is one change.         *)
SetupChangesOverlap(a, b) ==
    /\ Compared(a.component) = Compared(b.component)
    /\ a.change # Blank /\ b.change # Blank
    /\ \/ Compared(a.change) \subseteq Compared(b.change)
       \/ Compared(b.change) \subseteq Compared(a.change)
       \/ {Compared(a.change), Compared(b.change)} \subseteq SoftOneClick

Completeness(c) == Cardinality(c.change) + c.detail

PreferMoreCompleteSetupChange(a, b) ==
    IF Completeness(b) > Completeness(a) THEN b ELSE a

(* A row goes into the first kept row it overlaps, or after them: for each *)
(* kept row it overlaps, preferred is what the two become.                 *)
Merged(kept, row, preferred) ==
    LET first == CHOOSE i \in DOMAIN preferred : \A j \in DOMAIN preferred : i <= j
    IN  IF DOMAIN preferred = {} THEN Append(kept, row)
        ELSE [kept EXCEPT ![first] = preferred[first]]

MergeNote(kept, row) ==
    IF row.note = Blank THEN kept
    ELSE Merged(kept, row, [i \in {k \in DOMAIN kept : NotesOverlap(kept[k], row)} |->
                               PreferLongerNote(kept[i], row)])

MergeSetupChange(kept, row) ==
    IF row.component = Blank /\ row.change = Blank THEN kept
    ELSE Merged(kept, row,
                [i \in {k \in DOMAIN kept : SetupChangesOverlap(kept[k], row)} |->
                    PreferMoreCompleteSetupChange(kept[i], row)])

(* The loops: what is kept of the first n rows.                            *)
DedupeNotes(notes) ==
    LET deduped[n \in 0..Len(notes)] ==
            IF n = 0 THEN <<>> ELSE MergeNote(deduped[n - 1], notes[n])
    IN  deduped[Len(notes)]

DedupeSetupChanges(changes) ==
    LET deduped[n \in 0..Len(changes)] ==
            IF n = 0 THEN <<>> ELSE MergeSetupChange(deduped[n - 1], changes[n])
    IN  deduped[Len(changes)]

(* Of warnings that compare alike the first is kept.                       *)
MergeWarning(kept, text) ==
    IF \/ text = Blank \/ text \in LowValue
       \/ \E i \in DOMAIN kept : Compared(kept[i]) = Compared(text)
    THEN kept ELSE Append(kept, text)

CollapseWarnings(warnings) ==
    LET collapsed[n \in 0..Len(warnings)] ==
            IF n = 0 THEN <<>> ELSE MergeWarning(collapsed[n - 1], warnings[n])
    IN  collapsed[Len(warnings)]

Normalized(draft) ==
    [draft EXCEPT !.setup_changes = DedupeSetupChanges(@), !.notes = DedupeNotes(@),
                  !.warnings = CollapseWarnings(@)]

(* The rows at the places that are kept, in their order.                   *)
Kept(rows, places) ==
    LET taken[n \in 0..Len(rows)] ==
            IF n = 0 THEN <<>>
            ELSE IF n \in places THEN Append(taken[n - 1], rows[n]) ELSE taken[n - 1]
    IN  taken[Len(rows)]

(* The first row the form has a field for; the others are not shown.       *)
FirstOr(rows, none) == IF rows = <<>> THEN none ELSE rows[1]

Hot(draft, position) ==
    LET rows == draft.tire_pressures IN
    FirstOr(Kept(rows, {i \in DOMAIN rows : /\ rows[i].position = position
                                            /\ rows[i].timing = "hot"}),
            Pressure(position, "hot", NoPsi)).psi

Forms == [sessionLabel : Texts, bestLap : Nat, frontHot : Nat, rearHot : Nat,
          setupChange : Texts, riderNote : Texts, warnings : Seq(Texts)]

FormOf(draft) ==
    [sessionLabel |-> draft.session_label,
     bestLap      |-> FirstOr(draft.lap_times, NoLap),
     frontHot     |-> Hot(draft, "front"),
     rearHot      |-> Hot(draft, "rear"),
     setupChange  |-> FirstOr(draft.setup_changes, Change(Blank, Blank, 0)).change,
     riderNote    |-> FirstOr(draft.notes, Note(Blank, Blank)).note,
     warnings     |-> draft.warnings]

OneIf(present, row) == IF present THEN <<row>> ELSE <<>>

(* buildPayloadFromForm: what the preview shows and a save sends.          *)
PayloadOf(form) ==
    [session_label  |-> form.sessionLabel,
     lap_times      |-> OneIf(form.bestLap # NoLap, form.bestLap),
     tire_pressures |-> OneIf(form.frontHot # NoPsi, Pressure("front", "hot", form.frontHot))
                        \o OneIf(form.rearHot # NoPsi, Pressure("rear", "hot", form.rearHot)),
     setup_changes  |-> OneIf(form.setupChange # Blank, Change(Blank, form.setupChange, 0)),
     notes          |-> OneIf(form.riderNote # Blank, Note(Blank, form.riderNote)),
     warnings       |-> Kept(form.warnings, {i \in DOMAIN form.warnings :
                                                form.warnings[i] # Blank})]

(* What the save's batch inserts for a payload.  There is no column for    *)
(* the session's label.                                                    *)
RowsOf(payload) ==
    LET n == Normalized(payload) IN
    [n EXCEPT !.session_label = Blank,
              !.lap_times = Kept(@, {i \in DOMAIN @ : @[i] # NoLap}),
              !.tire_pressures = Kept(@, {i \in DOMAIN @ : @[i].psi # NoPsi})]

(* Every note lives on, case and punctuation apart, inside a kept note of  *)
(* its own area.                                                           *)
NotesSurvive(notes, kept) ==
    \A i \in DOMAIN notes : notes[i].note # Blank =>
        \E j \in DOMAIN kept :
            /\ Compared(kept[j].area) = Compared(notes[i].area)
            /\ Compared(notes[i].note) \subseteq Compared(kept[j].note)

(* Every setup change leaves one of its component, at least as long.       *)
ChangesSurvive(changes, kept) ==
    \A i \in DOMAIN changes : changes[i].change # Blank =>
        \E j \in DOMAIN kept :
            /\ Compared(kept[j].component) = Compared(changes[i].component)
            /\ Completeness(kept[j]) >= Completeness(changes[i])

(* Every warning that is not of low value lives on, case and punctuation   *)
(* apart.                                                                  *)
WarningsSurvive(warnings, kept) ==
    \A i \in DOMAIN warnings : warnings[i] # Blank /\ warnings[i] \notin LowValue =>
        \E j \in DOMAIN kept : Compared(kept[j]) = Compared(warnings[i])

(* What the batch inserts for what a form shows: all of it but the label   *)
(* and warnings of low value.                                              *)
StoresForm(rows, form) ==
    LET shown == PayloadOf(form) IN
    /\ rows.lap_times = shown.lap_times
    /\ rows.tire_pressures = shown.tire_pressures
    /\ rows.setup_changes = shown.setup_changes
    /\ rows.notes = shown.notes
    /\ WarningsSurvive(shown.warnings, rows.warnings)
===========================================================================
