----------------------------- MODULE FieldEntry ----------------------------
(***************************************************************************)
(* The notebook's number fields: the pressures of one tire before and      *)
(* after the session, moved by typing, buttons, keys and a drag pad, with  *)
(* the pressures of earlier sessions beside them as references; and one    *)
(* suspension adjuster with the unit it is counted in.                     *)
(*                                                                         *)
(* Numbers are whole hundredths with the places they were written with.    *)
(* Instances type none that is half-way at the precision it is rounded to, *)
(* 2.5 turns apart, so that binary floating point rounds as here.  Keeping *)
(* drafts and the outcome of a save are NotebookDrafts' subject: a save    *)
(* here succeeds.                                                          *)
(***************************************************************************)
EXTENDS Integers, Sequences

CONSTANTS
    Typed,               \* texts a rider types into a pressure
    TypedClicks,         \* and into the adjuster
    Bikes, Tires,        \* names a rider enters
    Before,              \* the sessions saved before, oldest first
    Elsewhere,           \* sessions another tab may save
    DefaultUnit,         \* ADJUSTER_DEFAULT_UNIT of the adjuster
    Notches,             \* how far a drag may have come
    MaxGestures          \* everything the rider does, bound

Fields == {"pre", "post"}
Unset  == ""
Units  == {"clicks", "turns"}

Number(n, places) == [kind |-> "number", n |-> n, places |-> places]
Blank == [kind |-> "blank", n |-> 0, places |-> 0]
NoDrag == [field |-> Unset, start |-> 0]

(* One in the last of the places.                                          *)
Ulp(places) == IF places = 0 THEN 100 ELSE IF places = 1 THEN 10 ELSE 1

(* What a field may hold: a number has no digit its places do not show.    *)
Entries ==
    {Blank} \cup {t \in [kind : {"number", "words", "unsupported"}, n : Int, places : 0 .. 2] :
                    t.n % Ulp(t.places) = 0}

Setups == [bike : Bikes \cup {Unset}, tires : Tires \cup {Unset}]

Sessions == [setup : Setups, text : [Fields -> Entries], clicks : Entries,
             unit : Units \cup {Unset}]

ASSUME FieldAssumption ==
    /\ DefaultUnit \in Units /\ MaxGestures \in Nat
    /\ Typed \subseteq Entries /\ TypedClicks \subseteq Entries
    /\ Notches \subseteq Int
    /\ Before \in Seq(Sessions) /\ Elsewhere \subseteq Sessions

VARIABLES
    text,                \* the pressure fields
    clicks, unit,        \* the adjuster and its hidden unit store, "" unset
    setup,               \* bike and tires, "" unset
    stage, postUnlocked, preEditable,
    drag,                \* the pad's drag
    sessions,            \* the saved sessions, in the order of savedAt
    offer,               \* what each "Same as" button reads, {} when hidden
    touched,             \* history: pressures set by the rider in this form
    recordedIn,          \* history: the unit the adjuster's number was read in
    overtaken,           \* history: another tab saved since the last rendering
    gestures

form == <<text, clicks, unit, setup>>
progress == <<stage, postUnlocked, preEditable>>
vars == <<form, progress, drag, sessions, offer, touched, recordedIn, overtaken, gestures>>

-----------------------------------------------------------------------------
(* session-progress.js: what may be stepped, and to what.                  *)

PsiMin == 1000
PsiMax == 4500
Tenth  == 10
PadDefault == 3000

Clamped(n) == IF n < PsiMin THEN PsiMin ELSE IF n > PsiMax THEN PsiMax ELSE n

(* tenths: Math.round, halves up.                                          *)
Tenths(n) == ((n + 5) \div 10) * 10

(* toFixed: halves away from zero.                                         *)
ToFixed(n, places) ==
    LET ulp == Ulp(places)
        up(m) == ((2 * m + ulp) \div (2 * ulp)) * ulp
    IN  IF n < 0 THEN 0 - up(0 - n) ELSE up(n)

InRange(n) == PsiMin <= n /\ n <= PsiMax

(* pressureState: "blank", "words", "unsupported" (too many decimals, or   *)
(* too large to scale exactly), or a number in or outside the range.       *)
State(t) ==
    IF t.kind # "number" THEN t.kind
    ELSE IF InRange(t.n) THEN "in-range" ELSE "typed-outside"

Draggable(t) == State(t) \in {"in-range", "blank"}

(* readPsi                                                                 *)
Readable(t) == t.kind \in {"number", "unsupported"}

Snap(n) == Tenths(Clamped(Tenths(n)))

(* stepValue with the field's own precision kept: a button of n hundredths *)
(* has the texts it may write, none when it is refused.                    *)
StepValue(t, by, allowNegative) ==
    LET step == IF by % 100 = 0 THEN 0 ELSE 1
        n == t.n + by
    IN  IF t.kind # "number" \/ (by < 0 /\ n < 0 /\ ~ allowNegative) THEN {}
        ELSE {Number(n, IF t.places > step THEN t.places ELSE step)}

(* Slip: an unreadable text is taken for a blank one.                      *)
RulerStepFromWords(t, dir, ref) ==
    IF t.kind # "number" THEN {Number(Tenths(ref + dir * Tenth), 1)}
    ELSE StepValue(t, dir * Tenth, FALSE)

(* rulerStep, from a blank field starting at ref.                          *)
RulerStep(t, dir, ref) ==
    CASE State(t) = "blank" ->
            LET n == Tenths(ref + dir * Tenth) IN
            IF dir < 0 /\ n < 0 THEN {} ELSE {Number(n, 1)}
      [] State(t) = "in-range" ->
            {next \in StepValue(t, dir * Tenth, FALSE) : InRange(next.n)}
      [] State(t) = "typed-outside" -> StepValue(t, dir * Tenth, FALSE)
      [] OTHER -> {}

(* lastMatchingSession: same bike, same tires, the latest.                 *)
Matching(saved, now) ==
    {i \in DOMAIN saved : /\ now.bike # Unset /\ now.tires # Unset
                          /\ saved[i].setup = now}

Last(set) == CHOOSE i \in set : \A j \in set : j <= i

(* pressureReferences' primary: history, or for POST this session's PRE.   *)
Reference(saved, now, pressures, f) ==
    LET matching == Matching(saved, now)
        historic == IF matching = {} THEN Blank ELSE saved[Last(matching)].text[f]
        source   == IF f = "post" /\ ~ Readable(historic) THEN pressures["pre"]
                    ELSE historic
    IN  IF Readable(source) THEN {Number(ToFixed(source.n, 1), 1)} ELSE {}

(* padStart: the reference, or 30.                                         *)
PadStart(refs) ==
    IF refs = {} THEN PadDefault ELSE (CHOOSE r \in refs : TRUE).n

Refs(f) == Reference(sessions, setup, text, f)

UnitOf(u) == IF u = Unset THEN DefaultUnit ELSE u
UnitStep(u)   == IF u = "clicks" THEN 100 ELSE 50
UnitPlaces(u) == IF u = "clicks" THEN 0 ELSE 1
UnitLimit(u)  == IF u = "clicks" THEN 4000 ELSE 1000

(* Slip: the limit is looked at before the step.                           *)
AdjusterStepPastLimit(t, dir, u) ==
    LET from == IF t = Blank THEN Number(0, 0) ELSE t
        at   == Number(ToFixed(from.n, UnitPlaces(u)), UnitPlaces(u))
        within == {next \in {at} : next.n <= UnitLimit(u) /\ next.n >= 0 - UnitLimit(u)}
    IN  IF ~ Readable(from) \/ within = {} THEN {}
        ELSE StepValue(at, dir * UnitStep(u), TRUE)

(* adjusterStep: from zero when blank, at the unit's precision, refused    *)
(* past the limit.                                                         *)
AdjusterStep(t, dir, u) ==
    LET from == IF t = Blank THEN Number(0, 0) ELSE t
        at   == Number(ToFixed(from.n, UnitPlaces(u)), UnitPlaces(u))
    IN  IF ~ Readable(from) THEN {}
        ELSE {next \in StepValue(at, dir * UnitStep(u), TRUE) :
                 0 - UnitLimit(u) <= next.n /\ next.n <= UnitLimit(u)}

(* adjusterOnUnitChange                                                    *)
Reread(t, u) ==
    IF Readable(t) THEN Number(ToFixed(t.n, UnitPlaces(u)), UnitPlaces(u)) ELSE t

-----------------------------------------------------------------------------
(* The page.                                                               *)

Locked(f) == f = "pre" /\ ~ preEditable
Visible(f) == stage = f

(* renderTire: "Same as" is offered beside an open, blank field.  Every    *)
(* path that changes a field, the setup or a lock renders afterwards.      *)
Rendered ==
    /\ offer' = [f \in Fields |->
                   IF (f = "pre" /\ ~ preEditable') \/ text'[f] # Blank THEN {}
                   ELSE Reference(sessions', setup', text', f)]
    /\ overtaken' = FALSE

Gesture == gestures < MaxGestures /\ gestures' = gestures + 1

SetPressure(f, next) ==
    /\ text' = [text EXCEPT ![f] = next]
    /\ touched' = touched \cup {f}
    /\ UNCHANGED <<clicks, unit, setup, progress, sessions, recordedIn>>
    /\ Rendered

Type(f, t) ==
    /\ Gesture /\ Visible(f) /\ ~ Locked(f)
    /\ t # text[f]
    /\ SetPressure(f, t)
    /\ UNCHANGED drag

(* The buttons beside the pad (wireSteppers).                              *)
Step(f, dir) ==
    /\ Gesture /\ Visible(f) /\ ~ Locked(f)
    /\ \E next \in RulerStep(text[f], dir, PadStart(Refs(f))) :
          next # text[f] /\ SetPressure(f, next)
    /\ UNCHANGED drag

(* The arrow and page keys on the pad, which snap to a tenth.              *)
Key(f, by) ==
    /\ Gesture /\ Visible(f) /\ ~ Locked(f) /\ Draggable(text[f])
    /\ LET from == IF text[f] = Blank THEN PadStart(Refs(f)) ELSE text[f].n
           next == Number(Snap(from + by), 1)
       IN  next # text[f] /\ SetPressure(f, next)
    /\ UNCHANGED drag

(* pointerdown: where the drag starts from is fixed here.                  *)
Grab(f) ==
    /\ Gesture /\ drag = NoDrag
    /\ Visible(f) /\ ~ Locked(f) /\ Draggable(text[f])
    /\ drag' = [field |-> f,
                start |-> IF text[f] = Blank THEN PadStart(Refs(f)) ELSE text[f].n]
    /\ UNCHANGED <<form, progress, sessions, offer, touched, recordedIn, overtaken>>

(* pointermove by k notches once the gesture is clearly horizontal; what   *)
(* the field holds by now is not looked at, only whether it is locked.     *)
DragTo(k) ==
    /\ drag # NoDrag /\ Gesture
    /\ ~ Locked(drag.field)
    /\ LET next == Number(Snap(drag.start + k * Tenth), 1) IN
          next # text[drag.field] /\ SetPressure(drag.field, next)
    /\ UNCHANGED drag

(* pointerup, pointercancel, lostpointercapture.                           *)
Release ==
    /\ drag # NoDrag
    /\ drag' = NoDrag
    /\ UNCHANGED <<form, progress, sessions, offer, touched, recordedIn, overtaken, gestures>>

(* The references are looked up again at the press.                        *)
SameAs(f) ==
    /\ Gesture /\ Visible(f) /\ ~ Locked(f) /\ offer[f] # {}
    /\ \E ref \in Refs(f) : ref # text[f] /\ SetPressure(f, ref)
    /\ UNCHANGED drag

SetAdjuster(next) ==
    /\ clicks' = next /\ recordedIn' = UnitOf(unit)
    /\ UNCHANGED <<text, unit, setup, progress, drag, sessions, touched>>
    /\ Rendered

TypeClicks(t) ==
    /\ Gesture /\ preEditable /\ stage = "day" /\ t # clicks
    /\ SetAdjuster(t)

PressAdjuster(dir) ==
    /\ Gesture /\ preEditable /\ stage = "day"
    /\ \E next \in AdjusterStep(clicks, dir, UnitOf(unit)) : next # clicks /\ SetAdjuster(next)

(* The number is read again at the unit's precision, never converted.      *)
ChooseUnit(u) ==
    /\ Gesture /\ preEditable /\ stage = "day" /\ unit # u
    /\ unit' = u /\ clicks' = Reread(clicks, u) /\ recordedIn' = u
    /\ UNCHANGED <<text, setup, progress, drag, sessions, touched>>
    /\ Rendered

EnterSetup(now) ==
    /\ Gesture /\ stage = "day" /\ now # setup
    /\ setup' = now
    /\ UNCHANGED <<text, clicks, unit, progress, drag, sessions, touched, recordedIn>>
    /\ Rendered

OfBike == {i \in DOMAIN sessions : setup.bike # Unset /\ sessions[i].setup.bike = setup.bike}

(* Slip: the pressures of the last session are filled in as well.          *)
CarriedWithPressures(s) ==
    [text |-> [f \in Fields |-> IF text[f] = Blank THEN s.text[f] ELSE text[f]],
     clicks |-> IF clicks = Blank THEN s.clicks ELSE clicks,
     unit |-> IF clicks = Blank /\ s.clicks # Blank /\ unit = Unset THEN s.unit ELSE unit,
     tires |-> IF setup.tires = Unset THEN s.setup.tires ELSE setup.tires]

(* carryPlan and applyCarry: blank fields only and never a pressure; the   *)
(* unit goes along where none is set.                                      *)
Carried(s) ==
    [text |-> text,
     clicks |-> IF clicks = Blank THEN s.clicks ELSE clicks,
     unit |-> IF clicks = Blank /\ s.clicks # Blank /\ unit = Unset THEN s.unit ELSE unit,
     tires |-> IF setup.tires = Unset THEN s.setup.tires ELSE setup.tires]

NothingCarried == [text |-> text, clicks |-> clicks, unit |-> unit, tires |-> setup.tires]

(* Start session.                                                          *)
StartSession ==
    /\ Gesture /\ stage = "day"
    /\ LET filled == IF OfBike = {} THEN NothingCarried ELSE Carried(sessions[Last(OfBike)]) IN
          /\ text' = filled.text /\ clicks' = filled.clicks /\ unit' = filled.unit
          /\ setup' = [setup EXCEPT !.tires = filled.tires]
          /\ recordedIn' = IF filled.clicks = clicks THEN recordedIn
                           ELSE UnitOf(sessions[Last(OfBike)].unit)
    /\ stage' = "pre"
    /\ UNCHANGED <<postUnlocked, preEditable, drag, sessions, touched>>
    /\ Rendered

BackIn ==
    /\ Gesture /\ stage = "pre"
    /\ postUnlocked' = TRUE /\ preEditable' = FALSE /\ stage' = "post"
    /\ UNCHANGED <<form, drag, sessions, touched, recordedIn>>
    /\ Rendered

CorrectPre ==
    /\ Gesture /\ stage = "post" /\ ~ preEditable
    /\ preEditable' = TRUE /\ stage' = "pre"
    /\ UNCHANGED <<form, postUnlocked, drag, sessions, touched, recordedIn>>
    /\ Rendered

(* The rail.                                                               *)
GoTo(s) ==
    /\ Gesture /\ s # stage
    /\ s = "post" => postUnlocked
    /\ stage' = s
    /\ UNCHANGED <<form, postUnlocked, preEditable, drag, sessions, touched, recordedIn>>
    /\ Rendered

NewSession ==
    /\ stage' = "day" /\ postUnlocked' = FALSE /\ preEditable' = TRUE

CollectSession == [setup |-> setup, text |-> text, clicks |-> clicks, unit |-> UnitOf(unit)]

(* clearTransientFields                                                    *)
Transient == Fields

(* Save & next, and its carry-over.                                        *)
SaveAndNext ==
    /\ Gesture
    /\ \E f \in Fields : text[f] # Blank
    /\ sessions' = Append(sessions, CollectSession)
    /\ text' = [f \in Fields |-> IF f \in Transient THEN Blank ELSE text[f]]
    /\ touched' = {} /\ NewSession
    /\ UNCHANGED <<clicks, unit, setup, drag, recordedIn>>
    /\ Rendered

(* clearForm empties text boxes; the unit store is a hidden input.         *)
Reset ==
    /\ Gesture
    /\ text' = [f \in Fields |-> Blank] /\ clicks' = Blank
    /\ setup' = [bike |-> Unset, tires |-> Unset]
    /\ touched' = {} /\ NewSession
    /\ UNCHANGED <<unit, drag, sessions, recordedIn>>
    /\ Rendered

(* Copy to form: an older session without units reads in the default.      *)
CopyToForm(i) ==
    /\ Gesture
    /\ text' = sessions[i].text /\ setup' = sessions[i].setup
    /\ clicks' = sessions[i].clicks /\ unit' = UnitOf(sessions[i].unit)
    /\ touched' = Fields /\ recordedIn' = UnitOf(sessions[i].unit) /\ NewSession
    /\ UNCHANGED <<drag, sessions>>
    /\ Rendered

(* Another tab saves; nothing is rendered here.                            *)
OtherTabSaves(s) ==
    /\ Gesture
    /\ sessions' = Append(sessions, s)
    /\ overtaken' = TRUE
    /\ UNCHANGED <<form, progress, drag, offer, touched, recordedIn>>

Init ==
    /\ text = [f \in Fields |-> Blank] /\ clicks = Blank /\ unit = Unset
    /\ setup = [bike |-> Unset, tires |-> Unset]
    /\ stage = "day" /\ postUnlocked = FALSE /\ preEditable = TRUE
    /\ drag = NoDrag /\ sessions = Before
    /\ offer = [f \in Fields |-> {}]
    /\ touched = {} /\ recordedIn = DefaultUnit /\ overtaken = FALSE /\ gestures = 0

Press ==
    \E f \in Fields :
        \/ \E dir \in {-1, 1} : Step(f, dir)
        \/ \E by \in {-100, -10, 10, 100} : Key(f, by)

PadStep ==
    \/ \E f \in Fields : Grab(f)
    \/ \E k \in Notches : DragTo(k)
    \/ Release

AdjusterPress == \E dir \in {-1, 1} : PressAdjuster(dir)

EntryStep ==
    \/ \E f \in Fields, t \in Typed : Type(f, t)
    \/ \E f \in Fields : SameAs(f)
    \/ \E t \in TypedClicks : TypeClicks(t)
    \/ \E u \in Units : ChooseUnit(u)
    \/ \E now \in Setups : EnterSetup(now)

SessionStep ==
    \/ StartSession \/ BackIn \/ CorrectPre \/ SaveAndNext \/ Reset
    \/ \E s \in {"day", "pre", "post"} : GoTo(s)
    \/ \E i \in DOMAIN sessions : CopyToForm(i)
    \/ \E s \in Elsewhere : OtherTabSaves(s)

Next == Press \/ PadStep \/ AdjusterPress \/ EntryStep \/ SessionStep

Spec == Init /\ [][Next]_vars

-----------------------------------------------------------------------------
Moved(f) == text'[f] # text[f]

(* Whatever a button, a key or a drag does to a pressure, it never touches *)
(* a locked one or, unless the drag began before it was typed, text that   *)
(* is no number the ruler can hold; it never takes a value that is in the  *)
(* range out of it, or a number that is not below zero under it; a button  *)
(* moves a number by exactly a tenth, and back by the other button while   *)
(* it is in range (rulerStep, setPressure, psiFromDrag).                   *)
GesturesKeepTheirWord ==
    [][\A f \in Fields :
        /\ Moved(f) /\ (Press \/ \E k \in Notches : DragTo(k)) =>
            /\ ~ Locked(f)
            /\ State(text'[f]) \in {"in-range", "typed-outside"}
            /\ drag.field # f => State(text[f]) \notin {"words", "unsupported"}
            /\ State(text[f]) = "in-range" => State(text'[f]) = "in-range"
            /\ text[f] # Blank /\ text'[f].n < 0 => text[f].n < text'[f].n
        /\ \A dir \in {-1, 1} :
            Step(f, dir) /\ text[f] # Blank =>
                /\ text'[f].n = text[f].n + dir * Tenth
                /\ text'[f].places >= text[f].places
                /\ State(text[f]) = "in-range" =>
                     \E back \in RulerStep(text'[f], 0 - dir, 0) : back.n = text[f].n
      ]_vars

(* A pressure in the form is today's: the rider typed, dragged, stepped or *)
(* chose it, or copied a session, since this form began; and "Same as"     *)
(* writes what its button read, another tab's save apart                   *)
(* (public/app.js:325, "no code path here writes a value the rider did not *)
(* type, drag, step or explicitly choose").                                *)
TodayIsMeasuredToday ==
    /\ \A f \in Fields : text[f] # Blank => f \in touched
    /\ ~ overtaken =>
         \A f \in Fields : offer[f] # {} => text[f] = Blank /\ offer[f] = Refs(f)

(* The adjuster's buttons count in the unit's own steps, end dead at the   *)
(* limit, and undo one another within it, through zero too.                *)
AdjusterCounts ==
    [][AdjusterPress =>
        LET u == UnitOf(unit) IN
        /\ 0 - UnitLimit(u) <= clicks'.n /\ clicks'.n <= UnitLimit(u)
        /\ clicks'.places = UnitPlaces(u)
        /\ clicks.places <= UnitPlaces(u) =>
             clicks'.n - clicks.n \in {UnitStep(u), 0 - UnitStep(u)}
        /\ clicks.places <= UnitPlaces(u) /\ clicks.n \in 0 - UnitLimit(u) .. UnitLimit(u) =>
             \E dir \in {-1, 1} : \E back \in AdjusterStep(clicks', dir, u) : back.n = clicks.n
      ]_vars

(* "The unit each adjuster was recorded in travels with its value"         *)
(* (public/app.js:633): the number shown is in the unit it was read in.    *)
UnitTravels == clicks # Blank => UnitOf(unit) = recordedIn
=============================================================================
