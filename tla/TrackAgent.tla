---------------------------- MODULE TrackAgent ----------------------------
(***************************************************************************)
(* The Track Agent review page (one tab), its Worker and its tables.  The  *)
(* page parses a note, shows the draft in a form, saves what the form      *)
(* holds and reads the saved session back.  None of its buttons waits for  *)
(* the request it started: parses and saves may be in flight side by side, *)
(* and their replies arrive in any order or not at all.  The tab's cookies *)
(* name the rider and hold the invite token; a link opened in another tab  *)
(* replaces them and a day ends them.                                      *)
(***************************************************************************)
EXTENDS TrackAgentPayload

CONSTANTS
    Notes,               \* texts a rider may type
    OutOfScope,          \* those evaluateTrackAgentInputScope refuses
    Heard,               \* the drafts a provider may return, by note
    Provider,            \* TRACK_AGENT_AI_PROVIDER
    Riders,              \* ids a link may name
    Users,               \* TRACK_AGENT_ALLOWED_USER_IDS
    OpenAccess,          \* TRACK_AGENT_ALLOW_OPEN_ACCESS, and not INVITE_ONLY
    Typed,               \* texts a rider may write into a field
    MaxParses, MaxSaves, \* presses of the two buttons, bounds
    MaxEvents            \* edits of the form, changes of the cookies, lost
                         \* requests and failed batches together, bound

Empty     == "empty"         \* no note
Anonymous == "anonymous"     \* no id: readAccessIdentity's default

ASSUME TrackAgentAssumption ==
    /\ Empty \notin Notes /\ Typed \subseteq Texts
    /\ Users \subseteq Riders \cup {Anonymous} /\ OpenAccess \in BOOLEAN
    /\ OutOfScope \subseteq Notes /\ DOMAIN Heard = Notes \ OutOfScope
    /\ \A n \in DOMAIN Heard : Heard[n] \subseteq Payloads
    /\ Provider \in {"mock", "ai_json"}
    /\ MaxParses \in Nat /\ MaxSaves \in Nat
    /\ MaxEvents \in Nat

VARIABLES
    rawNote,             \* state.rawNote
    review,              \* state.parsed, the review form, and the note both
                         \* came from
    canSave,             \* the Save button is enabled
    parseStatus, saveStatus,
    parses, saves,       \* requests, numbered in the order of the presses
    shown,               \* the session displayed as saved
    cookies,             \* the rider named, and whether the token is held
    sessions,            \* the tables: one element per committed batch
    overlapped,          \* history: the latest parse was pressed beside another
    events               \* bounds the model only

pageVars  == <<rawNote, review, canSave, parseStatus, saveStatus, shown>>
vars == <<pageVars, parses, saves, cookies, sessions, overlapped, events>>

Identities == [user : Riders \cup {Anonymous}, token : BOOLEAN]
Nobody     == [user |-> Anonymous, token |-> FALSE]

NoForm ==
    LET parsed == [session_label |-> Blank, lap_times |-> <<>>, tire_pressures |-> <<>>,
                   setup_changes |-> <<>>, notes |-> <<>>, warnings |-> <<>>]
    IN  [source |-> Empty, parsed |-> parsed, form |-> FormOf(parsed)]

Parsing == {k \in DOMAIN parses : parses[k].at \in {"sent", "asked", "ok", "refused"}}
Saving  == {j \in DOMAIN saves : saves[j].at \in {"sent", "stored", "refused", "reading",
                                                  "read", "missing"}}
Finished(save) == [save EXCEPT !.at = "done", !.as = Nobody, !.id = 0]

(* userHasPremiumAccess: a listed rider, or whoever holds the token, named *)
(* or not.                                                                 *)
Allowed(as) == OpenAccess \/ as.user \in Users \/ as.token

(* The page opens only to those it is open to.                             *)
Init ==
    /\ rawNote = Empty /\ review = NoForm /\ canSave = FALSE
    /\ parseStatus = "idle" /\ saveStatus = "idle"
    /\ parses = <<>> /\ saves = <<>>
    /\ shown = [id |-> 0]
    /\ cookies \in {as \in Identities : Allowed(as)}
    /\ sessions = <<>> /\ overlapped = FALSE
    /\ events = 0

-----------------------------------------------------------------------------
(* The page: parsing.                                                      *)

ParseRequest(n) == [at |-> "sent", note |-> n, as |-> cookies, draft |-> <<>>]
Done == [at |-> "done"]

(* Slip: Save stays enabled while a note is being parsed.                  *)
ParseNoteSaveEnabled(n) ==
    /\ Len(parses) < MaxParses
    /\ rawNote' = n
    /\ parseStatus' = "parsing"
    /\ overlapped' = (Parsing # {})
    /\ parses' = Append(parses, ParseRequest(n))
    /\ UNCHANGED <<review, canSave, saveStatus, shown>>
    /\ UNCHANGED <<saves, cookies, sessions, events>>

(* parseNote: the note of the latest press is the one a save will carry.   *)
ParseNote(n) ==
    /\ Len(parses) < MaxParses
    /\ rawNote' = n
    /\ canSave' = FALSE
    /\ parseStatus' = "parsing"
    /\ overlapped' = (Parsing # {})
    /\ parses' = Append(parses, ParseRequest(n))
    /\ UNCHANGED <<review, saveStatus, shown>>
    /\ UNCHANGED <<saves, cookies, sessions, events>>

ParseMoves(k, at, draft) ==
    /\ parses' = [parses EXCEPT ![k].at = at, ![k].draft = draft]
    /\ UNCHANGED <<pageVars, saves, cookies, sessions, overlapped, events>>

(* evaluateTrackAgentInputScope                                            *)
InScope(n) == n \in Notes \ OutOfScope

(* POST /track-agent/parse up to the provider; the built-in parser answers *)
(* at once, a model is asked.                                              *)
HandleParse(k) ==
    /\ parses[k].at = "sent"
    /\ \/ /\ ~ Allowed(parses[k].as) \/ ~ InScope(parses[k].note)
          /\ ParseMoves(k, "refused", <<>>)
       \/ /\ Allowed(parses[k].as) /\ InScope(parses[k].note)
          /\ IF Provider = "ai_json"
             THEN ParseMoves(k, "asked", <<>>)
             ELSE \E d \in Heard[parses[k].note] : ParseMoves(k, "ok", Normalized(d))

(* What a model may answer: the note it echoes, and whether the rest holds *)
(* an example of the prompt or advice.                                     *)
Answers == [raw : Notes, bleeds : BOOLEAN, advises : BOOLEAN]

(* validateAiPayloadContract, detectKnownExampleBleed and                  *)
(* validateTrackAgentOutputScope.                                          *)
Accepted(n, answer) ==
    answer.raw = n /\ ~ answer.bleeds /\ ~ answer.advises

(* The model's rows are taken to be of the note it echoes.                 *)
AiAnswers(k) ==
    /\ parses[k].at = "asked"
    /\ \E answer \in Answers :
          IF Accepted(parses[k].note, answer)
          THEN \E d \in Heard[answer.raw] : ParseMoves(k, "ok", Normalized(d))
          ELSE ParseMoves(k, "refused", <<>>)

(* Slip: nothing bounds the wait for the model.                            *)
AiNeverTimesOut(k) == FALSE /\ AiAnswers(k)

(* runWithTimeout                                                          *)
AiTimesOut(k) ==
    /\ parses[k].at = "asked"
    /\ ParseMoves(k, "refused", <<>>)

(* The reply fills the form and enables Save, whatever was pressed since.  *)
ParseReplies(k) ==
    /\ parses[k].at \in {"ok", "refused"}
    /\ parses' = [parses EXCEPT ![k] = Done]
    /\ IF parses[k].at = "ok"
       THEN /\ review' = [source |-> parses[k].note, parsed |-> parses[k].draft,
                          form |-> FormOf(parses[k].draft)]
            /\ canSave' = TRUE
            /\ parseStatus' = "parsed"
       ELSE /\ parseStatus' = "error"
            /\ UNCHANGED <<review, canSave>>
    /\ UNCHANGED <<rawNote, saveStatus, shown>>
    /\ UNCHANGED <<saves, cookies, sessions, overlapped, events>>

(* fetch rejects, or the body is not JSON.                                 *)
ParseLost(k) ==
    /\ events < MaxEvents
    /\ k \in Parsing
    /\ parses' = [parses EXCEPT ![k] = Done]
    /\ parseStatus' = "error"
    /\ events' = events + 1
    /\ UNCHANGED <<rawNote, review, canSave, saveStatus, shown>>
    /\ UNCHANGED <<saves, cookies, sessions, overlapped>>

Edited(form) ==
    {[form EXCEPT !.riderNote = text] : text \in Typed}
        \cup {[form EXCEPT !.warnings = <<text>>] : text \in Typed}

(* The rider corrects a field; "input" refreshes the preview.  Once Save   *)
(* is disabled, only a reply that refills the form enables it again.       *)
EditReview ==
    /\ events < MaxEvents /\ canSave
    /\ \E form \in Edited(review.form) \ {review.form} :
          review' = [review EXCEPT !.form = form]
    /\ events' = events + 1
    /\ UNCHANGED <<rawNote, canSave, parseStatus, saveStatus, shown>>
    /\ UNCHANGED <<parses, saves, cookies, sessions, overlapped>>

-----------------------------------------------------------------------------
(* Saving and reading back.                                                *)

(* buildPayloadFromForm: state.rawNote || the box, which is read here and  *)
(* by a press of Parse only, and may hold anything.                        *)
NotesToSave == IF rawNote # Empty THEN {rawNote} ELSE Notes \cup {Empty}

(* A press of Save: the request it sends, and, for the record, the form it *)
(* was pressed on and whether no two parses were under way at once.        *)
SavePressed(raw, payload) ==
    [at |-> "sent", as |-> cookies, id |-> 0, raw |-> raw, payload |-> payload,
     form |-> review.form, source |-> review.source, clear |-> ~ overlapped]

(* Slip: what was parsed is sent, without the rider's corrections.         *)
SaveRequestOfParsed(raw) == SavePressed(raw, review.parsed)

SaveRequest(raw) == SavePressed(raw, PayloadOf(review.form))

(* saveReviewed: the button stays enabled while the request is under way.  *)
SaveReviewed ==
    /\ canSave /\ Len(saves) < MaxSaves
    /\ saveStatus' = "saving"
    /\ \E raw \in NotesToSave : saves' = Append(saves, SaveRequest(raw))
    /\ UNCHANGED <<rawNote, review, canSave, parseStatus, shown>>
    /\ UNCHANGED <<parses, cookies, sessions, overlapped, events>>

SaveMoves(j, at, id) ==
    /\ saves' = [saves EXCEPT ![j].at = at, ![j].id = id]
    /\ UNCHANGED <<pageVars, parses, cookies, overlapped>>

(* saveReviewedTrackAgentSession: one batch, under fresh ids.              *)
Stored(j) ==
    [user |-> saves[j].as.user, raw |-> saves[j].raw, rows |-> RowsOf(saves[j].payload),
     press |-> j]

(* POST /track-agent/save                                                  *)
HandleSave(j) ==
    /\ saves[j].at = "sent"
    /\ IF Allowed(saves[j].as) /\ saves[j].raw # Empty
       THEN /\ sessions' = Append(sessions, Stored(j))
            /\ SaveMoves(j, "stored", Len(sessions'))
       ELSE SaveMoves(j, "refused", 0) /\ UNCHANGED sessions
    /\ UNCHANGED events

(* The batch rolls back and the handler throws.                            *)
SaveBatchFails(j) ==
    /\ saves[j].at = "sent" /\ events < MaxEvents
    /\ Allowed(saves[j].as) /\ saves[j].raw # Empty
    /\ events' = events + 1
    /\ SaveMoves(j, "refused", 0)
    /\ UNCHANGED sessions

(* The page asks for the session by the id of the reply, with the cookies  *)
(* of that moment.                                                         *)
SaveReplies(j) ==
    /\ saves[j].at \in {"stored", "refused"}
    /\ IF saves[j].at = "stored"
       THEN /\ saves' = [saves EXCEPT ![j].at = "reading", ![j].as = cookies]
            /\ UNCHANGED saveStatus
       ELSE /\ saves' = [saves EXCEPT ![j] = Finished(@)]
            /\ saveStatus' = "error"
    /\ UNCHANGED <<rawNote, review, canSave, parseStatus, shown>>
    /\ UNCHANGED <<parses, cookies, sessions, overlapped, events>>

(* Slip: a session is found by its id alone.                               *)
VisibleToAll(as, id) == Allowed(as)

(* getTrackAgentSession: WHERE s.id = ? AND s.user_id = ?                  *)
Visible(as, id) == Allowed(as) /\ sessions[id].user = as.user

HandleReadBack(j) ==
    /\ saves[j].at = "reading"
    /\ SaveMoves(j, IF Visible(saves[j].as, saves[j].id) THEN "read" ELSE "missing",
                 saves[j].id)
    /\ UNCHANGED <<sessions, events>>

(* renderSaved, or "not_found" for a session that is stored.               *)
ReadReplies(j) ==
    /\ saves[j].at \in {"read", "missing"}
    /\ saves' = [saves EXCEPT ![j] = Finished(@)]
    /\ IF saves[j].at = "read"
       THEN /\ shown' = [id |-> saves[j].id, user |-> saves[j].as.user,
                         rows |-> sessions[saves[j].id].rows]
            /\ saveStatus' = "saved"
       ELSE saveStatus' = "error" /\ UNCHANGED shown
    /\ UNCHANGED <<rawNote, review, canSave, parseStatus>>
    /\ UNCHANGED <<parses, cookies, sessions, overlapped, events>>

(* The save's or the read-back's request or reply is lost.                 *)
SaveLost(j) ==
    /\ events < MaxEvents
    /\ j \in Saving
    /\ saves' = [saves EXCEPT ![j] = Finished(@)]
    /\ saveStatus' = "error"
    /\ events' = events + 1
    /\ UNCHANGED <<rawNote, review, canSave, parseStatus, shown>>
    /\ UNCHANGED <<parses, cookies, sessions, overlapped>>

-----------------------------------------------------------------------------
(* The cookies: a link opened in another tab (requireTrackAgentAccess sets *)
(* what the link names for those it lets in), and Max-Age.                 *)
SetCookies(as) ==
    /\ events < MaxEvents
    /\ as # cookies
    /\ cookies' = as
    /\ events' = events + 1
    /\ UNCHANGED <<pageVars, parses, saves, sessions, overlapped>>

OpenLink ==
    \E rider \in Riders \cup {cookies.user}, token \in {cookies.token, TRUE} :
       LET as == [user |-> rider, token |-> token] IN
       Allowed(as) /\ SetCookies(as)

CookieExpires ==
    \E rider \in {cookies.user, Anonymous}, token \in {cookies.token, FALSE} :
       SetCookies([user |-> rider, token |-> token])

Server ==
    \/ \E k \in DOMAIN parses : HandleParse(k) \/ AiTimesOut(k)
    \/ \E j \in DOMAIN saves : HandleSave(j) \/ HandleReadBack(j)

Replies ==
    \/ \E k \in DOMAIN parses : ParseReplies(k)
    \/ \E j \in DOMAIN saves : SaveReplies(j) \/ ReadReplies(j)

Next ==
    \/ \E n \in Notes \cup {Empty} : ParseNote(n)
    \/ EditReview \/ SaveReviewed
    \/ Server \/ Replies
    \/ \E k \in DOMAIN parses : AiAnswers(k) \/ ParseLost(k)
    \/ \E j \in DOMAIN saves : SaveBatchFails(j) \/ SaveLost(j)
    \/ OpenLink \/ CookieExpires

Spec == Init /\ [][Next]_vars /\ WF_vars(Server) /\ WF_vars(Replies)

-----------------------------------------------------------------------------
(* What is stored of a session is what the form held when Save was pressed *)
(* and not what was parsed, or is parsed, edited or saved while the        *)
(* request is on its way: every row the preview showed, as it showed it,   *)
(* and every warning, those of low value and repeats apart; its label is   *)
(* not stored (StoredWhole below).  One press stores at most one session   *)
(* (saveReviewed, normalizeReviewedTrackAgentPayload).                     *)
StoredAsReviewed ==
    \A i \in DOMAIN sessions :
        LET s == sessions[i]  p == saves[s.press] IN
        /\ StoresForm(s.rows, p.form)
        /\ p.at \in {"stored", "reading", "read", "missing", "done"}
        /\ \A j \in DOMAIN sessions : sessions[j].press = s.press => j = i

(* The raw note of a stored session is the note its rows were parsed from, *)
(* and so one the scope policy let through, unless two parses were under   *)
(* way at once (parseNote disables Save until the reply is there).         *)
NoteOfRows ==
    \A i \in DOMAIN sessions :
        saves[sessions[i].press].clear =>
            sessions[i].raw = saves[sessions[i].press].source

(* What the page displays as saved was stored for the id it was read back  *)
(* for, and is what one of this page's presses previewed, whatever link    *)
(* was opened or cookie expired since (getTrackAgentSession, renderSaved). *)
(* Without an id, that is whoever holds the token.                         *)
ReadBackIsOwn ==
    /\ saveStatus = "saved" => shown.id # 0
    /\ shown.id # 0 =>
          /\ sessions[shown.id].user = shown.user
          /\ StoresForm(shown.rows, saves[sessions[shown.id].press].form)

(* Normalising drops nothing the provider heard but what it takes for a    *)
(* repetition: in a reply on its way each note survives, case and          *)
(* punctuation apart, inside a note of its own area, each setup change     *)
(* leaves one of its component that is at least as long, and each warning  *)
(* that is not of low value one that reads alike (dedupeNotes,             *)
(* dedupeSetupChanges, collapseWarnings).  The form shows the first rows   *)
(* of what is left.                                                        *)
HeardSurvives ==
    \A k \in DOMAIN parses : parses[k].at = "ok" =>
        \E d \in Heard[parses[k].note] :
            /\ NotesSurvive(d.notes, parses[k].draft.notes)
            /\ ChangesSurvive(d.setup_changes, parses[k].draft.setup_changes)
            /\ WarningsSurvive(d.warnings, parses[k].draft.warnings)

(* "Parsing..." and "Saving..." always give way to an outcome, though a    *)
(* model may never answer (runWithTimeout).                                *)
PageSettles ==
    /\ parseStatus = "parsing" ~> parseStatus # "parsing"
    /\ saveStatus = "saving" ~> saveStatus # "saving"

-----------------------------------------------------------------------------
(* What documents and comments of the code say, and the code does not      *)
(* keep.                                                                   *)

(* "entry.raw_note stores the full original rider note"                    *)
(* (docs/track-agent-review-payload.md:101), with no exception.            *)
RawNoteIsOriginal ==
    \A i \in DOMAIN sessions : sessions[i].raw = saves[sessions[i].press].source

(* What the "Canonical Payload Preview" (ui.js:242) shows is stored whole: *)
(* the session's label and the warnings too.                               *)
StoredWhole ==
    \A i \in DOMAIN sessions : sessions[i].rows = PayloadOf(saves[sessions[i].press].form)

(* Two notes, or two changes, that differ in a sign only are two.          *)
SignsSurvive ==
    \A k \in DOMAIN parses : parses[k].at = "ok" =>
        \E d \in Heard[parses[k].note] :
            /\ \A i \in DOMAIN d.notes : \E j \in DOMAIN parses[k].draft.notes :
                  d.notes[i].note \subseteq parses[k].draft.notes[j].note
            /\ \A i \in DOMAIN d.setup_changes : \E j \in DOMAIN parses[k].draft.setup_changes :
                  d.setup_changes[i].change
                      \subseteq parses[k].draft.setup_changes[j].change
===========================================================================
