--------------------------- MODULE FeedbackPulse ---------------------------
(***************************************************************************)
(* Written feedback and the one-tap experience pulse: the dialog and the   *)
(* inline prompt of the notebook's tabs, the cadence kept in two web       *)
(* storages, the double-submit cookies the tabs share, and the two intake  *)
(* routes with their tables.  Requests are handled in any order, answers   *)
(* may be lost, and the dialog may be closed, and opened for something     *)
(* else, before its answer is there.                                       *)
(*                                                                         *)
(* A cookie is named by the tab whose page fetched it last: a tab's token  *)
(* matches while the cookie is still its own.  One client sends from one   *)
(* address, so there is one rate bucket for each purpose.  A text is       *)
(* named by a number, and a new text is a new number.                      *)
(***************************************************************************)
EXTENDS Naturals, Sequences, FiniteSets

CONSTANTS
    Tabs,
    Writers,             \* those in which feedback is written
    FeedbackLimit, PulseLimit,  \* posts an hour
    Window,              \* VERSION_WINDOW_DAYS, in days
    MaxDays, MaxReleases,\* bounds
    MaxTexts,            \* texts typed, bound
    MaxPosts,            \* presses of Send, bound
    MaxPrompts,          \* prompts shown, bound
    MaxFaults            \* lost answers, failed storages, databases and
                         \* bootstraps, reloads, sweeps, deployments and
                         \* expired cookies, bound

ASSUME FeedbackAssumption ==
    /\ Writers \subseteq Tabs
    /\ Window \in Nat \ {0} /\ FeedbackLimit \in Nat /\ PulseLimit \in Nat
    /\ MaxDays \in Nat /\ MaxReleases \in Nat \ {0} /\ MaxTexts \in Nat
    /\ MaxPosts \in Nat /\ MaxPrompts \in Nat /\ MaxFaults \in Nat

VARIABLES
    page,                \* what each tab's page holds
    session,             \* each tab's sessionStorage
    stamp,               \* localStorage: the day a release was last shown
    cookie,              \* the tab each purpose's cookie belongs to
    posts,               \* feedback requests, in the order of the presses
    prompts,             \* pulses shown, and how far each got
    spent,               \* the rate buckets of this hour
    feedback, pulses,    \* the tables
    linked,              \* a pulse being recorded for another client
    day, release,
    unstamped,           \* history: releases whose stamp could not be kept,
                         \* and tabs whose session could not
    overlapped,          \* history: tabs whose dialog was opened or written
                         \* in with an earlier post still on its way
    unheard,             \* history: prompts whose row was written by an
                         \* insert that then reported a failure
    faults

server == <<spent, feedback, pulses>>
vars == <<page, session, stamp, cookie, posts, prompts, server, linked,
          day, release, unstamped, overlapped, unheard, faults>>

None  == 0
Never == MaxDays + 1

Purposes == {"feedback", "pulse"}

Closed == [open |-> FALSE, text |-> None, status |-> "", canSend |-> TRUE,
           thanked |-> FALSE]

NoPage == [dialog |-> Closed, tokens |-> {}, version |-> None]

Fault == faults < MaxFaults /\ faults' = faults + 1

Texts == {posts[k].text : k \in DOMAIN posts} \cup {page[t].dialog.text : t \in Tabs}

-----------------------------------------------------------------------------
(* Tokens (bootstrap, fetchToken, handleFeedbackToken, handlePulseToken).  *)

Matches(t, purpose) == purpose \in page[t].tokens /\ cookie[purpose] = {t}

(* A page starts: both routes are asked for a token, and what does not     *)
(* answer stays hidden on that page.  The sessionStorage outlives a        *)
(* reload; what the last page had on its way goes unanswered.              *)
Load(t) ==
    /\ \E got \in SUBSET Purposes :
          /\ IF page[t] = NoPage /\ got = Purposes THEN UNCHANGED faults ELSE Fault
          /\ page' = [page EXCEPT ![t] = [dialog |-> Closed, tokens |-> got,
                          version |-> IF "pulse" \in got THEN release ELSE None]]
          /\ cookie' = [purpose \in Purposes |->
                           IF purpose \in got THEN {t} ELSE cookie[purpose]]
    /\ posts' = [k \in DOMAIN posts |->
                   IF posts[k].tab = t THEN [posts[k] EXCEPT !.at = "done"] ELSE posts[k]]
    /\ prompts' = [i \in DOMAIN prompts |->
                     IF prompts[i].tab = t /\ prompts[i].at # "thanked"
                     THEN [prompts[i] EXCEPT !.at = "removed"] ELSE prompts[i]]
    /\ UNCHANGED <<session, stamp, server, linked, day, release, unstamped, overlapped, unheard>>

CookieExpires(purpose) ==
    /\ Fault /\ cookie[purpose] # {}
    /\ cookie' = [cookie EXCEPT ![purpose] = {}]
    /\ UNCHANGED <<page, session, stamp, posts, prompts, server, linked, day, release,
                   unstamped, overlapped, unheard>>

-----------------------------------------------------------------------------
(* The feedback dialog.                                                    *)

InFlight(t) == {k \in DOMAIN posts : posts[k].tab = t /\ posts[k].at # "done"}

SetDialog(t, d) == page' = [page EXCEPT ![t].dialog = d]

Open(t) ==
    /\ "feedback" \in page[t].tokens /\ ~ page[t].dialog.open
    /\ SetDialog(t, [page[t].dialog EXCEPT !.open = TRUE, !.status = "", !.thanked = FALSE])
    /\ overlapped' = IF InFlight(t) = {} THEN overlapped \ {t} ELSE overlapped \cup {t}
    /\ UNCHANGED <<session, stamp, cookie, posts, prompts, server, linked, day, release,
                   unstamped, faults, unheard>>

(* Nothing keeps the dialog open, or its boxes shut, while it sends.       *)
Close(t) ==
    /\ page[t].dialog.open
    /\ SetDialog(t, [Closed EXCEPT !.thanked = page[t].dialog.thanked])
    /\ UNCHANGED <<session, stamp, cookie, posts, prompts, server, linked, day, release,
                   unstamped, overlapped, faults, unheard>>

Write(t) ==
    LET d == page[t].dialog IN
    /\ d.open /\ ~ d.thanked
    /\ \E n \in 1 .. MaxTexts :
          /\ n \notin Texts /\ \A m \in 1 .. n - 1 : m \in Texts
          /\ SetDialog(t, [d EXCEPT !.text = n])
    /\ overlapped' = IF InFlight(t) = {} THEN overlapped ELSE overlapped \cup {t}
    /\ UNCHANGED <<session, stamp, cookie, posts, prompts, server, linked, day, release,
                   unstamped, faults, unheard>>

(* The submit handler, with or without an address nobody could write to.   *)
Send(t, address) ==
    LET d == page[t].dialog IN
    /\ d.open /\ ~ d.thanked /\ d.canSend /\ d.text # None
    /\ Len(posts) < MaxPosts
    /\ posts' = Append(posts, [tab |-> t, text |-> d.text, address |-> address,
                               valid |-> Matches(t, "feedback"), at |-> "sent"])
    /\ SetDialog(t, [d EXCEPT !.canSend = FALSE, !.status = "sending"])
    /\ UNCHANGED <<session, stamp, cookie, prompts, server, linked, day, release,
                   unstamped, overlapped, faults, unheard>>

(* underLimit                                                              *)
UnderLimit(purpose, limit) ==
    /\ spent[purpose] < limit
    /\ spent' = [spent EXCEPT ![purpose] = @ + 1]

AtLimit(purpose, limit) == spent[purpose] >= limit /\ UNCHANGED spent

Settle(k, at) == posts' = [posts EXCEPT ![k].at = at]

(* handleFeedback and createFeedback.                                      *)
HandleFeedback(k) ==
    /\ posts[k].at = "sent"
    /\ \/ /\ ~ posts[k].valid
          /\ Settle(k, "refused") /\ UNCHANGED <<spent, feedback, faults>>
       \/ /\ posts[k].valid /\ AtLimit("feedback", FeedbackLimit)
          /\ Settle(k, "refused") /\ UNCHANGED <<feedback, faults>>
       \/ /\ posts[k].valid /\ UnderLimit("feedback", FeedbackLimit)
          /\ \/ /\ posts[k].address = "wrong"
                /\ Settle(k, "invalid") /\ UNCHANGED <<feedback, faults>>
             \/ /\ posts[k].address # "wrong"
                /\ feedback' = Append(feedback, [text |-> posts[k].text, swept |-> FALSE])
                /\ \/ Settle(k, "stored") /\ UNCHANGED faults
                   \/ Fault /\ Settle(k, "refused")
             \/ Fault /\ Settle(k, "refused") /\ UNCHANGED feedback
    /\ UNCHANGED <<page, session, stamp, cookie, prompts, pulses, linked, day, release,
                   unstamped, overlapped, unheard>>

(* Slip: any answer is thanked for.                                        *)
FeedbackAnsweredAlways(k) ==
    LET t == posts[k].tab  d == page[t].dialog IN
    /\ posts[k].at \in {"stored", "refused", "invalid"}
    /\ Settle(k, "done")
    /\ SetDialog(t, [d EXCEPT !.thanked = TRUE, !.status = "thanks"])
    /\ session' = [session EXCEPT ![t] = @ \cup {"feedbackSubmitted"}]
    /\ UNCHANGED <<stamp, cookie, prompts, server, linked, day, release, unstamped,
                   overlapped, faults, unheard>>

(* The answer finds whatever the dialog has become meanwhile.  The session *)
(* is told, in its storage, that feedback was given.                       *)
FeedbackAnswered(k) ==
    LET t == posts[k].tab  d == page[t].dialog IN
    /\ posts[k].at \in {"stored", "refused", "invalid"}
    /\ Settle(k, "done")
    /\ \/ /\ posts[k].at = "stored"
          /\ SetDialog(t, [d EXCEPT !.thanked = TRUE, !.status = "thanks"])
          /\ \/ /\ session' = [session EXCEPT ![t] = @ \cup {"feedbackSubmitted"}]
                /\ UNCHANGED <<unstamped, faults>>
             \/ /\ Fault /\ unstamped' = unstamped \cup {t}
                /\ UNCHANGED session
       \/ /\ posts[k].at # "stored"
          /\ SetDialog(t, [d EXCEPT !.canSend = TRUE, !.status = "failed"])
          /\ UNCHANGED <<session, unstamped, faults>>
    /\ UNCHANGED <<stamp, cookie, prompts, server, linked, day, release, overlapped, unheard>>

(* fetch rejects, whether or not the post arrived.                         *)
FeedbackLost(k) ==
    LET t == posts[k].tab IN
    /\ posts[k].at # "done" /\ Fault
    /\ Settle(k, "done")
    /\ SetDialog(t, [page[t].dialog EXCEPT !.canSend = TRUE, !.status = "failed"])
    /\ UNCHANGED <<session, stamp, cookie, prompts, server, linked, day, release,
                   unstamped, overlapped, unheard>>

-----------------------------------------------------------------------------
(* The pulse (experience-pulse-cadence.js and pulseClient).                *)

(* Slip: a session that gave feedback may be asked.                        *)
ShouldAutoPromptAfterFeedback(t) ==
    LET v == page[t].version IN
    /\ "shown" \notin session[t]
    /\ stamp[v] = Never \/ day - stamp[v] >= Window

(* shouldAutoPrompt: not twice in a session, not after feedback, and not   *)
(* twice for a release within the window.                                  *)
ShouldAutoPrompt(t) ==
    LET v == page[t].version IN
    /\ "shown" \notin session[t] /\ "feedbackSubmitted" \notin session[t]
    /\ stamp[v] = Never \/ day - stamp[v] >= Window

(* recordPulsePrompted: either storage may refuse.                         *)
RecordPulsePrompted(t) ==
    LET v == page[t].version IN
    \/ /\ session' = [session EXCEPT ![t] = @ \cup {"shown"}]
       /\ stamp' = [stamp EXCEPT ![v] = day]
       /\ UNCHANGED <<unstamped, faults>>
    \/ /\ Fault /\ session' = [session EXCEPT ![t] = @ \cup {"shown"}]
       /\ unstamped' = unstamped \cup {v} /\ UNCHANGED stamp
    \/ /\ Fault /\ stamp' = [stamp EXCEPT ![v] = day]
       /\ unstamped' = unstamped \cup {t} /\ UNCHANGED session

(* maybePrompt, after a save or a summary.                                 *)
MaybePrompt(t) ==
    /\ Len(prompts) < MaxPrompts
    /\ "pulse" \in page[t].tokens /\ ShouldAutoPrompt(t)
    /\ prompts' = Append(prompts,
                    [tab |-> t, day |-> day, release |-> page[t].version, at |-> "asked",
                     valid |-> FALSE, after |-> "feedbackSubmitted" \in session[t]])
    /\ RecordPulsePrompted(t)
    /\ UNCHANGED <<page, cookie, posts, server, linked, day, release, overlapped, unheard>>

Advance(i, at) == prompts' = [prompts EXCEPT ![i].at = at]

PostPulse(i, at) ==
    prompts' = [prompts EXCEPT ![i].at = at, ![i].valid = Matches(prompts[i].tab, "pulse")]

(* One of the three answers is tapped; all are disabled from here on.      *)
Tap(i) ==
    /\ prompts[i].at = "asked"
    /\ PostPulse(i, "sent")
    /\ UNCHANGED <<page, session, stamp, cookie, posts, server, linked, day, release,
                   unstamped, overlapped, faults, unheard>>

(* insertPulse                                                             *)
RowOf(i, link) == pulses' = Append(pulses, [prompt |-> i, link |-> link])

(* handlePulse; a tap names no feedback.  An insert that fails may have    *)
(* written its row, and is answered 503 all the same.                      *)
HandlePulse(i) ==
    LET refused == IF prompts[i].at = "sent" THEN "refused" ELSE "refusedAgain"
        stored  == IF prompts[i].at = "sent" THEN "stored" ELSE "storedAtLast"
    IN
    /\ prompts[i].at \in {"sent", "resent"}
    /\ \/ /\ ~ prompts[i].valid
          /\ Advance(i, refused) /\ UNCHANGED <<spent, pulses, unheard, faults>>
       \/ /\ prompts[i].valid /\ AtLimit("pulse", PulseLimit)
          /\ Advance(i, refused) /\ UNCHANGED <<pulses, unheard, faults>>
       \/ /\ prompts[i].valid /\ UnderLimit("pulse", PulseLimit)
          /\ \/ /\ RowOf(i, None)
                /\ Advance(i, stored) /\ UNCHANGED <<unheard, faults>>
             \/ /\ Fault /\ Advance(i, refused)
                /\ \/ UNCHANGED <<pulses, unheard>>
                   \/ RowOf(i, None) /\ unheard' = unheard \cup {i}
    /\ UNCHANGED <<page, session, stamp, cookie, posts, feedback, linked, day, release,
                   unstamped, overlapped>>

(* 201, or the end of the second try.                                      *)
PulseAnswered(i) ==
    /\ \/ prompts[i].at \in {"stored", "storedAtLast"} /\ Advance(i, "thanked")
       \/ prompts[i].at = "refusedAgain" /\ Advance(i, "removed")
    /\ UNCHANGED <<page, session, stamp, cookie, posts, server, linked, day, release,
                   unstamped, overlapped, faults, unheard>>

(* Anything but a 201: a new token, or none, and the same tap once more.   *)
Remint(i) ==
    /\ prompts[i].at = "refused"
    /\ \/ /\ page' = [page EXCEPT ![prompts[i].tab].version = release]
          /\ cookie' = [cookie EXCEPT !["pulse"] = {prompts[i].tab}]
          /\ UNCHANGED faults
       \/ Fault /\ UNCHANGED <<page, cookie>>
    /\ Advance(i, "minted")
    /\ UNCHANGED <<session, stamp, posts, server, linked, day, release,
                   unstamped, overlapped, unheard>>

Retry(i) ==
    /\ prompts[i].at = "minted"
    /\ PostPulse(i, "resent")
    /\ UNCHANGED <<page, session, stamp, cookie, posts, server, linked, day, release,
                   unstamped, overlapped, faults, unheard>>

(* A request rejects: the prompt goes, whatever the server did.            *)
PulseLost(i) ==
    /\ prompts[i].at \notin {"asked", "thanked", "removed"} /\ Fault
    /\ Advance(i, "removed")
    /\ UNCHANGED <<page, session, stamp, cookie, posts, server, linked, day, release,
                   unstamped, overlapped, unheard>>

-----------------------------------------------------------------------------
(* A pulse that names the feedback it goes with (createExperiencePulse),   *)
(* and the retention sweep of closed feedback.                             *)

Live == {j \in DOMAIN feedback : ~ feedback[j].swept}

(* resolveFeedbackId                                                       *)
ResolveFeedbackId ==
    /\ linked.at = "idle"
    /\ \E j \in DOMAIN feedback :
          linked' = [at |-> "resolved", link |-> IF j \in Live THEN j ELSE None]
    /\ UNCHANGED <<page, session, stamp, cookie, posts, prompts, server, day, release,
                   unstamped, overlapped, faults, unheard>>

(* Slip: what the foreign key refused is answered and not inserted again.  *)
InsertLinkedOnce ==
    /\ linked.at = "resolved"
    /\ linked' = [linked EXCEPT !.at = "done"]
    /\ IF linked.link \in Live \cup {None} THEN RowOf(None, linked.link)
                                           ELSE UNCHANGED pulses
    /\ UNCHANGED <<page, session, stamp, cookie, posts, prompts, spent, feedback, day,
                   release, unstamped, overlapped, faults, unheard>>

(* The insert, and after any failure of one that names feedback once more, *)
(* of the same id and without the link: what the first wrote before it     *)
(* failed, the second is refused for.                                      *)
InsertLinked ==
    LET kept == IF linked.link \in Live THEN linked.link ELSE None IN
    /\ linked.at = "resolved"
    /\ \/ /\ linked' = [linked EXCEPT !.at = "done"]
          /\ \/ RowOf(None, kept) /\ UNCHANGED faults
             \/ linked.link # None /\ Fault /\ RowOf(None, None)
       \/ /\ linked' = [linked EXCEPT !.at = "refused"] /\ Fault
          /\ \/ UNCHANGED pulses
             \/ RowOf(None, kept)
    /\ UNCHANGED <<page, session, stamp, cookie, posts, prompts, spent, feedback, day,
                   release, unstamped, overlapped, unheard>>

(* ON DELETE SET NULL.                                                     *)
SweepFeedback(j) ==
    /\ j \in Live /\ Fault
    /\ feedback' = [feedback EXCEPT ![j].swept = TRUE]
    /\ pulses' = [p \in DOMAIN pulses |->
                    IF pulses[p].link = j THEN [pulses[p] EXCEPT !.link = None] ELSE pulses[p]]
    /\ UNCHANGED <<page, session, stamp, cookie, posts, prompts, spent, linked, day, release,
                   unstamped, overlapped, unheard>>

-----------------------------------------------------------------------------
NextDay ==
    /\ day < MaxDays /\ day' = day + 1
    /\ spent' = [purpose \in Purposes |-> 0]
    /\ UNCHANGED <<page, session, stamp, cookie, posts, prompts, feedback, pulses, linked,
                   release, unstamped, overlapped, faults, unheard>>

Deploy ==
    /\ Fault /\ release < MaxReleases /\ release' = release + 1
    /\ UNCHANGED <<page, session, stamp, cookie, posts, prompts, server, linked, day,
                   unstamped, overlapped, unheard>>

Init ==
    /\ page = [t \in Tabs |-> NoPage] /\ session = [t \in Tabs |-> {}]
    /\ stamp = [v \in 1 .. MaxReleases |-> Never]
    /\ cookie = [purpose \in Purposes |-> {}]
    /\ posts = <<>> /\ prompts = <<>>
    /\ spent = [purpose \in Purposes |-> 0]
    /\ feedback = <<>> /\ pulses = <<>> /\ linked = [at |-> "idle", link |-> None]
    /\ day = 0 /\ release = 1 /\ unstamped = {} /\ overlapped = {}
    /\ unheard = {} /\ faults = 0

DialogStep == \E t \in Writers :
    Open(t) \/ Close(t) \/ Write(t) \/ \E address \in {"none", "wrong"} : Send(t, address)

FeedbackStep ==
    \E k \in DOMAIN posts : HandleFeedback(k) \/ FeedbackAnswered(k) \/ FeedbackLost(k)

PulseStep ==
    \/ \E t \in Tabs : MaybePrompt(t)
    \/ \E i \in DOMAIN prompts :
          \/ Tap(i) \/ HandlePulse(i) \/ PulseAnswered(i)
          \/ Remint(i) \/ Retry(i) \/ PulseLost(i)

WorldStep ==
    \/ \E purpose \in Purposes : CookieExpires(purpose)
    \/ ResolveFeedbackId \/ InsertLinked
    \/ \E j \in DOMAIN feedback : SweepFeedback(j)
    \/ NextDay \/ Deploy
    \/ \E t \in Tabs : Load(t)

Next == DialogStep \/ FeedbackStep \/ PulseStep \/ WorldStep

Spec == Init /\ [][Next]_vars

-----------------------------------------------------------------------------
(* "at most 1 AUTOMATIC pulse prompt per app session AND at most 1 per     *)
(* app_version in a rolling 7-day window AND never immediately after a     *)
(* written Feedback submission" (public/experience-pulse-cadence.js:10),   *)
(* for every session and release whose storage did not refuse a record:    *)
(* each storage holds its own half of the ceiling when the other fails.    *)
CadenceCeiling ==
    /\ \A i, j \in DOMAIN prompts : i < j =>
         /\ prompts[i].tab = prompts[j].tab => prompts[i].tab \in unstamped
         /\ prompts[i].release = prompts[j].release /\ prompts[i].release \notin unstamped
              => prompts[j].day - prompts[i].day >= Window
    /\ \A i \in DOMAIN prompts : ~ prompts[i].after

(* "Thanks for the feedback." stands over a text that was stored, unless   *)
(* the dialog was opened again or written in while an earlier post was on  *)
(* its way; and a pulse that was thanked for is stored.                    *)
AcknowledgedIsStored ==
    /\ \A t \in Tabs :
         LET d == page[t].dialog IN
         d.open /\ d.status = "thanks" /\ t \notin overlapped =>
            \E j \in DOMAIN feedback : feedback[j].text = d.text
    /\ \A i \in DOMAIN prompts :
         prompts[i].at = "thanked" => \E p \in DOMAIN pulses : pulses[p].prompt = i

(* A tap is counted once, whatever was retried, unless its row was written *)
(* by an insert that then reported a failure; no pulse names feedback that *)
(* is gone; and a pulse answered as recorded is, even when the feedback it *)
(* names was swept before the insert                                       *)
(* (src/experience-pulse-service.js:137, "A pulse must never be lost").    *)
PulsesSound ==
    /\ \A p, q \in DOMAIN pulses :
         p # q /\ pulses[p].prompt \notin unheard \cup {None}
            => pulses[p].prompt # pulses[q].prompt
    /\ \A p \in DOMAIN pulses : pulses[p].link \in Live \cup {None}
    /\ linked.at = "done" => \E p \in DOMAIN pulses : pulses[p].prompt = None

(* "opening the modal and submitting need no further fetches"              *)
(* (public/app.js): what is sent from an open page whose cookie has not    *)
(* run out is not refused for its token.                                   *)
TokenLasts == \A k \in DOMAIN posts : faults = 0 => posts[k].valid

(* "a pulse measures ONE experience instance"                              *)
(* (src/experience-pulse-service.js:8): no tap is counted twice.           *)
TapsCountedOnce ==
    \A p, q \in DOMAIN pulses :
        p # q /\ pulses[p].prompt # None => pulses[p].prompt # pulses[q].prompt

(* "Thanks for the feedback." is only ever said of what the rider wrote.   *)
ThanksForThisText ==
    \A t \in Tabs :
        LET d == page[t].dialog IN
        d.open /\ d.status = "thanks" => \E j \in DOMAIN feedback : feedback[j].text = d.text
=============================================================================
