------------------------ MODULE FeedbackPulseProofs ------------------------
(***************************************************************************)
(* Theorems about FeedbackPulse, for any number of tabs, posts and prompts *)
(* and every value of the limits and bounds.                               *)
(***************************************************************************)
EXTENDS FeedbackPulse, SequenceTheorems, TLAPS

(* The group only abbreviates an UNCHANGED conjunct of the actions.        *)
USE DEF server

-----------------------------------------------------------------------------
(* Types.                                                                  *)

Dialogs == [open : BOOLEAN, text : 0 .. MaxTexts, status : {"", "sending", "thanks", "failed"},
            canSend : BOOLEAN, thanked : BOOLEAN]

PageStates == {p \in [dialog : Dialogs, tokens : SUBSET Purposes, version : 0 .. MaxReleases] :
                 "pulse" \in p.tokens => p.version # None}

PostStates == [tab : Tabs, text : 1 .. MaxTexts, address : {"none", "wrong"}, valid : BOOLEAN,
               at : {"sent", "refused", "invalid", "stored", "done"}]

Recorded == {"stored", "storedAtLast", "thanked"}
Over     == Recorded \cup {"removed"}
Waiting  == {"asked", "sent", "refused", "minted", "resent", "refusedAgain"}

PromptStates == [tab : Tabs, day : 0 .. MaxDays, release : 1 .. MaxReleases,
                 at : Over \cup Waiting, valid : BOOLEAN, after : BOOLEAN]

FeedbackRows == [text : 1 .. MaxTexts, swept : BOOLEAN]
PulseRows    == [prompt : Nat, link : Nat]

PulseTypes ==
    /\ page \in [Tabs -> PageStates]
    /\ session \in [Tabs -> SUBSET {"shown", "feedbackSubmitted"}]
    /\ stamp \in [1 .. MaxReleases -> 0 .. Never]
    /\ cookie \in [Purposes -> SUBSET Tabs]
    /\ posts \in Seq(PostStates) /\ prompts \in Seq(PromptStates)
    /\ spent \in [Purposes -> Nat]
    /\ feedback \in Seq(FeedbackRows) /\ pulses \in Seq(PulseRows)
    /\ linked \in [at : {"idle", "resolved", "done", "refused"}, link : Nat]
    /\ day \in 0 .. MaxDays /\ release \in 1 .. MaxReleases /\ faults \in 0 .. MaxFaults

-----------------------------------------------------------------------------
(* The invariant.                                                          *)

Written == {feedback[j].text : j \in DOMAIN feedback}

(* A tab whose dialog is the one its posts were sent from.                 *)
Settled(t) == page[t].dialog.open /\ t \notin overlapped

(* What is on its way is the text that the open dialog holds, and an       *)
(* answer that says stored has its row.                                    *)
DialogInv ==
    /\ \A k \in DOMAIN posts :
         /\ posts[k].at = "stored" => posts[k].text \in Written
         /\ posts[k].at # "done" /\ Settled(posts[k].tab)
              => posts[k].text = page[posts[k].tab].dialog.text
    /\ \A t \in Tabs :
         page[t].dialog.status = "thanks" =>
            page[t].dialog.thanked /\ (Settled(t) => page[t].dialog.text \in Written)

(* A prompt left its mark in each storage that took it: the session knows  *)
(* that it was asked, and the release's stamp is no earlier than the       *)
(* prompt.                                                                 *)
CadenceInv ==
    /\ CadenceCeiling
    /\ \A i \in DOMAIN prompts :
         /\ prompts[i].day <= day
         /\ prompts[i].tab \in unstamped \/ "shown" \in session[prompts[i].tab]
         /\ \/ prompts[i].release \in unstamped
            \/ stamp[prompts[i].release] \in prompts[i].day .. day

(* A prompt still waiting for its 201 has no row but one that an insert    *)
(* wrote before it failed, and a prompt that had its 201 has a row.        *)
CountedInv ==
    /\ PulsesSound
    /\ \A p \in DOMAIN pulses :
         pulses[p].prompt # None =>
            /\ pulses[p].prompt \in DOMAIN prompts
            /\ \/ prompts[pulses[p].prompt].at \in Over
               \/ pulses[p].prompt \in unheard
    /\ \A i \in DOMAIN prompts :
         prompts[i].at \in Recorded => \E p \in DOMAIN pulses : pulses[p].prompt = i

FeedbackPulseInv == PulseTypes /\ DialogInv /\ CadenceInv /\ CountedInv

-----------------------------------------------------------------------------
(* Sequences that grow, and sequences one entry of which changes.          *)

LEMMA UpdatedSeq ==
    ASSUME NEW S, NEW s \in Seq(S), NEW i \in DOMAIN s, NEW e \in S
    PROVE  /\ [s EXCEPT ![i] = e] \in Seq(S)
           /\ DOMAIN [s EXCEPT ![i] = e] = DOMAIN s
           /\ s[i] \in S
           /\ \A j \in DOMAIN s : [s EXCEPT ![i] = e][j] = IF j = i THEN e ELSE s[j]
  <1>1. DOMAIN s = 1 .. Len(s) /\ s \in [1 .. Len(s) -> S]
    BY LenProperties
  <1>2. [s EXCEPT ![i] = e] \in Seq(S)
    BY <1>1, ExceptSeq
  <1> QED
    BY <1>1, <1>2

LEMMA MappedSeq ==
    ASSUME NEW S, NEW s \in Seq(S), NEW m \in [DOMAIN s -> S]
    PROVE  m \in Seq(S)
  <1>1. DOMAIN s = 1 .. Len(s) /\ Len(s) \in Nat
    BY LenProperties
  <1> QED
    BY <1>1 DEF Seq

LEMMA GrownSeq ==
    ASSUME NEW S, NEW s \in Seq(S), NEW e \in S
    PROVE  /\ Append(s, e) \in Seq(S)
           /\ Len(s) \in Nat /\ Len(s) + 1 \notin DOMAIN s
           /\ DOMAIN s = 1 .. Len(s)
           /\ DOMAIN Append(s, e) = DOMAIN s \cup {Len(s) + 1}
           /\ \A j \in DOMAIN s : Append(s, e)[j] = s[j]
           /\ Append(s, e)[Len(s) + 1] = e
  <1>1. DOMAIN s = 1 .. Len(s) /\ Len(s) \in Nat
    BY LenProperties
  <1>2. /\ Append(s, e) \in Seq(S) /\ Len(Append(s, e)) = Len(s) + 1
        /\ \A j \in 1 .. Len(s) : Append(s, e)[j] = s[j]
        /\ Append(s, e)[Len(s) + 1] = e
    BY AppendProperties
  <1>3. DOMAIN Append(s, e) = 1 .. Len(s) + 1
    BY <1>2, LenProperties
  <1> QED
    BY <1>1, <1>2, <1>3

LEMMA EntryOfSeq ==
    ASSUME NEW S, NEW s \in Seq(S), NEW i \in DOMAIN s
    PROVE  s[i] \in S
  BY LenProperties, ElementOfSeq

-----------------------------------------------------------------------------
(* What each part of the invariant survives.                               *)

LEMMA PostEntries ==
    ASSUME FeedbackPulseInv, NEW k \in DOMAIN posts
    PROVE  posts[k] \in PostStates /\ posts[k].tab \in Tabs
  <1>1. posts \in Seq(PostStates)
    BY DEF FeedbackPulseInv, PulseTypes
  <1>2. posts[k] \in PostStates
    BY <1>1, EntryOfSeq
  <1> QED
    BY <1>2 DEF PostStates

LEMMA PromptEntries ==
    ASSUME FeedbackPulseInv, NEW i \in DOMAIN prompts
    PROVE  prompts[i] \in PromptStates
  <1>1. prompts \in Seq(PromptStates)
    BY DEF FeedbackPulseInv, PulseTypes
  <1> QED
    BY <1>1, EntryOfSeq

(* A step that leaves the posts and what the dialogs hold alone.           *)
LEMMA DialogStands ==
    ASSUME FeedbackPulseInv, posts' = posts, overlapped' = overlapped,
           \A t \in Tabs : page'[t].dialog = page[t].dialog,
           \A j \in DOMAIN feedback :
              j \in DOMAIN feedback' /\ feedback'[j].text = feedback[j].text
    PROVE  DialogInv'
  <1>1. Written \subseteq Written'
    BY DEF Written
  <1>2. \A k \in DOMAIN posts : posts[k].tab \in Tabs
    BY PostEntries
  <1> QED
    BY <1>1, <1>2 DEF FeedbackPulseInv, DialogInv, Settled

(* A step that shows no prompt: nothing the cadence rests on is undone.    *)
LEMMA CadenceStands ==
    ASSUME FeedbackPulseInv, DOMAIN prompts' = DOMAIN prompts,
           \A i \in DOMAIN prompts :
              /\ prompts'[i].tab = prompts[i].tab /\ prompts'[i].day = prompts[i].day
              /\ prompts'[i].release = prompts[i].release
              /\ prompts'[i].after = prompts[i].after,
           \A t \in Tabs : session[t] \subseteq session'[t],
           stamp' = stamp, unstamped \subseteq unstamped',
           day' \in Nat, day <= day'
    PROVE  CadenceInv'
  <1>1. \A i \in DOMAIN prompts : prompts[i] \in PromptStates
    BY PromptEntries
  <1>2. \A i \in DOMAIN prompts :
           /\ prompts[i].tab \in Tabs /\ prompts[i].day \in Nat
           /\ prompts[i].release \in 1 .. MaxReleases
           /\ day \in Nat /\ stamp[prompts[i].release] \in Nat
    BY <1>1, FeedbackAssumption DEF FeedbackPulseInv, PulseTypes, PromptStates, Never
  <1>3. CadenceCeiling'
    BY <1>2 DEF FeedbackPulseInv, CadenceInv, CadenceCeiling
  <1>4. \A i \in DOMAIN prompts :
           /\ prompts[i].day <= day'
           /\ prompts[i].tab \in unstamped' \/ "shown" \in session'[prompts[i].tab]
           /\ \/ prompts[i].release \in unstamped'
              \/ stamp'[prompts[i].release] \in prompts[i].day .. day'
    BY <1>2 DEF FeedbackPulseInv, CadenceInv
  <1> QED
    BY <1>3, <1>4 DEF CadenceInv

(* A step that stores no pulse and sweeps no feedback, and moves no prompt *)
(* over the line between those waiting and those that are over.            *)
LEMMA CountedStands ==
    ASSUME FeedbackPulseInv, pulses' = pulses, unheard' = unheard, Live \subseteq Live',
           linked'.at = "done" => linked.at = "done",
           DOMAIN prompts \subseteq DOMAIN prompts',
           \A i \in DOMAIN prompts :
              /\ prompts[i].at \in Over => prompts'[i].at \in Over
              /\ prompts'[i].at \in Recorded => prompts[i].at \in Recorded,
           \A i \in DOMAIN prompts' \ DOMAIN prompts : prompts'[i].at = "asked"
    PROVE  CountedInv'
  BY DEF FeedbackPulseInv, CountedInv, PulsesSound, Recorded

(* A post, or a prompt, that gets on.                                      *)
LEMMA PostMoves ==
    ASSUME FeedbackPulseInv, NEW k \in DOMAIN posts,
           NEW at \in {"sent", "refused", "invalid", "stored", "done"}, Settle(k, at)
    PROVE  /\ posts' \in Seq(PostStates) /\ DOMAIN posts' = DOMAIN posts
           /\ \A j \in DOMAIN posts :
                /\ posts'[j].tab = posts[j].tab /\ posts'[j].text = posts[j].text
                /\ posts'[j].at = IF j = k THEN at ELSE posts[j].at
  <1>1. posts \in Seq(PostStates)
    BY DEF FeedbackPulseInv, PulseTypes
  <1>2. posts[k] \in PostStates
    BY <1>1, EntryOfSeq
  <1> DEFINE settled == [posts[k] EXCEPT !.at = at]
  <1>3. /\ settled \in PostStates /\ settled.at = at
        /\ settled.tab = posts[k].tab /\ settled.text = posts[k].text
    BY <1>2 DEF PostStates
  <1>4. posts' = [posts EXCEPT ![k] = settled]
    BY DEF Settle
  <1> HIDE DEF settled
  <1>5. /\ posts' \in Seq(PostStates) /\ DOMAIN posts' = DOMAIN posts
        /\ \A j \in DOMAIN posts : posts'[j] = IF j = k THEN settled ELSE posts[j]
    BY <1>1, <1>3, <1>4, UpdatedSeq
  <1> QED
    BY <1>3, <1>5

LEMMA PromptMoves ==
    ASSUME FeedbackPulseInv, NEW i \in DOMAIN prompts, NEW at \in Over \cup Waiting,
           Advance(i, at) \/ PostPulse(i, at)
    PROVE  /\ prompts' \in Seq(PromptStates) /\ DOMAIN prompts' = DOMAIN prompts
           /\ prompts[i] \in PromptStates
           /\ prompts'[i].at = at
           /\ \A j \in DOMAIN prompts :
                /\ j # i => prompts'[j] = prompts[j]
                /\ prompts'[j].tab = prompts[j].tab /\ prompts'[j].day = prompts[j].day
                /\ prompts'[j].release = prompts[j].release
                /\ prompts'[j].after = prompts[j].after
  <1>1. prompts \in Seq(PromptStates)
    BY DEF FeedbackPulseInv, PulseTypes
  <1>2. prompts[i] \in PromptStates
    BY <1>1, EntryOfSeq
  <1>3. PICK moved \in PromptStates :
           /\ prompts' = [prompts EXCEPT ![i] = moved]
           /\ moved.at = at /\ moved.tab = prompts[i].tab /\ moved.day = prompts[i].day
           /\ moved.release = prompts[i].release /\ moved.after = prompts[i].after
    <2>1. CASE Advance(i, at)
      <3> DEFINE m == [prompts[i] EXCEPT !.at = at]
      <3>1. m \in PromptStates
        BY <1>2 DEF PromptStates
      <3>2. prompts' = [prompts EXCEPT ![i] = m]
        BY <2>1 DEF Advance
      <3>3. /\ m.at = at /\ m.tab = prompts[i].tab /\ m.day = prompts[i].day
            /\ m.release = prompts[i].release /\ m.after = prompts[i].after
        BY <1>2 DEF PromptStates
      <3> QED
        BY <3>1, <3>2, <3>3
    <2>2. CASE PostPulse(i, at)
      <3> DEFINE ok == Matches(prompts[i].tab, "pulse")
                 m  == [prompts[i] EXCEPT !.at = at, !.valid = ok]
      <3>1. m \in PromptStates
        BY <1>2 DEF PromptStates, Matches
      <3>2. prompts' = [prompts EXCEPT ![i] = m]
        BY <2>2 DEF PostPulse
      <3>3. /\ m.at = at /\ m.tab = prompts[i].tab /\ m.day = prompts[i].day
            /\ m.release = prompts[i].release /\ m.after = prompts[i].after
        BY <1>2 DEF PromptStates
      <3> QED
        BY <3>1, <3>2, <3>3
    <2> QED
      BY <2>1, <2>2
  <1>4. /\ prompts' \in Seq(PromptStates) /\ DOMAIN prompts' = DOMAIN prompts
        /\ \A j \in DOMAIN prompts : prompts'[j] = IF j = i THEN moved ELSE prompts[j]
    BY <1>1, <1>3, UpdatedSeq
  <1> QED
    BY <1>2, <1>3, <1>4

(* A step that changes the dialog of one tab.                              *)
LEMMA PageOfDialog ==
    ASSUME FeedbackPulseInv, NEW t \in Tabs, NEW d \in Dialogs, SetDialog(t, d)
    PROVE  /\ page' \in [Tabs -> PageStates]
           /\ page'[t].dialog = d
           /\ \A u \in Tabs : u # t => page'[u] = page[u]
  <1>1. page \in [Tabs -> PageStates]
    BY DEF FeedbackPulseInv, PulseTypes
  <1>2. page' = [page EXCEPT ![t] = [page[t] EXCEPT !.dialog = d]]
    BY DEF SetDialog
  <1>3. /\ [page[t] EXCEPT !.dialog = d] \in PageStates
        /\ [page[t] EXCEPT !.dialog = d].dialog = d
    BY <1>1 DEF PageStates
  <1> QED
    BY <1>1, <1>2, <1>3

LEMMA DialogChanges ==
    ASSUME FeedbackPulseInv, NEW t \in Tabs, NEW d \in Dialogs, SetDialog(t, d),
           \A u \in Tabs : u # t => (u \in overlapped' <=> u \in overlapped),
           feedback' = feedback, DOMAIN posts' = DOMAIN posts,
           \A k \in DOMAIN posts :
              /\ posts'[k].tab = posts[k].tab /\ posts'[k].text = posts[k].text
              /\ posts'[k].at \in {"done", posts[k].at},
           d.status = "thanks" =>
              d.thanked /\ (d.open /\ t \notin overlapped' => d.text \in Written),
           d.open /\ t \notin overlapped' =>
              \A k \in DOMAIN posts :
                 posts[k].tab = t /\ posts'[k].at # "done" => posts[k].text = d.text
    PROVE  DialogInv'
  <1>1. /\ page'[t].dialog = d
        /\ \A u \in Tabs : u # t => page'[u] = page[u]
    BY PageOfDialog
  <1>2. Written' = Written
    BY DEF Written
  <1>3. \A u \in Tabs : Settled(u)' <=> IF u = t THEN d.open /\ t \notin overlapped'
                                               ELSE Settled(u)
    BY <1>1 DEF Settled
  <1>4. ASSUME NEW k \in DOMAIN posts
        PROVE  /\ posts'[k].at = "stored" => posts'[k].text \in Written'
               /\ posts'[k].at # "done" /\ Settled(posts[k].tab)'
                     => posts'[k].text = page'[posts'[k].tab].dialog.text
    <2>1. posts[k].tab \in Tabs
      BY PostEntries
    <2>2. posts'[k].at = "stored" => posts'[k].text \in Written'
      BY <1>2 DEF FeedbackPulseInv, DialogInv
    <2>3. CASE posts[k].tab = t
      BY <2>2, <2>3, <1>1, <1>3
    <2>4. CASE posts[k].tab # t
      BY <2>1, <2>2, <2>4, <1>1, <1>3 DEF FeedbackPulseInv, DialogInv
    <2> QED
      BY <2>3, <2>4
  <1>5. \A u \in Tabs :
           page'[u].dialog.status = "thanks" =>
              page'[u].dialog.thanked /\ (Settled(u)' => page'[u].dialog.text \in Written')
    BY <1>1, <1>2, <1>3 DEF FeedbackPulseInv, DialogInv
  <1> QED
    BY <1>4, <1>5 DEF DialogInv

(* What a tab's page holds.                                                *)
LEMMA PageEntries ==
    ASSUME FeedbackPulseInv, NEW t \in Tabs
    PROVE  page[t] \in PageStates /\ page[t].dialog \in Dialogs
  BY DEF FeedbackPulseInv, PulseTypes, PageStates

LEMMA FaultCounts == FeedbackPulseInv /\ Fault => faults' \in 0 .. MaxFaults
  BY FeedbackAssumption DEF FeedbackPulseInv, PulseTypes, Fault

-----------------------------------------------------------------------------
(* The dialog.                                                             *)

LEMMA OpenKeeps ==
    ASSUME FeedbackPulseInv, NEW t \in Writers, Open(t)
    PROVE  FeedbackPulseInv'
  <1> DEFINE d == [page[t].dialog EXCEPT !.open = TRUE, !.status = "", !.thanked = FALSE]
  <1>1. t \in Tabs /\ page[t].dialog \in Dialogs
    BY FeedbackAssumption, PageEntries
  <1>2. /\ d \in Dialogs /\ d.status = "" /\ d.text = page[t].dialog.text
        /\ ~ page[t].dialog.open
    BY <1>1 DEF Dialogs, Open
  <1>3. /\ SetDialog(t, d)
        /\ overlapped' = IF InFlight(t) = {} THEN overlapped \ {t} ELSE overlapped \cup {t}
        /\ UNCHANGED <<session, stamp, cookie, posts, prompts, server, linked, day, release,
                       unstamped, unheard, faults>>
    BY DEF Open
  <1> HIDE DEF d
  <1>4. PulseTypes'
    BY <1>1, <1>2, <1>3, PageOfDialog DEF FeedbackPulseInv, PulseTypes
  <1>5. DialogInv'
    <2>1. t \notin overlapped' =>
            \A k \in DOMAIN posts : posts[k].tab = t => posts[k].at = "done"
      BY <1>3 DEF InFlight
    <2> QED
      BY <1>1, <1>2, <1>3, <2>1, DialogChanges
  <1>6. CadenceInv'
    BY <1>3, CadenceStands DEF FeedbackPulseInv, PulseTypes
  <1>7. CountedInv'
    BY <1>3, CountedStands DEF Live
  <1> QED
    BY <1>4, <1>5, <1>6, <1>7 DEF FeedbackPulseInv

LEMMA CloseKeeps ==
    ASSUME FeedbackPulseInv, NEW t \in Writers, Close(t)
    PROVE  FeedbackPulseInv'
  <1> DEFINE d == [Closed EXCEPT !.thanked = page[t].dialog.thanked]
  <1>1. t \in Tabs /\ page[t].dialog \in Dialogs
    BY FeedbackAssumption, PageEntries
  <1>2. d \in Dialogs /\ d.status = "" /\ ~ d.open
    <2>1. 0 \in 0 .. MaxTexts
      BY FeedbackAssumption
    <2>2. /\ Closed \in Dialogs /\ Closed.status = "" /\ ~ Closed.open
      BY <2>1 DEF Dialogs, Closed, None
    <2>3. page[t].dialog.thanked \in BOOLEAN
      BY <1>1, Zenon DEF Dialogs
    <2> QED
      BY <2>2, <2>3 DEF Dialogs
  <1>3. /\ SetDialog(t, d)
        /\ UNCHANGED <<session, stamp, cookie, posts, prompts, server, linked, day, release,
                       unstamped, overlapped, unheard, faults>>
    BY DEF Close
  <1> HIDE DEF d
  <1>4. PulseTypes'
    BY <1>1, <1>2, <1>3, PageOfDialog DEF FeedbackPulseInv, PulseTypes
  <1>5. DialogInv'
    BY <1>1, <1>2, <1>3, DialogChanges
  <1>6. CadenceInv'
    BY <1>3, CadenceStands DEF FeedbackPulseInv, PulseTypes
  <1>7. CountedInv'
    BY <1>3, CountedStands DEF Live
  <1> QED
    BY <1>4, <1>5, <1>6, <1>7 DEF FeedbackPulseInv

LEMMA WriteKeeps ==
    ASSUME FeedbackPulseInv, NEW t \in Writers, Write(t)
    PROVE  FeedbackPulseInv'
  <1>1. t \in Tabs /\ page[t].dialog \in Dialogs
    BY FeedbackAssumption, PageEntries
  <1>2. PICK n \in 1 .. MaxTexts : SetDialog(t, [page[t].dialog EXCEPT !.text = n])
    BY DEF Write
  <1> DEFINE d == [page[t].dialog EXCEPT !.text = n]
  <1>3. /\ d \in Dialogs /\ d.status = page[t].dialog.status
        /\ d.thanked = page[t].dialog.thanked /\ ~ page[t].dialog.thanked
    <2>1. n \in 0 .. MaxTexts /\ ~ page[t].dialog.thanked
      BY DEF Write
    <2> QED
      BY <1>1, <2>1 DEF Dialogs
  <1>4. /\ SetDialog(t, d)
        /\ overlapped' = IF InFlight(t) = {} THEN overlapped ELSE overlapped \cup {t}
        /\ UNCHANGED <<session, stamp, cookie, posts, prompts, server, linked, day, release,
                       unstamped, unheard, faults>>
    BY <1>2 DEF Write
  <1> HIDE DEF d
  <1>5. PulseTypes'
    BY <1>1, <1>3, <1>4, PageOfDialog DEF FeedbackPulseInv, PulseTypes
  <1>6. DialogInv'
    <2>1. t \notin overlapped' =>
            \A k \in DOMAIN posts : posts[k].tab = t => posts[k].at = "done"
      BY <1>4 DEF InFlight
    <2>2. d.status # "thanks"
      BY <1>1, <1>3 DEF FeedbackPulseInv, DialogInv
    <2> QED
      BY <1>1, <1>3, <1>4, <2>1, <2>2, DialogChanges
  <1>7. CadenceInv'
    BY <1>4, CadenceStands DEF FeedbackPulseInv, PulseTypes
  <1>8. CountedInv'
    BY <1>4, CountedStands DEF Live
  <1> QED
    BY <1>5, <1>6, <1>7, <1>8 DEF FeedbackPulseInv

LEMMA SendKeeps ==
    ASSUME FeedbackPulseInv, NEW t \in Writers, NEW address \in {"none", "wrong"},
           Send(t, address)
    PROVE  FeedbackPulseInv'
  <1> DEFINE d    == [page[t].dialog EXCEPT !.canSend = FALSE, !.status = "sending"]
             post == [tab |-> t, text |-> page[t].dialog.text, address |-> address,
                      valid |-> Matches(t, "feedback"), at |-> "sent"]
  <1>1. t \in Tabs /\ page[t].dialog \in Dialogs
    BY FeedbackAssumption, PageEntries
  <1>2. /\ d \in Dialogs /\ d.status = "sending" /\ d.text = page[t].dialog.text
        /\ d.open /\ page[t].dialog.open
    BY <1>1 DEF Dialogs, Send
  <1>3. /\ SetDialog(t, d) /\ posts' = Append(posts, post)
        /\ UNCHANGED <<session, stamp, cookie, prompts, server, linked, day, release,
                       unstamped, overlapped, unheard, faults>>
    BY DEF Send
  <1>4. /\ post \in PostStates /\ post.tab = t /\ post.text = d.text /\ post.at = "sent"
    <2>1. page[t].dialog.text \in 1 .. MaxTexts
      <3>1. page[t].dialog.text \in 0 .. MaxTexts
        BY <1>1 DEF Dialogs
      <3>2. page[t].dialog.text # 0
        BY DEF Send, None
      <3> QED
        BY <3>1, <3>2, FeedbackAssumption
    <2> QED
      BY <1>1, <1>2, <2>1 DEF PostStates, Matches
  <1> HIDE DEF d, post
  <1>5. posts \in Seq(PostStates)
    BY DEF FeedbackPulseInv, PulseTypes
  <1>6. /\ posts' \in Seq(PostStates) /\ DOMAIN posts' = DOMAIN posts \cup {Len(posts) + 1}
        /\ \A k \in DOMAIN posts : posts'[k] = posts[k]
        /\ posts'[Len(posts) + 1] = post
    BY <1>3, <1>4, <1>5, GrownSeq
  <1>7. /\ page' \in [Tabs -> PageStates] /\ page'[t].dialog = d
        /\ \A u \in Tabs : u # t => page'[u] = page[u]
    BY <1>1, <1>2, <1>3, PageOfDialog
  <1>8. PulseTypes'
    BY <1>3, <1>6, <1>7 DEF FeedbackPulseInv, PulseTypes
  <1>9. DialogInv'
    <2>1. Written' = Written
      BY <1>3 DEF Written
    <2>2. \A u \in Tabs : /\ Settled(u)' <=> Settled(u)
                         /\ page'[u].dialog.text = page[u].dialog.text
      BY <1>2, <1>3, <1>7 DEF Settled
    <2>3. \A u \in Tabs : page'[u].dialog.status = "thanks" =>
             page[u].dialog.status = "thanks" /\ page'[u].dialog = page[u].dialog
      BY <1>2, <1>7
    <2>4. \A k \in DOMAIN posts : posts[k].tab \in Tabs
      BY PostEntries
    <2>5. \A k \in DOMAIN posts' :
            /\ posts'[k].at = "stored" => posts'[k].text \in Written'
            /\ posts'[k].at # "done" /\ Settled(posts[k].tab)'
                  => posts'[k].text = page'[posts'[k].tab].dialog.text
      BY <1>4, <1>6, <1>7, <2>1, <2>2, <2>4 DEF FeedbackPulseInv, DialogInv
    <2>6. \A u \in Tabs : page'[u].dialog.status = "thanks" =>
             page'[u].dialog.thanked /\ (Settled(u)' => page'[u].dialog.text \in Written')
      BY <2>1, <2>2, <2>3 DEF FeedbackPulseInv, DialogInv
    <2> QED
      BY <2>5, <2>6 DEF DialogInv
  <1>10. CadenceInv'
    BY <1>3, CadenceStands DEF FeedbackPulseInv, PulseTypes
  <1>11. CountedInv'
    BY <1>3, CountedStands DEF Live
  <1> QED
    BY <1>8, <1>9, <1>10, <1>11 DEF FeedbackPulseInv

LEMMA SpentKeeps ==
    ASSUME FeedbackPulseInv, NEW purpose \in Purposes, NEW limit,
           UnderLimit(purpose, limit) \/ UNCHANGED spent
    PROVE  spent' \in [Purposes -> Nat]
  <1>1. spent \in [Purposes -> Nat]
    BY DEF FeedbackPulseInv, PulseTypes
  <1>2. CASE UnderLimit(purpose, limit)
    BY <1>1, <1>2 DEF UnderLimit
  <1> QED
    BY <1>1, <1>2

LEMMA HandleFeedbackKeeps ==
    ASSUME FeedbackPulseInv, NEW k \in DOMAIN posts, HandleFeedback(k)
    PROVE  FeedbackPulseInv'
  <1>1. /\ UNCHANGED <<page, session, stamp, cookie, prompts, pulses, linked, day, release,
                       unstamped, overlapped, unheard>>
        /\ posts[k].at = "sent" /\ (Fault \/ UNCHANGED faults)
        /\ (UnderLimit("feedback", FeedbackLimit) \/ UNCHANGED spent)
    BY DEF HandleFeedback, AtLimit
  <1>2. PICK at \in {"refused", "invalid", "stored"} :
           /\ Settle(k, at)
           /\ \/ feedback' = Append(feedback, [text |-> posts[k].text, swept |-> FALSE])
              \/ UNCHANGED feedback /\ at # "stored"
    BY DEF HandleFeedback
  <1>3. posts[k] \in PostStates /\ posts[k].text \in 1 .. MaxTexts
    BY PostEntries DEF PostStates
  <1>4. /\ posts' \in Seq(PostStates) /\ DOMAIN posts' = DOMAIN posts
        /\ \A j \in DOMAIN posts :
             /\ posts'[j].tab = posts[j].tab /\ posts'[j].text = posts[j].text
             /\ posts'[j].at = IF j = k THEN at ELSE posts[j].at
    <2>1. at \in {"sent", "refused", "invalid", "stored", "done"} /\ Settle(k, at)
      BY <1>2
    <2> QED
      BY <2>1, PostMoves
  <1>5. /\ feedback' \in Seq(FeedbackRows) /\ DOMAIN feedback \subseteq DOMAIN feedback'
        /\ \A j \in DOMAIN feedback : feedback'[j] = feedback[j]
        /\ at = "stored" => posts[k].text \in Written'
    <2>1. feedback \in Seq(FeedbackRows)
      BY DEF FeedbackPulseInv, PulseTypes
    <2>2. CASE feedback' # feedback \/ at = "stored"
      <3> DEFINE row == [text |-> posts[k].text, swept |-> FALSE]
      <3>1. row \in FeedbackRows /\ row.text = posts[k].text
        BY <1>3 DEF FeedbackRows
      <3>2. feedback' = Append(feedback, row)
        BY <1>2, <2>2
      <3> HIDE DEF row
      <3>3. /\ feedback' \in Seq(FeedbackRows)
            /\ DOMAIN feedback' = DOMAIN feedback \cup {Len(feedback) + 1}
            /\ \A j \in DOMAIN feedback : feedback'[j] = feedback[j]
            /\ feedback'[Len(feedback) + 1] = row
        BY <2>1, <3>1, <3>2, GrownSeq
      <3> QED
        BY <3>1, <3>3 DEF Written
    <2>3. CASE UNCHANGED feedback /\ at # "stored"
      BY <2>1, <2>3
    <2> QED
      BY <2>2, <2>3
  <1>6. PulseTypes'
    <2>1. spent' \in [Purposes -> Nat] /\ faults' \in 0 .. MaxFaults
      BY <1>1, SpentKeeps, FaultCounts DEF Purposes, FeedbackPulseInv, PulseTypes
    <2> QED
      BY <1>1, <1>4, <1>5, <2>1 DEF FeedbackPulseInv, PulseTypes
  <1>7. DialogInv'
    <2>1. Written \subseteq Written'
      BY <1>5 DEF Written
    <2>2. \A u \in Tabs : Settled(u)' <=> Settled(u)
      BY <1>1 DEF Settled
    <2>3. ASSUME NEW j \in DOMAIN posts
          PROVE  /\ posts'[j].at = "stored" => posts'[j].text \in Written'
                 /\ posts'[j].at # "done" /\ Settled(posts[j].tab)'
                       => posts'[j].text = page'[posts'[j].tab].dialog.text
      <3>1. posts[j].tab \in Tabs
        BY PostEntries
      <3>2. posts'[j].at = "stored" => posts'[j].text \in Written'
        BY <1>2, <1>4, <1>5, <2>1 DEF FeedbackPulseInv, DialogInv
      <3>3. posts'[j].at # "done" => posts[j].at # "done"
        BY <1>1, <1>4
      <3> QED
        BY <1>1, <1>4, <2>2, <3>1, <3>2, <3>3 DEF FeedbackPulseInv, DialogInv
    <2>4. \A u \in Tabs : page'[u].dialog.status = "thanks" =>
             page'[u].dialog.thanked /\ (Settled(u)' => page'[u].dialog.text \in Written')
      BY <1>1, <2>1, <2>2 DEF FeedbackPulseInv, DialogInv
    <2> QED
      BY <1>4, <2>3, <2>4 DEF DialogInv
  <1>8. CadenceInv'
    BY <1>1, CadenceStands DEF FeedbackPulseInv, PulseTypes
  <1>9. CountedInv'
    <2>1. Live \subseteq Live'
      BY <1>5 DEF Live
    <2> QED
      BY <1>1, <2>1, CountedStands
  <1> QED
    BY <1>6, <1>7, <1>8, <1>9 DEF FeedbackPulseInv

LEMMA FeedbackAnsweredKeeps ==
    ASSUME FeedbackPulseInv, NEW k \in DOMAIN posts, FeedbackAnswered(k)
    PROVE  FeedbackPulseInv'
  <1> DEFINE t == posts[k].tab
  <1>1. /\ posts[k] \in PostStates /\ t \in Tabs /\ posts[k].text \in 1 .. MaxTexts
        /\ page[t].dialog \in Dialogs
    BY PostEntries, PageEntries DEF PostStates
  <1>2. /\ posts[k].at \in {"stored", "refused", "invalid"} /\ Settle(k, "done")
        /\ UNCHANGED <<stamp, cookie, prompts, server, linked, day, release, overlapped, unheard>>
        /\ (Fault \/ UNCHANGED faults) /\ unstamped \subseteq unstamped'
        /\ session' \in {session, [session EXCEPT ![t] = @ \cup {"feedbackSubmitted"}]}
    BY DEF FeedbackAnswered
  <1>3. PICK d \in Dialogs :
           /\ SetDialog(t, d) /\ d.text = page[t].dialog.text /\ d.open = page[t].dialog.open
           /\ d.status = "thanks" => d.thanked /\ posts[k].at = "stored"
    <2>1. CASE posts[k].at = "stored"
      <3> DEFINE e == [page[t].dialog EXCEPT !.thanked = TRUE, !.status = "thanks"]
      <3>1. /\ e \in Dialogs /\ e.text = page[t].dialog.text /\ e.open = page[t].dialog.open
            /\ e.thanked
        BY <1>1 DEF Dialogs
      <3>2. SetDialog(t, e)
        BY <2>1 DEF FeedbackAnswered
      <3> QED
        BY <2>1, <3>1, <3>2
    <2>2. CASE posts[k].at # "stored"
      <3> DEFINE e == [page[t].dialog EXCEPT !.canSend = TRUE, !.status = "failed"]
      <3>1. /\ e \in Dialogs /\ e.text = page[t].dialog.text /\ e.open = page[t].dialog.open
            /\ e.status # "thanks"
        BY <1>1 DEF Dialogs
      <3>2. SetDialog(t, e)
        BY <2>2 DEF FeedbackAnswered
      <3> QED
        BY <3>1, <3>2
    <2> QED
      BY <2>1, <2>2
  <1>4. /\ posts' \in Seq(PostStates) /\ DOMAIN posts' = DOMAIN posts
        /\ \A j \in DOMAIN posts :
             /\ posts'[j].tab = posts[j].tab /\ posts'[j].text = posts[j].text
             /\ posts'[j].at = IF j = k THEN "done" ELSE posts[j].at
    BY <1>2, PostMoves
  <1> HIDE DEF t
  <1>5. /\ session' \in [Tabs -> SUBSET {"shown", "feedbackSubmitted"}]
        /\ \A u \in Tabs : session[u] \subseteq session'[u]
    <2>1. session \in [Tabs -> SUBSET {"shown", "feedbackSubmitted"}]
      BY DEF FeedbackPulseInv, PulseTypes
    <2>2. CASE session' = session
      BY <2>1, <2>2
    <2>3. CASE session' = [session EXCEPT ![t] = @ \cup {"feedbackSubmitted"}]
      BY <1>1, <2>1, <2>3
    <2> QED
      BY <1>2, <2>2, <2>3
  <1>6. PulseTypes'
    <2>1. faults' \in 0 .. MaxFaults
      BY <1>2, FaultCounts DEF FeedbackPulseInv, PulseTypes
    <2>2. page' \in [Tabs -> PageStates]
      BY <1>1, <1>3, PageOfDialog
    <2> QED
      BY <1>2, <1>4, <1>5, <2>1, <2>2 DEF FeedbackPulseInv, PulseTypes
  <1>7. DialogInv'
    <2>1. t = posts[k].tab
      BY DEF t
    <2>2. d.status = "thanks" =>
             d.thanked /\ (d.open /\ t \notin overlapped' => d.text \in Written)
      BY <1>2, <1>3, <2>1 DEF FeedbackPulseInv, DialogInv, Settled
    <2>3. d.open /\ t \notin overlapped' =>
             \A j \in DOMAIN posts :
                posts[j].tab = t /\ posts'[j].at # "done" => posts[j].text = d.text
      BY <1>2, <1>3, <1>4 DEF FeedbackPulseInv, DialogInv, Settled
    <2> QED
      BY <1>1, <1>2, <1>3, <1>4, <2>2, <2>3, DialogChanges
  <1>8. CadenceInv'
    BY <1>2, <1>5, CadenceStands DEF FeedbackPulseInv, PulseTypes
  <1>9. CountedInv'
    BY <1>2, CountedStands DEF Live
  <1> QED
    BY <1>6, <1>7, <1>8, <1>9 DEF FeedbackPulseInv

LEMMA FeedbackLostKeeps ==
    ASSUME FeedbackPulseInv, NEW k \in DOMAIN posts, FeedbackLost(k)
    PROVE  FeedbackPulseInv'
  <1> DEFINE t == posts[k].tab
             d == [page[t].dialog EXCEPT !.canSend = TRUE, !.status = "failed"]
  <1>1. posts[k] \in PostStates /\ t \in Tabs /\ page[t].dialog \in Dialogs
    BY PostEntries, PageEntries
  <1>2. /\ Settle(k, "done") /\ SetDialog(t, d) /\ Fault
        /\ UNCHANGED <<session, stamp, cookie, prompts, server, linked, day, release,
                       unstamped, overlapped, unheard>>
    BY DEF FeedbackLost
  <1>3. /\ d \in Dialogs /\ d.text = page[t].dialog.text /\ d.open = page[t].dialog.open
        /\ d.status # "thanks"
    BY <1>1 DEF Dialogs
  <1>4. /\ posts' \in Seq(PostStates) /\ DOMAIN posts' = DOMAIN posts
        /\ \A j \in DOMAIN posts :
             /\ posts'[j].tab = posts[j].tab /\ posts'[j].text = posts[j].text
             /\ posts'[j].at = IF j = k THEN "done" ELSE posts[j].at
    BY <1>2, PostMoves
  <1> HIDE DEF t, d
  <1>5. PulseTypes'
    <2>1. faults' \in 0 .. MaxFaults
      BY <1>2, FaultCounts
    <2>2. page' \in [Tabs -> PageStates]
      BY <1>1, <1>2, <1>3, PageOfDialog
    <2> QED
      BY <1>2, <1>4, <2>1, <2>2 DEF FeedbackPulseInv, PulseTypes
  <1>6. DialogInv'
    <2>1. d.open /\ t \notin overlapped' =>
             \A j \in DOMAIN posts :
                posts[j].tab = t /\ posts'[j].at # "done" => posts[j].text = d.text
      BY <1>2, <1>3, <1>4 DEF FeedbackPulseInv, DialogInv, Settled
    <2> QED
      BY <1>1, <1>2, <1>3, <1>4, <2>1, DialogChanges
  <1>7. CadenceInv'
    BY <1>2, CadenceStands DEF FeedbackPulseInv, PulseTypes
  <1>8. CountedInv'
    BY <1>2, CountedStands DEF Live
  <1> QED
    BY <1>5, <1>6, <1>7, <1>8 DEF FeedbackPulseInv

-----------------------------------------------------------------------------
(* The pulse.                                                              *)

(* A step that moves one prompt and touches neither dialog, storage nor    *)
(* table: what the prompt leaves and where it goes decide.                 *)
LEMMA PromptAdvances ==
    ASSUME FeedbackPulseInv, NEW i \in DOMAIN prompts, NEW at \in Over \cup Waiting,
           Advance(i, at) \/ PostPulse(i, at),
           prompts[i].at \in Over => at \in Over,
           at \in Recorded => prompts[i].at \in Recorded,
           page' \in [Tabs -> PageStates], cookie' \in [Purposes -> SUBSET Tabs],
           \A t \in Tabs : page'[t].dialog = page[t].dialog,
           spent' \in [Purposes -> Nat], faults' \in 0 .. MaxFaults,
           UNCHANGED <<session, stamp, posts, feedback, pulses, linked, day, release,
                       unstamped, overlapped, unheard>>
    PROVE  FeedbackPulseInv'
  <1>1. /\ prompts' \in Seq(PromptStates) /\ DOMAIN prompts' = DOMAIN prompts
        /\ prompts'[i].at = at
        /\ \A j \in DOMAIN prompts :
             /\ j # i => prompts'[j] = prompts[j]
             /\ prompts'[j].tab = prompts[j].tab /\ prompts'[j].day = prompts[j].day
             /\ prompts'[j].release = prompts[j].release
             /\ prompts'[j].after = prompts[j].after
    BY PromptMoves
  <1>2. PulseTypes'
    BY <1>1 DEF FeedbackPulseInv, PulseTypes
  <1>3. DialogInv'
    BY DialogStands
  <1>4. CadenceInv'
    BY <1>1, CadenceStands DEF FeedbackPulseInv, PulseTypes
  <1>5. CountedInv'
    BY <1>1, CountedStands DEF Live
  <1> QED
    BY <1>2, <1>3, <1>4, <1>5 DEF FeedbackPulseInv

LEMMA PromptStepsKeep ==
    ASSUME FeedbackPulseInv, NEW i \in DOMAIN prompts,
           Tap(i) \/ PulseAnswered(i) \/ Retry(i) \/ PulseLost(i)
    PROVE  FeedbackPulseInv'
  <1>1. PICK at \in Over \cup Waiting :
           /\ Advance(i, at) \/ PostPulse(i, at)
           /\ prompts[i].at \in Over => at \in Over
           /\ at \in Recorded => prompts[i].at \in Recorded
    BY DEF Tap, PulseAnswered, Retry, PulseLost, Over, Waiting, Recorded
  <1>2. /\ UNCHANGED <<page, session, stamp, cookie, posts, server, linked, day, release,
                       unstamped, overlapped, unheard>>
        /\ Fault \/ UNCHANGED faults
    BY DEF Tap, PulseAnswered, Retry, PulseLost
  <1>3. /\ page' \in [Tabs -> PageStates] /\ cookie' \in [Purposes -> SUBSET Tabs]
        /\ spent' \in [Purposes -> Nat] /\ faults' \in 0 .. MaxFaults
    BY <1>2, FaultCounts DEF FeedbackPulseInv, PulseTypes
  <1> QED
    BY <1>1, <1>2, <1>3, PromptAdvances

LEMMA RemintKeeps ==
    ASSUME FeedbackPulseInv, NEW i \in DOMAIN prompts, Remint(i)
    PROVE  FeedbackPulseInv'
  <1>1. /\ Advance(i, "minted") /\ prompts[i].at = "refused"
        /\ UNCHANGED <<session, stamp, posts, server, linked, day, release,
                       unstamped, overlapped, unheard>>
        /\ Fault \/ UNCHANGED faults
    BY DEF Remint
  <1>2. prompts[i].tab \in Tabs /\ page[prompts[i].tab] \in PageStates
    BY PromptEntries, PageEntries DEF PromptStates
  <1>3. /\ page' \in [Tabs -> PageStates]
        /\ \A t \in Tabs : page'[t].dialog = page[t].dialog
        /\ cookie' \in [Purposes -> SUBSET Tabs]
    <2>1. CASE UNCHANGED <<page, cookie>>
      BY <2>1 DEF FeedbackPulseInv, PulseTypes
    <2>2. CASE /\ page' = [page EXCEPT ![prompts[i].tab].version = release]
               /\ cookie' = [cookie EXCEPT !["pulse"] = {prompts[i].tab}]
      <3>1. release \in 0 .. MaxReleases /\ release # None
        BY FeedbackAssumption DEF FeedbackPulseInv, PulseTypes, None
      <3>2. /\ [page[prompts[i].tab] EXCEPT !.version = release] \in PageStates
            /\ [page[prompts[i].tab] EXCEPT !.version = release].dialog
                  = page[prompts[i].tab].dialog
        BY <1>2, <3>1 DEF PageStates
      <3>3. page' = [page EXCEPT ![prompts[i].tab] =
                        [page[prompts[i].tab] EXCEPT !.version = release]]
        BY <2>2
      <3> QED
        BY <1>2, <2>2, <3>2, <3>3 DEF FeedbackPulseInv, PulseTypes, Purposes
    <2> QED
      BY <2>1, <2>2 DEF Remint
  <1>4. spent' \in [Purposes -> Nat] /\ faults' \in 0 .. MaxFaults
    BY <1>1, FaultCounts DEF FeedbackPulseInv, PulseTypes
  <1> QED
    BY <1>1, <1>3, <1>4, PromptAdvances DEF Over, Waiting, Recorded

LEMMA MaybePromptKeeps ==
    ASSUME FeedbackPulseInv, NEW t \in Tabs, MaybePrompt(t)
    PROVE  FeedbackPulseInv'
  <1> DEFINE v      == page[t].version
             fed    == "feedbackSubmitted" \in session[t]
             prompt == [tab |-> t, day |-> day, release |-> v, at |-> "asked",
                        valid |-> FALSE, after |-> fed]
             new    == Len(prompts) + 1
  <1>1. v \in 1 .. MaxReleases
    <2>1. v \in 0 .. MaxReleases /\ v # 0
      BY PageEntries DEF PageStates, MaybePrompt, None
    <2> QED
      BY <2>1, FeedbackAssumption
  <1>2. /\ prompt \in PromptStates /\ prompt.tab = t /\ prompt.day = day /\ prompt.release = v
        /\ prompt.at = "asked" /\ ~ prompt.after
    <2>1. fed = FALSE
      BY DEF MaybePrompt, ShouldAutoPrompt
    <2>2. prompt = [tab |-> t, day |-> day, release |-> v, at |-> "asked",
                    valid |-> FALSE, after |-> FALSE]
      BY <2>1
    <2> QED
      BY <1>1, <2>2 DEF PromptStates, Over, Waiting, FeedbackPulseInv, PulseTypes
  <1>3. /\ prompts' = Append(prompts, prompt)
        /\ "shown" \notin session[t]
        /\ stamp[v] = Never \/ day - stamp[v] >= Window
        /\ UNCHANGED <<page, cookie, posts, server, linked, day, release, overlapped, unheard>>
        /\ Fault \/ UNCHANGED faults
    BY DEF MaybePrompt, ShouldAutoPrompt, RecordPulsePrompted
  <1>4. /\ \/ session' = [session EXCEPT ![t] = @ \cup {"shown"}]
           \/ session' = session /\ t \in unstamped'
        /\ \/ stamp' = [stamp EXCEPT ![v] = day]
           \/ stamp' = stamp /\ v \in unstamped'
        /\ unstamped \subseteq unstamped'
    BY DEF MaybePrompt, RecordPulsePrompted
  <1> HIDE DEF v, prompt, fed
  <1>5. prompts \in Seq(PromptStates)
    BY DEF FeedbackPulseInv, PulseTypes
  <1>6. /\ prompts' \in Seq(PromptStates) /\ new \notin DOMAIN prompts /\ Len(prompts) \in Nat
        /\ DOMAIN prompts = 1 .. Len(prompts)
        /\ DOMAIN prompts' = DOMAIN prompts \cup {new}
        /\ \A i \in DOMAIN prompts : prompts'[i] = prompts[i]
        /\ prompts'[new] = prompt
    BY <1>2, <1>3, <1>5, GrownSeq
  <1> HIDE DEF new
  <1>7. /\ day \in Nat /\ day \in 0 .. MaxDays /\ day \in 0 .. Never
        /\ stamp \in [1 .. MaxReleases -> 0 .. Never] /\ Never \in Nat
        /\ session \in [Tabs -> SUBSET {"shown", "feedbackSubmitted"}]
        /\ Window \in Nat /\ day # Never
    BY FeedbackAssumption DEF FeedbackPulseInv, PulseTypes, Never
  <1>8. /\ session' \in [Tabs -> SUBSET {"shown", "feedbackSubmitted"}]
        /\ \A u \in Tabs : session[u] \subseteq session'[u]
        /\ t \in unstamped' \/ "shown" \in session'[t]
    <2>1. CASE session' = [session EXCEPT ![t] = @ \cup {"shown"}]
      BY <1>7, <2>1
    <2>2. CASE session' = session /\ t \in unstamped'
      BY <1>7, <2>2
    <2> QED
      BY <1>4, <2>1, <2>2
  <1>9. /\ stamp' \in [1 .. MaxReleases -> 0 .. Never]
        /\ \A w \in 1 .. MaxReleases : w # v => stamp'[w] = stamp[w]
        /\ stamp'[v] = day \/ (stamp'[v] = stamp[v] /\ v \in unstamped')
    <2>1. CASE stamp' = [stamp EXCEPT ![v] = day]
      BY <1>1, <1>7, <2>1
    <2>2. CASE stamp' = stamp /\ v \in unstamped'
      BY <1>7, <2>2
    <2> QED
      BY <1>4, <2>1, <2>2
  <1>10. PulseTypes'
    <2>1. faults' \in 0 .. MaxFaults
      BY <1>3, FaultCounts DEF FeedbackPulseInv, PulseTypes
    <2> QED
      BY <1>3, <1>6, <1>8, <1>9, <2>1 DEF FeedbackPulseInv, PulseTypes
  <1>11. DialogInv'
    BY <1>3, DialogStands
  <1>12. \A i \in DOMAIN prompts :
            /\ prompts[i].tab \in Tabs /\ prompts[i].day \in Nat
            /\ prompts[i].release \in 1 .. MaxReleases
            /\ stamp[prompts[i].release] \in Nat
    <2>1. \A i \in DOMAIN prompts : prompts[i] \in PromptStates
      BY PromptEntries
    <2> QED
      BY <1>7, <2>1, FeedbackAssumption DEF PromptStates
  <1>13. CadenceInv'
    <2>1. ASSUME NEW i \in DOMAIN prompts, ~ (prompts[i].tab \in unstamped)
          PROVE  prompts[i].tab # t
      BY <1>3, <1>12, <2>1 DEF FeedbackPulseInv, CadenceInv
    <2>2. ASSUME NEW i \in DOMAIN prompts, prompts[i].release = v, v \notin unstamped
          PROVE  day - prompts[i].day >= Window
      <3>1. stamp[v] \in prompts[i].day .. day
        BY <2>2 DEF FeedbackPulseInv, CadenceInv
      <3>2. stamp[v] # Never
        BY <1>7, <1>12, <3>1, FeedbackAssumption DEF Never, FeedbackPulseInv, PulseTypes
      <3> QED
        BY <1>3, <1>7, <1>12, <3>1, <3>2
    <2>3. \A i, j \in DOMAIN prompts' : i < j => i \in DOMAIN prompts
      BY <1>6 DEF new
    <2>4. CadenceCeiling'
      <3>1. ASSUME NEW i \in DOMAIN prompts', NEW j \in DOMAIN prompts', i < j
            PROVE  /\ prompts'[i].tab = prompts'[j].tab => prompts'[i].tab \in unstamped'
                   /\ (prompts'[i].release = prompts'[j].release
                       /\ prompts'[i].release \notin unstamped')
                         => prompts'[j].day - prompts'[i].day >= Window
        <4>1. i \in DOMAIN prompts /\ prompts'[i] = prompts[i]
          BY <1>6, <2>3, <3>1
        <4>2. CASE j = new
          <5>1. /\ prompts'[j].tab = t /\ prompts'[j].release = v /\ prompts'[j].day = day
            BY <1>2, <1>6, <4>2
          <5>2. prompts'[i].tab = prompts'[j].tab => prompts'[i].tab \in unstamped'
            BY <1>4, <2>1, <4>1, <5>1
          <5>3. prompts'[i].release = v /\ prompts'[i].release \notin unstamped'
                  => day - prompts'[i].day >= Window
            BY <1>4, <2>2, <4>1
          <5> QED
            BY <5>1, <5>2, <5>3
        <4>3. CASE j # new
          <5>1. j \in DOMAIN prompts /\ prompts'[j] = prompts[j]
            BY <1>6, <4>3
          <5>2. /\ prompts[i].tab = prompts[j].tab => prompts[i].tab \in unstamped
                /\ prompts[i].release = prompts[j].release /\ prompts[i].release \notin unstamped
                     => prompts[j].day - prompts[i].day >= Window
            BY <3>1, <4>1, <5>1 DEF FeedbackPulseInv, CadenceInv, CadenceCeiling
          <5> QED
            BY <1>4, <4>1, <5>1, <5>2
        <4> QED
          BY <4>2, <4>3
      <3>2. \A i \in DOMAIN prompts' : ~ prompts'[i].after
        BY <1>2, <1>6 DEF FeedbackPulseInv, CadenceInv, CadenceCeiling
      <3> QED
        BY <3>1, <3>2 DEF CadenceCeiling
    <2>5. ASSUME NEW i \in DOMAIN prompts'
          PROVE  /\ prompts'[i].day <= day'
                 /\ prompts'[i].tab \in unstamped' \/ "shown" \in session'[prompts'[i].tab]
                 /\ \/ prompts'[i].release \in unstamped'
                    \/ stamp'[prompts'[i].release] \in prompts'[i].day .. day'
      <3>1. CASE i = new
        BY <1>2, <1>3, <1>6, <1>7, <1>8, <1>9, <3>1
      <3>2. CASE i # new
        <4>1. i \in DOMAIN prompts /\ prompts'[i] = prompts[i]
          BY <1>6, <3>2
        <4>2. /\ prompts[i].day <= day
              /\ prompts[i].tab \in unstamped \/ "shown" \in session[prompts[i].tab]
              /\ \/ prompts[i].release \in unstamped
                 \/ stamp[prompts[i].release] \in prompts[i].day .. day
          BY <4>1 DEF FeedbackPulseInv, CadenceInv
        <4>3. prompts[i].tab \in unstamped' \/ "shown" \in session'[prompts[i].tab]
          BY <1>4, <1>8, <1>12, <4>1, <4>2
        <4>4. \/ prompts[i].release \in unstamped'
              \/ stamp'[prompts[i].release] \in prompts[i].day .. day
          <5>1. CASE prompts[i].release = v
            BY <1>4, <1>7, <1>9, <1>12, <4>1, <4>2, <5>1
          <5>2. CASE prompts[i].release # v
            BY <1>4, <1>9, <1>12, <4>1, <4>2, <5>2
          <5> QED
            BY <5>1, <5>2
        <4> QED
          BY <1>3, <4>1, <4>2, <4>3, <4>4
      <3> QED
        BY <3>1, <3>2
    <2> QED
      BY <2>4, <2>5 DEF CadenceInv
  <1>14. CountedInv'
    BY <1>2, <1>3, <1>6, CountedStands DEF Live
  <1> QED
    BY <1>10, <1>11, <1>13, <1>14 DEF FeedbackPulseInv

LEMMA LinksOfLive ==
    ASSUME FeedbackPulseInv
    PROVE  /\ Live \subseteq Nat \ {None}
           /\ \A p \in DOMAIN pulses : pulses[p] \in PulseRows
  <1>1. feedback \in Seq(FeedbackRows) /\ pulses \in Seq(PulseRows)
    BY DEF FeedbackPulseInv, PulseTypes
  <1>2. DOMAIN feedback = 1 .. Len(feedback) /\ Len(feedback) \in Nat
    BY <1>1, LenProperties
  <1>3. \A p \in DOMAIN pulses : pulses[p] \in PulseRows
    BY <1>1, EntryOfSeq
  <1> QED
    BY <1>2, <1>3 DEF Live, None

LEMMA HandlePulseKeeps ==
    ASSUME FeedbackPulseInv, NEW i \in DOMAIN prompts, HandlePulse(i)
    PROVE  FeedbackPulseInv'
  <1>1. /\ prompts[i].at \in {"sent", "resent"}
        /\ UNCHANGED <<page, session, stamp, cookie, posts, feedback, linked, day, release,
                       unstamped, overlapped>>
        /\ (UnderLimit("pulse", PulseLimit) \/ UNCHANGED spent)
        /\ (Fault \/ UNCHANGED faults)
    BY DEF HandlePulse, AtLimit
  <1>2. /\ page' \in [Tabs -> PageStates] /\ cookie' \in [Purposes -> SUBSET Tabs]
        /\ spent' \in [Purposes -> Nat] /\ faults' \in 0 .. MaxFaults
    BY <1>1, SpentKeeps, FaultCounts DEF FeedbackPulseInv, PulseTypes, Purposes
  <1>3. CASE UNCHANGED pulses
    <2>1. PICK at \in {"refused", "refusedAgain"} : Advance(i, at) /\ unheard' = unheard
      <3>1. Append(pulses, [prompt |-> i, link |-> None]) # pulses
        <4>1. prompts \in Seq(PromptStates) /\ pulses \in Seq(PulseRows)
          BY DEF FeedbackPulseInv, PulseTypes
        <4>2. [prompt |-> i, link |-> None] \in PulseRows
          BY <4>1, LenProperties DEF PulseRows, None
        <4> QED
          BY <4>1, <4>2, GrownSeq
      <3> QED
        BY <1>3, <3>1 DEF HandlePulse, RowOf
    <2> QED
      BY <1>1, <1>2, <1>3, <2>1, PromptAdvances DEF Over, Waiting, Recorded
  <1>4. CASE pulses' # pulses
    <2> DEFINE row == [prompt |-> i, link |-> None]
               new == Len(pulses) + 1
    <2>1. /\ pulses' = Append(pulses, row)
          /\ \/ unheard' = unheard \cup {i}
             \/ unheard' = unheard /\ (Advance(i, "stored") \/ Advance(i, "storedAtLast"))
      BY <1>4 DEF HandlePulse, RowOf
    <2>12. PICK at \in {"stored", "storedAtLast", "refused", "refusedAgain"} : Advance(i, at)
      BY DEF HandlePulse
    <2>2. /\ prompts \in Seq(PromptStates) /\ pulses \in Seq(PulseRows)
      BY DEF FeedbackPulseInv, PulseTypes
    <2>3. i \in Nat /\ i # None
      BY <2>2, LenProperties DEF None
    <2>4. row \in PulseRows /\ row.prompt = i /\ row.link = None
      BY <2>3 DEF PulseRows, None
    <2> HIDE DEF row
    <2>5. /\ pulses' \in Seq(PulseRows) /\ new \notin DOMAIN pulses
          /\ DOMAIN pulses' = DOMAIN pulses \cup {new}
          /\ \A p \in DOMAIN pulses : pulses'[p] = pulses[p]
          /\ pulses'[new] = row
      BY <2>1, <2>2, <2>4, GrownSeq
    <2> HIDE DEF new
    <2>6. /\ prompts' \in Seq(PromptStates) /\ DOMAIN prompts' = DOMAIN prompts
          /\ i \in unheard' \/ prompts'[i].at \in Over
          /\ \A j \in DOMAIN prompts :
               /\ j # i => prompts'[j] = prompts[j]
               /\ prompts'[j].tab = prompts[j].tab /\ prompts'[j].day = prompts[j].day
               /\ prompts'[j].release = prompts[j].release
               /\ prompts'[j].after = prompts[j].after
      <3>1. at \in Over \cup Waiting
        BY <2>12 DEF Over, Waiting, Recorded
      <3>2. /\ prompts' \in Seq(PromptStates) /\ DOMAIN prompts' = DOMAIN prompts
            /\ prompts'[i].at = at
            /\ \A j \in DOMAIN prompts :
                 /\ j # i => prompts'[j] = prompts[j]
                 /\ prompts'[j].tab = prompts[j].tab /\ prompts'[j].day = prompts[j].day
                 /\ prompts'[j].release = prompts[j].release
                 /\ prompts'[j].after = prompts[j].after
        BY <2>12, <3>1, PromptMoves
      <3>3. unheard' = unheard => prompts'[i].at \in Over \/ i \in unheard
        <4>1. CASE Advance(i, "stored") \/ Advance(i, "storedAtLast")
          BY <4>1, PromptMoves DEF Over, Waiting, Recorded
        <4> QED
          BY <2>1, <4>1
      <3> QED
        BY <2>1, <3>2, <3>3
    <2>7. PulseTypes'
      BY <1>1, <1>2, <2>5, <2>6 DEF FeedbackPulseInv, PulseTypes
    <2>8. DialogInv'
      BY <1>1, DialogStands
    <2>9. CadenceInv'
      BY <1>1, <2>6, CadenceStands DEF FeedbackPulseInv, PulseTypes
    <2>13. unheard \subseteq unheard' /\ unheard' \subseteq unheard \cup {i}
      BY <2>1
    <2>10. \A p \in DOMAIN pulses : pulses[p].prompt # i \/ i \in unheard'
      BY <1>1, <2>13, <2>3 DEF FeedbackPulseInv, CountedInv, Over, Recorded
    <2>11. CountedInv'
      <3>1. Live' = Live
        BY <1>1 DEF Live
      <3>2. PulsesSound'
        BY <1>1, <2>4, <2>5, <2>10, <2>13, <3>1 DEF FeedbackPulseInv, CountedInv, PulsesSound
      <3>3. \A p \in DOMAIN pulses' :
               pulses'[p].prompt # None =>
                  /\ pulses'[p].prompt \in DOMAIN prompts'
                  /\ \/ prompts'[pulses'[p].prompt].at \in Over
                     \/ pulses'[p].prompt \in unheard'
        BY <2>4, <2>5, <2>6, <2>13 DEF FeedbackPulseInv, CountedInv
      <3>4. \A j \in DOMAIN prompts' :
               prompts'[j].at \in Recorded => \E p \in DOMAIN pulses' : pulses'[p].prompt = j
        BY <2>4, <2>5, <2>6 DEF FeedbackPulseInv, CountedInv
      <3> QED
        BY <3>2, <3>3, <3>4 DEF CountedInv
    <2> QED
      BY <2>7, <2>8, <2>9, <2>11 DEF FeedbackPulseInv
  <1> QED
    BY <1>3, <1>4

-----------------------------------------------------------------------------
(* The pulse of another client, and the sweep.                             *)

LEMMA ResolveKeeps == FeedbackPulseInv /\ ResolveFeedbackId => FeedbackPulseInv'
  <1> SUFFICES ASSUME FeedbackPulseInv, ResolveFeedbackId PROVE FeedbackPulseInv'
    OBVIOUS
  <1>1. UNCHANGED <<page, session, stamp, cookie, posts, prompts, server, day, release,
                    unstamped, overlapped, unheard, faults>>
    BY DEF ResolveFeedbackId
  <1>2. PICK link \in Nat : linked' = [at |-> "resolved", link |-> link]
    <2>1. PICK j \in DOMAIN feedback :
             linked' = [at |-> "resolved", link |-> IF j \in Live THEN j ELSE None]
      BY DEF ResolveFeedbackId
    <2>2. (IF j \in Live THEN j ELSE None) \in Nat
      BY LinksOfLive DEF None
    <2> QED
      BY <2>1, <2>2
  <1>3. PulseTypes'
    BY <1>1, <1>2 DEF FeedbackPulseInv, PulseTypes
  <1>4. DialogInv'
    BY <1>1, DialogStands
  <1>5. CadenceInv'
    BY <1>1, CadenceStands DEF FeedbackPulseInv, PulseTypes
  <1>6. CountedInv'
    BY <1>1, <1>2, CountedStands DEF Live
  <1> QED
    BY <1>3, <1>4, <1>5, <1>6 DEF FeedbackPulseInv

LEMMA InsertLinkedKeeps == FeedbackPulseInv /\ InsertLinked => FeedbackPulseInv'
  <1> SUFFICES ASSUME FeedbackPulseInv, InsertLinked PROVE FeedbackPulseInv'
    OBVIOUS
  <1>1. /\ linked' \in {[linked EXCEPT !.at = "done"], [linked EXCEPT !.at = "refused"]}
        /\ Fault \/ UNCHANGED faults
        /\ UNCHANGED <<page, session, stamp, cookie, posts, prompts, spent, feedback, day,
                       release, unstamped, overlapped, unheard>>
    BY DEF InsertLinked
  <1>2. linked' \in [at : {"idle", "resolved", "done", "refused"}, link : Nat]
        /\ faults' \in 0 .. MaxFaults
    BY <1>1, FaultCounts DEF FeedbackPulseInv, PulseTypes
  <1>3. DialogInv'
    BY <1>1, DialogStands
  <1>4. CadenceInv'
    BY <1>1, CadenceStands DEF FeedbackPulseInv, PulseTypes
  <1>5. CASE UNCHANGED pulses /\ linked' = [linked EXCEPT !.at = "refused"]
    <2>1. linked'.at # "done"
      BY <1>5 DEF FeedbackPulseInv, PulseTypes
    <2>2. PulseTypes'
      BY <1>1, <1>2, <1>5 DEF FeedbackPulseInv, PulseTypes
    <2>3. CountedInv'
      BY <1>1, <1>5, <2>1, CountedStands DEF Live
    <2> QED
      BY <1>3, <1>4, <2>2, <2>3 DEF FeedbackPulseInv
  <1>6. CASE \E link \in Live \cup {None} : RowOf(None, link)
    <2>1. PICK link \in Live \cup {None} : RowOf(None, link)
      BY <1>6
    <2> DEFINE row == [prompt |-> None, link |-> link]
               new == Len(pulses) + 1
    <2>2. link \in Nat
      BY <2>1, LinksOfLive DEF None
    <2>3. row \in PulseRows /\ row.prompt = None /\ row.link = link
      BY <2>2 DEF PulseRows, None
    <2>4. pulses' = Append(pulses, row)
      BY <2>1 DEF RowOf
    <2> HIDE DEF row
    <2>5. pulses \in Seq(PulseRows)
      BY DEF FeedbackPulseInv, PulseTypes
    <2>6. /\ pulses' \in Seq(PulseRows) /\ new \notin DOMAIN pulses
          /\ DOMAIN pulses' = DOMAIN pulses \cup {new}
          /\ \A p \in DOMAIN pulses : pulses'[p] = pulses[p]
          /\ pulses'[new] = row
      BY <2>3, <2>4, <2>5, GrownSeq
    <2> HIDE DEF new
    <2>7. PulseTypes'
      BY <1>1, <1>2, <2>6 DEF FeedbackPulseInv, PulseTypes
    <2>8. Live' = Live
      BY <1>1 DEF Live
    <2>9. PulsesSound'
      BY <1>1, <2>1, <2>3, <2>6, <2>8 DEF FeedbackPulseInv, CountedInv, PulsesSound
    <2>10. \A p \in DOMAIN pulses' :
             pulses'[p].prompt # None =>
                /\ pulses'[p].prompt \in DOMAIN prompts
                /\ \/ prompts[pulses'[p].prompt].at \in Over
                   \/ pulses'[p].prompt \in unheard
      BY <2>3, <2>6 DEF FeedbackPulseInv, CountedInv
    <2>11. \A i \in DOMAIN prompts :
             prompts[i].at \in Recorded => \E p \in DOMAIN pulses' : pulses'[p].prompt = i
      BY <2>6 DEF FeedbackPulseInv, CountedInv
    <2>12. CountedInv'
      BY <1>1, <2>9, <2>10, <2>11 DEF CountedInv
    <2> QED
      BY <1>3, <1>4, <2>7, <2>12 DEF FeedbackPulseInv
  <1>7. \/ UNCHANGED pulses /\ linked' = [linked EXCEPT !.at = "refused"]
        \/ \E link \in Live \cup {None} : RowOf(None, link)
    BY DEF InsertLinked
  <1> QED
    BY <1>5, <1>6, <1>7

LEMMA SweepFeedbackKeeps ==
    ASSUME FeedbackPulseInv, NEW j \in DOMAIN feedback, SweepFeedback(j)
    PROVE  FeedbackPulseInv'
  <1>1. /\ j \in Live /\ Fault
        /\ feedback' = [feedback EXCEPT ![j].swept = TRUE]
        /\ pulses' = [p \in DOMAIN pulses |->
                        IF pulses[p].link = j THEN [pulses[p] EXCEPT !.link = None] ELSE pulses[p]]
        /\ UNCHANGED <<page, session, stamp, cookie, posts, prompts, spent, linked, day, release,
                       unstamped, overlapped, unheard>>
    BY DEF SweepFeedback
  <1>2. feedback \in Seq(FeedbackRows) /\ pulses \in Seq(PulseRows)
    BY DEF FeedbackPulseInv, PulseTypes
  <1>3. /\ feedback' \in Seq(FeedbackRows) /\ DOMAIN feedback' = DOMAIN feedback
        /\ \A k \in DOMAIN feedback : feedback'[k].text = feedback[k].text
        /\ \A k \in DOMAIN feedback : k # j => feedback'[k] = feedback[k]
        /\ feedback'[j].swept
    <2>1. feedback[j] \in FeedbackRows
      BY <1>2, EntryOfSeq
    <2>2. /\ [feedback[j] EXCEPT !.swept = TRUE] \in FeedbackRows
          /\ [feedback[j] EXCEPT !.swept = TRUE].text = feedback[j].text
          /\ [feedback[j] EXCEPT !.swept = TRUE].swept
      BY <2>1 DEF FeedbackRows
    <2>3. feedback' = [feedback EXCEPT ![j] = [feedback[j] EXCEPT !.swept = TRUE]]
      BY <1>1
    <2> DEFINE row == [feedback[j] EXCEPT !.swept = TRUE]
    <2> HIDE DEF row
    <2>4. /\ row \in FeedbackRows /\ row.text = feedback[j].text /\ row.swept
          /\ feedback' = [feedback EXCEPT ![j] = row]
      BY <2>2, <2>3 DEF row
    <2>5. /\ feedback' \in Seq(FeedbackRows) /\ DOMAIN feedback' = DOMAIN feedback
          /\ \A k \in DOMAIN feedback : feedback'[k] = IF k = j THEN row ELSE feedback[k]
      BY <1>2, <2>4, UpdatedSeq
    <2> QED
      BY <2>4, <2>5
  <1>4. Live' = Live \ {j}
    BY <1>3 DEF Live
  <1>5. /\ pulses' \in Seq(PulseRows) /\ DOMAIN pulses' = DOMAIN pulses
        /\ \A p \in DOMAIN pulses :
             /\ pulses'[p].prompt = pulses[p].prompt
             /\ pulses'[p].link = IF pulses[p].link = j THEN None ELSE pulses[p].link
    <2>1. \A p \in DOMAIN pulses :
             /\ pulses[p] \in PulseRows
             /\ [pulses[p] EXCEPT !.link = None] \in PulseRows
             /\ [pulses[p] EXCEPT !.link = None].prompt = pulses[p].prompt
             /\ [pulses[p] EXCEPT !.link = None].link = None
      BY LinksOfLive DEF PulseRows, None
    <2>2. pulses' \in [DOMAIN pulses -> PulseRows]
      BY <1>1, <2>1
    <2> QED
      BY <1>1, <1>2, <2>1, <2>2, MappedSeq
  <1>6. PulseTypes'
    BY <1>1, <1>3, <1>5, FaultCounts DEF FeedbackPulseInv, PulseTypes
  <1>7. DialogInv'
    BY <1>1, <1>3, DialogStands
  <1>8. CadenceInv'
    BY <1>1, CadenceStands DEF FeedbackPulseInv, PulseTypes
  <1>9. CountedInv'
    <2>1. PulsesSound'
      BY <1>1, <1>4, <1>5 DEF FeedbackPulseInv, CountedInv, PulsesSound
    <2> QED
      BY <1>1, <1>5, <2>1 DEF FeedbackPulseInv, CountedInv
  <1> QED
    BY <1>6, <1>7, <1>8, <1>9 DEF FeedbackPulseInv

-----------------------------------------------------------------------------
(* Time, deployments, and pages that start.                                *)

(* A step of none of the parts.                                            *)
LEMMA WorldKeeps ==
    ASSUME FeedbackPulseInv,
           (\E purpose \in Purposes : CookieExpires(purpose)) \/ NextDay \/ Deploy
              \/ UNCHANGED vars
    PROVE  FeedbackPulseInv'
  <1>1. /\ UNCHANGED <<page, session, stamp, posts, prompts, feedback, pulses, linked,
                       unstamped, overlapped, unheard>>
        /\ Fault \/ UNCHANGED faults
        /\ release' \in {release, release + 1} /\ (release' # release => release < MaxReleases)
        /\ day' \in {day, day + 1} /\ (day' # day => day < MaxDays)
        /\ spent' = spent \/ spent' = [purpose \in Purposes |-> 0]
        /\ \/ cookie' = cookie
           \/ \E purpose \in Purposes : cookie' = [cookie EXCEPT ![purpose] = {}]
    BY DEF CookieExpires, NextDay, Deploy, vars
  <1>2. PulseTypes'
    <2>1. faults' \in 0 .. MaxFaults
      BY <1>1, FaultCounts DEF FeedbackPulseInv, PulseTypes
    <2>2. /\ day \in 0 .. MaxDays /\ release \in 1 .. MaxReleases
          /\ cookie \in [Purposes -> SUBSET Tabs] /\ spent \in [Purposes -> Nat]
      BY DEF FeedbackPulseInv, PulseTypes
    <2>3. release' \in 1 .. MaxReleases /\ day' \in 0 .. MaxDays
      BY <1>1, <2>2, FeedbackAssumption
    <2>4. spent' \in [Purposes -> Nat]
      BY <1>1, <2>2
    <2>5. cookie' \in [Purposes -> SUBSET Tabs]
      BY <1>1, <2>2
    <2> QED
      BY <1>1, <2>1, <2>3, <2>4, <2>5 DEF FeedbackPulseInv, PulseTypes
  <1>3. DialogInv'
    BY <1>1, DialogStands
  <1>4. CadenceInv'
    <2>1. day \in Nat /\ day' \in Nat /\ day <= day'
      BY <1>1, FeedbackAssumption DEF FeedbackPulseInv, PulseTypes
    <2> QED
      BY <1>1, <2>1, CadenceStands
  <1>5. CountedInv'
    BY <1>1, CountedStands DEF Live
  <1> QED
    BY <1>2, <1>3, <1>4, <1>5 DEF FeedbackPulseInv

LEMMA LoadKeeps ==
    ASSUME FeedbackPulseInv, NEW t \in Tabs, Load(t)
    PROVE  FeedbackPulseInv'
  <1>1. PICK got \in SUBSET Purposes :
           /\ page' = [page EXCEPT ![t] = [dialog |-> Closed, tokens |-> got,
                           version |-> IF "pulse" \in got THEN release ELSE None]]
           /\ cookie' = [purpose \in Purposes |->
                            IF purpose \in got THEN {t} ELSE cookie[purpose]]
           /\ Fault \/ UNCHANGED faults
    BY DEF Load
  <1>2. /\ posts' = [k \in DOMAIN posts |->
                      IF posts[k].tab = t THEN [posts[k] EXCEPT !.at = "done"] ELSE posts[k]]
        /\ prompts' = [i \in DOMAIN prompts |->
                         IF prompts[i].tab = t /\ prompts[i].at # "thanked"
                         THEN [prompts[i] EXCEPT !.at = "removed"] ELSE prompts[i]]
        /\ UNCHANGED <<session, stamp, server, linked, day, release, unstamped, overlapped, unheard>>
    BY DEF Load
  <1>3. /\ page' \in [Tabs -> PageStates] /\ page'[t].dialog = Closed
        /\ ~ Closed.open /\ Closed.status = ""
        /\ \A u \in Tabs : u # t => page'[u] = page[u]
    <2> DEFINE new == [dialog |-> Closed, tokens |-> got,
                       version |-> IF "pulse" \in got THEN release ELSE None]
    <2>1. page \in [Tabs -> PageStates] /\ release \in 1 .. MaxReleases
      BY DEF FeedbackPulseInv, PulseTypes
    <2>2. 0 \in 0 .. MaxTexts /\ 0 \in 0 .. MaxReleases /\ release \in 0 .. MaxReleases
          /\ release # 0
      BY <2>1, FeedbackAssumption
    <2>3. Closed \in Dialogs
      BY <2>2 DEF Dialogs, Closed, None
    <2>6. ~ Closed.open /\ Closed.status = ""
      BY DEF Closed
    <2>4. new \in PageStates /\ new.dialog = Closed
      BY <2>2, <2>3 DEF PageStates, None
    <2> HIDE DEF new
    <2>5. page' = [page EXCEPT ![t] = new]
      BY <1>1 DEF new
    <2> QED
      BY <2>1, <2>4, <2>5, <2>6
  <1>4. cookie' \in [Purposes -> SUBSET Tabs]
    BY <1>1 DEF FeedbackPulseInv, PulseTypes
  <1>5. /\ posts' \in Seq(PostStates) /\ DOMAIN posts' = DOMAIN posts
        /\ \A k \in DOMAIN posts :
             /\ posts'[k].tab = posts[k].tab /\ posts'[k].text = posts[k].text
             /\ posts'[k].at = IF posts[k].tab = t THEN "done" ELSE posts[k].at
    <2>1. \A k \in DOMAIN posts :
             /\ posts[k] \in PostStates
             /\ [posts[k] EXCEPT !.at = "done"] \in PostStates
             /\ [posts[k] EXCEPT !.at = "done"].at = "done"
             /\ [posts[k] EXCEPT !.at = "done"].tab = posts[k].tab
             /\ [posts[k] EXCEPT !.at = "done"].text = posts[k].text
      BY PostEntries DEF PostStates
    <2>2. posts' \in [DOMAIN posts -> PostStates]
      BY <1>2, <2>1
    <2>3. posts' \in Seq(PostStates)
      BY <2>2, MappedSeq DEF FeedbackPulseInv, PulseTypes
    <2> QED
      BY <1>2, <2>1, <2>3
  <1>6. /\ prompts' \in Seq(PromptStates) /\ DOMAIN prompts' = DOMAIN prompts
        /\ \A i \in DOMAIN prompts :
             /\ prompts'[i].tab = prompts[i].tab /\ prompts'[i].day = prompts[i].day
             /\ prompts'[i].release = prompts[i].release
             /\ prompts'[i].after = prompts[i].after
             /\ prompts'[i].at \in {"removed", prompts[i].at}
    <2>1. \A i \in DOMAIN prompts :
             /\ prompts[i] \in PromptStates
             /\ [prompts[i] EXCEPT !.at = "removed"] \in PromptStates
             /\ [prompts[i] EXCEPT !.at = "removed"].at = "removed"
             /\ [prompts[i] EXCEPT !.at = "removed"].tab = prompts[i].tab
             /\ [prompts[i] EXCEPT !.at = "removed"].day = prompts[i].day
             /\ [prompts[i] EXCEPT !.at = "removed"].release = prompts[i].release
             /\ [prompts[i] EXCEPT !.at = "removed"].after = prompts[i].after
      BY PromptEntries DEF PromptStates, Over
    <2>2. prompts' \in [DOMAIN prompts -> PromptStates]
      BY <1>2, <2>1
    <2>3. prompts' \in Seq(PromptStates)
      BY <2>2, MappedSeq DEF FeedbackPulseInv, PulseTypes
    <2> QED
      BY <1>2, <2>1, <2>3
  <1>7. PulseTypes'
    <2>1. faults' \in 0 .. MaxFaults
      BY <1>1, FaultCounts DEF FeedbackPulseInv, PulseTypes
    <2> QED
      BY <1>2, <1>3, <1>4, <1>5, <1>6, <2>1 DEF FeedbackPulseInv, PulseTypes
  <1>8. DialogInv'
    <2>1. Written' = Written
      BY <1>2 DEF Written
    <2>2. \A u \in Tabs : Settled(u)' <=> u # t /\ Settled(u)
      BY <1>2, <1>3 DEF Settled
    <2>3. ASSUME NEW k \in DOMAIN posts
          PROVE  /\ posts'[k].at = "stored" => posts'[k].text \in Written'
                 /\ posts'[k].at # "done" /\ Settled(posts[k].tab)'
                       => posts'[k].text = page'[posts'[k].tab].dialog.text
      <3>1. posts[k].tab \in Tabs
        BY PostEntries
      <3>2. CASE posts[k].tab = t
        BY <1>5, <3>2
      <3>3. CASE posts[k].tab # t
        <4>1. /\ posts'[k].at = posts[k].at /\ posts'[k].text = posts[k].text
              /\ posts'[k].tab = posts[k].tab
          BY <1>5, <3>3
        <4>2. Settled(posts[k].tab)' => Settled(posts[k].tab)
          BY <2>2, <3>1, <4>1
        <4> QED
          BY <1>3, <2>1, <3>1, <3>3, <4>1, <4>2 DEF FeedbackPulseInv, DialogInv
      <3> QED
        BY <3>2, <3>3
    <2>4. \A u \in Tabs : page'[u].dialog.status = "thanks" =>
             page'[u].dialog.thanked /\ (Settled(u)' => page'[u].dialog.text \in Written')
      BY <1>3, <2>1, <2>2 DEF FeedbackPulseInv, DialogInv
    <2> QED
      BY <1>5, <2>3, <2>4 DEF DialogInv
  <1>9. CadenceInv'
    BY <1>2, <1>6, CadenceStands DEF FeedbackPulseInv, PulseTypes
  <1>10. CountedInv'
    <2>1. \A i \in DOMAIN prompts :
             /\ prompts[i].at \in Over => prompts'[i].at \in Over
             /\ prompts'[i].at \in Recorded => prompts[i].at \in Recorded
      BY <1>6 DEF Over, Recorded
    <2> QED
      BY <1>2, <1>6, <2>1, CountedStands DEF Live
  <1> QED
    BY <1>7, <1>8, <1>9, <1>10 DEF FeedbackPulseInv

LEMMA PulseInit == Init => FeedbackPulseInv
  <1> SUFFICES ASSUME Init PROVE FeedbackPulseInv
    OBVIOUS
  <1>1. /\ posts = <<>> /\ prompts = <<>> /\ feedback = <<>> /\ pulses = <<>>
        /\ posts \in Seq(PostStates) /\ prompts \in Seq(PromptStates)
        /\ feedback \in Seq(FeedbackRows) /\ pulses \in Seq(PulseRows)
        /\ DOMAIN posts = {} /\ DOMAIN prompts = {} /\ DOMAIN pulses = {}
    <2>1. DOMAIN <<>> = {}
      OBVIOUS
    <2> QED
      BY <2>1, EmptySeq DEF Init
  <1>2. /\ \A t \in Tabs : page[t] = NoPage
        /\ page = [t \in Tabs |-> NoPage]
        /\ NoPage \in PageStates /\ NoPage.dialog.status # "thanks"
    <2>1. 0 \in 0 .. MaxTexts /\ 0 \in 0 .. MaxReleases
      BY FeedbackAssumption
    <2>2. Closed \in Dialogs /\ Closed.status = ""
      BY <2>1 DEF Dialogs, Closed, None
    <2> QED
      BY <2>1, <2>2 DEF Init, NoPage, PageStates, None
  <1>3. PulseTypes
    <2>1. /\ Never \in 0 .. Never /\ 0 \in 0 .. MaxDays /\ 1 \in 1 .. MaxReleases
          /\ 0 \in 0 .. MaxFaults
      BY FeedbackAssumption DEF Never
    <2>2. /\ session = [t \in Tabs |-> {}] /\ stamp = [v \in 1 .. MaxReleases |-> Never]
          /\ cookie = [purpose \in Purposes |-> {}] /\ spent = [purpose \in Purposes |-> 0]
          /\ linked = [at |-> "idle", link |-> 0]
          /\ day = 0 /\ release = 1 /\ faults = 0
      BY DEF Init, None
    <2> QED
      BY <1>1, <1>2, <2>1, <2>2 DEF PulseTypes
  <1>4. DialogInv
    BY <1>1, <1>2 DEF DialogInv
  <1>5. CadenceInv
    BY <1>1 DEF CadenceInv, CadenceCeiling
  <1>6. CountedInv
    <2>1. linked.at # "done"
      BY DEF Init
    <2> QED
      BY <1>1, <2>1 DEF CountedInv, PulsesSound
  <1> QED
    BY <1>3, <1>4, <1>5, <1>6 DEF FeedbackPulseInv

LEMMA PulseNext == FeedbackPulseInv /\ [Next]_vars => FeedbackPulseInv'
  <1> SUFFICES ASSUME FeedbackPulseInv, [Next]_vars PROVE FeedbackPulseInv'
    OBVIOUS
  <1>1. CASE DialogStep
    BY <1>1, OpenKeeps, CloseKeeps, WriteKeeps, SendKeeps DEF DialogStep
  <1>2. CASE FeedbackStep
    BY <1>2, HandleFeedbackKeeps, FeedbackAnsweredKeeps, FeedbackLostKeeps DEF FeedbackStep
  <1>3. CASE PulseStep
    BY <1>3, MaybePromptKeeps, PromptStepsKeep, HandlePulseKeeps, RemintKeeps DEF PulseStep
  <1>4. CASE WorldStep
    BY <1>4, WorldKeeps, ResolveKeeps, InsertLinkedKeeps, SweepFeedbackKeeps, LoadKeeps
       DEF WorldStep
  <1>5. CASE UNCHANGED vars
    BY <1>5, WorldKeeps
  <1> QED
    BY <1>1, <1>2, <1>3, <1>4, <1>5 DEF Next

-----------------------------------------------------------------------------
(* What the dialog says, what the two storages remember of the prompts and *)
(* what the tables hold fit together in every reachable state.             *)
THEOREM FeedbackPulseInvariant == Spec => []FeedbackPulseInv
  BY PulseInit, PulseNext, PTL DEF Spec

(* The cadence (public/experience-pulse-cadence.js): one automatic prompt  *)
(* a session, one a release in the rolling window, none after feedback,    *)
(* for as long as the storage that holds that half takes its records,      *)
(* whatever the number of tabs, releases and days.                         *)
THEOREM CadenceCeilingHolds == Spec => []CadenceCeiling
  <1>1. FeedbackPulseInv => CadenceCeiling
    BY DEF FeedbackPulseInv, CadenceInv
  <1> QED
    BY <1>1, FeedbackPulseInvariant, PTL

(* What the rider is thanked for is in the tables, in whatever order the   *)
(* answers of whatever number of posts and taps arrive, unless the dialog  *)
(* was opened again or written in while an earlier post was on its way.    *)
THEOREM ThanksAreForStoredRows == Spec => []AcknowledgedIsStored
  <1>1. FeedbackPulseInv => AcknowledgedIsStored
    <2> SUFFICES ASSUME FeedbackPulseInv PROVE AcknowledgedIsStored
      OBVIOUS
    <2>1. ASSUME NEW t \in Tabs, page[t].dialog.open, page[t].dialog.status = "thanks",
                 t \notin overlapped
          PROVE  \E j \in DOMAIN feedback : feedback[j].text = page[t].dialog.text
      <3>1. page[t].dialog.text \in Written
        BY <2>1 DEF FeedbackPulseInv, DialogInv, Settled
      <3> QED
        BY <3>1 DEF Written
    <2>2. \A i \in DOMAIN prompts :
             prompts[i].at = "thanked" => \E p \in DOMAIN pulses : pulses[p].prompt = i
      BY DEF FeedbackPulseInv, CountedInv, Recorded
    <2> QED
      BY <2>1, <2>2 DEF AcknowledgedIsStored
  <1> QED
    BY <1>1, FeedbackPulseInvariant, PTL

(* No retry counts a tap twice, unless an insert wrote its row and then    *)
(* reported a failure; no row names feedback that is gone, and the sweep   *)
(* costs no pulse (src/experience-pulse-service.js).                       *)
THEOREM PulsesAreSound == Spec => []PulsesSound
  <1>1. FeedbackPulseInv => PulsesSound
    BY DEF FeedbackPulseInv, CountedInv
  <1> QED
    BY <1>1, FeedbackPulseInvariant, PTL

============================================================================
