----------------------- MODULE NotebookDraftsProofs -----------------------
(***************************************************************************)
(* Theorems about NotebookDrafts: what holds of any number of pages at     *)
(* once, and what one page at a time may rely on.                          *)
(***************************************************************************)
EXTENDS NotebookDrafts, FiniteSetTheorems, TLAPS

(* The groups only abbreviate the UNCHANGED conjuncts of the actions.      *)
USE DEF storage, bounds, told, Writer

-----------------------------------------------------------------------------
(* The invariant.  Its first part holds of any number of pages at once.    *)

(* Nothing exists that was not handed out.                                 *)
CountsInv ==
    /\ \A p \in Pages : (p > loads \/ page[p].pc = "closed") => page[p] = Closed
    /\ draft.kind = "ok" => draft.writer \in 1 .. loads
    /\ draft.kind = "none" => draft = NoDraft
    /\ \A p \in Pages : page[p].pendingId \in 0 .. ids /\ page[p].edits \subseteq 1 .. edits
    /\ draft.pendingId \in 0 .. ids /\ draft.edits \subseteq 1 .. edits
    /\ \A i \in Ids : history[i] \subseteq 1 .. edits /\ (i > ids => history[i] = {})
    /\ reported \subseteq 1 .. ids

(* A page with entries that are not in the draft knows what comes of them. *)
Coming(pg) ==
    pg.autosave /\ pg.dirty /\ ~ pg.blank /\ pg.behind
        => pg.timer \/ pg.trouble \/ pg.suspended

(* A draft that a page would remove as its own, and is not behind of.      *)
Holds(pg, d) ==
    pg.autosave /\ Removable(pg, d) /\ ~ pg.blank /\ ~ pg.behind /\ ~ pg.suspended

OwnDraft(p, pg, d) == Holds(pg, d) /\ d.writer = p => d.edits = pg.edits

(* A page that knows the stored draft by its number has shown its entries, *)
(* unless the number was given to another draft.                           *)
Known(p, pg, d) ==
    d.kind = "ok" /\ d.writer # p /\ pg.verified # Nothing /\ pg.verified.rev = d.rev
        => d.edits \subseteq pg.seen \/ p \in misled

PagesInv ==
    \A p \in Pages :
        /\ Coming(page[p]) /\ OwnDraft(p, page[p], draft)
        /\ Known(p, page[p], draft)

(* The second part is what one page at a time may rely on.                 *)

(* Entries that are already a record, in the history h, are known to be    *)
(* that record's.                                                          *)
Traced(entries, id, h, unnamed, again) ==
    \A i \in Ids \ unnamed :
        h[i] = entries /\ entries # {} /\ entries \notin again => id = i

(* Entries that will be saved under an id keep what the rider was told is  *)
(* saved under it.                                                         *)
Newer(entries, id, h, safe) == id \in safe => h[id] \subseteq entries

LoneForm(pg) ==
    /\ Newer(pg.edits, pg.pendingId, history, reported \ unrecorded)
    /\ ~ Clean(pg) => Traced(pg.edits, pg.pendingId, history, unrecorded, reoffered)
    /\ Clean(pg) /\ pg.timer => pg.edits \in reoffered

LoneDraft(d) ==
    d.kind = "ok" =>
        /\ Newer(d.edits, d.pendingId, history, reported \ unrecorded)
        /\ Traced(d.edits, d.pendingId, history, unrecorded, reoffered)

LoneWriter(p, pg, d) ==
    /\ Holds(pg, d) => d.edits = pg.edits
    /\ pg.suspended => d.kind # "ok"

(* What the next load will find: the switch as this page has it, and, if   *)
(* this page holds the draft, one that is not taken for saved.             *)
Kept(pg, d) ==
    pg.pc # "closed" =>
        pg.autosave = autosaveKey /\ (Holds(pg, d) => ~ AlreadySaved(d))

LonePage ==
    /\ \A p, q \in Pages : IsOpen(p) /\ IsOpen(q) => p = q
    /\ \A p \in Pages : Kept(page[p], draft)
    /\ \A p \in Pages : LoneForm(page[p]) /\ (IsOpen(p) => LoneWriter(p, page[p], draft))
    /\ LoneDraft(draft)
    /\ NoDuplicateRecord

NotebookInv ==
    /\ TypeOK /\ CountsInv /\ PagesInv
    /\ MaxOpen = 1 => LonePage

-----------------------------------------------------------------------------
(* What the calls of the draft path do to a page and a stored draft.       *)

Drafts ==
    {d \in DraftKinds : (d.kind = "none" => d = NoDraft) /\ (d.kind = "ok" => d.rev > 0)}

(* The form and its save state, which no such call touches.                *)
SameForm(a, b) ==
    /\ a.pc = b.pc /\ a.autosave = b.autosave /\ a.edits = b.edits /\ a.blank = b.blank
    /\ a.dirty = b.dirty /\ a.saved = b.saved /\ a.pendingId = b.pendingId /\ a.seen = b.seen

(* A draft that is gone, or stamped at most.                               *)
Remains(e, d) ==
    e.kind = "none" \/ (/\ e.kind = d.kind /\ e.writer = d.writer /\ e.rev = d.rev
                        /\ e.edits = d.edits /\ e.pendingId = d.pendingId)

WrittenBy(p, pg, id, e) ==
    /\ e.kind = "ok" /\ e.writer = p /\ e.rev = pg.verified.rev + 1
    /\ e.edits = pg.edits /\ e.pendingId = id /\ e.savedAs = None

LEMMA NoDraftType == NoDraft \in Drafts /\ NoDraft.kind = "none"
  BY DEF Drafts, DraftKinds, NoDraft, Stages, None

LEMMA ForgottenFacts ==
    ASSUME NEW pg \in PageStates
    PROVE  LET f == Forgotten(pg) IN
           /\ f \in PageStates /\ SameForm(f, pg)
           /\ ~ f.timer /\ f.behind /\ ~ f.trouble
           /\ f.suspended = pg.suspended /\ f.verified = pg.verified
  BY DEF Forgotten, PageStates, SameForm

LEMMA DiscardFacts ==
    ASSUME NEW pg \in PageStates, NEW d \in Drafts, NEW outcome \in Outcomes
    PROVE  LET r == DiscardDraft(pg, d, outcome) IN
           /\ r.page \in PageStates /\ SameForm(r.page, pg)
           /\ ~ r.page.timer /\ r.page.behind /\ r.page.suspended = pg.suspended
           /\ r.page.verified \in {pg.verified, Nothing}
           /\ r.draft \in {d, NoDraft}
           /\ r.draft # d => Removable(pg, d)
  <1> DEFINE f == Forgotten(pg)
             r == DiscardDraft(pg, d, outcome)
  <1>1. /\ f \in PageStates /\ SameForm(f, pg)
        /\ ~ f.timer /\ f.behind
        /\ f.suspended = pg.suspended /\ f.verified = pg.verified
    BY ForgottenFacts
  <1> HIDE DEF f
  <1>2. d.kind = "none" => d = NoDraft
    BY DEF Drafts
  <1>3. /\ r.page \in {f, [f EXCEPT !.verified = Nothing],
                       [f EXCEPT !.trouble = d.kind = "ok" /\ ~ Removable(pg, d)]}
        /\ r.draft \in {d, NoDraft} /\ (r.draft # d => Removable(pg, d))
    BY <1>2 DEF DiscardDraft, Result, f
  <1>4. Nothing \in [writer : Pages \cup {None}, rev : Nat]
    BY DEF Nothing, None
  <1>5. CASE r.page = f
    BY <1>1, <1>3, <1>5
  <1>6. CASE r.page = [f EXCEPT !.verified = Nothing]
    BY <1>1, <1>3, <1>4, <1>6 DEF PageStates, SameForm
  <1>7. CASE r.page = [f EXCEPT !.trouble = d.kind = "ok" /\ ~ Removable(pg, d)]
    BY <1>1, <1>3, <1>7 DEF PageStates, SameForm
  <1> QED
    BY <1>3, <1>5, <1>6, <1>7

LEMMA RetireFacts ==
    ASSUME NEW pg \in PageStates, NEW d \in Drafts, NEW id \in Ids,
           NEW remove \in Outcomes, NEW stamp \in Outcomes
    PROVE  LET r == RetireDraft(pg, d, id, remove, stamp) IN
           /\ r.page \in PageStates /\ SameForm(r.page, pg)
           /\ ~ r.page.timer /\ r.page.behind /\ r.page.suspended = pg.suspended
           /\ r.page.verified \in {pg.verified, Nothing}
           /\ r.draft \in Drafts /\ Remains(r.draft, d)
           /\ r.draft # d => Removable(pg, d)
  <1> DEFINE f == Forgotten(pg)
             r == RetireDraft(pg, d, id, remove, stamp)
             s == [d EXCEPT !.savedAs = id]
  <1>1. /\ f \in PageStates /\ SameForm(f, pg)
        /\ ~ f.timer /\ f.behind
        /\ f.suspended = pg.suspended /\ f.verified = pg.verified
    BY ForgottenFacts
  <1> HIDE DEF f
  <1>2. (d.kind = "none" => d = NoDraft) /\ d \in DraftKinds
    BY DEF Drafts
  <1>3. /\ r.page \in {f, [f EXCEPT !.verified = Nothing]}
        /\ r.draft \in {d, NoDraft} \/ (r.draft = s /\ Removable(pg, d))
        /\ r.draft # d => Removable(pg, d)
    <2>1. ~ Removable(pg, NoDraft)
      BY NoDraftType DEF Removable
    <2> QED
      BY <1>2, <2>1 DEF RetireDraft, Result, f
  <1>4. Nothing \in [writer : Pages \cup {None}, rev : Nat]
    BY DEF Nothing, None
  <1>5. /\ r.page \in PageStates /\ SameForm(r.page, pg)
        /\ ~ r.page.timer /\ r.page.behind /\ r.page.suspended = pg.suspended
        /\ r.page.verified \in {pg.verified, Nothing}
    <2>1. CASE r.page = f
      BY <1>1, <2>1
    <2>2. CASE r.page = [f EXCEPT !.verified = Nothing]
      BY <1>1, <1>4, <2>2 DEF PageStates, SameForm
    <2> QED
      BY <1>3, <2>1, <2>2
  <1>6. r.draft \in Drafts /\ Remains(r.draft, d)
    <2>1. CASE r.draft = s /\ Removable(pg, d)
      <3>1. d.kind = "ok"
        BY <2>1 DEF Removable
      <3>2. /\ s \in DraftKinds /\ s.kind = "ok" /\ s.writer = d.writer /\ s.rev = d.rev
            /\ s.edits = d.edits /\ s.pendingId = d.pendingId
        BY <1>2, <3>1 DEF DraftKinds
      <3> QED
        BY <2>1, <3>1, <3>2 DEF Drafts, Remains
    <2>2. CASE r.draft = d
      BY <2>2 DEF Remains
    <2>3. CASE r.draft = NoDraft
      BY <2>3, NoDraftType DEF Remains
    <2> QED
      BY <1>3, <2>1, <2>2, <2>3
  <1> QED
    BY <1>3, <1>5, <1>6

(* A write is made and confirmed, or the page says that it was not.        *)
LEMMA WriteFacts ==
    ASSUME NEW p \in Pages, NEW pg \in PageStates, NEW d \in Drafts,
           NEW id \in Ids \cup {None}, NEW outcome \in Outcomes
    PROVE  LET r == WriteDraftNow(p, pg, d, id, outcome) IN
           /\ r.page \in PageStates /\ r.draft \in Drafts /\ SameForm(r.page, pg)
           /\ ~ r.page.timer
           /\ r.page.suspended => pg.suspended \/ d.kind = "unreadable"
           /\ r.draft # d => MayWrite(p, pg, d) /\ WrittenBy(p, pg, id, r.draft)
           /\ \/ /\ MayWrite(p, pg, d) /\ WrittenBy(p, pg, id, r.draft)
                 /\ ~ r.page.behind /\ r.page.verified = [writer |-> p, rev |-> r.draft.rev]
              \/ /\ r.page.behind = pg.behind /\ r.page.verified = pg.verified
                 /\ r.page.trouble \/ r.page.suspended
  <1> DEFINE t == IF d.kind = "unreadable"
                  THEN [pg EXCEPT !.timer = FALSE, !.suspended = TRUE]
                  ELSE [pg EXCEPT !.timer = FALSE, !.trouble = TRUE]
             rev == pg.verified.rev + 1
             w == [kind |-> "ok", writer |-> p, rev |-> rev, edits |-> pg.edits,
                   stage |-> pg.stage, pendingId |-> id, savedAs |-> None]
             c == [t EXCEPT !.trouble = FALSE, !.behind = FALSE,
                            !.verified = [writer |-> p, rev |-> rev]]
             r == WriteDraftNow(p, pg, d, id, outcome)
  <1>1. rev \in Nat /\ rev > 0 /\ pg.edits \in SUBSET Edits /\ pg.stage \in Stages
    BY DEF PageStates
  <1>2. w \in Drafts /\ WrittenBy(p, pg, id, w) /\ w.rev = rev
    BY <1>1 DEF Drafts, DraftKinds, WrittenBy, None
  <1>3. /\ t \in PageStates /\ SameForm(t, pg) /\ ~ t.timer
        /\ t.suspended => pg.suspended \/ d.kind = "unreadable"
        /\ t.behind = pg.behind /\ t.verified = pg.verified
        /\ t.trouble \/ t.suspended
    <2>1. CASE d.kind = "unreadable"
      BY <2>1 DEF PageStates, SameForm
    <2>2. CASE d.kind # "unreadable"
      BY <2>2 DEF PageStates, SameForm
    <2> QED
      BY <2>1, <2>2
  <1>4. r = IF ~ MayWrite(p, pg, d) THEN Result(t, d)
            ELSE Result(IF outcome = "done" THEN c ELSE t, IF outcome = "lost" THEN d ELSE w)
    BY DEF WriteDraftNow
  <1> HIDE DEF t, w, rev, r
  <1>5. /\ c \in PageStates /\ SameForm(c, pg) /\ ~ c.timer /\ ~ c.behind
        /\ c.suspended = t.suspended /\ c.verified = [writer |-> p, rev |-> rev]
    BY <1>1, <1>3 DEF PageStates, SameForm
  <1> HIDE DEF c
  <1>6. /\ r.page = IF MayWrite(p, pg, d) /\ outcome = "done" THEN c ELSE t
        /\ r.draft = IF MayWrite(p, pg, d) /\ outcome # "lost" THEN w ELSE d
    BY <1>4 DEF Result
  <1> QED
    BY <1>2, <1>3, <1>5, <1>6 DEF r

LEMMA ScheduledFacts ==
    ASSUME NEW pg \in PageStates
    PROVE  LET s == Scheduled(pg) IN
           /\ s \in PageStates /\ SameForm(s, pg)
           /\ s.suspended = pg.suspended /\ s.verified = pg.verified
           /\ s.trouble = pg.trouble
           /\ IF pg.autosave /\ ~ pg.suspended THEN s.behind /\ s.timer
              ELSE s.behind = pg.behind /\ s.timer = pg.timer
  <1>1. CASE pg.autosave /\ ~ pg.suspended
    BY <1>1 DEF Scheduled, PageStates, SameForm
  <1>2. CASE ~ (pg.autosave /\ ~ pg.suspended)
    BY <1>2, Zenon DEF Scheduled, SameForm
  <1> QED
    BY <1>1, <1>2

LEMMA NewFormFacts ==
    ASSUME NEW pg \in PageStates, NEW content \in SUBSET Edits
    PROVE  LET n == NewForm(pg, content) IN
           /\ n \in PageStates /\ n.edits = content /\ (n.blank <=> content = {})
           /\ n.pc = pg.pc /\ n.autosave = pg.autosave /\ n.suspended = pg.suspended
           /\ n.verified = pg.verified /\ n.behind = pg.behind /\ n.timer = pg.timer
           /\ n.trouble = pg.trouble
           /\ ~ n.dirty /\ ~ n.saved /\ n.pendingId = None /\ pg.seen \subseteq n.seen
  BY DEF NewForm, PageStates, Stages, None

-----------------------------------------------------------------------------
(* What holds of everything but the pages and the draft.                   *)

WorldInv ==
    /\ history \in [Ids -> SUBSET Edits] /\ autosaveKey \in BOOLEAN
    /\ loads \in 0 .. MaxPages
    /\ ids \in 0 .. MaxIds /\ edits \in 0 .. MaxEdits
    /\ faults \in 0 .. MaxFaults /\ backIns \in 0 .. MaxBackIns
    /\ reported \subseteq Ids /\ unrecorded \subseteq Ids /\ reoffered \subseteq SUBSET Edits
    /\ misled \subseteq Pages
    /\ \A i \in Ids : history[i] \subseteq 1 .. edits /\ (i > ids => history[i] = {})
    /\ reported \subseteq 1 .. ids

LEMMA WorldFacts ==
    ASSUME NotebookInv
    PROVE  WorldInv /\ page \in [Pages -> PageStates] /\ draft \in Drafts
  BY DEF NotebookInv, TypeOK, CountsInv, WorldInv, Drafts

LEMMA OpenPage ==
    ASSUME NotebookInv, NEW p \in Pages, IsOpen(p)
    PROVE  /\ page[p] \in PageStates /\ p \in 1 .. loads
           /\ page[p].pendingId \in 0 .. ids /\ page[p].edits \subseteq 1 .. edits
           /\ Coming(page[p]) /\ OwnDraft(p, page[p], draft)
           /\ MaxOpen = 1 => /\ LonePage /\ LoneForm(page[p]) /\ LoneWriter(p, page[p], draft)
                             /\ LoneDraft(draft) /\ Kept(page[p], draft)
                             /\ \A q \in Pages : IsOpen(q) => q = p
  <1>1. page[p] \in PageStates /\ loads \in Nat /\ page[p].pc # "closed"
    BY WorldFacts DEF WorldInv, IsOpen
  <1>2. page[p] # Closed
    BY <1>1 DEF Closed
  <1>3. p \in 1 .. loads
    BY <1>1, <1>2 DEF NotebookInv, CountsInv, Pages
  <1> QED
    BY <1>1, <1>3 DEF NotebookInv, CountsInv, PagesInv, LonePage

LEMMA ClosedFacts ==
    /\ Closed \in PageStates /\ Closed.pc = "closed" /\ ~ Closed.autosave /\ Closed.edits = {}
    /\ Closed.pendingId = None /\ ~ Closed.timer /\ ~ Closed.saved /\ ~ Closed.suspended
    /\ Closed.verified = Nothing /\ Closed.seen = {} /\ Closed.blank
  BY NoDraftType DEF Closed, PageStates, Drafts, Nothing, None, Stages

(* What the page takes for its own is a draft it has shown, or one of its  *)
(* own.                                                                    *)
Spares(p, next, e) ==
    \/ e.kind # "ok" \/ e.writer = p \/ next.verified = Nothing
    \/ e.edits \subseteq next.seen
    \/ /\ Remains(e, draft)
       /\ next.verified = page[p].verified /\ page[p].seen \subseteq next.seen

LEMMA KnownStays ==
    ASSUME NEW p \in Pages, NEW next \in PageStates, NEW e \in Drafts,
           page' = [page EXCEPT ![p] = next], page \in [Pages -> PageStates], draft' = e,
           \A q \in Pages : Known(q, page[q], draft), Spares(p, next, e),
           \/ misled' = Misled
           \/ misled' = misled /\ (e.kind # "ok" \/ Remains(e, draft))
    PROVE  \A q \in Pages : Known(q, page[q], draft)'
  <1> SUFFICES ASSUME NEW q \in Pages, e.kind = "ok", e.writer # q,
                      page'[q].verified # Nothing, page'[q].verified.rev = e.rev,
                      ~ (e.edits \subseteq page'[q].seen)
               PROVE  q \in misled'
    BY DEF Known
  <1>1. page'[q] = IF q = p THEN next ELSE page[q]
    OBVIOUS
  <1>2. CASE Remains(e, draft) /\ page'[q].verified = page[q].verified
                               /\ page[q].seen \subseteq page'[q].seen
    <2>1. /\ draft.kind = "ok" /\ draft.writer # q /\ page[q].verified # Nothing
          /\ page[q].verified.rev = draft.rev /\ ~ (draft.edits \subseteq page[q].seen)
      BY <1>2 DEF Remains
    <2>2. q \in misled
      BY <2>1 DEF Known
    <2> QED
      BY <1>2, <2>2 DEF Misled
  <1>3. CASE q = p
    BY <1>1, <1>2, <1>3 DEF Spares
  <1>4. CASE q # p /\ ~ Remains(e, draft)
    <2>1. page'[q].verified = page[q].verified /\ misled' = Misled
      BY <1>1, <1>4
    <2>2. CASE Numbered(draft)' # Numbered(draft)
      BY <2>1, <2>2 DEF Misled, NumberTaken
    <2>3. CASE Numbered(draft)' = Numbered(draft)
      <3>1. /\ e.writer = draft.writer /\ e.rev = draft.rev /\ e.edits = draft.edits
            /\ e.kind = draft.kind
        BY <2>3 DEF Numbered
      <3>2. draft.kind = "ok" => q \in misled
        BY <1>1, <1>4, <3>1 DEF Known
      <3>3. draft.kind = "ok"
        BY <1>4, <3>1
      <3> QED
        BY <2>1, <3>2, <3>3 DEF Misled
    <2> QED
      BY <2>2, <2>3
  <1>5. CASE q # p /\ Remains(e, draft)
    BY <1>1, <1>2, <1>5
  <1> QED
    BY <1>3, <1>4, <1>5

(* A step of one page, whatever becomes of the draft.                      *)
LEMMA MoveKeeps ==
    ASSUME NotebookInv, WorldInv', NEW p \in Pages, NEW next \in PageStates, NEW e \in Drafts,
           page' = [page EXCEPT ![p] = next], draft' = e,
           loads <= loads', ids <= ids', edits <= edits',
           p <= loads', next.pc = "closed" => next = Closed,
           next.pendingId \in 0 .. ids', next.edits \subseteq 1 .. edits',
           e.kind = "ok" => e.writer \in 1 .. loads',
           e.pendingId \in 0 .. ids', e.edits \subseteq 1 .. edits',
           Coming(next), OwnDraft(p, next, e),
           e.kind # "ok" \/ e.writer = p \/ Remains(e, draft),
           Spares(p, next, e),
           \/ misled' = Misled
           \/ misled' = misled /\ (e.kind # "ok" \/ Remains(e, draft)),
           MaxOpen = 1 =>
              /\ \A q \in Pages : IsOpen(q) => q = p
              /\ LoneForm(next)' /\ LoneWriter(p, next, e) /\ LoneDraft(e)'
              /\ NoDuplicateRecord' /\ Kept(next, e)'
    PROVE  NotebookInv'
  <1>1. /\ page \in [Pages -> PageStates] /\ WorldInv
        /\ \A q \in Pages : page'[q] = IF q = p THEN next ELSE page[q]
        /\ page' \in [Pages -> PageStates]
    BY WorldFacts
  <1>2. TypeOK'
    BY <1>1 DEF TypeOK, WorldInv, Drafts
  <1>3. /\ loads \in Nat /\ loads' \in Nat /\ ids \in Nat /\ ids' \in Nat
        /\ edits \in Nat /\ edits' \in Nat
    BY <1>1, NotebookAssumption DEF WorldInv
  <1>4. CountsInv'
    <2>1. \A q \in Pages : (q > loads' \/ page'[q].pc = "closed") => page'[q] = Closed
      BY <1>1, <1>3 DEF NotebookInv, CountsInv, Pages
    <2>2. \A q \in Pages : page'[q].pendingId \in 0 .. ids' /\ page'[q].edits \subseteq 1 .. edits'
      BY <1>1, <1>3 DEF NotebookInv, CountsInv
    <2>3. e.kind = "none" => e = NoDraft
      BY DEF Drafts
    <2> QED
      BY <2>1, <2>2, <2>3 DEF CountsInv, WorldInv
  <1>5. PagesInv'
    <2>1. ASSUME NEW q \in Pages, q # p
          PROVE  OwnDraft(q, page[q], e)
      <3>1. OwnDraft(q, page[q], draft)
        BY DEF NotebookInv, PagesInv
      <3>2. CASE e.kind # "ok"
        BY <3>2 DEF OwnDraft, Holds, Removable
      <3>3. CASE e.writer = p
        BY <2>1, <3>3 DEF OwnDraft
      <3>4. CASE e.kind = "ok" /\ Remains(e, draft)
        BY <3>1, <3>4 DEF OwnDraft, Holds, Removable, Remains
      <3> QED
        BY <3>2, <3>3, <3>4
    <2>2. \A q \in Pages : Known(q, page[q], draft)'
      BY <1>1, KnownStays DEF NotebookInv, PagesInv
    <2> QED
      BY <1>1, <2>1, <2>2 DEF NotebookInv, PagesInv
  <1>6. ASSUME MaxOpen = 1 PROVE LonePage'
    <2>1. \A q \in Pages : q # p => page'[q] = Closed
      BY <1>1, <1>6 DEF IsOpen, NotebookInv, CountsInv
    <2>2. \A q \in Pages : q # p => LoneForm(page[q])'
      BY <2>1, ClosedFacts DEF LoneForm, Newer, Traced, Clean, None, WorldInv, Ids
    <2>3. \A q \in Pages : IsOpen(q)' => q = p
      BY <2>1, ClosedFacts DEF IsOpen
    <2>4. \A q \in Pages : LoneForm(page[q])'
      BY <1>1, <1>6, <2>2 DEF LoneForm
    <2>5. \A q \in Pages : Kept(page[q], draft)'
      <3>1. \A q \in Pages : q # p => page'[q].pc = "closed"
        BY <2>1, ClosedFacts
      <3> QED
        BY <1>1, <1>6, <3>1 DEF Kept
    <2> QED
      BY <1>1, <1>6, <2>3, <2>4, <2>5 DEF LonePage
  <1> QED
    BY <1>2, <1>4, <1>5, <1>6 DEF NotebookInv

(* Records that stay, with more of them known to be unnamed or offered     *)
(* again.                                                                  *)
RecordsStay ==
    /\ history' = history /\ reported' = reported
    /\ unrecorded \subseteq unrecorded' /\ reoffered \subseteq reoffered'
    /\ misled' \in {misled, Misled}

LEMMA OneRecordStays ==
    ASSUME NoDuplicateRecord, RecordsStay
    PROVE  NoDuplicateRecord'
  BY DEF NoDuplicateRecord, Duplicates, RecordsStay

LEMMA FormStays ==
    ASSUME RecordsStay, NEW a \in PageStates, NEW b \in PageStates, LoneForm(a),
           b.edits = a.edits, b.pendingId = a.pendingId,
           Clean(a) /\ ~ Clean(b) => b.edits \in reoffered',
           Clean(b) /\ b.timer => (Clean(a) /\ a.timer) \/ b.edits \in reoffered'
    PROVE  LoneForm(b)'
  <1>1. Newer(b.edits, b.pendingId, history', reported' \ unrecorded')
    BY DEF LoneForm, Newer, RecordsStay
  <1>2. ~ Clean(b) => Traced(b.edits, b.pendingId, history', unrecorded', reoffered')
    BY DEF LoneForm, Traced, RecordsStay
  <1>3. Clean(b) /\ b.timer => b.edits \in reoffered'
    BY DEF LoneForm, RecordsStay
  <1> QED
    BY <1>1, <1>2, <1>3 DEF LoneForm, Clean

LEMMA DraftStays ==
    ASSUME RecordsStay, NEW d \in Drafts, NEW e \in Drafts, LoneDraft(d),
           e.kind # "ok" \/ Remains(e, d)
    PROVE  LoneDraft(e)'
  <1>1. ASSUME e.kind = "ok"
        PROVE  /\ Newer(e.edits, e.pendingId, history', reported' \ unrecorded')
               /\ Traced(e.edits, e.pendingId, history', unrecorded', reoffered')
    <2>1. d.kind = "ok" /\ e.edits = d.edits /\ e.pendingId = d.pendingId
      BY <1>1 DEF Remains
    <2> QED
      BY <2>1 DEF LoneDraft, Newer, Traced, RecordsStay
  <1> QED
    BY <1>1 DEF LoneDraft

(* The page has the switch as it leaves it.                                *)
Follows(p, next) ==
    \/ next.autosave = autosaveKey'
    \/ next.autosave = page[p].autosave /\ autosaveKey' = autosaveKey

LEMMA KeptStays ==
    ASSUME RecordsStay, NEW p \in Pages, NEW next, NEW e,
           next.pc = "closed" \/ (page[p].pc # "closed" /\ Follows(p, next)),
           Kept(page[p], draft),
           Holds(next, e) => e = draft /\ Holds(page[p], draft)
    PROVE  Kept(next, e)'
  BY DEF Kept, Follows, RecordsStay, AlreadySaved

(* A step of the page alone, that leaves what the form holds as it is.     *)
LEMMA QuietKeeps ==
    ASSUME NotebookInv, WorldInv', NEW p \in Pages, IsOpen(p), NEW next \in PageStates,
           page' = [page EXCEPT ![p] = next], next.pc # "closed",
           UNCHANGED <<draft, loads, ids, edits>>, RecordsStay,
           next.edits = page[p].edits, next.pendingId = page[p].pendingId,
           next.seen = page[p].seen, next.verified = page[p].verified,
           next.suspended = page[p].suspended, Follows(p, next),
           Coming(next),
           Holds(next, draft) => Holds(page[p], draft),
           Clean(page[p]) /\ ~ Clean(next) => next.edits \in reoffered',
           Clean(next) /\ next.timer =>
              (Clean(page[p]) /\ page[p].timer) \/ next.edits \in reoffered'
    PROVE  NotebookInv'
  <1>1. /\ page[p] \in PageStates /\ p \in 1 .. loads /\ draft \in Drafts
        /\ page[p].pendingId \in 0 .. ids /\ page[p].edits \subseteq 1 .. edits
        /\ OwnDraft(p, page[p], draft)
        /\ loads \in Nat /\ ids \in Nat /\ edits \in Nat
    BY OpenPage, WorldFacts, NotebookAssumption DEF WorldInv
  <1>2. OwnDraft(p, next, draft)
    BY <1>1 DEF OwnDraft
  <1>3. Remains(draft, draft)
    BY DEF Remains
  <1>4. ASSUME MaxOpen = 1
        PROVE  /\ \A q \in Pages : IsOpen(q) => q = p
               /\ LoneForm(next)' /\ LoneWriter(p, next, draft) /\ LoneDraft(draft)'
               /\ NoDuplicateRecord' /\ Kept(next, draft)'
    <2>1. /\ LonePage /\ LoneForm(page[p]) /\ LoneWriter(p, page[p], draft) /\ LoneDraft(draft)
          /\ \A q \in Pages : IsOpen(q) => q = p
          /\ Kept(page[p], draft)
      BY <1>4, OpenPage
    <2>2. LoneForm(next)'
      BY <1>1, <2>1, FormStays
    <2>3. LoneWriter(p, next, draft)
      BY <2>1 DEF LoneWriter
    <2>4. LoneDraft(draft)'
      BY <2>1 DEF LoneDraft, Newer, Traced, RecordsStay
    <2>5. NoDuplicateRecord'
      BY <2>1, OneRecordStays DEF LonePage
    <2>6. Kept(next, draft)'
      BY <2>1, KeptStays DEF IsOpen
    <2> QED
      BY <2>1, <2>2, <2>3, <2>4, <2>5, <2>6
  <1>5. /\ draft.kind = "ok" => draft.writer \in 1 .. loads
        /\ draft.pendingId \in 0 .. ids /\ draft.edits \subseteq 1 .. edits
    BY DEF NotebookInv, CountsInv
  <1>6. PICK e \in Drafts : e = draft
    BY <1>1
  <1>7. /\ draft' = e /\ loads <= loads' /\ ids <= ids' /\ edits <= edits' /\ p <= loads'
        /\ next.pendingId \in 0 .. ids' /\ next.edits \subseteq 1 .. edits'
        /\ e.kind = "ok" => e.writer \in 1 .. loads'
        /\ e.pendingId \in 0 .. ids' /\ e.edits \subseteq 1 .. edits'
    BY <1>1, <1>5, <1>6
  <1>8. /\ OwnDraft(p, next, e) /\ Remains(e, draft) /\ Spares(p, next, e)
        /\ misled' \in {misled, Misled}
    BY <1>2, <1>3, <1>6 DEF Spares, RecordsStay
  <1>9. ASSUME MaxOpen = 1
        PROVE  /\ \A q \in Pages : IsOpen(q) => q = p
               /\ LoneForm(next)' /\ LoneWriter(p, next, e) /\ LoneDraft(e)'
               /\ NoDuplicateRecord' /\ Kept(next, e)'
    <2>1. LoneWriter(p, next, e)
      BY <1>4, <1>6, <1>9
    <2>2. LoneDraft(e)'
      BY <1>4, <1>6, <1>9 DEF LoneDraft
    <2>3. Kept(next, e)'
      BY <1>4, <1>6, <1>9 DEF Kept
    <2> QED
      BY <1>4, <1>9, <2>1, <2>2, <2>3
  <1> QED
    BY <1>7, <1>8, <1>9, MoveKeeps

LEMMA WorldStays ==
    ASSUME WorldInv, UNCHANGED <<history, loads, ids, reported, unrecorded>>,
           edits' \in 0 .. MaxEdits, edits <= edits',
           faults' \in 0 .. MaxFaults, backIns' \in 0 .. MaxBackIns,
           autosaveKey' \in BOOLEAN, reoffered' \subseteq SUBSET Edits,
           misled' \subseteq Pages
    PROVE  WorldInv'
  <1>1. edits \in Nat /\ edits' \in Nat
    BY NotebookAssumption DEF WorldInv
  <1> QED
    BY <1>1 DEF WorldInv

LEMMA ReofferedType ==
    ASSUME NotebookInv, NEW p \in Pages
    PROVE  Reoffered(p) \subseteq SUBSET Edits
  <1>1. page[p].edits \in SUBSET Edits
    BY WorldFacts DEF PageStates
  <1> QED
    BY <1>1 DEF Reoffered

-----------------------------------------------------------------------------
(* The stages and the switch.                                              *)

LEMMA StageStepKeeps ==
    ASSUME NotebookInv, NEW p \in Pages, BackIn(p) \/ CorrectPre(p) \/ UndoWindowEnds(p)
    PROVE  NotebookInv'
  <1> DEFINE pg == page[p]
  <1>1. IsOpen(p)
    BY DEF BackIn, CorrectPre, UndoWindowEnds, Ready, IsOpen
  <1>2. pg \in PageStates /\ pg.pc # "closed" /\ Coming(pg) /\ WorldInv
    BY <1>1, OpenPage, WorldFacts DEF IsOpen
  <1>3. PICK stage \in Stages, undo \in BOOLEAN :
           page' = [page EXCEPT ![p] = [pg EXCEPT !.stage = stage, !.undo = undo]]
    <2>1. pg.stage \in Stages /\ pg.undo \in BOOLEAN
      BY <1>2, Zenon DEF PageStates
    <2>2. CASE BackIn(p)
      BY <2>2 DEF BackIn, Set, Stages
    <2>3. CASE CorrectPre(p)
      <3>1. [pg EXCEPT !.stage = "corrected"] = [pg EXCEPT !.stage = "corrected", !.undo = pg.undo]
        BY <1>2 DEF PageStates
      <3>2. page' = [page EXCEPT ![p] = [pg EXCEPT !.stage = "corrected"]]
        BY <2>3 DEF CorrectPre, Set
      <3> QED
        BY <2>1, <3>1, <3>2 DEF Stages
    <2>4. CASE UndoWindowEnds(p)
      <3>1. [pg EXCEPT !.undo = FALSE] = [pg EXCEPT !.stage = pg.stage, !.undo = FALSE]
        BY <1>2 DEF PageStates
      <3>2. page' = [page EXCEPT ![p] = [pg EXCEPT !.undo = FALSE]]
        BY <2>4 DEF UndoWindowEnds, Set
      <3> QED
        BY <2>1, <3>1, <3>2
    <2> QED
      BY <2>2, <2>3, <2>4
  <1>4. PICK next \in PageStates :
           /\ page' = [page EXCEPT ![p] = next] /\ SameForm(next, pg)
           /\ next.verified = pg.verified /\ next.suspended = pg.suspended
           /\ next.timer = pg.timer /\ next.behind = pg.behind /\ next.trouble = pg.trouble
    <2> DEFINE n == [pg EXCEPT !.stage = stage, !.undo = undo]
    <2>1. /\ n \in PageStates /\ SameForm(n, pg)
          /\ n.verified = pg.verified /\ n.suspended = pg.suspended
          /\ n.timer = pg.timer /\ n.behind = pg.behind /\ n.trouble = pg.trouble
      BY <1>2 DEF PageStates, SameForm
    <2> QED
      BY <1>3, <2>1
  <1>5. /\ UNCHANGED <<storage, loads, ids, edits, faults, told>>
        /\ backIns' \in {backIns, backIns + 1} /\ (backIns' # backIns => backIns < MaxBackIns)
    BY DEF BackIn, CorrectPre, UndoWindowEnds
  <1>6. WorldInv' /\ RecordsStay
    <2>1. backIns' \in 0 .. MaxBackIns
      BY <1>2, <1>5, NotebookAssumption DEF WorldInv
    <2>2. edits \in Nat
      BY <1>2, NotebookAssumption DEF WorldInv
    <2> QED
      BY <1>2, <1>5, <2>1, <2>2, WorldStays DEF WorldInv, RecordsStay
  <1>7. /\ Coming(next) /\ (Holds(next, draft) => Holds(pg, draft))
        /\ (Clean(next) <=> Clean(pg))
    BY <1>2, <1>4 DEF Coming, Holds, Removable, SameForm, Clean
  <1>8. Follows(p, next)
    BY <1>4, <1>5 DEF Follows, SameForm
  <1> QED
    BY <1>1, <1>2, <1>4, <1>5, <1>6, <1>7, <1>8, QuietKeeps DEF SameForm

(* The page asks, or is answered.                                          *)
LEMMA AskStepKeeps ==
    ASSUME NotebookInv, NEW p \in Pages, AskTurnOff(p) \/ Download(p) \/ Decline(p)
    PROVE  NotebookInv'
  <1> DEFINE pg == page[p]
  <1>1. IsOpen(p)
    BY DEF AskTurnOff, Download, Decline, Ready, IsOpen
  <1>2. pg \in PageStates /\ Coming(pg) /\ WorldInv /\ draft \in DraftKinds
    BY <1>1, OpenPage, WorldFacts DEF Drafts
  <1>3. PICK pc \in {"ready", "asking", "recovering"}, raw \in DraftKinds :
           page' = [page EXCEPT ![p] = [pg EXCEPT !.pc = pc, !.raw = raw]]
    <2>1. pg.raw \in DraftKinds /\ NoDraft \in DraftKinds
      BY <1>2, NoDraftType DEF PageStates, Drafts
    <2>2. CASE AskTurnOff(p)
      <3>1. [pg EXCEPT !.pc = "asking"] = [pg EXCEPT !.pc = "asking", !.raw = pg.raw]
        BY <1>2 DEF PageStates
      <3>2. page' = [page EXCEPT ![p] = [pg EXCEPT !.pc = "asking"]]
        BY <2>2 DEF AskTurnOff, Set
      <3> QED
        BY <2>1, <3>1, <3>2
    <2>3. CASE Download(p)
      BY <1>2, <2>3 DEF Download, Set
    <2>4. CASE Decline(p)
      BY <2>1, <2>4 DEF Decline, Back, Set
    <2> QED
      BY <2>2, <2>3, <2>4
  <1>4. PICK next \in PageStates :
           /\ page' = [page EXCEPT ![p] = next] /\ next.pc # "closed"
           /\ next.autosave = pg.autosave /\ next.edits = pg.edits /\ next.blank = pg.blank
           /\ next.dirty = pg.dirty /\ next.saved = pg.saved
           /\ next.pendingId = pg.pendingId /\ next.seen = pg.seen
           /\ next.verified = pg.verified /\ next.suspended = pg.suspended
           /\ next.timer = pg.timer /\ next.behind = pg.behind /\ next.trouble = pg.trouble
    <2> DEFINE n == [pg EXCEPT !.pc = pc, !.raw = raw]
    <2>1. /\ n \in PageStates /\ n.pc # "closed"
          /\ n.autosave = pg.autosave /\ n.edits = pg.edits /\ n.blank = pg.blank
          /\ n.dirty = pg.dirty /\ n.saved = pg.saved
          /\ n.pendingId = pg.pendingId /\ n.seen = pg.seen
          /\ n.verified = pg.verified /\ n.suspended = pg.suspended
          /\ n.timer = pg.timer /\ n.behind = pg.behind /\ n.trouble = pg.trouble
      BY <1>2 DEF PageStates
    <2> QED
      BY <1>3, <2>1
  <1>5. UNCHANGED <<storage, bounds, told>>
    BY DEF AskTurnOff, Download, Decline
  <1>6. WorldInv' /\ RecordsStay
    BY <1>2, <1>5 DEF WorldInv, RecordsStay
  <1>7. /\ Coming(next) /\ (Holds(next, draft) => Holds(pg, draft))
        /\ (Clean(next) <=> Clean(pg))
    BY <1>2, <1>4 DEF Coming, Holds, Removable, Clean
  <1>8. Follows(p, next)
    BY <1>4, <1>5 DEF Follows
  <1> QED
    BY <1>1, <1>2, <1>4, <1>5, <1>6, <1>7, <1>8, QuietKeeps

LEMMA UndoPostKeeps ==
    ASSUME NotebookInv, NEW p \in Pages, UndoPost(p)
    PROVE  NotebookInv'
  <1> DEFINE pg == page[p]
             back == Unsaved([pg EXCEPT !.stage = "pre", !.undo = FALSE])
  <1>1. IsOpen(p)
    BY DEF UndoPost, Ready, IsOpen
  <1>2. pg \in PageStates /\ pg.pc # "closed" /\ Coming(pg) /\ WorldInv
    BY <1>1, OpenPage, WorldFacts DEF IsOpen
  <1>3. /\ back \in PageStates /\ back.pc # "closed" /\ back.dirty
        /\ back.autosave = pg.autosave /\ back.edits = pg.edits /\ back.blank = pg.blank
        /\ back.pendingId = pg.pendingId /\ back.seen = pg.seen
        /\ back.verified = pg.verified /\ back.suspended = pg.suspended
        /\ back.timer = pg.timer /\ back.behind = pg.behind /\ back.trouble = pg.trouble
    BY <1>2 DEF Unsaved, PageStates, Stages
  <1>4. /\ page' = [page EXCEPT ![p] = Scheduled(back)]
        /\ reoffered' = reoffered \cup Reoffered(p)
        /\ UNCHANGED <<storage, bounds, reported, unrecorded, misled>>
    BY DEF UndoPost, Set
  <1> HIDE DEF back
  <1>5. PICK next \in PageStates :
           /\ next = Scheduled(back) /\ SameForm(next, back)
           /\ next.suspended = back.suspended /\ next.verified = back.verified
           /\ next.trouble = back.trouble
           /\ IF back.autosave /\ ~ back.suspended THEN next.behind /\ next.timer
              ELSE next.behind = back.behind /\ next.timer = back.timer
    BY <1>3, ScheduledFacts
  <1>6. WorldInv' /\ RecordsStay
    <2>1. reoffered' \subseteq SUBSET Edits
      BY <1>2, <1>4, ReofferedType DEF WorldInv
    <2>2. edits \in Nat
      BY <1>2, NotebookAssumption DEF WorldInv
    <2> QED
      BY <1>2, <1>4, <2>1, <2>2, WorldStays DEF WorldInv, RecordsStay
  <1>7. /\ Coming(next) /\ ~ Clean(next)
        /\ Holds(next, draft) => Holds(pg, draft)
    BY <1>2, <1>3, <1>5 DEF Coming, Holds, Removable, SameForm, Clean
  <1>8. Clean(pg) => pg.edits \in reoffered'
    BY <1>4 DEF Reoffered
  <1>9. Follows(p, next)
    BY <1>3, <1>4, <1>5 DEF Follows, SameForm
  <1> QED
    BY <1>1, <1>2, <1>3, <1>4, <1>5, <1>6, <1>7, <1>8, <1>9, QuietKeeps DEF SameForm

LEMMA TurnOnKeeps ==
    ASSUME NotebookInv, NEW p \in Pages, TurnOn(p)
    PROVE  NotebookInv'
  <1> DEFINE pg == page[p]
             on == [pg EXCEPT !.autosave = TRUE]
  <1>1. IsOpen(p)
    BY DEF TurnOn, Ready, IsOpen
  <1>2. pg \in PageStates /\ pg.pc # "closed" /\ Coming(pg) /\ WorldInv
    BY <1>1, OpenPage, WorldFacts DEF IsOpen
  <1>3. /\ on \in PageStates /\ on.pc # "closed" /\ on.autosave /\ on.edits = pg.edits
        /\ on.blank = pg.blank /\ on.dirty = pg.dirty /\ on.saved = pg.saved
        /\ on.pendingId = pg.pendingId /\ on.seen = pg.seen
        /\ on.verified = pg.verified /\ on.suspended = pg.suspended
        /\ on.timer = pg.timer /\ on.behind = pg.behind /\ on.trouble = pg.trouble
    BY <1>2 DEF PageStates
  <1>4. /\ page' = [page EXCEPT ![p] = IF on.blank THEN on ELSE Scheduled(on)]
        /\ reoffered' = reoffered \cup Reoffered(p)
        /\ autosaveKey' = TRUE
        /\ UNCHANGED <<draft, history, bounds, reported, unrecorded, misled>>
    BY DEF TurnOn, Set
  <1> HIDE DEF on
  <1>5. PICK next \in PageStates :
           /\ page' = [page EXCEPT ![p] = next] /\ SameForm(next, on)
           /\ next.suspended = on.suspended /\ next.verified = on.verified
           /\ next.trouble = on.trouble
           /\ IF ~ on.blank /\ ~ on.suspended THEN next.behind /\ next.timer
              ELSE next.behind = on.behind /\ next.timer = on.timer
    <2>1. CASE on.blank
      BY <1>3, <1>4, <2>1 DEF SameForm
    <2>2. CASE ~ on.blank
      BY <1>3, <1>4, <2>2, ScheduledFacts
    <2> QED
      BY <2>1, <2>2
  <1>6. WorldInv' /\ RecordsStay
    <2>1. reoffered' \subseteq SUBSET Edits
      BY <1>2, <1>4, ReofferedType DEF WorldInv
    <2>2. edits \in Nat
      BY <1>2, NotebookAssumption DEF WorldInv
    <2> QED
      BY <1>2, <1>4, <2>1, <2>2, WorldStays DEF WorldInv, RecordsStay
  <1>7. /\ Coming(next) /\ ~ Holds(next, draft) /\ (Clean(next) <=> Clean(pg))
    BY <1>2, <1>3, <1>5 DEF Coming, Holds, SameForm, Clean
  <1>8. Clean(pg) => pg.edits \in reoffered'
    BY <1>4 DEF Reoffered
  <1>9. /\ page' = [page EXCEPT ![p] = next] /\ next.pc # "closed"
        /\ next.edits = pg.edits /\ next.pendingId = pg.pendingId /\ next.seen = pg.seen
        /\ next.verified = pg.verified /\ next.suspended = pg.suspended
        /\ UNCHANGED <<draft, loads, ids, edits>>
    BY <1>3, <1>4, <1>5 DEF SameForm
  <1>10. Follows(p, next)
    BY <1>3, <1>4, <1>5 DEF Follows, SameForm
  <1> QED
    BY <1>1, <1>6, <1>7, <1>8, <1>9, <1>10, QuietKeeps

-----------------------------------------------------------------------------
(* Forms that change.                                                      *)

(* A step of an open page that leaves the records alone.                   *)
LEMMA FormMoves ==
    ASSUME NotebookInv, WorldInv', NEW p \in Pages, IsOpen(p),
           NEW next \in PageStates, NEW e \in Drafts,
           page' = [page EXCEPT ![p] = next], draft' = e,
           UNCHANGED <<loads, ids>>, edits <= edits', RecordsStay,
           next.pc = "closed" => next = Closed, next.pc = "closed" \/ Follows(p, next),
           next.pendingId \in 0 .. ids, next.edits \subseteq 1 .. edits',
           Coming(next), ~ Holds(next, e),
           Remains(e, draft), Spares(p, next, e),
           e.kind = "none" => e = NoDraft,
           MaxOpen = 1 => LoneForm(next)' /\ LoneWriter(p, next, e)
    PROVE  NotebookInv'
  <1>1. /\ p \in 1 .. loads /\ draft \in Drafts
        /\ loads \in Nat /\ ids \in Nat /\ edits \in Nat /\ edits' \in Nat
    BY OpenPage, WorldFacts, NotebookAssumption DEF WorldInv
  <1>2. /\ draft.kind = "ok" => draft.writer \in 1 .. loads
        /\ draft.pendingId \in 0 .. ids /\ draft.edits \subseteq 1 .. edits
    BY DEF NotebookInv, CountsInv
  <1>3. /\ e.kind = "ok" => e.writer \in 1 .. loads' /\ Remains(e, draft)
        /\ e.pendingId \in 0 .. ids' /\ e.edits \subseteq 1 .. edits'
    BY <1>1, <1>2 DEF Remains, NoDraft, None
  <1>4. OwnDraft(p, next, e)
    BY DEF OwnDraft
  <1>5. ASSUME MaxOpen = 1
        PROVE  /\ \A q \in Pages : IsOpen(q) => q = p
               /\ LoneForm(next)' /\ LoneWriter(p, next, e) /\ LoneDraft(e)'
               /\ NoDuplicateRecord' /\ Kept(next, e)'
    <2>1. /\ LonePage /\ LoneDraft(draft) /\ \A q \in Pages : IsOpen(q) => q = p
          /\ Kept(page[p], draft)
      BY <1>5, OpenPage
    <2>2. LoneDraft(e)'
      BY <1>1, <1>3, <2>1, DraftStays
    <2>3. NoDuplicateRecord'
      BY <2>1, OneRecordStays DEF LonePage
    <2>4. Kept(next, e)'
      BY <2>1, KeptStays DEF IsOpen
    <2> QED
      BY <1>5, <2>1, <2>2, <2>3, <2>4
  <1>6. /\ loads <= loads' /\ ids <= ids' /\ p <= loads' /\ next.pendingId \in 0 .. ids'
        /\ misled' \in {misled, Misled}
    BY <1>1 DEF RecordsStay
  <1> QED
    BY <1>1, <1>3, <1>4, <1>5, <1>6, MoveKeeps

(* Entries with an edit that is in no record.                              *)
LEMMA FreshForm ==
    ASSUME WorldInv, RecordsStay, NEW b \in PageStates, ~ Clean(b),
           b.edits = {} \/ edits + 1 \in b.edits,
           b.pendingId \in reported \ unrecorded => history[b.pendingId] \subseteq b.edits
    PROVE  LoneForm(b)'
  <1>1. edits \in Nat
    BY NotebookAssumption DEF WorldInv
  <1>2. Newer(b.edits, b.pendingId, history', reported' \ unrecorded')
    BY DEF Newer, RecordsStay
  <1>3. Traced(b.edits, b.pendingId, history', unrecorded', reoffered')
    <2>1. \A i \in Ids : edits + 1 \notin history[i]
      BY <1>1 DEF WorldInv
    <2> QED
      BY <2>1 DEF Traced, RecordsStay
  <1> QED
    BY <1>2, <1>3 DEF LoneForm, Clean

LEMMA NoIdIsSafe == WorldInv => None \notin reported
  BY DEF WorldInv, Ids, None

LEMMA EditKeeps ==
    ASSUME NotebookInv, NEW p \in Pages, NEW blank \in BOOLEAN, Edit(p, blank)
    PROVE  NotebookInv'
  <1> DEFINE pg  == page[p]
             n   == edits + 1
             typed == Unsaved([pg EXCEPT !.edits = @ \cup {n}, !.seen = @ \cup {n},
                                         !.blank = blank])
  <1>1. IsOpen(p)
    BY DEF Edit, Ready, IsOpen
  <1>2. /\ pg \in PageStates /\ pg.pc # "closed" /\ WorldInv /\ draft \in Drafts
        /\ pg.pendingId \in 0 .. ids /\ pg.edits \subseteq 1 .. edits
    BY <1>1, OpenPage, WorldFacts DEF IsOpen
  <1>3. /\ edits' = n /\ n \in Edits /\ n \in Nat /\ edits \in Nat /\ edits <= n
        /\ n \in 0 .. MaxEdits /\ n \in 1 .. n /\ 1 .. edits \subseteq 1 .. n
    BY <1>2, NotebookAssumption DEF Edit, WorldInv, Edits
  <1>4. /\ page' = [page EXCEPT ![p] = Scheduled(typed)]
        /\ UNCHANGED <<storage, loads, ids, faults, backIns, told>>
    BY <1>3 DEF Edit, Set
  <1> HIDE DEF n
  <1>5. /\ typed \in PageStates /\ typed.pc # "closed" /\ typed.dirty
        /\ typed.autosave = pg.autosave /\ typed.edits = pg.edits \cup {n}
        /\ typed.pendingId = pg.pendingId /\ pg.seen \subseteq typed.seen
        /\ typed.verified = pg.verified /\ typed.suspended = pg.suspended
    BY <1>2, <1>3 DEF Unsaved, PageStates
  <1> HIDE DEF typed
  <1>6. PICK next \in PageStates :
           /\ page' = [page EXCEPT ![p] = next] /\ SameForm(next, typed)
           /\ next.suspended = typed.suspended /\ next.verified = typed.verified
           /\ IF typed.autosave /\ ~ typed.suspended THEN next.behind /\ next.timer
              ELSE next.behind = typed.behind /\ next.timer = typed.timer
    BY <1>4, <1>5, ScheduledFacts
  <1>7. /\ next.pc # "closed" /\ ~ Clean(next)
        /\ next.edits = pg.edits \cup {n} /\ next.pendingId = pg.pendingId
        /\ pg.seen \subseteq next.seen
        /\ next.verified = pg.verified /\ next.suspended = pg.suspended
    BY <1>5, <1>6 DEF SameForm, Clean
  <1>8. Coming(next) /\ ~ Holds(next, draft)
    BY <1>5, <1>6 DEF Coming, Holds, SameForm
  <1>9. WorldInv' /\ RecordsStay
    BY <1>2, <1>3, <1>4, WorldStays DEF WorldInv, RecordsStay
  <1>10. ASSUME MaxOpen = 1 PROVE LoneForm(next)' /\ LoneWriter(p, next, draft)
    <2>1. LoneForm(pg) /\ LoneWriter(p, pg, draft)
      BY <1>1, <1>10, OpenPage
    <2>2. LoneForm(next)'
      BY <1>2, <1>7, <1>9, <2>1, FreshForm DEF LoneForm, Newer, n
    <2>3. LoneWriter(p, next, draft)
      BY <1>7, <1>8, <2>1 DEF LoneWriter
    <2> QED
      BY <2>2, <2>3
  <1>11. next.edits \subseteq 1 .. edits'
    BY <1>2, <1>3, <1>7
  <1>12. Remains(draft, draft) /\ (draft.kind = "none" => draft = NoDraft)
    BY <1>2 DEF Remains, Drafts
  <1>13. PICK e \in Drafts : e = draft
    BY <1>2
  <1>14. MaxOpen = 1 => LoneForm(next)' /\ LoneWriter(p, next, e)
    BY <1>10, <1>13
  <1>15. draft' = e /\ ~ Holds(next, e) /\ Remains(e, draft) /\ (e.kind = "none" => e = NoDraft)
         /\ UNCHANGED <<loads, ids>> /\ edits <= edits'
    BY <1>3, <1>4, <1>8, <1>12, <1>13
  <1>16. Follows(p, next) /\ Spares(p, next, e)
    BY <1>4, <1>5, <1>6, <1>7, <1>15 DEF Follows, SameForm, Spares
  <1> QED
    BY <1>1, <1>2, <1>6, <1>7, <1>8, <1>9, <1>11, <1>14, <1>15, <1>16, FormMoves

LEMMA CopyToFormKeeps ==
    ASSUME NotebookInv, NEW p \in Pages, NEW i \in Ids, CopyToForm(p, i)
    PROVE  NotebookInv'
  <1> DEFINE pg   == page[p]
             n    == edits + 1
             form == NewForm(pg, {n})
             copy == Unsaved(form)
             left == Forgotten(copy)
  <1>1. IsOpen(p)
    BY DEF CopyToForm, Ready, IsOpen
  <1>2. pg \in PageStates /\ pg.pc # "closed" /\ WorldInv /\ draft \in Drafts
    BY <1>1, OpenPage, WorldFacts DEF IsOpen
  <1>3. /\ edits' = n /\ {n} \in SUBSET Edits /\ edits \in Nat /\ edits <= n
        /\ n \in 0 .. MaxEdits /\ {n} \subseteq 1 .. n
    BY <1>2, NotebookAssumption DEF CopyToForm, WorldInv, Edits
  <1>4. /\ page' = [page EXCEPT ![p] = Scheduled(left)]
        /\ UNCHANGED <<storage, loads, ids, faults, backIns, told>>
    BY <1>3 DEF CopyToForm, Set
  <1>5. /\ form \in PageStates /\ form.edits = {n} /\ form.pc # "closed"
        /\ form.pendingId = None /\ pg.seen \subseteq form.seen
        /\ form.verified = pg.verified /\ form.suspended = pg.suspended
        /\ form.autosave = pg.autosave
    BY <1>2, <1>3, NewFormFacts
  <1> HIDE DEF form, n
  <1>6. /\ copy \in PageStates /\ copy.edits = {n} /\ copy.pc # "closed" /\ copy.dirty
        /\ copy.pendingId = None /\ pg.seen \subseteq copy.seen
        /\ copy.verified = pg.verified /\ copy.suspended = pg.suspended
        /\ copy.autosave = pg.autosave
    BY <1>5 DEF Unsaved, PageStates
  <1> HIDE DEF copy
  <1>7. /\ left \in PageStates /\ SameForm(left, copy) /\ left.behind
        /\ left.suspended = copy.suspended /\ left.verified = copy.verified
    BY <1>6, ForgottenFacts
  <1> HIDE DEF left
  <1>8. PICK next \in PageStates :
           /\ page' = [page EXCEPT ![p] = next] /\ SameForm(next, left)
           /\ next.suspended = left.suspended /\ next.verified = left.verified
           /\ next.behind /\ (left.autosave /\ ~ left.suspended => next.timer)
    BY <1>4, <1>7, ScheduledFacts
  <1>9. /\ next.pc # "closed" /\ ~ Clean(next) /\ Coming(next)
        /\ next.edits = {n} /\ next.pendingId = None
        /\ pg.seen \subseteq next.seen
        /\ next.verified = pg.verified /\ next.suspended = pg.suspended
    BY <1>6, <1>7, <1>8 DEF SameForm, Clean, Coming
  <1>10. WorldInv' /\ RecordsStay
    BY <1>2, <1>3, <1>4, WorldStays DEF WorldInv, RecordsStay
  <1>11. PICK e \in Drafts : e = draft
    BY <1>2
  <1>12. ASSUME MaxOpen = 1 PROVE LoneForm(next)' /\ LoneWriter(p, next, e)
    <2>1. LoneWriter(p, pg, draft)
      BY <1>1, <1>12, OpenPage
    <2>2. LoneForm(next)'
      BY <1>2, <1>9, <1>10, FreshForm, NoIdIsSafe DEF n
    <2>3. LoneWriter(p, next, e)
      BY <1>8, <1>9, <1>11, <2>1 DEF LoneWriter, Holds
    <2> QED
      BY <2>2, <2>3
  <1>13. /\ draft' = e /\ ~ Holds(next, e) /\ Remains(e, draft) /\ (e.kind = "none" => e = NoDraft)
         /\ UNCHANGED <<loads, ids>> /\ edits <= edits'
         /\ next.pendingId \in 0 .. ids /\ next.edits \subseteq 1 .. edits'
    <2>1. ids \in Nat
      BY <1>2, NotebookAssumption DEF WorldInv
    <2> QED
      BY <1>3, <1>4, <1>8, <1>9, <1>11, <2>1 DEF Holds, Remains, Drafts, None
  <1>14. Follows(p, next) /\ Spares(p, next, e)
    BY <1>4, <1>6, <1>7, <1>8, <1>9, <1>13 DEF Follows, SameForm, Spares
  <1> QED
    BY <1>1, <1>8, <1>9, <1>10, <1>12, <1>13, <1>14, FormMoves

-----------------------------------------------------------------------------
(* Leaving, deleting, damage and loading.                                  *)

LEMMA ChargeFacts ==
    ASSUME WorldInv, NEW n \in Nat, NEW plan \in Plans(n), Charge(plan)
    PROVE  faults' \in 0 .. MaxFaults /\ \A i \in 1 .. n : plan[i] \in Outcomes
  <1>1. faults \in Nat /\ faults + Faults(plan) <= MaxFaults /\ Faults(plan) \in Nat
    BY NotebookAssumption DEF WorldInv, Plans, Faults
  <1>2. plan \in [1 .. n -> Outcomes]
    BY DEF Plans
  <1>3. faults' = faults + Faults(plan)
    BY DEF Charge
  <1> QED
    BY <1>1, <1>2, <1>3, NotebookAssumption

LEMMA LeaveKeeps ==
    ASSUME NotebookInv, NEW p \in Pages, Leave(p)
    PROVE  NotebookInv'
  <1>1. /\ IsOpen(p) /\ page' = [page EXCEPT ![p] = Closed]
        /\ UNCHANGED <<storage, bounds, told>>
    BY DEF Leave, Set
  <1>2. WorldInv /\ draft \in Drafts /\ ids \in Nat /\ edits \in Nat
    BY WorldFacts, NotebookAssumption DEF WorldInv
  <1>3. WorldInv' /\ RecordsStay
    BY <1>1, <1>2 DEF WorldInv, RecordsStay
  <1>4. PICK e \in Drafts : e = draft
    BY <1>2
  <1>5. PICK next \in PageStates : next = Closed
    BY ClosedFacts
  <1>6. /\ Coming(next) /\ ~ Holds(next, e) /\ ~ Clean(next) /\ LoneWriter(p, next, e)
        /\ next.pendingId \in 0 .. ids /\ next.edits \subseteq 1 .. edits
    BY <1>2, <1>5, ClosedFacts DEF Coming, Holds, Clean, LoneWriter, None
  <1>7. LoneForm(next)'
    BY <1>2, <1>3, <1>5, <1>6, ClosedFacts, FreshForm, NoIdIsSafe
  <1>8. Remains(e, draft) /\ (e.kind = "none" => e = NoDraft)
    BY <1>4 DEF Remains, Drafts
  <1>9. page' = [page EXCEPT ![p] = next] /\ draft' = e /\ edits <= edits'
        /\ UNCHANGED <<loads, ids, edits>>
    BY <1>1, <1>2, <1>4, <1>5
  <1>10. next.pc = "closed" /\ Spares(p, next, e)
    BY <1>5, ClosedFacts DEF Spares
  <1> QED
    BY <1>1, <1>10, <1>3, <1>5, <1>6, <1>7, <1>8, <1>9, FormMoves

LEMMA DeleteSessionKeeps ==
    ASSUME NotebookInv, NEW p \in Pages, NEW i \in Ids, DeleteSession(p, i)
    PROVE  NotebookInv'
  <1>1. /\ IsOpen(p) /\ history' = [history EXCEPT ![i] = {}] /\ reported' = reported \ {i}
        /\ UNCHANGED <<page, draft, autosaveKey, bounds, unrecorded, reoffered, misled>>
    BY DEF DeleteSession, Ready, IsOpen
  <1>2. /\ WorldInv /\ page \in [Pages -> PageStates] /\ draft \in Drafts
        /\ ids \in Nat /\ edits \in Nat /\ loads \in Nat
    BY WorldFacts, NotebookAssumption DEF WorldInv
  <1>3. \A j \in Ids : history'[j] = IF j = i THEN {} ELSE history[j]
    BY <1>1, <1>2 DEF WorldInv
  <1>4. WorldInv'
    BY <1>1, <1>2, <1>3 DEF WorldInv
  <1>5. /\ page[p] \in PageStates /\ p \in 1 .. loads /\ page[p].pc # "closed"
        /\ page[p].pendingId \in 0 .. ids /\ page[p].edits \subseteq 1 .. edits
        /\ Coming(page[p]) /\ OwnDraft(p, page[p], draft)
    BY <1>1, OpenPage DEF IsOpen
  <1>6. /\ draft.kind = "ok" => draft.writer \in 1 .. loads
        /\ draft.pendingId \in 0 .. ids /\ draft.edits \subseteq 1 .. edits
    BY DEF NotebookInv, CountsInv
  <1>7. PICK next \in PageStates, e \in Drafts : next = page[p] /\ e = draft
    BY <1>2, <1>5
  <1>8. ASSUME NEW entries, NEW id,
               Newer(entries, id, history, reported \ unrecorded)
        PROVE  Newer(entries, id, history, reported \ unrecorded)'
    BY <1>1, <1>2, <1>3, <1>8 DEF Newer, WorldInv
  <1>9. ASSUME NEW entries, NEW id,
               Traced(entries, id, history, unrecorded, reoffered)
        PROVE  Traced(entries, id, history, unrecorded, reoffered)'
    BY <1>1, <1>3, <1>9 DEF Traced
  <1>10. ASSUME MaxOpen = 1
         PROVE  /\ \A q \in Pages : IsOpen(q) => q = p
                /\ LoneForm(next)' /\ LoneWriter(p, next, e) /\ LoneDraft(e)'
                /\ NoDuplicateRecord' /\ Kept(next, e)'
    <2>1. /\ LonePage /\ LoneForm(next) /\ LoneWriter(p, next, e) /\ LoneDraft(e)
          /\ Kept(next, e) /\ \A q \in Pages : IsOpen(q) => q = p
      BY <1>1, <1>7, <1>10, OpenPage
    <2>2. LoneForm(next)'
      BY <1>1, <1>8, <1>9, <2>1 DEF LoneForm, Clean
    <2>3. LoneDraft(e)'
      BY <1>8, <1>9, <2>1 DEF LoneDraft
    <2>4. NoDuplicateRecord'
      BY <1>1, <1>3, <2>1 DEF LonePage, NoDuplicateRecord, Duplicates
    <2>5. e.savedAs \in Ids \cup {None}
      BY DEF Drafts, DraftKinds
    <2>6. Kept(next, e)'
      BY <1>1, <1>3, <2>1, <2>5 DEF Kept, AlreadySaved
    <2> QED
      BY <2>1, <2>2, <2>3, <2>4, <2>6
  <1>11. /\ page' = [page EXCEPT ![p] = next] /\ draft' = e
         /\ loads <= loads' /\ ids <= ids' /\ edits <= edits' /\ p <= loads'
         /\ next.pc # "closed" /\ next.pendingId \in 0 .. ids' /\ next.edits \subseteq 1 .. edits'
         /\ e.kind = "ok" => e.writer \in 1 .. loads'
         /\ e.pendingId \in 0 .. ids' /\ e.edits \subseteq 1 .. edits'
    BY <1>1, <1>2, <1>5, <1>6, <1>7
  <1>12. /\ Coming(next) /\ OwnDraft(p, next, e) /\ Remains(e, draft) /\ misled' = misled
         /\ Spares(p, next, e)
    BY <1>1, <1>5, <1>7 DEF Remains, Spares
  <1> QED
    BY <1>4, <1>10, <1>11, <1>12, MoveKeeps

LEMMA BecomesUnreadableKeeps ==
    ASSUME NotebookInv, BecomesUnreadable
    PROVE  NotebookInv'
  <1>1. WorldInv /\ page \in [Pages -> PageStates] /\ draft \in Drafts /\ faults \in Nat
    BY WorldFacts, NotebookAssumption DEF WorldInv
  <1>2. /\ faults' = faults + 1 /\ faults < MaxFaults
        /\ UNCHANGED <<page, history, autosaveKey, loads, ids, edits, backIns, told>>
        /\ draft' = [NoDraft EXCEPT !.kind = "unreadable", !.edits = draft.edits]
    BY DEF BecomesUnreadable
  <1>3. /\ draft' \in DraftKinds /\ draft'.kind = "unreadable"
        /\ draft'.pendingId = None /\ draft'.edits = draft.edits
    BY <1>1, <1>2, NoDraftType DEF Drafts, DraftKinds, NoDraft
  <1>4. faults' \in 0 .. MaxFaults
    BY <1>1, <1>2, NotebookAssumption
  <1>5. TypeOK'
    BY <1>1, <1>2, <1>3, <1>4 DEF NotebookInv, TypeOK
  <1>6. CountsInv'
    <2>1. ids \in Nat
      BY <1>1, NotebookAssumption DEF WorldInv
    <2> QED
      BY <1>2, <1>3, <2>1 DEF NotebookInv, CountsInv, None
  <1>7. PagesInv'
    BY <1>2, <1>3 DEF NotebookInv, PagesInv, OwnDraft, Holds, Removable, Known
  <1>8. ASSUME MaxOpen = 1 PROVE LonePage'
    <2>1. LonePage
      BY <1>8 DEF NotebookInv
    <2>2. LoneDraft(draft)'
      BY <1>3 DEF LoneDraft
    <2>3. \A p \in Pages : LoneWriter(p, page[p], draft')
      BY <1>3 DEF LoneWriter, Holds, Removable
    <2>4. \A p \in Pages : LoneForm(page[p])'
      BY <1>2, <2>1 DEF LonePage, LoneForm
    <2>5. NoDuplicateRecord' /\ \A p, q \in Pages : (IsOpen(p) /\ IsOpen(q))' => p = q
      BY <1>2, <2>1 DEF LonePage, NoDuplicateRecord, Duplicates, IsOpen
    <2>6. \A p \in Pages : Kept(page[p], draft)'
      BY <1>2, <1>3, <2>1 DEF LonePage, Kept, Holds, Removable
    <2> QED
      BY <1>2, <2>2, <2>3, <2>4, <2>5, <2>6 DEF LonePage
  <1> QED
    BY <1>5, <1>6, <1>7, <1>8 DEF NotebookInv

(* A page comes up as a blank form, or with the stored draft.              *)
LEMMA LoadedFacts ==
    ASSUME NEW fresh \in PageStates, NEW d \in Drafts, NEW outcome \in Outcomes,
           ~ fresh.suspended
    PROVE  LET r == Loaded(fresh, d, outcome) IN
           /\ r.page \in PageStates /\ r.page.pc = fresh.pc
           /\ r.page.autosave = fresh.autosave
           /\ r.page.timer = fresh.timer /\ r.page.saved = fresh.saved
           /\ r.draft \in {d, NoDraft}
           /\ \/ /\ r.page.blank = fresh.blank /\ r.page.edits = fresh.edits
                 /\ r.page.pendingId = fresh.pendingId /\ r.page.verified = fresh.verified
                 /\ r.page.suspended => r.draft.kind # "ok"
              \/ /\ ~ r.page.behind /\ ~ r.page.suspended /\ r.draft = d /\ d.kind = "ok"
                 /\ r.page.edits = d.edits /\ r.page.seen = d.edits
                 /\ r.page.pendingId = d.pendingId /\ ~ AlreadySaved(d)
  <1> DEFINE r == Loaded(fresh, d, outcome)
             shut == [fresh EXCEPT !.suspended = TRUE]
             back == [fresh EXCEPT
                         !.edits = d.edits, !.blank = FALSE, !.seen = d.edits,
                         !.stage = d.stage, !.pendingId = d.pendingId,
                         !.dirty = TRUE, !.behind = FALSE,
                         !.verified = [writer |-> d.writer, rev |-> d.rev]]
  <1>1. /\ d.edits \in SUBSET Edits /\ d.stage \in Stages /\ d.pendingId \in Ids \cup {None}
        /\ [writer |-> d.writer, rev |-> d.rev] \in [writer : Pages \cup {None}, rev : Nat]
        /\ d.kind \in {"none", "unreadable", "ok"}
    BY DEF Drafts, DraftKinds
  <1>2. \/ r.page = fresh /\ r.draft \in {d, NoDraft}
        \/ r.page = shut /\ r.draft = d /\ d.kind # "ok"
        \/ r.page = back /\ r.draft = d /\ d.kind = "ok" /\ ~ AlreadySaved(d)
    <2>1. CASE d.kind = "none"
      BY <2>1 DEF Loaded, Result
    <2>2. CASE d.kind = "unreadable"
      BY <2>2 DEF Loaded, Result
    <2>3. CASE d.kind = "ok" /\ AlreadySaved(d)
      BY <2>3 DEF Loaded, Result
    <2>4. CASE d.kind = "ok" /\ ~ AlreadySaved(d)
      BY <2>4 DEF Loaded, Result
    <2> QED
      BY <1>1, <2>1, <2>2, <2>3, <2>4
  <1>3. /\ shut \in PageStates /\ shut.pc = fresh.pc /\ shut.autosave = fresh.autosave
        /\ shut.timer = fresh.timer /\ shut.saved = fresh.saved
        /\ shut.blank = fresh.blank /\ shut.edits = fresh.edits
        /\ shut.pendingId = fresh.pendingId /\ shut.verified = fresh.verified
    BY DEF PageStates
  <1>4. /\ back \in PageStates /\ back.pc = fresh.pc /\ back.autosave = fresh.autosave
        /\ back.timer = fresh.timer /\ back.saved = fresh.saved
        /\ ~ back.behind /\ ~ back.suspended
        /\ back.edits = d.edits /\ back.seen = d.edits /\ back.pendingId = d.pendingId
    BY <1>1 DEF PageStates
  <1> HIDE DEF r, shut, back
  <1>5. CASE r.page = fresh /\ r.draft \in {d, NoDraft}
    BY <1>5 DEF r
  <1>6. CASE r.page = shut /\ r.draft = d /\ d.kind # "ok"
    BY <1>3, <1>6 DEF r
  <1>7. CASE r.page = back /\ r.draft = d /\ d.kind = "ok" /\ ~ AlreadySaved(d)
    BY <1>4, <1>7 DEF r
  <1> QED
    BY <1>2, <1>5, <1>6, <1>7

LEMMA LoadKeeps ==
    ASSUME NotebookInv, Load
    PROVE  NotebookInv'
  <1> DEFINE p == loads + 1
             fresh == [Closed EXCEPT !.pc = "ready", !.autosave = autosaveKey]
  <1>1. /\ WorldInv /\ page \in [Pages -> PageStates] /\ draft \in Drafts
        /\ ids \in Nat /\ edits \in Nat /\ loads \in Nat
    BY WorldFacts, NotebookAssumption DEF WorldInv
  <1>2. /\ loads < MaxPages /\ loads' = p
        /\ Cardinality({q \in Pages : IsOpen(q)}) < MaxOpen
        /\ UNCHANGED <<history, autosaveKey, ids, edits, backIns, told>>
    BY DEF Load
  <1>3. p \in Pages /\ p \in 0 .. MaxPages
    BY <1>1, <1>2, NotebookAssumption DEF Pages
  <1>4. PICK plan \in Plans(1) :
           /\ LET after == IF autosaveKey THEN Loaded(fresh, draft, plan[1])
                                          ELSE Result(fresh, draft)
              IN  page' = [page EXCEPT ![p] = after.page] /\ draft' = after.draft
           /\ Charge(plan)
    BY <1>2 DEF Load, Set
  <1>5. faults' \in 0 .. MaxFaults /\ plan[1] \in Outcomes
    BY <1>1, <1>4, ChargeFacts
  <1>6. WorldInv' /\ RecordsStay
    BY <1>1, <1>2, <1>3, <1>5 DEF WorldInv, RecordsStay
  <1>7. /\ fresh \in PageStates /\ fresh.pc = "ready" /\ fresh.edits = {} /\ fresh.pendingId = None
        /\ ~ fresh.timer /\ ~ fresh.saved /\ ~ fresh.suspended /\ fresh.blank
        /\ fresh.verified = Nothing /\ fresh.seen = {} /\ fresh.autosave = autosaveKey
    BY <1>1, ClosedFacts DEF PageStates, WorldInv
  <1> HIDE DEF fresh
  <1>8. PICK d \in Drafts : d = draft
    BY <1>1
  <1>9. /\ d.kind = "ok" => d.writer \in 1 .. loads
        /\ d.pendingId \in 0 .. ids /\ d.edits \subseteq 1 .. edits
    BY <1>8 DEF NotebookInv, CountsInv
  <1>10. PICK next \in PageStates, e \in Drafts :
            /\ page' = [page EXCEPT ![p] = next] /\ draft' = e
            /\ next.pc = "ready" /\ ~ next.timer /\ ~ next.saved
            /\ next.autosave = autosaveKey
            /\ e \in {d, NoDraft}
            /\ \/ /\ next.blank /\ next.edits = {} /\ next.pendingId = None
                  /\ next.verified = Nothing
                  /\ next.suspended => e.kind # "ok"
               \/ /\ ~ next.behind /\ ~ next.suspended /\ e = d /\ d.kind = "ok"
                  /\ next.edits = d.edits /\ next.seen = d.edits
                  /\ next.pendingId = d.pendingId /\ ~ AlreadySaved(d)
    <2>1. PICK after : /\ page' = [page EXCEPT ![p] = after.page] /\ draft' = after.draft
                       /\ after \in {Loaded(fresh, d, plan[1]), Result(fresh, d)}
      BY <1>4, <1>8
    <2>2. NoDraft \in Drafts
      BY NoDraftType
    <2>3. CASE after = Result(fresh, d)
      BY <1>7, <2>1, <2>3 DEF Result
    <2>4. CASE after = Loaded(fresh, d, plan[1])
      <3>1. PICK f \in PageStates, o \in Outcomes : f = fresh /\ o = plan[1]
        BY <1>5, <1>7
      <3>2. after = Loaded(f, d, o) /\ ~ f.suspended
        BY <1>7, <2>4, <3>1
      <3>3. /\ after.page \in PageStates /\ after.page.pc = f.pc
            /\ after.page.timer = f.timer /\ after.page.saved = f.saved
            /\ after.page.autosave = f.autosave
            /\ after.draft \in {d, NoDraft}
            /\ \/ /\ after.page.blank = f.blank /\ after.page.edits = f.edits
                  /\ after.page.pendingId = f.pendingId
                  /\ after.page.verified = f.verified
                  /\ after.page.suspended => after.draft.kind # "ok"
               \/ /\ ~ after.page.behind /\ ~ after.page.suspended
                  /\ after.draft = d /\ d.kind = "ok"
                  /\ after.page.edits = d.edits /\ after.page.seen = d.edits
                  /\ after.page.pendingId = d.pendingId /\ ~ AlreadySaved(d)
        BY <3>2, LoadedFacts
      <3> QED
        BY <1>7, <2>1, <2>2, <3>1, <3>3
    <2> QED
      BY <2>1, <2>3, <2>4
  <1>11. /\ next.pendingId \in 0 .. ids' /\ next.edits \subseteq 1 .. edits'
         /\ e.kind = "ok" => e.writer \in 1 .. loads'
         /\ e.pendingId \in 0 .. ids' /\ e.edits \subseteq 1 .. edits'
         /\ loads <= loads' /\ ids <= ids' /\ edits <= edits' /\ p <= loads'
         /\ next.pc # "closed"
    BY <1>1, <1>2, <1>9, <1>10 DEF NoDraft, None
  <1>12. /\ Coming(next) /\ OwnDraft(p, next, e)
         /\ e.kind # "ok" \/ Remains(e, draft)
    <2>1. e = d \/ e.kind = "none"
      BY <1>10, NoDraftType
    <2> QED
      BY <1>8, <1>10, <2>1 DEF Coming, OwnDraft, Holds, Remains
  <1>13. ASSUME MaxOpen = 1
         PROVE  /\ \A q \in Pages : IsOpen(q) => q = p
                /\ LoneForm(next)' /\ LoneWriter(p, next, e) /\ LoneDraft(e)'
                /\ NoDuplicateRecord' /\ Kept(next, e)'
    <2>1. LonePage
      BY <1>13 DEF NotebookInv
    <2>2. \A q \in Pages : ~ IsOpen(q)
      <3> DEFINE open == {q \in Pages : IsOpen(q)}
      <3>1. IsFiniteSet(open) /\ Cardinality(open) \in Nat /\ Cardinality(open) < 1
        <4>1. IsFiniteSet(Pages)
          BY FS_Interval, NotebookAssumption DEF Pages
        <4> QED
          BY <1>2, <1>13, <4>1, FS_Subset, FS_CardinalityType
      <3>2. open = {}
        BY <3>1, FS_EmptySet
      <3> QED
        BY <3>2
    <2>3. LoneDraft(d) /\ d.kind \in {"none", "unreadable", "ok"}
      BY <1>8, <2>1 DEF LonePage, Drafts, DraftKinds
    <2>4. LoneForm(next)'
      <3>1. ~ Clean(next)
        BY <1>10 DEF Clean
      <3>2. CASE next.edits = {} /\ next.pendingId = None
        BY <1>1, <1>6, <3>1, <3>2, FreshForm, NoIdIsSafe
      <3>3. CASE d.kind = "ok" /\ next.edits = d.edits /\ next.pendingId = d.pendingId
        BY <1>6, <2>3, <3>1, <3>3 DEF LoneDraft, LoneForm, Newer, Traced, RecordsStay, Clean
      <3> QED
        BY <1>10, <3>2, <3>3
    <2>5. LoneWriter(p, next, e)
      BY <1>10 DEF LoneWriter, Holds
    <2>6. LoneDraft(e)'
      <3>1. e.kind # "ok" \/ Remains(e, d)
        BY <1>8, <1>12
      <3> QED
        BY <1>6, <2>3, <3>1, DraftStays
    <2>7. NoDuplicateRecord'
      BY <1>6, <2>1, OneRecordStays DEF LonePage
    <2>8. Kept(next, e)'
      <3>1. history' = history /\ autosaveKey' = autosaveKey
        BY <1>2
      <3> QED
        BY <1>10, <3>1 DEF Kept, Holds, AlreadySaved
    <2> QED
      BY <2>2, <2>4, <2>5, <2>6, <2>7, <2>8
  <1>14. /\ page' = [page EXCEPT ![p] = next] /\ draft' = e
         /\ Spares(p, next, e) /\ misled' = misled
    BY <1>2, <1>10 DEF Spares
  <1> QED
    BY <1>3, <1>6, <1>11, <1>12, <1>13, <1>14, MoveKeeps

-----------------------------------------------------------------------------
(* The draft is discarded.                                                 *)

(* What a discard leaves of the draft and of what the page takes for its   *)
(* own.                                                                    *)
LEMMA DiscardLeaves ==
    ASSUME NEW p, NEW pg \in PageStates, NEW next \in PageStates,
           NEW d \in Drafts, NEW e \in Drafts,
           e \in {d, NoDraft}, LoneWriter(p, pg, d), ~ Holds(next, e),
           next.suspended => pg.suspended,
           next.verified \in {pg.verified, Nothing}, pg.seen \subseteq next.seen
    PROVE  LoneWriter(p, next, e)
  <1>1. e.kind = "ok" => e = d
    BY NoDraftType
  <1> QED
    BY <1>1 DEF LoneWriter

(* A new form takes the place of the old one, whose draft is discarded.    *)
LEMMA NewFormKeeps ==
    ASSUME NotebookInv, WorldInv', NEW p \in Pages, IsOpen(p), NEW outcome \in Outcomes,
           NEW content \in SUBSET Edits, content = {} \/ edits + 1 \in content,
           content \subseteq 1 .. edits', edits <= edits',
           LET after == DiscardDraft(NewForm(page[p], content), draft, outcome) IN
           page' = [page EXCEPT ![p] = after.page] /\ draft' = after.draft,
           UNCHANGED <<loads, ids, autosaveKey>>, RecordsStay
    PROVE  NotebookInv'
  <1> DEFINE pg == page[p]
             form == NewForm(pg, content)
  <1>1. /\ pg \in PageStates /\ pg.pc # "closed" /\ WorldInv
    BY OpenPage, WorldFacts DEF IsOpen
  <1>2. PICK d \in Drafts : d = draft
    BY WorldFacts
  <1>3. /\ form \in PageStates /\ form.edits = content /\ form.pc # "closed"
        /\ form.pendingId = None /\ pg.seen \subseteq form.seen /\ ~ form.dirty /\ ~ form.saved
        /\ form.verified = pg.verified /\ form.suspended = pg.suspended
        /\ form.autosave = pg.autosave
    BY <1>1, NewFormFacts
  <1> HIDE DEF form
  <1>4. PICK next \in PageStates, e \in Drafts :
           /\ page' = [page EXCEPT ![p] = next] /\ draft' = e
           /\ SameForm(next, form) /\ next.behind /\ next.suspended = form.suspended
           /\ next.verified \in {form.verified, Nothing} /\ e \in {d, NoDraft}
    <2> DEFINE r == DiscardDraft(form, d, outcome)
    <2>1. /\ r.page \in PageStates /\ SameForm(r.page, form)
          /\ r.page.behind /\ r.page.suspended = form.suspended
          /\ r.page.verified \in {form.verified, Nothing}
          /\ r.draft \in {d, NoDraft}
      BY <1>3, DiscardFacts
    <2>2. page' = [page EXCEPT ![p] = r.page] /\ draft' = r.draft
      BY <1>2 DEF form
    <2> HIDE DEF r
    <2> QED
      BY <2>1, <2>2, NoDraftType
  <1>5. /\ next.edits = content /\ next.pc # "closed" /\ next.pendingId = None
        /\ ~ Clean(next) /\ Coming(next) /\ ~ Holds(next, e) /\ pg.seen \subseteq next.seen
        /\ next.verified \in {pg.verified, Nothing} /\ next.suspended = pg.suspended
    BY <1>3, <1>4 DEF SameForm, Clean, Coming, Holds
  <1>6. MaxOpen = 1 => LoneForm(next)' /\ LoneWriter(p, next, e)
    <2>1. LoneForm(next)'
      BY <1>1, <1>5, FreshForm, NoIdIsSafe
    <2>2. MaxOpen = 1 => LoneWriter(p, pg, d)
      BY <1>2, OpenPage
    <2>3. MaxOpen = 1 => LoneWriter(p, next, e)
      BY <1>1, <1>4, <1>5, <2>2, DiscardLeaves
    <2> QED
      BY <2>1, <2>3
  <1>7. /\ Remains(e, draft) /\ (e.kind = "none" => e = NoDraft)
        /\ next.pendingId \in 0 .. ids /\ next.edits \subseteq 1 .. edits'
    <2>1. ids \in Nat
      BY <1>1, NotebookAssumption DEF WorldInv
    <2> QED
      BY <1>2, <1>4, <1>5, <2>1, NoDraftType DEF Remains, Drafts, None
  <1>8. page' = [page EXCEPT ![p] = next] /\ draft' = e
    BY <1>4
  <1>9. Follows(p, next) /\ Spares(p, next, e)
    BY <1>3, <1>4, <1>5, <1>7 DEF Follows, SameForm, Spares
  <1> QED
    BY <1>5, <1>6, <1>7, <1>8, <1>9, FormMoves

LEMMA ResetKeeps ==
    ASSUME NotebookInv, NEW p \in Pages, Reset(p)
    PROVE  NotebookInv'
  <1>1. IsOpen(p) /\ WorldInv
    BY WorldFacts DEF Reset, Ready, IsOpen
  <1>2. PICK plan \in Plans(1) :
           /\ LET after == DiscardDraft(NewForm(page[p], {}), draft, plan[1]) IN
              page' = [page EXCEPT ![p] = after.page] /\ draft' = after.draft
           /\ Charge(plan)
    BY DEF Reset, Set
  <1>3. UNCHANGED <<history, autosaveKey, loads, ids, edits, backIns, told>>
    BY DEF Reset
  <1>4. faults' \in 0 .. MaxFaults /\ plan[1] \in Outcomes
    BY <1>1, <1>2, ChargeFacts
  <1>5. WorldInv' /\ RecordsStay /\ edits <= edits'
    <2>1. edits \in Nat
      BY <1>1, NotebookAssumption DEF WorldInv
    <2> QED
      BY <1>1, <1>3, <1>4, <2>1, WorldStays DEF WorldInv, RecordsStay
  <1>6. {} \in SUBSET Edits /\ {} \subseteq 1 .. edits'
    OBVIOUS
  <1> QED
    BY <1>1, <1>2, <1>3, <1>4, <1>5, <1>6, NewFormKeeps

LEMMA CarriedOverFacts ==
    ASSUME WorldInv, NEW content \in CarriedOver, edits' = edits + Cardinality(content)
    PROVE  /\ content \in SUBSET Edits /\ (content = {} \/ content = {edits + 1})
           /\ edits' \in 0 .. MaxEdits /\ edits <= edits' /\ content \subseteq 1 .. edits'
           /\ edits \in Nat
  <1>1. edits \in Nat /\ edits <= MaxEdits
    BY NotebookAssumption DEF WorldInv
  <1>2. Cardinality({}) = 0 /\ Cardinality({edits + 1}) = 1
    BY FS_EmptySet, FS_Singleton
  <1>3. content = {} \/ (content = {edits + 1} /\ edits < MaxEdits)
    BY DEF CarriedOver
  <1>4. CASE content = {}
    BY <1>1, <1>2, <1>4, NotebookAssumption
  <1>5. CASE content = {edits + 1} /\ edits < MaxEdits
    BY <1>1, <1>2, <1>5, NotebookAssumption DEF Edits
  <1> QED
    BY <1>3, <1>4, <1>5

LEMMA NextOnlyKeeps ==
    ASSUME NotebookInv, NEW p \in Pages, NextOnly(p)
    PROVE  NotebookInv'
  <1>1. IsOpen(p) /\ WorldInv
    BY WorldFacts DEF NextOnly, Ready, IsOpen
  <1>2. PICK plan \in Plans(1), content \in CarriedOver :
           /\ LET after == DiscardDraft(NewForm(page[p], content), draft, plan[1]) IN
              page' = [page EXCEPT ![p] = after.page] /\ draft' = after.draft
           /\ edits' = edits + Cardinality(content)
           /\ Charge(plan)
    BY DEF NextOnly, Advance, Set
  <1>3. UNCHANGED <<history, autosaveKey, loads, ids, backIns, told>>
    BY DEF NextOnly
  <1>4. faults' \in 0 .. MaxFaults /\ plan[1] \in Outcomes
    BY <1>1, <1>2, ChargeFacts
  <1>5. /\ content \in SUBSET Edits /\ (content = {} \/ content = {edits + 1})
        /\ edits' \in 0 .. MaxEdits /\ edits <= edits' /\ content \subseteq 1 .. edits'
    BY <1>1, <1>2, CarriedOverFacts
  <1>6. WorldInv' /\ RecordsStay
    BY <1>1, <1>3, <1>4, <1>5, WorldStays DEF WorldInv, RecordsStay
  <1> QED
    BY <1>1, <1>2, <1>3, <1>4, <1>5, <1>6, NewFormKeeps

(* A handler that leaves the form alone, does not write the draft, and     *)
(* does not go on holding it.                                              *)
LEMMA LetGoKeeps ==
    ASSUME NotebookInv, WorldInv', NEW p \in Pages, IsOpen(p),
           NEW next \in PageStates, NEW e \in Drafts,
           page' = [page EXCEPT ![p] = next], draft' = e, e \in {draft, NoDraft},
           UNCHANGED <<loads, ids, edits>>, RecordsStay, Follows(p, next),
           next.pc # "closed", next.edits = page[p].edits,
           next.pendingId = page[p].pendingId, next.seen = page[p].seen,
           next.suspended => page[p].suspended,
           next.verified \in {page[p].verified, Nothing},
           Coming(next), ~ Holds(next, e),
           Clean(page[p]) /\ ~ Clean(next) => next.edits \in reoffered',
           Clean(next) /\ next.timer => next.edits \in reoffered'
    PROVE  NotebookInv'
  <1>1. /\ page[p] \in PageStates /\ draft \in Drafts
        /\ page[p].pendingId \in 0 .. ids /\ page[p].edits \subseteq 1 .. edits
        /\ edits \in Nat
    BY OpenPage, WorldFacts, NotebookAssumption DEF WorldInv
  <1>2. Remains(e, draft) /\ (e.kind = "none" => e = NoDraft)
    BY NoDraftType DEF Remains, Drafts
  <1>3. ASSUME MaxOpen = 1 PROVE LoneForm(next)' /\ LoneWriter(p, next, e)
    <2>1. LoneForm(page[p]) /\ LoneWriter(p, page[p], draft)
      BY <1>3, OpenPage
    <2>2. LoneForm(next)'
      BY <1>1, <2>1, FormStays
    <2>3. LoneWriter(p, next, e)
      BY <1>1, <2>1, DiscardLeaves
    <2> QED
      BY <2>2, <2>3
  <1>4. /\ UNCHANGED <<loads, ids>> /\ edits <= edits' /\ Spares(p, next, e)
        /\ next.pendingId \in 0 .. ids /\ next.edits \subseteq 1 .. edits'
    BY <1>1, <1>2 DEF Spares
  <1> QED
    BY <1>2, <1>3, <1>4, FormMoves

LEMMA TurnOffKeeps ==
    ASSUME NotebookInv, NEW p \in Pages, TurnOff(p)
    PROVE  NotebookInv'
  <1> DEFINE pg == page[p]
             asked == [pg EXCEPT !.pc = "ready"]
  <1>1. IsOpen(p) /\ WorldInv
    BY WorldFacts DEF TurnOff, Ready, IsOpen
  <1>2. pg \in PageStates
    BY <1>1, OpenPage
  <1>3. PICK d \in Drafts : d = draft
    BY WorldFacts
  <1>4. PICK plan \in Plans(1) :
           /\ LET after == DiscardDraft(asked, d, plan[1]) IN
              /\ page' = [page EXCEPT ![p] = [after.page EXCEPT !.autosave = FALSE]]
              /\ draft' = after.draft
           /\ Charge(plan)
    BY <1>3 DEF TurnOff, Set
  <1>5. UNCHANGED <<history, loads, ids, edits, backIns, told>> /\ autosaveKey' = FALSE
    BY DEF TurnOff
  <1>6. faults' \in 0 .. MaxFaults /\ plan[1] \in Outcomes
    BY <1>1, <1>4, ChargeFacts
  <1>7. WorldInv' /\ RecordsStay
    <2>1. edits \in Nat
      BY <1>1, NotebookAssumption DEF WorldInv
    <2> QED
      BY <1>1, <1>5, <1>6, <2>1, WorldStays DEF WorldInv, RecordsStay
  <1>8. /\ asked \in PageStates /\ asked.pc = "ready" /\ asked.edits = pg.edits
        /\ asked.pendingId = pg.pendingId /\ asked.seen = pg.seen
        /\ asked.dirty = pg.dirty /\ asked.saved = pg.saved
        /\ asked.suspended = pg.suspended /\ asked.verified = pg.verified
    BY <1>2 DEF PageStates
  <1> HIDE DEF asked
  <1>9. PICK r : /\ page' = [page EXCEPT ![p] = [r.page EXCEPT !.autosave = FALSE]]
                 /\ draft' = r.draft
                 /\ r.page \in PageStates /\ SameForm(r.page, asked)
                 /\ ~ r.page.timer /\ r.page.behind /\ r.page.suspended = asked.suspended
                 /\ r.page.verified \in {asked.verified, Nothing}
                 /\ r.draft \in {d, NoDraft}
    BY <1>4, <1>6, <1>8, DiscardFacts
  <1>10. PICK next \in PageStates :
            /\ page' = [page EXCEPT ![p] = next] /\ next.autosave = FALSE /\ ~ next.timer
            /\ next.pc = r.page.pc /\ next.edits = r.page.edits
            /\ next.pendingId = r.page.pendingId /\ next.seen = r.page.seen
            /\ next.dirty = r.page.dirty /\ next.saved = r.page.saved
            /\ next.suspended = r.page.suspended /\ next.verified = r.page.verified
    <2> DEFINE n == [r.page EXCEPT !.autosave = FALSE]
    <2>1. /\ n \in PageStates /\ n.autosave = FALSE /\ ~ n.timer
          /\ n.pc = r.page.pc /\ n.edits = r.page.edits
          /\ n.pendingId = r.page.pendingId /\ n.seen = r.page.seen
          /\ n.dirty = r.page.dirty /\ n.saved = r.page.saved
          /\ n.suspended = r.page.suspended /\ n.verified = r.page.verified
      BY <1>9 DEF PageStates
    <2> QED
      BY <1>9, <2>1
  <1>11. PICK e \in Drafts : e = r.draft
    BY <1>9, NoDraftType
  <1>12. /\ page' = [page EXCEPT ![p] = next] /\ draft' = e /\ e \in {draft, NoDraft}
         /\ UNCHANGED <<loads, ids, edits>>
         /\ next.pc # "closed" /\ next.edits = pg.edits
         /\ next.pendingId = pg.pendingId /\ next.seen = pg.seen
         /\ next.suspended => pg.suspended
         /\ next.verified \in {pg.verified, Nothing}
         /\ Clean(next) = Clean(pg) /\ ~ next.timer
    BY <1>3, <1>5, <1>8, <1>9, <1>10, <1>11 DEF SameForm, Clean
  <1>13. Coming(next) /\ ~ Holds(next, e)
    BY <1>10 DEF Coming, Holds
  <1>14. Follows(p, next)
    BY <1>5, <1>10 DEF Follows
  <1> QED
    BY <1>1, <1>7, <1>12, <1>13, <1>14, LetGoKeeps

LEMMA DiscardDownloadedKeeps ==
    ASSUME NotebookInv, NEW p \in Pages, DiscardDownloaded(p)
    PROVE  NotebookInv'
  <1> DEFINE pg == page[p]
             back == Back(pg)
             opened == [back EXCEPT !.suspended = FALSE, !.verified = Nothing]
             resumed == Forgotten(opened)
  <1>1. IsOpen(p) /\ WorldInv
    BY WorldFacts DEF DiscardDownloaded, IsOpen
  <1>2. pg \in PageStates
    BY <1>1, OpenPage
  <1>3. PICK plan \in Plans(1), going \in {back, resumed} :
           /\ page' = [page EXCEPT ![p] = IF going.blank THEN going ELSE Scheduled(going)]
           /\ draft' \in {draft, NoDraft}
           /\ Charge(plan)
    BY DEF DiscardDownloaded, Set
  <1>4. /\ UNCHANGED <<history, autosaveKey, loads, ids, edits, backIns, reported, unrecorded,
                     misled>>
        /\ reoffered' = reoffered \cup Reoffered(p)
    BY DEF DiscardDownloaded
  <1>5. faults' \in 0 .. MaxFaults
    BY <1>1, <1>3, ChargeFacts
  <1>6. WorldInv' /\ RecordsStay
    <2>1. reoffered' \subseteq SUBSET Edits
      BY <1>1, <1>4, ReofferedType DEF WorldInv
    <2>2. edits \in Nat
      BY <1>1, NotebookAssumption DEF WorldInv
    <2> QED
      BY <1>1, <1>4, <1>5, <2>1, <2>2, WorldStays DEF WorldInv, RecordsStay
  <1>7. /\ back \in PageStates /\ back.pc = "ready" /\ back.edits = pg.edits
        /\ back.autosave = pg.autosave /\ back.blank = pg.blank
        /\ back.pendingId = pg.pendingId /\ back.seen = pg.seen
        /\ back.dirty = pg.dirty /\ back.saved = pg.saved
        /\ back.suspended = pg.suspended /\ back.verified = pg.verified
    BY <1>2, NoDraftType DEF Back, PageStates, Drafts
  <1> HIDE DEF back
  <1>8. /\ opened \in PageStates /\ opened.pc = "ready" /\ opened.edits = pg.edits
        /\ opened.autosave = pg.autosave /\ opened.blank = pg.blank
        /\ opened.pendingId = pg.pendingId /\ opened.seen = pg.seen
        /\ opened.dirty = pg.dirty /\ opened.saved = pg.saved
        /\ ~ opened.suspended /\ opened.verified = Nothing
    BY <1>7 DEF PageStates, Nothing, None
  <1> HIDE DEF opened
  <1>9. /\ resumed \in PageStates /\ SameForm(resumed, opened)
        /\ resumed.suspended = opened.suspended /\ resumed.verified = opened.verified
    BY <1>8, ForgottenFacts
  <1> HIDE DEF resumed
  <1>10. /\ going \in PageStates /\ going.pc = "ready" /\ going.edits = pg.edits
         /\ going.autosave = pg.autosave /\ going.blank = pg.blank
         /\ going.pendingId = pg.pendingId /\ going.seen = pg.seen
         /\ going.dirty = pg.dirty /\ going.saved = pg.saved
         /\ going.suspended => pg.suspended
         /\ going.verified \in {pg.verified, Nothing}
    BY <1>3, <1>7, <1>8, <1>9 DEF SameForm
  <1>11. PICK next \in PageStates :
            /\ page' = [page EXCEPT ![p] = next] /\ SameForm(next, going)
            /\ next.suspended = going.suspended /\ next.verified = going.verified
            /\ next.blank \/ ~ next.autosave \/ next.suspended \/ (next.behind /\ next.timer)
    <2>1. CASE going.blank
      BY <1>3, <1>10, <2>1 DEF SameForm
    <2>2. CASE ~ going.blank
      <3>1. /\ Scheduled(going) \in PageStates /\ SameForm(Scheduled(going), going)
            /\ Scheduled(going).suspended = going.suspended
            /\ Scheduled(going).verified = going.verified
            /\ ~ going.autosave \/ going.suspended
               \/ (Scheduled(going).behind /\ Scheduled(going).timer)
        BY <1>10, ScheduledFacts
      <3> QED
        BY <1>3, <2>2, <3>1 DEF SameForm
    <2> QED
      BY <2>1, <2>2
  <1>12. PICK e \in Drafts : e = draft' /\ e \in {draft, NoDraft}
    BY <1>3, WorldFacts, NoDraftType
  <1>13. /\ next.pc # "closed" /\ next.edits = pg.edits
         /\ next.pendingId = pg.pendingId /\ next.seen = pg.seen
         /\ next.suspended => pg.suspended
         /\ next.verified \in {pg.verified, Nothing}
         /\ Coming(next) /\ ~ Holds(next, e) /\ Clean(next) = Clean(pg)
         /\ UNCHANGED <<loads, ids, edits>>
    BY <1>4, <1>10, <1>11 DEF SameForm, Coming, Holds, Clean
  <1>14. Clean(pg) => pg.edits \in reoffered'
    BY <1>4 DEF Reoffered
  <1>15. Follows(p, next)
    BY <1>4, <1>10, <1>11 DEF Follows, SameForm
  <1> QED
    BY <1>1, <1>6, <1>11, <1>12, <1>13, <1>14, <1>15, LetGoKeeps

-----------------------------------------------------------------------------
(* The draft is written.                                                   *)

(* The page that wrote holds what it wrote, or says that it does not.      *)
Wrote(p, pg, id, d, next, e) ==
    /\ SameForm(next, pg) /\ ~ next.timer
    /\ next.suspended => d.kind = "unreadable"
    /\ e # d => d.kind # "unreadable" /\ WrittenBy(p, pg, id, e)
    /\ \/ /\ WrittenBy(p, pg, id, e) /\ ~ next.behind /\ d.kind # "unreadable"
       \/ /\ next.behind = pg.behind /\ next.verified = pg.verified
          /\ next.trouble \/ next.suspended

LEMMA WritesDraft ==
    ASSUME NEW p \in Pages, NEW pg \in PageStates, NEW d \in Drafts, ~ pg.suspended,
           NEW id \in Ids \cup {None}, NEW outcome \in Outcomes
    PROVE  \E next \in PageStates, e \in Drafts :
              /\ WriteDraftNow(p, pg, d, id, outcome).page = next
              /\ WriteDraftNow(p, pg, d, id, outcome).draft = e
              /\ Wrote(p, pg, id, d, next, e)
  <1> DEFINE r == WriteDraftNow(p, pg, d, id, outcome)
  <1>1. /\ r.page \in PageStates /\ r.draft \in Drafts /\ SameForm(r.page, pg)
        /\ ~ r.page.timer
        /\ r.page.suspended => pg.suspended \/ d.kind = "unreadable"
        /\ r.draft # d => MayWrite(p, pg, d) /\ WrittenBy(p, pg, id, r.draft)
        /\ \/ /\ MayWrite(p, pg, d) /\ WrittenBy(p, pg, id, r.draft)
              /\ ~ r.page.behind
           \/ /\ r.page.behind = pg.behind /\ r.page.verified = pg.verified
              /\ r.page.trouble \/ r.page.suspended
    BY WriteFacts
  <1>2. MayWrite(p, pg, d) => d.kind # "unreadable"
    BY DEF MayWrite
  <1> HIDE DEF r
  <1>3. Wrote(p, pg, id, d, r.page, r.draft)
    BY <1>1, <1>2 DEF Wrote
  <1> QED
    BY <1>1, <1>3 DEF r

LEMMA WroteHolds ==
    ASSUME NEW p \in Pages, NEW pg \in PageStates, NEW next \in PageStates,
           NEW d \in Drafts, NEW e \in Drafts, NEW id,
           Wrote(p, pg, id, d, next, e), ~ pg.suspended
    PROVE  /\ Coming(next)
           /\ OwnDraft(p, pg, d) => OwnDraft(p, next, e)
           /\ LoneWriter(p, pg, d) => LoneWriter(p, next, e)
           /\ e.kind # "ok" \/ e.writer = p \/ Remains(e, d)
           /\ e.writer = p \/ (e = d /\ next.verified = pg.verified /\ next.seen = pg.seen)
           /\ Holds(next, e) => e.savedAs = None \/ (e = d /\ Holds(pg, d))
  <1>1. Coming(next)
    BY DEF Wrote, Coming
  <1>2. CASE WrittenBy(p, pg, id, e) /\ d.kind # "unreadable"
    BY <1>1, <1>2 DEF Wrote, WrittenBy, OwnDraft, LoneWriter, SameForm
  <1>3. CASE /\ e = d /\ next.behind = pg.behind /\ next.verified = pg.verified
             /\ next.suspended => d.kind = "unreadable"
    <2>1. SameForm(next, pg) /\ (Holds(next, e) => Holds(pg, d))
      BY <1>3 DEF Wrote, SameForm, Holds, Removable
    <2> QED
      BY <1>1, <1>3, <2>1 DEF OwnDraft, LoneWriter, SameForm, Remains
  <1> QED
    BY <1>2, <1>3 DEF Wrote

LEMMA TimerFiresKeeps ==
    ASSUME NotebookInv, NEW p \in Pages, TimerFires(p)
    PROVE  NotebookInv'
  <1> DEFINE pg == page[p]
             fired == [pg EXCEPT !.timer = FALSE]
  <1>1. IsOpen(p) /\ WorldInv /\ pg.timer
    BY WorldFacts DEF TimerFires, Ready, IsOpen
  <1>2. /\ pg \in PageStates /\ pg.pc # "closed" /\ p \in 1 .. loads
        /\ pg.pendingId \in 0 .. ids /\ pg.edits \subseteq 1 .. edits
        /\ OwnDraft(p, pg, draft)
        /\ loads \in Nat /\ ids \in Nat /\ edits \in Nat
    BY <1>1, OpenPage, NotebookAssumption DEF IsOpen, WorldInv
  <1>3. PICK d \in Drafts : d = draft
    BY WorldFacts
  <1>4. PICK plan \in Plans(1) :
           /\ LET after == IF ~ fired.autosave \/ fired.suspended THEN Result(fired, d)
                           ELSE IF fired.blank THEN DiscardDraft(fired, d, plan[1])
                           ELSE WriteDraftNow(p, fired, d, fired.pendingId, plan[1])
              IN  page' = [page EXCEPT ![p] = after.page] /\ draft' = after.draft
           /\ Charge(plan)
    BY <1>3 DEF TimerFires, Set
  <1>5. /\ UNCHANGED <<history, autosaveKey, loads, ids, edits, backIns>>
        /\ UNCHANGED <<reported, unrecorded, reoffered>>
        /\ misled' = Misled /\ misled' \subseteq Pages
    BY DEF TimerFires, Misled
  <1>6. faults' \in 0 .. MaxFaults /\ plan[1] \in Outcomes
    BY <1>1, <1>4, ChargeFacts
  <1>7. WorldInv' /\ RecordsStay
    BY <1>1, <1>2, <1>5, <1>6, WorldStays DEF WorldInv, RecordsStay
  <1>8. /\ fired \in PageStates /\ fired.pc # "closed" /\ fired.edits = pg.edits
        /\ fired.autosave = pg.autosave /\ fired.blank = pg.blank
        /\ fired.pendingId = pg.pendingId /\ fired.seen = pg.seen
        /\ fired.dirty = pg.dirty /\ fired.saved = pg.saved /\ ~ fired.timer
        /\ fired.suspended = pg.suspended /\ fired.verified = pg.verified
        /\ fired.behind = pg.behind
    BY <1>2 DEF PageStates
  <1> HIDE DEF fired
  <1>9. CASE ~ fired.autosave \/ fired.suspended
    <2>1. page' = [page EXCEPT ![p] = fired] /\ draft' = d
      BY <1>4, <1>9 DEF Result
    <2>2. Coming(fired) /\ ~ Holds(fired, d) /\ Clean(fired) = Clean(pg)
      BY <1>8, <1>9 DEF Coming, Holds, Clean
    <2>3. Follows(p, fired)
      BY <1>5, <1>8 DEF Follows
    <2> QED
      BY <1>1, <1>3, <1>5, <1>7, <1>8, <2>1, <2>2, <2>3, LetGoKeeps
  <1>10. CASE ~ (~ fired.autosave \/ fired.suspended) /\ fired.blank
    <2>1. PICK r : /\ page' = [page EXCEPT ![p] = r.page] /\ draft' = r.draft
                   /\ r.page \in PageStates /\ SameForm(r.page, fired)
                   /\ ~ r.page.timer /\ r.page.suspended = fired.suspended
                   /\ r.page.verified \in {fired.verified, Nothing}
                   /\ r.draft \in {d, NoDraft}
      BY <1>4, <1>6, <1>8, <1>10, DiscardFacts
    <2>2. PICK next \in PageStates, e \in Drafts : next = r.page /\ e = r.draft
      BY <2>1, NoDraftType
    <2>3. /\ page' = [page EXCEPT ![p] = next] /\ draft' = e /\ e \in {draft, NoDraft}
          /\ next.pc # "closed" /\ next.edits = pg.edits /\ next.blank
          /\ next.pendingId = pg.pendingId /\ next.seen = pg.seen
          /\ next.suspended => pg.suspended
          /\ next.verified \in {pg.verified, Nothing}
          /\ Clean(next) = Clean(pg) /\ ~ next.timer
      BY <1>3, <1>8, <1>10, <2>1, <2>2 DEF SameForm, Clean
    <2>4. Coming(next) /\ ~ Holds(next, e)
      BY <2>3 DEF Coming, Holds
    <2>5. UNCHANGED <<loads, ids, edits>> /\ Follows(p, next)
      BY <1>5, <1>8, <2>1, <2>2 DEF Follows, SameForm
    <2> QED
      BY <1>1, <1>7, <2>3, <2>4, <2>5, LetGoKeeps
  <1>11. CASE ~ (~ fired.autosave \/ fired.suspended) /\ ~ fired.blank
    <2>1. fired.pendingId \in Ids \cup {None} /\ ~ fired.suspended
      BY <1>8, <1>11 DEF PageStates
    <2>2. PICK next \in PageStates, e \in Drafts :
             /\ page' = [page EXCEPT ![p] = next] /\ draft' = e
             /\ Wrote(p, fired, fired.pendingId, d, next, e)
      BY <1>4, <1>6, <1>8, <1>11, <2>1, WritesDraft
    <2>3. OwnDraft(p, fired, d)
      BY <1>2, <1>3, <1>8 DEF OwnDraft, Holds, Removable
    <2>4. /\ Coming(next) /\ OwnDraft(p, next, e)
          /\ LoneWriter(p, fired, d) => LoneWriter(p, next, e)
          /\ e.kind # "ok" \/ e.writer = p \/ Remains(e, draft)
          /\ e.writer = p \/ (e = d /\ next.verified = fired.verified /\ next.seen = fired.seen)
          /\ Holds(next, e) => e.savedAs = None \/ (e = d /\ Holds(fired, d))
      BY <1>3, <1>8, <2>1, <2>2, <2>3, WroteHolds
    <2>5. /\ next.pc # "closed" /\ next.edits = pg.edits /\ next.pendingId = pg.pendingId
          /\ Clean(next) = Clean(pg) /\ ~ next.timer
          /\ e = d \/ (e.writer = p /\ e.edits = pg.edits /\ e.pendingId = pg.pendingId)
      BY <1>8, <2>2 DEF Wrote, WrittenBy, SameForm, Clean
    <2>6. /\ e.kind = "ok" => e.writer \in 1 .. loads'
          /\ e.pendingId \in 0 .. ids' /\ e.edits \subseteq 1 .. edits'
      <3>1. /\ d.kind = "ok" => d.writer \in 1 .. loads
            /\ d.pendingId \in 0 .. ids /\ d.edits \subseteq 1 .. edits
        BY <1>3 DEF NotebookInv, CountsInv
      <3> QED
        BY <1>2, <1>5, <2>5, <3>1
    <2>7. ASSUME MaxOpen = 1
          PROVE  /\ \A q \in Pages : IsOpen(q) => q = p
                 /\ LoneForm(next)' /\ LoneWriter(p, next, e) /\ LoneDraft(e)'
                 /\ NoDuplicateRecord' /\ Kept(next, e)'
      <3>1. /\ LonePage /\ LoneForm(pg) /\ LoneWriter(p, pg, d) /\ LoneDraft(d)
            /\ Kept(pg, d) /\ \A q \in Pages : IsOpen(q) => q = p
        BY <1>1, <1>3, <2>7, OpenPage
      <3>2. LoneForm(next)'
        BY <1>2, <1>7, <2>5, <3>1, FormStays
      <3>3. LoneWriter(p, fired, d)
        BY <1>8, <3>1 DEF LoneWriter, Holds, Removable
      <3>4. LoneDraft(e)'
        <4>1. CASE e = d
          <5>1. Remains(e, d)
            BY <4>1 DEF Remains
          <5> QED
            BY <1>7, <3>1, <5>1, DraftStays
        <4>2. CASE e.edits = pg.edits /\ e.pendingId = pg.pendingId
          <5>1. Newer(e.edits, e.pendingId, history, reported \ unrecorded)
            BY <3>1, <4>2 DEF LoneForm
          <5>2. Traced(e.edits, e.pendingId, history, unrecorded, reoffered)
            BY <1>1, <3>1, <4>2 DEF LoneForm, Traced
          <5> QED
            BY <1>7, <5>1, <5>2 DEF LoneDraft, Newer, Traced, RecordsStay
        <4> QED
          BY <2>5, <4>1, <4>2
      <3>5. NoDuplicateRecord'
        BY <1>7, <3>1, OneRecordStays DEF LonePage
      <3>6. Kept(next, e)'
        <4>1. next.autosave = pg.autosave /\ autosaveKey' = autosaveKey /\ history' = history
          BY <1>5, <1>8, <2>2 DEF Wrote, SameForm
        <4>2. Holds(fired, d) => Holds(pg, d)
          BY <1>8 DEF Holds, Removable
        <4> QED
          BY <1>2, <2>4, <3>1, <4>1, <4>2 DEF Kept, AlreadySaved
      <3> QED
        BY <2>4, <3>1, <3>2, <3>3, <3>4, <3>5, <3>6
    <2>8. /\ loads <= loads' /\ ids <= ids' /\ edits <= edits' /\ p <= loads'
          /\ next.pendingId \in 0 .. ids' /\ next.edits \subseteq 1 .. edits'
      BY <1>2, <1>5, <2>5
    <2>9. Spares(p, next, e)
      BY <1>3, <1>8, <2>4 DEF Spares, Remains
    <2> QED
      BY <1>5, <1>7, <2>2, <2>4, <2>5, <2>6, <2>7, <2>8, <2>9, MoveKeeps
  <1> QED
    BY <1>9, <1>10, <1>11

-----------------------------------------------------------------------------
(* A save.  k is the id it claims, m and e are the page and the draft that *)
(* noted it.                                                               *)

LEMMA ClaimFacts ==
    ASSUME NotebookInv, NEW p \in Pages, IsOpen(p), ClaimSaveId(p)
    PROVE  \E k \in Ids :
              /\ k = SaveId(p) /\ k \in 1 .. ids' /\ ids' \in 0 .. MaxIds /\ ids <= ids'
              /\ ids \in Nat /\ ids' \in Nat
              /\ page[p].pendingId = k \/ (page[p].pendingId \notin Ids /\ k = ids + 1)
  <1>1. ids \in Nat /\ ids <= MaxIds /\ page[p].pendingId \in 0 .. ids
    BY OpenPage, WorldFacts, NotebookAssumption DEF WorldInv
  <1>2. CASE page[p].pendingId = None
    BY <1>1, <1>2, NotebookAssumption DEF ClaimSaveId, SaveId, Ids, None
  <1>3. CASE page[p].pendingId # None
    BY <1>1, <1>3, NotebookAssumption DEF ClaimSaveId, SaveId, Ids, None
  <1> QED
    BY <1>2, <1>3

(* The attempt is noted: the draft names it, or is known not to.           *)
Noted(p, pg, k, d, m, e) ==
    /\ m.pc = pg.pc /\ m.autosave = pg.autosave /\ m.edits = pg.edits /\ m.blank = pg.blank
    /\ m.dirty = pg.dirty /\ m.saved = pg.saved /\ m.seen = pg.seen
    /\ m.pendingId = k /\ ~ m.timer
    /\ Coming(m)
    /\ Holds(m, e) => e.edits = m.edits /\ e.savedAs = None
    /\ LoneWriter(p, pg, d) => LoneWriter(p, m, e)
    /\ (e = d /\ m.verified = pg.verified) \/ WrittenBy(p, pg, k, e)

Names(pg, k, e) == e.kind = "ok" => e.edits = pg.edits /\ e.pendingId = k

LEMMA NotedFacts ==
    ASSUME NotebookInv, NEW p \in Pages, IsOpen(p), NEW k \in Ids, k = SaveId(p),
           NEW outcome \in Outcomes
    PROVE  LET noted == NoteIdentity(p, outcome) IN
           \E m \in PageStates, e \in Drafts :
              /\ noted.page = m /\ noted.draft = e
              /\ Noted(p, page[p], k, draft, m, e)
              /\ Unnamed(p, noted) \subseteq {k}
              /\ LoneWriter(p, page[p], draft) /\ ~ page[p].blank
                    => k \in Unnamed(p, noted) \/ Names(page[p], k, e)
  <1> DEFINE pg == page[p]
             claims == [pg EXCEPT !.timer = FALSE, !.pendingId = k]
             behind == [claims EXCEPT !.behind = TRUE]
             noted == NoteIdentity(p, outcome)
  <1>1. pg \in PageStates /\ Coming(pg)
    BY OpenPage
  <1>2. PICK d \in Drafts : d = draft
    BY WorldFacts
  <1>3. /\ claims \in PageStates /\ claims.pc = pg.pc /\ claims.autosave = pg.autosave
        /\ claims.edits = pg.edits /\ claims.blank = pg.blank
        /\ claims.dirty = pg.dirty /\ claims.saved = pg.saved /\ claims.seen = pg.seen
        /\ claims.pendingId = k /\ ~ claims.timer
        /\ claims.suspended = pg.suspended /\ claims.verified = pg.verified
        /\ claims.behind = pg.behind /\ claims.trouble = pg.trouble
    BY <1>1 DEF PageStates
  <1>4. noted = IF Notes(claims) THEN WriteDraftNow(p, behind, d, k, outcome)
                ELSE Result(claims, d)
    BY <1>2 DEF NoteIdentity
  <1>5. Unnamed(p, noted) = IF (Notes(noted.page) /\ noted.page.behind)
                               \/ (~ noted.page.autosave /\ d.kind # "none")
                            THEN {k} ELSE {}
    BY <1>2 DEF Unnamed
  <1> HIDE DEF claims, noted
  <1>6. CASE ~ Notes(claims)
    <2>1. noted.page = claims /\ noted.draft = d
      BY <1>4, <1>6 DEF Result
    <2>2. /\ ~ Holds(claims, d)
          /\ Coming(claims)
          /\ LoneWriter(p, pg, d) => LoneWriter(p, claims, d)
      BY <1>3, <1>6 DEF Notes, Holds, Coming, LoneWriter
    <2>3. ASSUME LoneWriter(p, pg, d), ~ pg.blank
          PROVE  k \in Unnamed(p, noted) \/ Names(pg, k, d)
      <3>1. CASE pg.autosave
        BY <1>3, <1>6, <2>3, <3>1 DEF Notes, LoneWriter, Names
      <3>2. CASE ~ pg.autosave
        BY <1>3, <1>5, <2>1, <3>2 DEF Names
      <3> QED
        BY <3>1, <3>2
    <2>4. Noted(p, pg, k, d, claims, d)
      BY <1>3, <2>2 DEF Noted
    <2>5. Unnamed(p, noted) \subseteq {k}
      BY <1>5
    <2> QED
      BY <1>2, <1>3, <2>1, <2>3, <2>4, <2>5 DEF noted
  <1>7. CASE Notes(claims)
    <2>1. ~ claims.suspended /\ claims.autosave /\ ~ claims.blank
      BY <1>7 DEF Notes
    <2>2. /\ behind \in PageStates /\ SameForm(behind, claims) /\ behind.behind
          /\ behind.suspended = claims.suspended /\ behind.verified = claims.verified
      BY <1>3 DEF PageStates, SameForm
    <2> HIDE DEF behind
    <2>3. PICK m \in PageStates, e \in Drafts :
             noted.page = m /\ noted.draft = e /\ Wrote(p, behind, k, d, m, e)
      BY <1>4, <1>7, <2>1, <2>2, WritesDraft
    <2>4. /\ Coming(m)
          /\ LoneWriter(p, behind, d) => LoneWriter(p, m, e)
      BY <2>1, <2>2, <2>3, WroteHolds
    <2>5. LoneWriter(p, pg, d) => LoneWriter(p, behind, d)
      BY <1>3, <2>2 DEF LoneWriter, Holds, SameForm
    <2>6. /\ m.pc = pg.pc /\ m.autosave = pg.autosave /\ m.edits = pg.edits
          /\ m.blank = pg.blank /\ m.dirty = pg.dirty /\ m.saved = pg.saved
          /\ m.seen = pg.seen /\ m.pendingId = k /\ ~ m.timer
      BY <1>3, <2>2, <2>3 DEF Wrote, SameForm
    <2>7. WrittenBy(p, behind, k, e) => WrittenBy(p, pg, k, e)
      BY <1>3, <2>2 DEF WrittenBy, SameForm
    <2>8. \/ WrittenBy(p, pg, k, e)
          \/ /\ e = d /\ m.behind /\ (m.suspended => d.kind # "ok")
             /\ m.verified = behind.verified
      BY <2>2, <2>3, <2>7 DEF Wrote
    <2>9. Holds(m, e) => e.edits = m.edits /\ e.savedAs = None
      BY <2>6, <2>8 DEF Holds, WrittenBy
    <2>10. k \in Unnamed(p, noted) \/ Names(pg, k, e)
      <3>1. CASE WrittenBy(p, pg, k, e)
        BY <3>1 DEF WrittenBy, Names
      <3>2. CASE e = d /\ m.behind /\ (m.suspended => d.kind # "ok")
        <4>1. m.autosave /\ ~ m.blank
          BY <1>3, <2>1, <2>6
        <4> QED
          BY <1>5, <2>3, <3>2, <4>1 DEF Notes, Names
      <3> QED
        BY <2>8, <3>1, <3>2
    <2>11. Noted(p, pg, k, d, m, e)
      BY <1>3, <2>2, <2>4, <2>5, <2>6, <2>8, <2>9 DEF Noted
    <2>12. Unnamed(p, noted) \subseteq {k}
      BY <1>5
    <2> QED
      BY <1>2, <2>3, <2>10, <2>11, <2>12 DEF noted
  <1> QED
    BY <1>6, <1>7

(* What the history says after the attempt, whether the record was put, or *)
(* put and confirmed, or neither.                                          *)
Recorded(pg, k, U) ==
    /\ unrecorded' = unrecorded \cup U /\ U \subseteq {k} /\ reoffered' = reoffered
    /\ \/ history' = history /\ reported' = reported
       \/ /\ ~ pg.blank /\ history' = [history EXCEPT ![k] = pg.edits]
          /\ reported' \in {reported, reported \cup {k}}

(* The entries, put under the id, are no older than the record of that id, *)
(* and are under no other.                                                 *)
Recordable(entries, id) ==
    /\ Newer(entries, id, history', reported' \ unrecorded')
    /\ Traced(entries, id, history', unrecorded', reoffered')

LEMMA RecordedKeeps ==
    ASSUME WorldInv, NEW pg \in PageStates, NEW k \in Ids, NEW U,
           NEW d \in Drafts, NEW e \in Drafts,
           ids \in Nat, pg.pendingId = k \/ (pg.pendingId \notin Ids /\ k = ids + 1),
           LoneForm(pg), ~ Clean(pg), LoneDraft(d), NoDuplicateRecord,
           Recorded(pg, k, U),
           e = d \/ Names(pg, k, e), pg.blank \/ k \in U \/ Names(pg, k, e)
    PROVE  /\ NoDuplicateRecord' /\ LoneDraft(e)'
           /\ Recordable(pg.edits, k)
  <1>1. history \in [Ids -> SUBSET Edits] /\ unrecorded' = unrecorded \cup U /\ U \subseteq {k}
        /\ reoffered' = reoffered
    BY DEF WorldInv, Recorded
  <1>2. \A i \in Ids : i # k => history'[i] = history[i]
    BY <1>1 DEF Recorded
  <1>3. history'[k] \in {history[k], pg.edits}
    BY <1>1 DEF Recorded
  <1>4. \A i \in reported' \ unrecorded' : i # k => i \in reported \ unrecorded
    BY <1>1 DEF Recorded
  <1>5. k \in reported' \ unrecorded' /\ history'[k] # pg.edits
            => k \in reported \ unrecorded /\ history'[k] = history[k]
    BY <1>1 DEF Recorded
  <1>6. \A i \in Ids \ unrecorded :
           history[i] = pg.edits /\ pg.edits # {} /\ pg.edits \notin reoffered => i = k
    BY DEF LoneForm, Traced
  <1>7. pg.pendingId # k => k \notin reported
    BY DEF WorldInv
  <1>8. Newer(pg.edits, k, history', reported' \ unrecorded')
    BY <1>5, <1>7 DEF Newer, LoneForm
  <1>9. Traced(pg.edits, k, history', unrecorded', reoffered')
    BY <1>1, <1>2, <1>6 DEF Traced
  <1>10. LoneDraft(e)'
    <2>1. CASE Names(pg, k, e)
      BY <1>8, <1>9, <2>1 DEF LoneDraft, Names
    <2>2. CASE e = d /\ k \in U
      <3>1. k \in unrecorded'
        BY <1>1, <2>2
      <3>2. e.kind = "ok" =>
               /\ Newer(e.edits, e.pendingId, history, reported \ unrecorded)
               /\ Traced(e.edits, e.pendingId, history, unrecorded, reoffered)
        BY <2>2 DEF LoneDraft
      <3>3. e.kind = "ok" => Newer(e.edits, e.pendingId, history, reported \ unrecorded)'
        <4>1. e.pendingId \in Ids \cup {None}
          BY DEF Drafts, DraftKinds
        <4>2. reported \subseteq Ids
          BY DEF WorldInv
        <4> QED
          BY <1>2, <1>4, <3>1, <3>2, <4>1, <4>2 DEF Newer
      <3>4. e.kind = "ok" => Traced(e.edits, e.pendingId, history, unrecorded, reoffered)'
        BY <1>1, <1>2, <3>1, <3>2 DEF Traced
      <3> QED
        BY <3>3, <3>4 DEF LoneDraft
    <2>3. CASE e = d /\ pg.blank
      <3>1. history' = history /\ reported' \ unrecorded' \subseteq reported \ unrecorded
        BY <1>1, <2>3 DEF Recorded
      <3> QED
        BY <1>1, <2>3, <3>1 DEF LoneDraft, Newer, Traced
    <2> QED
      BY <2>1, <2>2, <2>3
  <1>11. NoDuplicateRecord'
    <2>1. ASSUME NEW i \in Ids \ unrecorded', NEW j \in Ids \ (unrecorded' \cup {i}),
                 history'[i] \notin reoffered' \cup {{}}, history'[i] = history'[j]
          PROVE  FALSE
      <3>1. CASE i # k /\ j # k
        BY <1>1, <1>2, <2>1, <3>1 DEF NoDuplicateRecord, Duplicates
      <3>2. CASE i = k \/ j = k
        <4>1. CASE history'[k] = pg.edits
          BY <1>1, <1>2, <1>6, <2>1, <3>2, <4>1
        <4>2. CASE history'[k] = history[k]
          BY <1>1, <1>2, <2>1, <3>2, <4>2 DEF NoDuplicateRecord, Duplicates
        <4> QED
          BY <1>3, <4>1, <4>2
      <3> QED
        BY <3>1, <3>2
    <2> QED
      BY <2>1 DEF NoDuplicateRecord, Duplicates
  <1> QED
    BY <1>8, <1>9, <1>10, <1>11 DEF Recordable

LEMMA RecordedWorld ==
    ASSUME WorldInv, NEW p \in Pages, page[p] \in PageStates, page[p].edits \subseteq 1 .. edits,
           NEW k \in Ids, NEW U, Recorded(page[p], k, U),
           k \in 1 .. ids', ids' \in 0 .. MaxIds, ids <= ids', ids \in Nat,
           edits \in Nat, edits' \in 0 .. MaxEdits, edits <= edits',
           faults' \in 0 .. MaxFaults, misled' \subseteq Pages,
           UNCHANGED <<autosaveKey, loads, backIns>>
    PROVE  WorldInv'
  <1>1. ids' \in Nat /\ edits' \in Nat /\ page[p].edits \in SUBSET Edits
    BY NotebookAssumption DEF PageStates
  <1>2. /\ history' \in [Ids -> SUBSET Edits]
        /\ \A i \in Ids : history'[i] = history[i] \/ (i = k /\ history'[i] = page[p].edits)
    BY <1>1 DEF Recorded, WorldInv
  <1>3. \A i \in Ids : history'[i] \subseteq 1 .. edits' /\ (i > ids' => history'[i] = {})
    BY <1>1, <1>2 DEF WorldInv, Ids
  <1>4. /\ reported' \subseteq Ids /\ unrecorded' \subseteq Ids /\ reoffered' \subseteq SUBSET Edits
        /\ reported' \subseteq 1 .. ids'
    <2>1. reported' \subseteq reported \cup {k} /\ unrecorded' \subseteq unrecorded \cup {k}
          /\ reoffered' = reoffered
      BY DEF Recorded
    <2>2. 1 .. ids \subseteq 1 .. ids'
      BY <1>1
    <2> QED
      BY <2>1, <2>2 DEF WorldInv
  <1> QED
    BY <1>2, <1>3, <1>4 DEF WorldInv

(* An attempt of the page pg to save under k.                              *)
Attempt(p, pg, k, U, m, f) ==
    /\ pg = page[p] /\ IsOpen(p) /\ ~ Clean(pg)
    /\ k \in 1 .. ids' /\ ids' \in 0 .. MaxIds /\ ids <= ids'
    /\ pg.pendingId = k \/ (pg.pendingId \notin Ids /\ k = ids + 1)
    /\ Recorded(pg, k, U)
    /\ Noted(p, pg, k, draft, m, f)
    /\ LoneWriter(p, pg, draft) /\ ~ pg.blank => k \in U \/ Names(pg, k, f)

LEMMA AttemptFacts ==
    ASSUME NotebookInv, NEW p \in Pages, Ready(p), ~ Clean(page[p]), ClaimSaveId(p),
           NEW outcome \in Outcomes,
           unrecorded' = unrecorded \cup Unnamed(p, NoteIdentity(p, outcome)),
           reoffered' = reoffered,
           \/ history' = history /\ reported' = reported
           \/ /\ ~ page[p].blank /\ history' = Put(p)
              /\ reported' \in {reported, reported \cup {SaveId(p)}}
    PROVE  \E pg \in PageStates, k \in Ids, U \in SUBSET Ids, m \in PageStates, f \in Drafts :
              /\ Attempt(p, pg, k, U, m, f) /\ k = SaveId(p)
              /\ NoteIdentity(p, outcome).page = m /\ NoteIdentity(p, outcome).draft = f
  <1> DEFINE noted == NoteIdentity(p, outcome)
  <1>1. IsOpen(p)
    BY DEF Ready, IsOpen
  <1>2. PICK pg \in PageStates : pg = page[p]
    BY WorldFacts
  <1>3. PICK k \in Ids :
           /\ k = SaveId(p) /\ k \in 1 .. ids' /\ ids' \in 0 .. MaxIds /\ ids <= ids'
           /\ pg.pendingId = k \/ (pg.pendingId \notin Ids /\ k = ids + 1)
    BY <1>1, <1>2, ClaimFacts
  <1>4. PICK m \in PageStates, f \in Drafts :
           /\ noted.page = m /\ noted.draft = f
           /\ Noted(p, pg, k, draft, m, f)
           /\ Unnamed(p, noted) \subseteq {k}
           /\ LoneWriter(p, pg, draft) /\ ~ pg.blank
                 => k \in Unnamed(p, noted) \/ Names(pg, k, f)
    BY <1>1, <1>2, <1>3, NotedFacts
  <1>5. PICK U \in SUBSET Ids : U = Unnamed(p, noted)
    BY <1>4
  <1>6. Recorded(pg, k, U)
    BY <1>2, <1>3, <1>4, <1>5 DEF Recorded, Put
  <1>7. Attempt(p, pg, k, U, m, f)
    BY <1>1, <1>2, <1>3, <1>4, <1>5, <1>6 DEF Attempt
  <1> QED
    BY <1>3, <1>4, <1>7

(* What a save leaves alone or counts up.                                  *)
Counted ==
    /\ edits' \in 0 .. MaxEdits /\ edits <= edits' /\ faults' \in 0 .. MaxFaults
    /\ misled' = Misled
    /\ UNCHANGED <<autosaveKey, loads, backIns>>

(* A page learns of no draft as it ends its attempt.                       *)
LeavesKnown(m, next) ==
    next.verified = Nothing \/ (next.verified = m.verified /\ m.seen \subseteq next.seen)

(* A step of a page that makes an attempt to save, whatever becomes of its *)
(* form afterwards.                                                        *)
LEMMA SaveKeeps ==
    ASSUME NotebookInv, Counted, NEW p \in Pages, NEW pg \in PageStates, NEW k \in Ids,
           NEW U \in SUBSET Ids, NEW m \in PageStates, NEW f \in Drafts,
           Attempt(p, pg, k, U, m, f),
           NEW next \in PageStates, NEW e \in Drafts,
           page' = [page EXCEPT ![p] = next], draft' = e, Remains(e, f),
           next.pc = "closed" => next = Closed,
           next.pendingId \in 0 .. ids', next.edits \subseteq 1 .. edits',
           Coming(next), OwnDraft(p, next, e),
           next.pc = "closed" \/ next.autosave = pg.autosave,
           LeavesKnown(m, next),
           Holds(next, e) => e.savedAs = None,
           Recordable(pg.edits, k) /\ LoneWriter(p, m, f)
              => LoneForm(next)' /\ LoneWriter(p, next, e)
    PROVE  NotebookInv'
  <1>1. /\ p \in 1 .. loads /\ pg.edits \subseteq 1 .. edits /\ WorldInv
        /\ ids \in Nat /\ ids' \in Nat /\ edits \in Nat /\ loads \in Nat
    BY OpenPage, WorldFacts, NotebookAssumption DEF WorldInv, Attempt
  <1>2. WorldInv'
    BY <1>1, RecordedWorld DEF Attempt, Counted, Misled
  <1>3. PICK d \in Drafts : d = draft
    BY WorldFacts
  <1>4. /\ d.kind = "ok" => d.writer \in 1 .. loads
        /\ d.pendingId \in 0 .. ids /\ d.edits \subseteq 1 .. edits
    BY <1>3 DEF NotebookInv, CountsInv
  <1>5. f = d \/ WrittenBy(p, pg, k, f)
    BY <1>3 DEF Noted, Attempt
  <1>6. /\ f.kind = "ok" => f.writer \in 1 .. loads
        /\ f.pendingId \in 0 .. ids' /\ f.edits \subseteq 1 .. edits'
    BY <1>1, <1>4, <1>5 DEF WrittenBy, Attempt, Counted
  <1>7. e.kind = "none" => e = NoDraft
    BY DEF Drafts
  <1>8. /\ e.kind = "ok" => e.writer \in 1 .. loads'
        /\ e.pendingId \in 0 .. ids' /\ e.edits \subseteq 1 .. edits'
        /\ e.kind # "ok" \/ e.writer = p \/ Remains(e, draft)
    <2>1. CASE e.kind = "none"
      BY <1>1, <1>7, <2>1 DEF NoDraft, None
    <2>2. CASE e.kind # "none"
      BY <1>1, <1>3, <1>5, <1>6, <2>2 DEF Remains, WrittenBy, Counted
    <2> QED
      BY <2>1, <2>2
  <1>9. ASSUME MaxOpen = 1
        PROVE  /\ \A q \in Pages : IsOpen(q) => q = p
               /\ LoneForm(next)' /\ LoneWriter(p, next, e) /\ LoneDraft(e)'
               /\ NoDuplicateRecord' /\ Kept(next, e)'
    <2>1. /\ LonePage /\ LoneForm(pg) /\ LoneWriter(p, pg, d) /\ LoneDraft(d)
          /\ Kept(pg, d) /\ \A q \in Pages : IsOpen(q) => q = p
      BY <1>3, <1>9, OpenPage DEF Attempt
    <2>2. f = d \/ Names(pg, k, f)
      BY <1>5 DEF WrittenBy, Names
    <2>3. pg.blank \/ k \in U \/ Names(pg, k, f)
      BY <1>3, <2>1 DEF Attempt
    <2>4. /\ NoDuplicateRecord /\ ~ Clean(pg) /\ Recorded(pg, k, U)
          /\ pg.pendingId = k \/ (pg.pendingId \notin Ids /\ k = ids + 1)
      BY <2>1 DEF LonePage, Attempt
    <2>5. NoDuplicateRecord' /\ LoneDraft(f)' /\ Recordable(pg.edits, k)
      BY <1>1, <2>1, <2>2, <2>3, <2>4, RecordedKeeps
    <2>6. LoneWriter(p, m, f)
      BY <1>3, <2>1 DEF Noted, Attempt
    <2>7. LoneForm(next)' /\ LoneWriter(p, next, e)
      BY <2>5, <2>6
    <2>8. LoneDraft(e)'
      BY <2>5 DEF LoneDraft, Remains
    <2>9. Kept(next, e)'
      <3>1. pg.pc # "closed" /\ autosaveKey' = autosaveKey
        BY DEF Attempt, Counted, IsOpen
      <3> QED
        BY <2>1, <3>1 DEF Kept, AlreadySaved
    <2> QED
      BY <2>1, <2>5, <2>7, <2>8, <2>9
  <1>10. /\ loads <= loads' /\ ids <= ids' /\ edits <= edits' /\ p <= loads'
    BY <1>1 DEF Attempt, Counted
  <1>11. Spares(p, next, e)
    <2>1. m.seen = pg.seen /\ pg = page[p]
      BY DEF Attempt, Noted
    <2>2. CASE f = d /\ m.verified = pg.verified
      BY <1>3, <2>1, <2>2 DEF Spares, LeavesKnown
    <2>3. CASE WrittenBy(p, pg, k, f)
      BY <2>3 DEF Spares, WrittenBy, Remains, Drafts
    <2> QED
      BY <1>3, <2>2, <2>3 DEF Attempt, Noted
  <1> QED
    BY <1>2, <1>8, <1>9, <1>10, <1>11, MoveKeeps DEF Counted

LEMMA SaveFailsKeeps ==
    ASSUME NotebookInv, NEW p \in Pages, SaveFails(p)
    PROVE  NotebookInv'
  <1>1. /\ Ready(p) /\ ~ Clean(page[p]) /\ ClaimSaveId(p) /\ WorldInv
        /\ UNCHANGED <<autosaveKey, loads, edits, backIns, reported, reoffered>>
        /\ misled' = Misled
    BY WorldFacts DEF SaveFails
  <1>2. PICK plan \in Plans(2) :
           LET noted == NoteIdentity(p, plan[1]) IN
           /\ page' = [page EXCEPT ![p] = noted.page] /\ draft' = noted.draft
           /\ history' = history \/ (~ page[p].blank /\ history' = Put(p))
           /\ unrecorded' = unrecorded \cup Unnamed(p, noted)
           /\ Charge(plan)
    BY DEF SaveFails, Set
  <1>3. faults' \in 0 .. MaxFaults /\ plan[1] \in Outcomes
    BY <1>1, <1>2, ChargeFacts
  <1>4. PICK pg \in PageStates, k \in Ids, U \in SUBSET Ids, m \in PageStates, f \in Drafts :
           /\ Attempt(p, pg, k, U, m, f)
           /\ page' = [page EXCEPT ![p] = m] /\ draft' = f
    <2>1. PICK outcome \in Outcomes : outcome = plan[1]
      BY <1>3
    <2>2. \E pg \in PageStates, k \in Ids, U \in SUBSET Ids, m \in PageStates, f \in Drafts :
             /\ Attempt(p, pg, k, U, m, f)
             /\ NoteIdentity(p, outcome).page = m /\ NoteIdentity(p, outcome).draft = f
      BY <1>1, <1>2, <2>1, AttemptFacts
    <2> QED
      BY <1>2, <2>1, <2>2
  <1>5. pg.edits \subseteq 1 .. edits /\ pg.pc # "closed" /\ edits \in 0 .. MaxEdits
        /\ edits \in Nat
    BY <1>1, <1>4, OpenPage, NotebookAssumption DEF Attempt, IsOpen, WorldInv
  <1>6. Counted
    BY <1>1, <1>3, <1>5 DEF Counted
  <1>7. /\ m.pc # "closed" /\ m.pendingId = k /\ m.edits = pg.edits /\ ~ m.timer
        /\ Coming(m) /\ OwnDraft(p, m, f) /\ Remains(f, f)
        /\ k \in 0 .. ids' /\ pg.edits \subseteq 1 .. edits'
        /\ m.autosave = pg.autosave /\ (Holds(m, f) => f.savedAs = None)
        /\ LeavesKnown(m, m)
    BY <1>1, <1>4, <1>5 DEF Attempt, Noted, OwnDraft, Remains, LeavesKnown
  <1>8. Recordable(pg.edits, k) => LoneForm(m)'
    BY <1>7 DEF Recordable, LoneForm, Clean
  <1> QED
    BY <1>4, <1>6, <1>7, <1>8, SaveKeeps

LEMMA SaveDiesKeeps ==
    ASSUME NotebookInv, NEW p \in Pages, SaveDies(p)
    PROVE  NotebookInv'
  <1>1. /\ Ready(p) /\ ~ Clean(page[p]) /\ ClaimSaveId(p) /\ WorldInv
        /\ UNCHANGED <<autosaveKey, loads, edits, backIns, reported, reoffered>>
        /\ page' = [page EXCEPT ![p] = Closed]
        /\ history' = history \/ (~ page[p].blank /\ history' = Put(p))
        /\ misled' = Misled
    BY WorldFacts DEF SaveDies, Set
  <1>2. PICK plan \in Plans(1) :
           LET noted == NoteIdentity(p, plan[1]) IN
           /\ draft' = noted.draft
           /\ unrecorded' = unrecorded \cup Unnamed(p, noted)
           /\ Charge(plan)
    BY DEF SaveDies
  <1>3. faults' \in 0 .. MaxFaults /\ plan[1] \in Outcomes
    BY <1>1, <1>2, ChargeFacts
  <1>4. PICK pg \in PageStates, k \in Ids, U \in SUBSET Ids, m \in PageStates, f \in Drafts :
           Attempt(p, pg, k, U, m, f) /\ draft' = f
    BY <1>1, <1>2, <1>3, AttemptFacts
  <1>5. edits \in 0 .. MaxEdits /\ edits \in Nat /\ ids' \in Nat
    BY <1>1, <1>4, NotebookAssumption DEF Attempt, WorldInv
  <1>6. Counted
    BY <1>1, <1>3, <1>5 DEF Counted
  <1>7. PICK next \in PageStates : next = Closed
    BY ClosedFacts
  <1>8. /\ page' = [page EXCEPT ![p] = next] /\ Remains(f, f)
        /\ next.pendingId \in 0 .. ids' /\ next.edits \subseteq 1 .. edits'
        /\ Coming(next) /\ OwnDraft(p, next, f) /\ LoneWriter(p, next, f)
        /\ next.pc = "closed" /\ ~ Holds(next, f) /\ LeavesKnown(m, next)
    BY <1>1, <1>5, <1>7, ClosedFacts
       DEF LeavesKnown, Holds, Coming, OwnDraft, Remains, LoneWriter, None
  <1>9. LoneForm(next)'
    <2>1. None \notin reported'
      BY <1>1, NoIdIsSafe
    <2> QED
      BY <1>7, <2>1, ClosedFacts DEF LoneForm, Newer, Traced, Clean
  <1> QED
    BY <1>4, <1>6, <1>7, <1>8, <1>9, SaveKeeps

(* The page and the draft after a confirmed save.                          *)
Retired(m, f, next, e) ==
    /\ next.pc = m.pc /\ next.autosave = m.autosave /\ next.edits = m.edits /\ next.seen = m.seen
    /\ Clean(next) /\ next.pendingId = None
    /\ ~ next.timer /\ next.behind /\ next.suspended = m.suspended
    /\ next.verified \in {m.verified, Nothing}
    /\ Remains(e, f)

LEMMA SavedFacts ==
    ASSUME NEW p \in Pages, NEW noted, NEW m \in PageStates, NEW f \in Drafts,
           noted.page = m, noted.draft = f, SaveId(p) \in Ids,
           NEW remove \in Outcomes, NEW stamp \in Outcomes
    PROVE  \E next \in PageStates, e \in Drafts :
              /\ SaveSucceeded(p, noted, remove, stamp).page = next
              /\ SaveSucceeded(p, noted, remove, stamp).draft = e
              /\ Retired(m, f, next, e)
  <1> DEFINE saved == [m EXCEPT !.dirty = FALSE, !.saved = TRUE, !.pendingId = None]
             r == RetireDraft(saved, f, SaveId(p), remove, stamp)
  <1>1. /\ saved \in PageStates /\ saved.pc = m.pc /\ saved.autosave = m.autosave
        /\ saved.edits = m.edits
        /\ saved.seen = m.seen /\ ~ saved.dirty /\ saved.saved /\ saved.pendingId = None
        /\ saved.suspended = m.suspended /\ saved.verified = m.verified
    BY DEF PageStates
  <1>2. SaveSucceeded(p, noted, remove, stamp) = r
    BY DEF SaveSucceeded
  <1> HIDE DEF saved
  <1>3. /\ r.page \in PageStates /\ SameForm(r.page, saved)
        /\ ~ r.page.timer /\ r.page.behind /\ r.page.suspended = saved.suspended
        /\ r.page.verified \in {saved.verified, Nothing}
        /\ r.draft \in Drafts /\ Remains(r.draft, f)
    BY <1>1, RetireFacts
  <1> HIDE DEF r
  <1>4. Retired(m, f, r.page, r.draft)
    BY <1>1, <1>3 DEF Retired, SameForm, Clean
  <1> QED
    BY <1>2, <1>3, <1>4

LEMMA SaveOnlyKeeps ==
    ASSUME NotebookInv, NEW p \in Pages, SaveOnly(p)
    PROVE  NotebookInv'
  <1>1. /\ Ready(p) /\ ~ Clean(page[p]) /\ ClaimSaveId(p) /\ WorldInv
        /\ UNCHANGED <<autosaveKey, loads, edits, backIns, reoffered>>
        /\ ~ page[p].blank /\ history' = Put(p) /\ reported' = reported \cup {SaveId(p)}
        /\ misled' = Misled
    BY WorldFacts DEF SaveOnly, SaveSucceeds
  <1>2. PICK plan \in Plans(4) :
           LET noted == NoteIdentity(p, plan[1])
               after == SaveSucceeded(p, noted, plan[3], plan[4]) IN
           /\ page' = [page EXCEPT ![p] = after.page] /\ draft' = after.draft
           /\ unrecorded' = unrecorded \cup Unnamed(p, noted)
           /\ Charge(plan)
    BY DEF SaveOnly, Set
  <1>3. faults' \in 0 .. MaxFaults /\ plan[1] \in Outcomes
        /\ plan[3] \in Outcomes /\ plan[4] \in Outcomes
    BY <1>1, <1>2, ChargeFacts
  <1>4. PICK outcome, noted :
           /\ outcome \in Outcomes /\ outcome = plan[1] /\ noted = NoteIdentity(p, outcome)
    BY <1>3
  <1>5. PICK pg \in PageStates, k \in Ids, U \in SUBSET Ids, m \in PageStates, f \in Drafts :
           /\ Attempt(p, pg, k, U, m, f) /\ k = SaveId(p)
           /\ noted.page = m /\ noted.draft = f
    BY <1>1, <1>2, <1>4, AttemptFacts
  <1>6. PICK next \in PageStates, e \in Drafts :
           /\ SaveSucceeded(p, noted, plan[3], plan[4]).page = next
           /\ SaveSucceeded(p, noted, plan[3], plan[4]).draft = e
           /\ Retired(m, f, next, e)
    <2>1. PICK remove \in Outcomes, stamp \in Outcomes : remove = plan[3] /\ stamp = plan[4]
      BY <1>3
    <2>2. \E next \in PageStates, e \in Drafts :
             /\ SaveSucceeded(p, noted, remove, stamp).page = next
             /\ SaveSucceeded(p, noted, remove, stamp).draft = e
             /\ Retired(m, f, next, e)
      BY <1>5, SavedFacts
    <2> QED
      BY <2>1, <2>2
  <1>7. page' = [page EXCEPT ![p] = next] /\ draft' = e
    BY <1>2, <1>4, <1>6
  <1>8. pg.edits \subseteq 1 .. edits /\ pg.pc # "closed" /\ edits \in 0 .. MaxEdits
        /\ edits \in Nat /\ ids' \in Nat
    BY <1>1, <1>5, OpenPage, NotebookAssumption DEF Attempt, IsOpen, WorldInv
  <1>9. Counted
    BY <1>1, <1>3, <1>8 DEF Counted
  <1>10. /\ next.pc # "closed" /\ next.autosave = pg.autosave
         /\ next.pendingId \in 0 .. ids' /\ next.edits \subseteq 1 .. edits'
         /\ Coming(next) /\ ~ Holds(next, e) /\ OwnDraft(p, next, e) /\ Remains(e, f)
    BY <1>1, <1>5, <1>6, <1>8
       DEF Attempt, Noted, Retired, Clean, Coming, Holds, OwnDraft, None
  <1>11. LoneForm(next)'
    <2>1. None \notin reported'
      BY <1>1, <1>5, NoIdIsSafe DEF Ids, None
    <2> QED
      BY <1>6, <2>1 DEF Retired, LoneForm, Newer, Clean
  <1>12. LoneWriter(p, m, f) => LoneWriter(p, next, e)
    BY <1>6, <1>10 DEF Retired, Remains, LoneWriter
  <1>13. /\ Counted /\ Attempt(p, pg, k, U, m, f)
         /\ page' = [page EXCEPT ![p] = next] /\ draft' = e /\ Remains(e, f)
         /\ next.pc # "closed"
         /\ next.pendingId \in 0 .. ids' /\ next.edits \subseteq 1 .. edits'
         /\ Coming(next) /\ OwnDraft(p, next, e)
         /\ next.autosave = pg.autosave /\ ~ Holds(next, e)
         /\ LeavesKnown(m, next)
         /\ LoneForm(next)' /\ (LoneWriter(p, m, f) => LoneWriter(p, next, e))
    BY <1>5, <1>6, <1>7, <1>9, <1>10, <1>11, <1>12 DEF Retired, LeavesKnown
  <1> QED
    BY <1>13, SaveKeeps

LEMMA SaveAndNextKeeps ==
    ASSUME NotebookInv, NEW p \in Pages, SaveAndNext(p)
    PROVE  NotebookInv'
  <1>1. /\ Ready(p) /\ ~ Clean(page[p]) /\ ClaimSaveId(p) /\ WorldInv
        /\ UNCHANGED <<autosaveKey, loads, backIns, reoffered>>
        /\ ~ page[p].blank /\ history' = Put(p) /\ reported' = reported \cup {SaveId(p)}
        /\ misled' = Misled
    BY WorldFacts DEF SaveAndNext, SaveSucceeds
  <1>2. PICK plan \in Plans(5), content \in CarriedOver :
           LET noted == NoteIdentity(p, plan[1])
               done  == SaveSucceeded(p, noted, plan[3], plan[4])
               after == DiscardDraft(NewForm(done.page, content), done.draft, plan[5]) IN
           /\ page' = [page EXCEPT ![p] = after.page] /\ draft' = after.draft
           /\ unrecorded' = unrecorded \cup Unnamed(p, noted)
           /\ edits' = edits + Cardinality(content)
           /\ Charge(plan)
    BY DEF SaveAndNext, Advance, Set
  <1>3. faults' \in 0 .. MaxFaults /\ plan[1] \in Outcomes
        /\ plan[3] \in Outcomes /\ plan[4] \in Outcomes /\ plan[5] \in Outcomes
    BY <1>1, <1>2, ChargeFacts
  <1>4. PICK outcome, noted :
           /\ outcome \in Outcomes /\ outcome = plan[1] /\ noted = NoteIdentity(p, outcome)
    BY <1>3
  <1>5. PICK pg \in PageStates, k \in Ids, U \in SUBSET Ids, m \in PageStates, f \in Drafts :
           /\ Attempt(p, pg, k, U, m, f) /\ k = SaveId(p)
           /\ noted.page = m /\ noted.draft = f
    BY <1>1, <1>2, <1>4, AttemptFacts
  <1>6. PICK done \in PageStates, d \in Drafts :
           /\ SaveSucceeded(p, noted, plan[3], plan[4]).page = done
           /\ SaveSucceeded(p, noted, plan[3], plan[4]).draft = d
           /\ Retired(m, f, done, d)
    <2>1. PICK remove \in Outcomes, stamp \in Outcomes : remove = plan[3] /\ stamp = plan[4]
      BY <1>3
    <2>2. \E next \in PageStates, e \in Drafts :
             /\ SaveSucceeded(p, noted, remove, stamp).page = next
             /\ SaveSucceeded(p, noted, remove, stamp).draft = e
             /\ Retired(m, f, next, e)
      BY <1>5, SavedFacts
    <2> QED
      BY <2>1, <2>2
  <1>7. /\ content \in SUBSET Edits /\ (content = {} \/ content = {edits + 1})
        /\ edits' \in 0 .. MaxEdits /\ edits <= edits' /\ content \subseteq 1 .. edits'
        /\ edits \in Nat
    BY <1>1, <1>2, CarriedOverFacts
  <1>8. PICK form \in PageStates : form = NewForm(done, content)
    BY <1>7, NewFormFacts
  <1>9. /\ form.autosave = done.autosave /\ form.edits = content /\ form.pc = done.pc /\ form.suspended = done.suspended
        /\ form.verified = done.verified /\ ~ form.dirty /\ ~ form.saved
        /\ form.pendingId = None /\ done.seen \subseteq form.seen
    BY <1>7, <1>8, NewFormFacts
  <1>10. PICK next \in PageStates, e \in Drafts :
            /\ page' = [page EXCEPT ![p] = next] /\ draft' = e
            /\ SameForm(next, form) /\ next.behind /\ next.suspended = form.suspended
            /\ next.verified \in {form.verified, Nothing} /\ e \in {d, NoDraft}
    <2> DEFINE r == DiscardDraft(form, d, plan[5])
    <2>1. /\ r.page \in PageStates /\ SameForm(r.page, form)
          /\ r.page.behind /\ r.page.suspended = form.suspended
          /\ r.page.verified \in {form.verified, Nothing}
          /\ r.draft \in {d, NoDraft}
      BY <1>3, DiscardFacts
    <2>2. page' = [page EXCEPT ![p] = r.page] /\ draft' = r.draft
      BY <1>2, <1>4, <1>6, <1>8
    <2> HIDE DEF r
    <2> QED
      BY <2>1, <2>2, NoDraftType
  <1>11. pg.edits \subseteq 1 .. edits /\ pg.pc # "closed" /\ ids' \in Nat
    BY <1>1, <1>5, OpenPage, NotebookAssumption DEF Attempt, IsOpen, WorldInv
  <1>12. Counted
    BY <1>1, <1>3, <1>7 DEF Counted
  <1>13. /\ next.pc # "closed" /\ next.autosave = pg.autosave /\ next.pendingId = None /\ next.edits = content
         /\ ~ Clean(next) /\ Coming(next) /\ ~ Holds(next, e) /\ OwnDraft(p, next, e)
         /\ m.seen \subseteq next.seen /\ (next.suspended => m.suspended)
         /\ next.verified \in {m.verified, Nothing}
    BY <1>5, <1>6, <1>9, <1>10, <1>11
       DEF Attempt, Noted, Retired, SameForm, Clean, Coming, Holds, OwnDraft
  <1>14. Remains(e, f)
    BY <1>6, <1>10, NoDraftType DEF Retired, Remains
  <1>15. LoneForm(next)'
    <2>1. None \notin reported'
      BY <1>1, <1>5, NoIdIsSafe DEF Ids, None
    <2>2. \A i \in Ids : history'[i] \subseteq 1 .. edits
      BY <1>1, <1>5, <1>11 DEF Put, WorldInv, Attempt
    <2>3. next.edits = {} \/ \A i \in Ids : history'[i] # next.edits
      <3>1. edits + 1 \notin 1 .. edits
        BY <1>7
      <3> QED
        BY <1>7, <1>13, <2>2, <3>1
    <2> QED
      BY <1>13, <2>1, <2>3 DEF LoneForm, Newer, Traced, Clean
  <1>16. LoneWriter(p, m, f) => LoneWriter(p, next, e)
    BY <1>13, <1>14 DEF Remains, LoneWriter
  <1>17. next.pendingId \in 0 .. ids' /\ next.edits \subseteq 1 .. edits'
    BY <1>7, <1>11, <1>13 DEF None
  <1>18. /\ Counted /\ Attempt(p, pg, k, U, m, f)
         /\ page' = [page EXCEPT ![p] = next] /\ draft' = e /\ Remains(e, f)
         /\ next.pc # "closed"
         /\ next.pendingId \in 0 .. ids' /\ next.edits \subseteq 1 .. edits'
         /\ Coming(next) /\ OwnDraft(p, next, e)
         /\ next.autosave = pg.autosave /\ ~ Holds(next, e)
         /\ LeavesKnown(m, next)
         /\ LoneForm(next)' /\ (LoneWriter(p, m, f) => LoneWriter(p, next, e))
    BY <1>5, <1>10, <1>12, <1>13, <1>14, <1>15, <1>16, <1>17 DEF LeavesKnown
  <1> QED
    BY <1>18, SaveKeeps

-----------------------------------------------------------------------------
(* What no page may change.                                                *)

(* A draft that cannot be read, or that another page wrote and this page   *)
(* does not know by its number.                                            *)
Foreign(p, pg, d) ==
    d.kind = "unreadable"
    \/ /\ d.kind = "ok" /\ d.writer \in Pages \ {p}
       /\ pg.verified = Nothing \/ pg.verified.rev # d.rev

LEMMA ForeignCalls ==
    ASSUME NEW p \in Pages, NEW pg \in PageStates, NEW d \in Drafts, Foreign(p, pg, d)
    PROVE  ~ MayWrite(p, pg, d) /\ ~ Removable(pg, d)
  <1>1. d.kind = "unreadable" => ~ MayWrite(p, pg, d) /\ ~ Removable(pg, d)
    BY DEF MayWrite, Removable
  <1>2. d.writer \in Pages => [writer |-> d.writer, rev |-> d.rev] # Nothing
    BY DEF Pages, Nothing, None
  <1> QED
    BY <1>1, <1>2 DEF Foreign, MayWrite, Removable

LEMMA ForeignStays ==
    ASSUME NEW p \in Pages, NEW pg \in PageStates, NEW d \in Drafts, Foreign(p, pg, d),
           NEW next \in PageStates, next.verified \in {pg.verified, Nothing}
    PROVE  Foreign(p, next, d)
  BY DEF Foreign

LEMMA ForeignWrite ==
    ASSUME NEW p \in Pages, NEW pg \in PageStates, NEW d \in Drafts, Foreign(p, pg, d),
           NEW id \in Ids \cup {None}, NEW outcome \in Outcomes
    PROVE  LET r == WriteDraftNow(p, pg, d, id, outcome) IN
           r.draft = d /\ r.page \in PageStates /\ Foreign(p, r.page, d)
  <1> DEFINE r == WriteDraftNow(p, pg, d, id, outcome)
  <1>1. /\ r.page \in PageStates
        /\ r.draft # d => MayWrite(p, pg, d) /\ WrittenBy(p, pg, id, r.draft)
        /\ \/ /\ MayWrite(p, pg, d) /\ WrittenBy(p, pg, id, r.draft)
              /\ ~ r.page.behind
           \/ /\ r.page.behind = pg.behind /\ r.page.verified = pg.verified
              /\ r.page.trouble \/ r.page.suspended
    BY WriteFacts
  <1> HIDE DEF r
  <1> QED
    BY <1>1, ForeignCalls, ForeignStays DEF r

LEMMA ForeignDiscard ==
    ASSUME NEW p \in Pages, NEW pg \in PageStates, NEW d \in Drafts, Foreign(p, pg, d),
           NEW outcome \in Outcomes
    PROVE  DiscardDraft(pg, d, outcome).draft = d
  <1> DEFINE r == DiscardDraft(pg, d, outcome)
  <1>1. r.draft # d => Removable(pg, d)
    BY DiscardFacts
  <1> QED
    BY <1>1, ForeignCalls

LEMMA ForeignRetire ==
    ASSUME NEW p \in Pages, NEW pg \in PageStates, NEW d \in Drafts, Foreign(p, pg, d),
           NEW id \in Ids, NEW remove \in Outcomes, NEW stamp \in Outcomes
    PROVE  LET r == RetireDraft(pg, d, id, remove, stamp) IN
           r.draft = d /\ r.page \in PageStates /\ Foreign(p, r.page, d)
  <1> DEFINE r == RetireDraft(pg, d, id, remove, stamp)
  <1>1. /\ r.page \in PageStates
        /\ r.draft # d => Removable(pg, d)
        /\ r.page.verified \in {pg.verified, Nothing}
    BY RetireFacts
  <1> HIDE DEF r
  <1> QED
    BY <1>1, ForeignCalls, ForeignStays DEF r

LEMMA ForeignNote ==
    ASSUME NotebookInv, NEW p \in Pages, NEW k \in Ids, k = SaveId(p),
           Foreign(p, page[p], draft), NEW outcome \in Outcomes
    PROVE  LET r == NoteIdentity(p, outcome) IN
           r.draft = draft /\ r.page \in PageStates /\ Foreign(p, r.page, draft)
  <1> DEFINE claims == [page[p] EXCEPT !.timer = FALSE, !.pendingId = k]
             behind == [claims EXCEPT !.behind = TRUE]
             r == NoteIdentity(p, outcome)
  <1>1. PICK pg \in PageStates, d \in Drafts : pg = page[p] /\ d = draft
    BY WorldFacts
  <1>2. /\ claims \in PageStates /\ claims.verified = pg.verified
        /\ behind \in PageStates /\ behind.verified = pg.verified
    BY <1>1 DEF PageStates
  <1>3. r = IF Notes(claims) THEN WriteDraftNow(p, behind, d, k, outcome)
            ELSE Result(claims, d)
    BY <1>1 DEF NoteIdentity
  <1> HIDE DEF claims, behind, r
  <1>4. Foreign(p, claims, d) /\ Foreign(p, behind, d)
    BY <1>1, <1>2 DEF Foreign
  <1>5. CASE Notes(claims)
    <2>1. /\ WriteDraftNow(p, behind, d, k, outcome).draft = d
          /\ WriteDraftNow(p, behind, d, k, outcome).page \in PageStates
          /\ Foreign(p, WriteDraftNow(p, behind, d, k, outcome).page, d)
      BY <1>2, <1>4, ForeignWrite
    <2> QED
      BY <1>1, <1>3, <1>5, <2>1 DEF r
  <1>6. CASE ~ Notes(claims)
    BY <1>1, <1>2, <1>3, <1>4, <1>6 DEF Result, r
  <1> QED
    BY <1>5, <1>6

(* A page changes such a draft only if it is the text it has downloaded.   *)
LEMMA TimerSparesForeign ==
    ASSUME NotebookInv, NEW p \in Pages, TimerFires(p), Foreign(p, page[p], draft)
    PROVE  draft' = draft
  <1> DEFINE fired == [page[p] EXCEPT !.timer = FALSE]
  <1>1. PICK pg \in PageStates, d \in Drafts : pg = page[p] /\ d = draft
    BY WorldFacts
  <1>2. fired \in PageStates /\ fired.verified = pg.verified
    BY <1>1 DEF PageStates
  <1>3. PICK plan \in Plans(1) :
           /\ LET after == IF ~ fired.autosave \/ fired.suspended THEN Result(fired, d)
                           ELSE IF fired.blank THEN DiscardDraft(fired, d, plan[1])
                           ELSE WriteDraftNow(p, fired, d, fired.pendingId, plan[1])
              IN  draft' = after.draft
           /\ Charge(plan)
    BY <1>1 DEF TimerFires
  <1>4. plan[1] \in Outcomes
    BY <1>3, WorldFacts, ChargeFacts
  <1> HIDE DEF fired
  <1>5. Foreign(p, fired, d) /\ fired.pendingId \in Ids \cup {None}
    BY <1>1, <1>2 DEF Foreign, PageStates
  <1>6. DiscardDraft(fired, d, plan[1]).draft = d
    BY <1>2, <1>4, <1>5, ForeignDiscard
  <1>7. WriteDraftNow(p, fired, d, fired.pendingId, plan[1]).draft = d
    BY <1>2, <1>4, <1>5, ForeignWrite
  <1>8. Result(fired, d).draft = d
    BY DEF Result
  <1> QED
    BY <1>1, <1>3, <1>6, <1>7, <1>8

LEMMA MovingOnSparesForeign ==
    ASSUME NotebookInv, NEW p \in Pages, Reset(p) \/ NextOnly(p), Foreign(p, page[p], draft)
    PROVE  draft' = draft
  <1>1. PICK pg \in PageStates, d \in Drafts : pg = page[p] /\ d = draft
    BY WorldFacts
  <1>2. PICK plan \in Plans(1), content \in SUBSET Edits :
           /\ draft' = DiscardDraft(NewForm(pg, content), d, plan[1]).draft
           /\ Charge(plan)
    <2>1. CASE Reset(p)
      BY <1>1, <2>1 DEF Reset
    <2>2. CASE NextOnly(p)
      BY <1>1, <2>2, WorldFacts, CarriedOverFacts DEF NextOnly, Advance
    <2> QED
      BY <2>1, <2>2
  <1>3. plan[1] \in Outcomes
    BY <1>2, WorldFacts, ChargeFacts
  <1>4. PICK form \in PageStates : form = NewForm(pg, content) /\ form.verified = pg.verified
    BY NewFormFacts
  <1>5. Foreign(p, form, d)
    BY <1>1, <1>4 DEF Foreign
  <1> QED
    BY <1>1, <1>2, <1>3, <1>4, <1>5, ForeignDiscard

LEMMA SwitchSparesForeign ==
    ASSUME NotebookInv, NEW p \in Pages, TurnOff(p) \/ DiscardDownloaded(p),
           Foreign(p, page[p], draft)
    PROVE  draft' = draft \/ page[p].raw = draft
  <1>1. CASE TurnOff(p)
    <2> DEFINE asked == [page[p] EXCEPT !.pc = "ready"]
    <2>1. PICK pg \in PageStates, d \in Drafts : pg = page[p] /\ d = draft
      BY WorldFacts
    <2>2. PICK plan \in Plans(1) :
             draft' = DiscardDraft(asked, d, plan[1]).draft /\ Charge(plan)
      BY <1>1, <2>1 DEF TurnOff
    <2>3. plan[1] \in Outcomes
      BY <2>2, WorldFacts, ChargeFacts
    <2>4. asked \in PageStates /\ asked.verified = pg.verified
      BY <2>1 DEF PageStates
    <2> HIDE DEF asked
    <2>5. Foreign(p, asked, d)
      BY <2>1, <2>4 DEF Foreign
    <2> QED
      BY <2>1, <2>2, <2>3, <2>4, <2>5, ForeignDiscard
  <1>2. CASE DiscardDownloaded(p)
    BY <1>2 DEF DiscardDownloaded
  <1> QED
    BY <1>1, <1>2

LEMMA SaveSparesForeign ==
    ASSUME NotebookInv, NEW p \in Pages, Foreign(p, page[p], draft),
           SaveFails(p) \/ SaveDies(p) \/ SaveOnly(p) \/ SaveAndNext(p)
    PROVE  draft' = draft
  <1>1. Ready(p) /\ ClaimSaveId(p) /\ WorldInv
    BY WorldFacts DEF SaveFails, SaveDies, SaveOnly, SaveAndNext
  <1>2. PICK k \in Ids : k = SaveId(p)
    BY <1>1, ClaimFacts DEF Ready, IsOpen
  <1>3. PICK d \in Drafts : d = draft
    BY WorldFacts
  <1>4. ASSUME NEW outcome \in Outcomes
        PROVE  /\ NoteIdentity(p, outcome).draft = d
               /\ NoteIdentity(p, outcome).page \in PageStates
               /\ Foreign(p, NoteIdentity(p, outcome).page, d)
    BY <1>2, <1>3, ForeignNote
  <1>5. ASSUME NEW outcome \in Outcomes, NEW remove \in Outcomes, NEW stamp \in Outcomes,
               NEW after, after = SaveSucceeded(p, NoteIdentity(p, outcome), remove, stamp)
        PROVE  after.draft = d /\ after.page \in PageStates /\ Foreign(p, after.page, d)
    <2>1. PICK m \in PageStates : m = NoteIdentity(p, outcome).page /\ Foreign(p, m, d)
      BY <1>4
    <2> DEFINE saved == [m EXCEPT !.dirty = FALSE, !.saved = TRUE, !.pendingId = None]
    <2>2. saved \in PageStates /\ saved.verified = m.verified
      BY DEF PageStates
    <2>3. after = RetireDraft(saved, d, k, remove, stamp)
      BY <1>2, <1>4, <1>5, <2>1 DEF SaveSucceeded
    <2> HIDE DEF saved
    <2>4. Foreign(p, saved, d)
      BY <2>1, <2>2 DEF Foreign
    <2> QED
      BY <2>2, <2>3, <2>4, ForeignRetire
  <1>6. CASE SaveFails(p)
    <2>1. PICK plan \in Plans(2) : draft' = NoteIdentity(p, plan[1]).draft /\ Charge(plan)
      BY <1>6 DEF SaveFails
    <2>2. plan[1] \in Outcomes
      BY <1>1, <2>1, ChargeFacts
    <2> QED
      BY <1>3, <1>4, <2>1, <2>2
  <1>7. CASE SaveDies(p)
    <2>1. PICK plan \in Plans(1) : draft' = NoteIdentity(p, plan[1]).draft /\ Charge(plan)
      BY <1>7 DEF SaveDies
    <2>2. plan[1] \in Outcomes
      BY <1>1, <2>1, ChargeFacts
    <2> QED
      BY <1>3, <1>4, <2>1, <2>2
  <1>8. CASE SaveOnly(p)
    <2>1. PICK plan \in Plans(4) :
             /\ draft' = SaveSucceeded(p, NoteIdentity(p, plan[1]), plan[3], plan[4]).draft
             /\ Charge(plan)
      BY <1>8 DEF SaveOnly
    <2>2. plan[1] \in Outcomes /\ plan[3] \in Outcomes /\ plan[4] \in Outcomes
      BY <1>1, <2>1, ChargeFacts
    <2> QED
      BY <1>3, <1>5, <2>1, <2>2
  <1>9. CASE SaveAndNext(p)
    <2>1. PICK plan \in Plans(5), content \in CarriedOver :
             LET done  == SaveSucceeded(p, NoteIdentity(p, plan[1]), plan[3], plan[4])
             IN  /\ draft' = DiscardDraft(NewForm(done.page, content), done.draft, plan[5]).draft
                 /\ edits' = edits + Cardinality(content)
                 /\ Charge(plan)
      BY <1>9 DEF SaveAndNext, Advance
    <2>2. /\ plan[1] \in Outcomes /\ plan[3] \in Outcomes /\ plan[4] \in Outcomes
          /\ plan[5] \in Outcomes
      BY <1>1, <2>1, ChargeFacts
    <2>3. PICK done : done = SaveSucceeded(p, NoteIdentity(p, plan[1]), plan[3], plan[4])
      OBVIOUS
    <2>4. done.draft = d /\ done.page \in PageStates /\ Foreign(p, done.page, d)
      BY <1>5, <2>2, <2>3
    <2>5. content \in SUBSET Edits
      BY <1>1, <2>1, CarriedOverFacts
    <2>6. PICK form \in PageStates :
             form = NewForm(done.page, content) /\ form.verified = done.page.verified
      BY <2>4, <2>5, NewFormFacts
    <2>7. Foreign(p, form, d)
      BY <2>4, <2>6 DEF Foreign
    <2>8. DiscardDraft(form, d, plan[5]).draft = d
      BY <2>2, <2>7, ForeignDiscard
    <2> QED
      BY <1>3, <2>1, <2>3, <2>4, <2>6, <2>8
  <1> QED
    BY <1>6, <1>7, <1>8, <1>9

(* Only what a page acts on changes, and only in these ways.               *)
LEMMA DraftChanges ==
    ASSUME NotebookInv, Next, draft' # draft
    PROVE  \/ /\ draft.kind = "ok" /\ AlreadySaved(draft)
              /\ page' = [page EXCEPT ![loads'] = page'[loads']]
           \/ draft.kind # "unreadable" /\ draft'.kind = "unreadable"
           \/ \E p \in Pages : /\ IsOpen(p) /\ page' = [page EXCEPT ![p] = page'[p]]
                               /\ ~ Foreign(p, page[p], draft) \/ page[p].raw = draft
  <1>1. page \in [Pages -> PageStates] /\ draft \in Drafts
    BY WorldFacts
  <1>2. CASE Load
    <2>1. PICK fresh, plan : draft' \in {draft, Loaded(fresh, draft, plan[1]).draft}
      BY <1>2 DEF Load, Result
    <2>2. draft.kind = "ok" /\ AlreadySaved(draft)
      BY <1>1, <2>1 DEF Loaded, Result, Drafts, DraftKinds
    <2>3. loads' \in Pages
      BY <1>2, WorldFacts, NotebookAssumption DEF Load, WorldInv, Pages
    <2>4. page' = [page EXCEPT ![loads'] = page'[loads']]
      BY <1>1, <1>2, <2>3 DEF Load, Set
    <2> QED
      BY <2>2, <2>4
  <1>3. CASE BecomesUnreadable
    BY <1>3 DEF BecomesUnreadable, NoDraft
  <1>4. ASSUME NEW p \in Pages,
               FormStep(p) \/ StageStep(p) \/ SwitchStep(p) \/ SaveDies(p) \/ Leave(p)
        PROVE  /\ IsOpen(p) /\ page' = [page EXCEPT ![p] = page'[p]]
               /\ ~ Foreign(p, page[p], draft) \/ page[p].raw = draft
    <2>1. CASE TimerFires(p)
      BY <1>1, <2>1, TimerSparesForeign DEF TimerFires, Set, Ready, IsOpen
    <2>2. CASE Reset(p)
      BY <1>1, <2>2, MovingOnSparesForeign DEF Reset, Set, Ready, IsOpen
    <2>3. CASE NextOnly(p)
      BY <1>1, <2>3, MovingOnSparesForeign DEF NextOnly, Set, Ready, IsOpen
    <2>4. CASE TurnOff(p)
      BY <1>1, <2>4, SwitchSparesForeign DEF TurnOff, Set, Ready, IsOpen
    <2>5. CASE DiscardDownloaded(p)
      BY <1>1, <2>5, SwitchSparesForeign DEF DiscardDownloaded, Set, IsOpen
    <2>6. CASE SaveFails(p)
      BY <1>1, <2>6, SaveSparesForeign DEF SaveFails, Set, Ready, IsOpen
    <2>7. CASE SaveOnly(p)
      BY <1>1, <2>7, SaveSparesForeign DEF SaveOnly, Set, Ready, IsOpen
    <2>8. CASE SaveAndNext(p)
      BY <1>1, <2>8, SaveSparesForeign DEF SaveAndNext, Set, Ready, IsOpen
    <2>9. CASE SaveDies(p)
      BY <1>1, <2>9, SaveSparesForeign DEF SaveDies, Set, Ready, IsOpen
    <2>10. ASSUME NEW blank, NEW i,
                  Edit(p, blank) \/ CopyToForm(p, i) \/ DeleteSession(p, i) \/ Leave(p)
           PROVE  FALSE
      BY <2>10 DEF Edit, CopyToForm, DeleteSession, Leave
    <2>11. CASE StageStep(p)
      BY <2>11 DEF StageStep, BackIn, CorrectPre, UndoPost, UndoWindowEnds
    <2>12. CASE TurnOn(p) \/ AskTurnOff(p) \/ Download(p) \/ Decline(p)
      BY <2>12 DEF TurnOn, AskTurnOff, Download, Decline
    <2>13. CASE FormStep(p)
      BY <2>1, <2>2, <2>3, <2>6, <2>7, <2>8, <2>10, <2>13 DEF FormStep
    <2>14. CASE SwitchStep(p)
      BY <2>4, <2>5, <2>12, <2>14 DEF SwitchStep
    <2> QED
      BY <1>4, <2>9, <2>10, <2>11, <2>13, <2>14
  <1> QED
    BY <1>2, <1>3, <1>4 DEF Next

-----------------------------------------------------------------------------
(* The theorems.                                                           *)

LEMMA NotebookInit == Init => NotebookInv
  <1> SUFFICES ASSUME Init PROVE NotebookInv
    OBVIOUS
  <1>1. /\ page = [p \in Pages |-> Closed] /\ draft = NoDraft
        /\ history = [i \in Ids |-> {}] /\ autosaveKey = FALSE
        /\ loads = 0 /\ ids = 0 /\ edits = 0 /\ faults = 0 /\ backIns = 0
        /\ reported = {} /\ unrecorded = {} /\ reoffered = {} /\ misled = {}
    BY DEF Init
  <1>2. \A p \in Pages : page[p] = Closed
    BY <1>1
  <1>3. /\ draft \in DraftKinds /\ draft.kind = "none"
        /\ draft.pendingId = None /\ draft.edits = {}
    BY <1>1, NoDraftType DEF Drafts, NoDraft
  <1>4. TypeOK
    <2>1. page \in [Pages -> PageStates]
      BY <1>1, ClosedFacts
    <2>2. history \in [Ids -> SUBSET Edits]
      BY <1>1
    <2>3. /\ loads \in 0 .. MaxPages /\ ids \in 0 .. MaxIds /\ edits \in 0 .. MaxEdits
          /\ faults \in 0 .. MaxFaults /\ backIns \in 0 .. MaxBackIns
      BY <1>1, NotebookAssumption
    <2> QED
      BY <1>1, <1>3, <2>1, <2>2, <2>3 DEF TypeOK
  <1>5. CountsInv
    BY <1>1, <1>2, <1>3, ClosedFacts DEF CountsInv, None
  <1>6. PagesInv
    BY <1>2, ClosedFacts DEF PagesInv, Coming, OwnDraft, Holds, Known
  <1>7. LonePage
    <2>1. \A p \in Pages : ~ IsOpen(p)
      BY <1>2, ClosedFacts DEF IsOpen
    <2>2. \A p \in Pages : LoneForm(page[p])
      BY <1>1, <1>2, ClosedFacts DEF LoneForm, Newer, Traced, Clean
    <2>3. LoneDraft(draft)
      BY <1>3 DEF LoneDraft
    <2>4. NoDuplicateRecord
      BY <1>1 DEF NoDuplicateRecord, Duplicates
    <2>5. \A p \in Pages : Kept(page[p], draft)
      BY <1>2, ClosedFacts DEF Kept
    <2> QED
      BY <2>1, <2>2, <2>3, <2>4, <2>5 DEF LonePage
  <1> QED
    BY <1>4, <1>5, <1>6, <1>7 DEF NotebookInv

LEMMA NotebookStep == NotebookInv /\ [Next]_vars => NotebookInv'
  <1> SUFFICES ASSUME NotebookInv, [Next]_vars PROVE NotebookInv'
    OBVIOUS
  <1>1. CASE UNCHANGED vars
    <2>1. /\ page' = page /\ draft' = draft /\ history' = history /\ autosaveKey' = autosaveKey
          /\ loads' = loads /\ ids' = ids /\ edits' = edits /\ faults' = faults
          /\ backIns' = backIns /\ reported' = reported /\ unrecorded' = unrecorded
          /\ reoffered' = reoffered /\ misled' = misled
      BY <1>1 DEF vars
    <2>2. TypeOK' /\ CountsInv' /\ PagesInv'
      BY <2>1 DEF NotebookInv, TypeOK, CountsInv, PagesInv, Known
    <2>3. LonePage => LonePage'
      BY <2>1 DEF LonePage, LoneForm, LoneDraft, NoDuplicateRecord, Duplicates, IsOpen,
                   Kept, AlreadySaved
    <2> QED
      BY <2>2, <2>3 DEF NotebookInv
  <1>2. CASE Load \/ BecomesUnreadable
    BY <1>2, LoadKeeps, BecomesUnreadableKeeps
  <1>3. ASSUME NEW p \in Pages, FormStep(p)
        PROVE  NotebookInv'
    BY <1>3, EditKeeps, CopyToFormKeeps, DeleteSessionKeeps, ResetKeeps, TimerFiresKeeps,
       SaveFailsKeeps, SaveOnlyKeeps, SaveAndNextKeeps, NextOnlyKeeps DEF FormStep
  <1>4. ASSUME NEW p \in Pages, StageStep(p)
        PROVE  NotebookInv'
    BY <1>4, StageStepKeeps, UndoPostKeeps DEF StageStep
  <1>5. ASSUME NEW p \in Pages, SwitchStep(p)
        PROVE  NotebookInv'
    BY <1>5, TurnOnKeeps, AskStepKeeps, TurnOffKeeps, DiscardDownloadedKeeps DEF SwitchStep
  <1>6. ASSUME NEW p \in Pages, SaveDies(p) \/ Leave(p)
        PROVE  NotebookInv'
    BY <1>6, SaveDiesKeeps, LeaveKeeps
  <1> QED
    BY <1>1, <1>2, <1>3, <1>4, <1>5, <1>6 DEF Next

(* Whatever happens in whatever tabs, the counts, the pages and, where     *)
(* only one is open at a time, the draft and the records agree.            *)
THEOREM NotebookInvariant == Spec => []NotebookInv
  BY NotebookInit, NotebookStep, PTL DEF Spec

(* Every variable keeps its type.                                          *)
THEOREM NotebookTypeCorrect == Spec => []TypeOK
  <1>1. NotebookInv => TypeOK
    BY DEF NotebookInv
  <1> QED
    BY <1>1, NotebookInvariant, PTL

(* Of any number of tabs: a tab that says that the draft it wrote is kept  *)
(* says so of the entries on its screen (footerDraftNote).                 *)
THEOREM OwnDraftIsWhatIsShown == Spec => []OwnKeptMeansKept
  <1>1. NotebookInv => OwnKeptMeansKept
    BY DEF NotebookInv, PagesInv, OwnDraft, Holds, OwnKeptMeansKept, SaysKept, DraftIsStored
  <1> QED
    BY <1>1, NotebookInvariant, PTL

(* Of any number of tabs: unsaved entries are in the draft, have a write   *)
(* coming, or are known not to be kept.                                    *)
THEOREM EditsAreNotForgotten == Spec => []EditsAreKeptOrComing
  <1>1. NotebookInv => EditsAreKeptOrComing
    BY DEF NotebookInv, PagesInv, Coming, EditsAreKeptOrComing
  <1> QED
    BY <1>1, NotebookInvariant, PTL

(* With one page at a time, whoever wrote the draft: what is said to be    *)
(* kept is what a refresh brings back.                                     *)
THEOREM LonePageKeepsWhatItShows ==
    ASSUME MaxOpen = 1
    PROVE  Spec => []KeptMeansKept
  <1>1. NotebookInv => KeptMeansKept
    <2> SUFFICES ASSUME NotebookInv, NEW p \in Pages, SaysKept(p)
                 PROVE  RefreshBringsBack(p)
      BY DEF KeptMeansKept
    <2>1. IsOpen(p) /\ Holds(page[p], draft) /\ draft.kind = "ok"
      BY DEF SaysKept, DraftIsStored, Holds, Removable
    <2>2. LoneWriter(p, page[p], draft) /\ Kept(page[p], draft)
      BY <2>1, OpenPage
    <2> QED
      BY <2>1, <2>2 DEF LoneWriter, Kept, Holds, IsOpen, RefreshBringsBack
  <1> QED
    BY <1>1, NotebookInvariant, PTL

(* With one page at a time: one outing is one record.                      *)
THEOREM OneOutingOneRecord ==
    ASSUME MaxOpen = 1
    PROVE  Spec => []NoDuplicateRecord
  <1>1. NotebookInv => NoDuplicateRecord
    BY DEF NotebookInv, LonePage
  <1> QED
    BY <1>1, NotebookInvariant, PTL

(* Whatever tabs are about: a draft that cannot be read is changed by no   *)
(* handler but the discard of a page that has downloaded that very text.   *)
THEOREM UnreadableDraftsAreSpared == Spec => UnreadableSpared
  <1>1. NotebookInv /\ [Next]_vars =>
           [draft.kind = "unreadable" /\ draft' # draft
               => \E p \in Pages : page[p].raw = draft]_vars
    <2> SUFFICES ASSUME NotebookInv, Next, draft.kind = "unreadable", draft' # draft
                 PROVE  \E p \in Pages : page[p].raw = draft
      BY DEF vars
    <2> QED
      BY DraftChanges DEF Foreign
  <1> QED
    BY <1>1, NotebookInvariant, PTL DEF Spec, UnreadableSpared

LEMMA OpenWriter ==
    ASSUME NotebookInv, draft.kind = "ok"
    PROVE  draft.writer \in Pages
  <1>1. draft.writer \in 1 .. loads /\ loads \in 0 .. MaxPages
    BY DEF NotebookInv, CountsInv, TypeOK
  <1> QED
    BY <1>1, NotebookAssumption DEF Pages

(* Of any number of tabs: no page changes a draft of another whose entries *)
(* it has never shown, unless the number it knows was given to a draft it  *)
(* has not seen.                                                           *)
THEOREM OnlyTheMisledTouchOthers == Spec => OnlyMisledTouchOthersWork
  <1>1. NotebookInv /\ [Next]_vars => [SparesOthersWork(misled)]_vars
    <2> SUFFICES ASSUME NotebookInv, Next, NEW p \in Pages \ misled,
                        draft.kind = "ok", draft.writer # p,
                        draft' # draft, draft'.kind # "unreadable", page'[p] # page[p]
                 PROVE  draft.edits \subseteq page[p].seen \/ draft.savedAs # None
                        \/ page[p].raw = draft
      BY DEF vars, SparesOthersWork
    <2>1. page \in [Pages -> PageStates]
      BY WorldFacts
    <2>2. CASE AlreadySaved(draft)
      BY <2>2 DEF AlreadySaved
    <2>3. ASSUME NEW q \in Pages, IsOpen(q), page' = [page EXCEPT ![q] = page'[q]],
                 ~ Foreign(q, page[q], draft) \/ page[q].raw = draft
          PROVE  draft.edits \subseteq page[p].seen \/ page[p].raw = draft
      <3>1. p = q
        BY <2>1, <2>3
      <3>2. draft.writer \in Pages
        BY OpenWriter
      <3>3. Known(p, page[p], draft)
        BY DEF NotebookInv, PagesInv
      <3> QED
        BY <2>3, <3>1, <3>2, <3>3 DEF Foreign, Known
    <2> QED
      BY <2>2, <2>3, DraftChanges
  <1> QED
    BY <1>1, NotebookInvariant, PTL DEF Spec, OnlyMisledTouchOthersWork

(* With one page at a time: what a rider was told is saved is never        *)
(* replaced by an older version of itself.                                 *)
THEOREM SavedStaysSaved ==
    ASSUME MaxOpen = 1
    PROVE  Spec => SavedSurvives
  <1>1. NotebookInv /\ [Next]_vars =>
           [\A i \in reported \ unrecorded :
               history[i] \subseteq history'[i] \/ i \notin reported']_vars
    <2> SUFFICES ASSUME NotebookInv, Next, NEW i \in reported \ unrecorded
                 PROVE  history[i] \subseteq history'[i] \/ i \notin reported'
      BY DEF vars
    <2>1. history \in [Ids -> SUBSET Edits] /\ i \in Ids /\ i \in 1 .. ids /\ ids \in Nat
      BY WorldFacts, NotebookAssumption DEF WorldInv
    <2>2. CASE history' = history
      BY <2>2
    <2>3. ASSUME NEW p \in Pages, NEW j \in Ids, DeleteSession(p, j)
          PROVE  history[i] \subseteq history'[i] \/ i \notin reported'
      BY <2>1, <2>3 DEF DeleteSession
    <2>4. ASSUME NEW p \in Pages, Ready(p), ClaimSaveId(p), history' = Put(p)
          PROVE  history[i] \subseteq history'[i]
      <3>1. IsOpen(p)
        BY <2>4 DEF Ready, IsOpen
      <3>2. PICK k \in Ids : /\ k = SaveId(p)
                             /\ page[p].pendingId = k \/ k = ids + 1
        BY <2>4, <3>1, ClaimFacts
      <3>3. history'[i] = IF i = k THEN page[p].edits ELSE history[i]
        BY <2>1, <2>4, <3>2 DEF Put
      <3>4. CASE i = k
        <4>1. page[p].pendingId = i
          BY <2>1, <3>2, <3>4
        <4>2. LoneForm(page[p])
          BY <3>1, OpenPage
        <4> QED
          BY <3>3, <3>4, <4>1, <4>2 DEF LoneForm, Newer
      <3> QED
        BY <3>3, <3>4
    <2>5. ASSUME NEW p \in Pages, SaveFails(p) \/ SaveOnly(p) \/ SaveAndNext(p) \/ SaveDies(p)
          PROVE  history' = history \/ (Ready(p) /\ ClaimSaveId(p) /\ history' = Put(p))
      BY <2>5 DEF SaveFails, SaveOnly, SaveAndNext, SaveDies
    <2>6. CASE Load \/ BecomesUnreadable
      BY <2>2, <2>6 DEF Load, BecomesUnreadable
    <2>7. ASSUME NEW p \in Pages, FormStep(p)
          PROVE  \/ history' = history
                 \/ \E j \in Ids : DeleteSession(p, j)
                 \/ SaveFails(p) \/ SaveOnly(p) \/ SaveAndNext(p)
      BY <2>7 DEF FormStep, Edit, CopyToForm, Reset, TimerFires, NextOnly
    <2>8. ASSUME NEW p \in Pages, StageStep(p) \/ SwitchStep(p) \/ Leave(p)
          PROVE  history' = history
      BY <2>8 DEF StageStep, BackIn, CorrectPre, UndoPost, UndoWindowEnds, SwitchStep,
           TurnOn, AskTurnOff, TurnOff, Download, Decline, DiscardDownloaded, Leave
    <2> QED
      BY <2>2, <2>3, <2>4, <2>5, <2>6, <2>7, <2>8 DEF Next
  <1> QED
    BY <1>1, NotebookInvariant, PTL DEF Spec, SavedSurvives
===========================================================================
