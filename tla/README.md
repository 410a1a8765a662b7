# MotoTrack: models and proofs

This directory holds TLA+ models of MotoTrack (the track-side notebook, its wait
list and the rider profile), the TLC configurations that check them on small
instances, and proofs checked by TLAPS. Paths below are relative to the root of
the repository. `PROJECT.json` maps every definition to the lines it stands for.

- [The system](#the-system)
- [Modules](#modules)
- [Runs](#runs)
- [Proofs](#proofs)
- [What the checks found](#what-the-checks-found)
- [Limits](#limits)
- [Plan](#plan)

## The system

MotoTrack is a static site with a browser notebook, a Cloudflare Worker with a D1
(SQLite) database behind it, and a second Worker, Track Agent, for paying testers.

| | Part | State | Operations | Hard because |
|---|---|---|---|---|
| A | Notebook drafts and saves, and its number fields: `public/storage.js`, `session-progress.js`, `app.js` | `localStorage`: the saved sessions, one draft, the auto-save switch. Per page: the form, its stage, save and draft bookkeeping, a debounce timer | edit by typing, buttons, keys and drags, carry over from the last session, save, save & next, reset, copy, delete, Back in / Undo / Correct PRE, auto-save on and off, recovery of an unreadable draft, restore on load | several tabs write one key without a lock; a page may die in a save; a write may fail, or succeed and not be confirmed |
| B | Wait list: `src/waitlist-worker.js`, `waitlist-tokens.js` | `waitlist_signups`, `waitlist_tokens`, `waitlist_rate_buckets`, `waitlist_email_deliveries` | join, confirm, unsubscribe, rejoin, daily retention sweep | every handler is a series of awaited statements with no transaction; mail scanners press links; the sweep dies half-way |
| C | Rider profile: `waitlist-profile-auth.js`, `waitlist-profile-service.js` | `waitlist_profiles`, `..._invitations`, `..._edit_authorizations`, `..._consent_events`, two cookies | issue a link, exchange it for an edit session, save, withdraw, revoke, sweep | one link, many sessions, one mutation; consent is read before the transaction it decides about |
| D | Invitation batch: `waitlist-profile-batch.js` | `waitlist_profile_invitation_batch_runs` and `..._outcomes`, and the invitations | select, preview, execute, reconcile | a run that dies has spent riders' one slot; no route calls it yet, only its retention sweep runs |
| E | Beta approvals, admin console: `waitlist-admin-*.js` | `waitlist_beta_approvals`, append-only approval events | approve, decline, hold, with compare-and-set on the state the operator saw | two operators; an audit log that must read as one chain |
| F | Feedback, experience pulse, scorecard: `feedback-service.js`, `experience-pulse-*.js`, `experience-scorecard-*.js` | `feedback_submissions`, `feedback_events`, `feedback_experience_pulses`; in the browser, when a prompt was last shown | submit feedback, answer or dismiss a pulse, triage, aggregate | a pulse names a feedback row that may be swept; the cadence lives in two storages that fail apart |
| G | Track Agent: `premium/track-agent/src` | its own database of reviewed sessions | parse by an AI provider, review, save in one batch, read back, list, tire advice | no button waits for the request it started; a model may never answer; the cookie may change hands |

The parts interact as follows. The browser notebook talks to no server except
to post feedback and pulses (F). The wait list (B) owns the signup row; its
`status` is what C, D and E read in the conditions of their own statements, and
what B's unsubscribe and sweep change under them. B's confirmation and
unsubscribe handlers call into C (the profile link in the welcome mail, the
revocation of links), and the daily cron runs the sweeps of B, C, D and F one
after the other. D issues C's invitations. E and D read C's consent history. G
shares nothing with the others.

What makes each part correct, in a sentence:

- **A** What a page says is kept is what a refresh brings back; an outing becomes
  one record; no tab destroys unsaved work it has not shown; a pressure in the
  form is one the rider put there.
- **B** No address gets more mail than the limit, a link works once, someone who
  is confirmed can leave, and what retention promises to delete goes away.
- **C** One mutation per link, one usable link per rider, no stored answers without
  consent to them, and nothing is written for someone who has left or withdrawn.
- **D** Nobody is invited twice, whatever run dies where, and a run's record is true.
- **E** Of two decisions on one state one wins, and the events are its history.
- **F** What is thanked for is stored, a tap counts once, and the prompt never nags.
- **G** The rows a rider reviewed are saved as they were shown or not at all, under the
  rider who pressed Save, and a pressure suggestion is small and in the right direction.

## Modules

| Module | Models | Instances |
|---|---|---|
| `RiderProfile` | C, one signup | `MCRiderProfile` |
| `ProfileConsent` | what C promises: answers and consent changed by indivisible operations | (implemented by `RiderProfile`) |
| `RiderProfileProofs` | theorems about `RiderProfile` | |
| `WaitlistSignup` | B, one address | `MCWaitlistSignup` |
| `WaitlistSignupProofs` | theorems about `WaitlistSignup` | |
| `NotebookDrafts` | A: drafts, saves, stages, one device | `MCNotebookDrafts` |
| `NotebookDraftsProofs` | theorems about `NotebookDrafts` | |
| `FieldEntry` | A: what ends up in the number fields, and how | `MCFieldEntry` |
| `FieldEntryProofs` | theorems about `FieldEntry` | |
| `WaitlistAdmin` | D and E over the signups of B | `MCWaitlistAdmin` |
| `WaitlistAdminProofs` | theorems about the approvals and the batches of `WaitlistAdmin` | |
| `FeedbackPulse` | F without the scorecard, browser and Worker | `MCFeedbackPulse` |
| `FeedbackPulseProofs` | theorems about `FeedbackPulse` | |
| `TrackAgentPayload` | G: what happens to a reviewed payload (operators) | |
| `TrackAgent` | G: the review page, the Worker, the tables; extends `TrackAgentPayload` | |
| `TireAdvisor` | G: the advisor's rules and its page | |
| `TireAdvisorProofs` | theorems about `TireAdvisor` | |
| `TrackAgentWorker` | G: both pages; extends `TrackAgent` and `TireAdvisor` | `MCTrackAgentWorker` |
| `TrackAgentProofs` | theorems about `TrackAgent`, the payload's operators and `TrackAgentWorker` | |

Conventions. An action is the code between two points where something else can
run: two awaited database calls in the Workers, two handlers (or a `confirm`
dialog) in the browser. A D1 `batch()` is one transaction, hence one action. A
request's local variables between awaits are a record `request[r]` with a
program counter. Row ids are numbers in insertion order and stand for the
random id, the token digest and the `issued_at` second alike. Decimal numbers are
whole hundredths, with the places they were written with where those matter.
Definitions whose
comment starts with "Slip:" are not part of the specification: each is a
plausible mistake in the definition below it, and `PROJECT.json` names the
property that catches it.

### RiderProfile

No statement of the code touches the rows of more than one signup, so one signup is
modelled. `invUsed`, `invRevoked`, `invSuperseded`, `invExpired` are the sets of
invitations whose columns `used_at`, `revoked_at`, `superseded_at` are set, or whose
`expires_at` is past; `authConsumed`, `authRevoked`, `authExpired` likewise.
`Usable`, `Live` and `Resolves` are the validity conditions the SQL spells out.
`OpenLink`, `ReuseSession`, `MintAuthorization` are
`exchangeInvitationForEditAuthorization`; `Submit*`, `ReadConsent`,
`SaveBatch`/`WithdrawBatch` are the POST with its reads, and the statements of a
batch are all conditional on its first one (`SaveClaims`, `WithdrawClaims`). A
rejected POST goes on to `ReadStale`, `ReadNewer` and `RevokeSession`. Cookies are
`jar`, and `forms` are the tabs a session's form is shown in. `Abandon` is a Worker
that dies, a database error, or a response that never arrives, at any await. A
withdrawal's claim does not test the invitation again: a withdrawal is honoured
through any live session, by design.

### WaitlistSignup

One address. `request[r]` goes through `handleJoin`, `handleConfirm` or
`handleUnsubscribe` one statement at a time. `inbox` holds the links that were
mailed, in `age` the clock's three interesting values (new, past the pending
retention, past the confirmed one), in `sent` the two rate buckets. `closedThrough` is
the newest link there was when an unsubscribe closed the links, `claimedBefore` those
that a confirmation had claimed by then (two history variables). `purge` is
`runRetentionSweep`, with `PurgeDies` for a sweep that fails (a foreign key that
a new token violates, or a dead Worker).

### NotebookDrafts

One `localStorage`, several page loads. A page load has a writer id of its own
(`TAB_ID`), so a refresh is `Leave` followed by `Load` of the next page. The form
is the set of edits it is made of, so "an older version of the same session" is
"a subset", and a copied or carried-over form is a fresh edit. `verified` is
`_verified`, `behind` is `editSeq > keptSeq`, `trouble` is `failed` or
`conflict`. Handlers are synchronous and hence atomic, except:

- a confirm dialog parks the page while other tabs run (`asking`, `recovering`);
  the confirmations of Reset, Copy and Delete are not split because nothing is
  read before them that is used after;
- a page can die in a save, before or after the history was written (`SaveDies`);
- every mutation of the storage has one of three outcomes: done, lost, or unseen
  (it happened, and reading it back did not show it). `Plans(n)` are the
  combinations for a handler with n mutations.

`reported`, `unrecorded`, `reoffered` and `misled` are history variables that only the
properties read: ids a rider was told are saved, ids the stored draft could not
be made to name, saved forms that a handler took for unsaved work again, and pages
that know a revision number which another page has since given to other entries.

### FieldEntry

The pressures of one tire (`text`), one adjuster (`clicks`, and `unit`, its hidden
input), the setup, the stage and its locks, the pad's drag, the saved sessions.
`RulerStep`, `StepValue`, `Snap`, `AdjusterStep`, `Reread` are the functions of
`session-progress.js` by the same names; a step has the set of texts it may write,
empty where the code answers `null`. `Step`, `Key`, `Grab`/`DragTo`/`Release`,
`SameAs`, `PressAdjuster`, `ChooseUnit` are the handlers in `app.js`, and
`StartSession` with `Carried` is the carry-over. Every handler ends in a rendering
(`Rendered`), which decides whether "Same as" is offered and what it reads;
`OtherTabSaves` is the one thing that happens without one. `touched`, `recordedIn`
and `overtaken` are history variables. Saving always succeeds here: what happens
when it does not is `NotebookDrafts`.

### WaitlistAdmin

`signup`, `order` (by `confirmed_at`), `revoking` and `sweep` are what approvals and
batches see of riders: `Confirm`, `Unsubscribe` and, later, its `RevokeInvitations`,
the purge of a pending or confirmed signup, which deletes invitations
(`PurgeInvitations`) before the signup (`PurgeSignup`), and the deletion of the
invitations of riders who left thirty days ago, who keep their signup
(`SweepInvitations`). `cleared` remembers whose invitations a sweep has deleted. An
operator's `desk` holds the page in front of them, with the state its form carries;
`Submit` takes `changeApprovalState` up to its one write and `Decide` is the guarded
batch of event and state. Not approved goes through `ConfirmNotApproved`. A page can
be submitted again, from before another decision or after its own. A batch `run[r]`
goes `Start`, `Select`, and for each rider `IssueCheck`, `IssueInsert`, `Send`,
`Record`, with `Reconcile` when nothing was issued and `RevokeUnsent` when the mail
failed. `IssueFails`, `StatementFails` and `Dies` fail it at any await; a mail that
failed may have been delivered. `slot` is a signup's row of channel
`later_invitation`, of which a unique index allows one.

### FeedbackPulse

Each tab's `page` (dialog, the tokens it fetched, the version it was told), its
`session` storage, and `stamp`, the versions map in `localStorage`. `cookie` names
the tab whose page fetched each purpose's token last: tabs share cookies but not
tokens, so `Matches` is what the double submit compares. A post is handled and
answered in two steps (`HandleFeedback`, `FeedbackAnswered`), any number of posts
may be on their way, and an answer acts on whatever the dialog is by then. A pulse
goes `asked`, `sent`, and on any refusal `Remint` and `Retry` once. An insert that
fails may have written its row before the failure was reported (a commit whose reply
is lost); the handler answers 503 either way, and `unheard` remembers such taps.
`linked` is one pulse of another client that names a feedback row, with the lookup and
the insert as two steps and `SweepFeedback` in between; its second insert has the id
of the first, so what the first did write is not doubled.

### TrackAgent, TrackAgentPayload, TireAdvisor, TrackAgentWorker

`parses` and `saves` are the requests in the order of the presses; each records as
whom it was sent, how far it got, and what it carries. `ParseNote`, `SaveReviewed`
and the replies are `ui.js`; `HandleParse`, `AiAnswers`, `AiTimesOut`, `HandleSave`
and `HandleReadBack` are the Worker. `sessions` has an element for each committed
batch. `cookies` are the rider the user cookie names, or `Anonymous`, and whether the
invite token is held; either admits (`Allowed`), and a link opened in another tab or a
cookie's end changes them. A rider's text is a set of words, some of them `Marks`
(signs, punctuation, letters outside ASCII), which `Compared` (`compareText`) blanks,
so that "occurs in" is a subset and "is longer" is a cardinality: this is what the
deduplications compare, of notes, of changes and of warnings.
`Normalized`, `FormOf`, `PayloadOf` and `RowsOf` are the stations of a payload; the
last drops the session's label, for which the batch has no column.
`Evaluated` is the advisor's decision over one input, with the set of symptoms that its
words match, and `Answer` adds the validation before and after it. `HalvesUp` are the
differences half-way between two tenths that binary floating point rounds up.
`RunAdvisor`, `AdvisorReplies`, `RunLost` are the advisor's page.
The two pages share the access check and no state, so `TrackAgentWorker` explores
a visit to either as an alternative, not their product.

## Runs

Every passing run explores its whole state space.

| Run | Question | Bounds |
|---|---|---|
| `profile_sessions` | Can a save decide on a stale consent state? Two devices on one link, with expiry and reissue: one mutation, one usable link. Does the split handler implement `ProfileConsent`? Is `ProfileInv` an invariant? | 2 requests, 2 browsers, 2 consent versions, 2 links, 2 sessions, 1 expiry, 1 status change |
| `profile_lifecycle` | Confirm, unsubscribe, rejoin and sweep between the awaits of a request | 1 request, 3 status changes, 1 sweep |
| `waitlist_joins` | Two joins, confirmations and unsubscribes at once | 2 requests (symmetric), 4 confirm tokens, 2 unsubscribes |
| `waitlist_purge` | Does retention complete, and can the confirmed always leave? | 2 signup rows, 2 long silences, 1 crash |
| `notebook_reload` | One tab and a refresh, one handler with any combination of storage failures | 2 page loads, 2 edits, 2 ids, 1 Back in |
| `notebook_tabs` | Two tabs over one draft: is what a page wrote and says is kept stored as shown, and does it spare what it has not shown? | 2 pages, 2 edits, 1 id, no failures |
| `field_entry` | Can a number enter the form that the rider did not put there? Do buttons, keys and drags keep to the ruler? | 6 gestures; texts at every edge of the ruler and the adjuster, words, too many decimals; 1 session before, 1 from another tab |
| `track_agent_worker` | Is what is stored what was reviewed, by whom? Does the page settle? Is the advice bounded, for every kind of input? | 2 parses (one note in scope, one out of it), 2 saves, 2 riders of whom 1 is listed, the token, 1 edit, cookie change, loss or failed batch; 1 advisor run of each of 2772 inputs, followed by one of two others, 1 lost |
| `feedback_pulse` | Are thanks true, taps counted once, prompts rare? | 2 tabs, 2 posts, 2 prompts, limits and window 1, 1 day, 2 releases, 1 fault of any kind |
| `admin_desk` | One chain of decisions; one invitation; true records | 2 riders (one international), 2 operators, 2 batches; 2 departures, returns, purges, failures or crashes; and of all together, by weight (`Effort`): 3 decisions of 2 operators, 2 decisions and such an event, a decision, a batch and an event, or 2 batches and 2 events |
| `draft_takeover`, `unit_travels` | Violations, see below | as small as shows them |

Why these bounds suffice to see the interesting cases: the races in the Workers are
between two requests, or one request and one background step; a third adds no new
pair of statements. Two links and two sessions give "older" and "newer", which is
all the validity conditions tell apart; three status changes reach
unsubscribed-then-confirmed-again. In the notebook two edits distinguish "kept" from
"on the screen", two page loads are what a refresh or a second tab needs, two ids
are what a duplicate needs; two edits with two tabs let each tab write after the
other. A single fault allows every combination of failures inside one handler, which
covers the code's whole fallback chain (remove the draft, else stamp it, else rely
on the id it names). Six gestures reach a saved session whose setup matches, its
reference on the next form, and a gesture on that. A limit or a window of one is at
its edge after one use, which is what the counters are about; three decisions make a
chain with a middle; two batches are a batch and its rerun, and two faults let each
fail, or one fail over a rider who left. One event on the Track Agent page lies
between the two presses of each button; two presses already overlap without any, and
an edit, a changed cookie or a loss is one more thing that may come between. Of its
two riders only one is on the list, so the token, the other's link and nobody's name
are all tried. The proofs remove these bounds for every safety property the runs
check: see the hypotheses there.

`CHECK_DEADLOCK FALSE` is set where the system may stop: every page may be closed
(notebook), every press, gesture, post or decision of the bound may be used up and
every request answered (the others). It is not set for the profile and the wait
list.

**Fairness** is assumed in two places. In `WaitlistSignup`, for the sweep's own
statements (`PurgeSelect`, `PurgeTokens`, `PurgeSignup`): the cron trigger runs it
daily and a sweep that has started goes on unless it dies, which the bound allows
finitely often. No request is assumed to go on. `PurgeCompletes` then says that
what is due for deletion does not stay due. In `TrackAgent`, for the Worker's
handlers and for replies (`WF_vars(Server)`, `WF_vars(Replies)`): a request that
reached the Worker is run, and a reply that was sent arrives, unless the bounded
losses take it. The model's own answer is not assumed: `AiTimesOut`, which
`runWithTimeout` guarantees, is among the handlers, and without it `PageSettles`
fails.

**Properties that took thought**

- `ImplementsPromise`, `ConsentCoversProfile`: the consent state is read several
  statements before the batch that acts on it. This is harmless because whatever
  could change the answer in between also takes away the claim.
- `OneMutationPerInvitation`: the code lets sessions of one link coexist, and
  relies on a claim to let only one write.
- `WithdrawalIsFinal`, `NothingWrittenUnlessConfirmed`: across issuances whose
  check is long past, unsubscribes whose revocation never ran, and rejoins.
- `RejoinTakesNewerLink`: two joins at once may leave two live confirmation links;
  an unsubscribe has to close both. The property watches the step that writes
  `confirmed`, several awaits after the claim; `claimedBefore` excepts the confirmation
  that had its claim when the rider left (see `RejoinAlwaysTakesNewerLink`).
- `OnlyMisledTouchOthersWork`: the guard of a write compares revisions only. Two pages
  that discard, save and write in any order keep off each other's unseen work, but for
  a page whose known number was given to other entries, which is exactly
  `draft_takeover`.
- `NoDuplicateRecord`, `SavedSurvives`: a retry, after a failed read-back or a
  death in mid-save, has to find the record it may have left, and no other. Their
  exceptions are explicit: attempts that the draft could not record (the page
  then says so, or auto-save was off while an old draft was left behind), and
  saved forms taken for unsaved again, which is `NeverSavedTwice` below.
- `KeptMeansKept`, `EditsAreKeptOrComing`: the status line's claim is about the
  entries on the screen, and no cancelled timer leaves edits silently unprotected.
- `DecisionsChain`: operators decide from pages of any age; that the log is a chain
  rests on event and state being guarded by one precondition in one transaction.
- `OneInvitationMail`: rests on the row outliving the link. A failed send revokes
  the link and leaves the row, so a rerun is refused by the index. The exception is
  a rider whose invitations a sweep deleted (`cleared`), see `NobodyInvitedTwice`.
- `OutcomesAreTrue`, `CompletedRunsAddUp`: a run's rows are written one by one while
  riders leave and are purged, and its counts at the end.
- `AcknowledgedIsStored`, `NoteOfRows`, `AdviceOfLatestRun`: each holds with one
  request on its way at a time. The history variables `overlapped`, `clear` and
  `rerun` name the case in which the pages do not keep them, and nothing else is excepted.
- `PulsesSound`: a retry has a new token and no memory of the first try, so it rests on
  a refused post not being stored; `unheard` are the taps for which the database says
  refused and has stored (see `TapsCountedOnce`).
- `StoredAsReviewed`, `ReadBackIsOwn`: compare what is stored with the form as it stood
  at the press (`StoresForm`), through edits, parses and other saves in between. They
  leave out the label, which is not stored, and what the save's own normalisation takes
  out of the warnings: those of low value and repeats.
- `HeardSurvives`: about what a model heard and what the reply carries, since a longer
  note may replace a shorter one it contains. It is stated as the code compares, marks
  blanked and changes by length; what that loses is `SignsSurvive`.
- `AdviceBounded`: followed to the letter, a suggestion never leaves a tire further
  from its target than it was; at the edges this is a matter of rounding. A cap of
  0.25 PSI becomes 0.3, and a tire 0.05 off may stay where it is: the property allows half
  a tenth, and a tie may go either way.
- `ConfidenceEarned`: in both directions, medium confidence is claimed only and always
  where nothing known to the rules speaks against it. Between the two is a tire called
  vague or chattering inside its target (see `ConflictLowersConfidence`).
- `GesturesKeepTheirWord`: a button is undone by the other button, words are never
  replaced, a value in the range never leaves it, a locked field is never written,
  also in mid-drag.

## Proofs

`RiderProfileProofs` proves, for any number of requests, browsers, links,
sessions, versions and background jobs (`ProfileAssumption` only says that the
bounds are natural numbers and that each request comes from some browser):

| Theorem | Statement |
|---|---|
| `TypeCorrect` | `Spec => []TypeOK` |
| `ProfileInvariant` | `Spec => []ProfileInv` |
| `OneMutation`, `OnlyNewestUsable`, `AnswersCovered`, `WithdrawalFinal` | the four state invariants |
| `WrittenOnlyConfirmed` | `Spec => NothingWrittenUnlessConfirmed`, an action property |
| `Refinement` | `Spec => ImplementsPromise`: `RiderProfile` implements `ProfileConsent` |

The inductive invariant is `TypeOK /\ ProfileInv`. None of the four invariants is
inductive alone; `ProfileInv` adds what they rest on:

- the only link that is neither used, revoked nor superseded is the newest;
  issuance supersedes in the transaction that inserts (`IssueBatch`);
- a session's link is still there (the foreign key), and a session that has
  written has used up, or revoked, its link (`SpentSessionsSpendLinks`): hence
  one mutation per link;
- links that are outstanding are later than the last withdrawal, so a
  save through one is a save after it;
- `RequestInv`: a request waiting at its batch with a session that could still
  claim has read a consent state that is still right. This is the heart of
  the refinement. It is preserved because every step that changes the consent
  history also consumes or revokes every other session that could write.

Most steps change none of the variables these facts read; the lemmas about such
quiet steps dispose of them at once, and the steps that submit, read consent,
mint, issue, save and withdraw have a lemma each. The last step of each theorem
is a temporal one over the non-temporal facts.

`WaitlistSignupProofs` proves, for any finite number of requests and any limits and
bounds (`WaitlistAssumption`):

| Theorem | Statement |
|---|---|
| `WaitlistInvariant`, `WaitlistTypeCorrect` | `Spec => []WaitlistInv`, `Spec => []TypeOK` |
| `MailsStayWithinLimit` | `Spec => []MailWithinLimit` |
| `LinksWelcomeOnce` | `Spec => []OneWelcomePerLink` |
| `ConfirmedRidersCanLeave` | `Spec => []ConfirmedCanLeave` |
| `RejoiningTakesNewerLink` | `Spec => RejoinTakesNewerLink`, an action property |

`WaitlistInv` adds three things. `Counted`: mails sent and mails under way add up to
what the buckets let through, and welcomes sent and under way to the tokens spent;
since the requests under way are counted, they have to be finitely many. `RequestInv`:
what the local variables of a request between two awaits are still worth, for each
statement it may be at; a purge makes some of them worthless, and `q.signup # signup`
says when. `LinksInv`: as long as no sweep has begun on the signup, whoever can confirm
or is confirmed has an unsubscribe token, every open link is later than the last
unsubscribe, and so is every claimed one that was not claimed before it.

`RejoinTakesNewerLink` excepts a confirmation that had claimed its link before the
unsubscribe closed the rest, and `ConfirmedCanLeave` a signup whose tokens a purge has
taken; the theorems prove no more than that.

`WaitlistAdminProofs` proves, for any finite number of riders and any number of
operators and batches (`AdminAssumption`: the bounds are numbers, a batch asks for 1 to
25 recipients, the value that stands for null is no rider and no run):

| Theorem | Statement |
|---|---|
| `ApprovalInvariant` | `Spec => []ApprovalInv` |
| `DecisionsReadAsOneChain` | `Spec => []DecisionsChain` |
| `BatchInvariant` | `Spec => []BatchInv` |
| `RidersInvitedOnce` | `Spec => []OneInvitationMail` |
| `RecordedOutcomesAreTrue` | `Spec => []OutcomesAreTrue` |
| `BatchesAddUp` | `Spec => []CompletedRunsAddUp` |

`ApprovalInv` is the chain, the types of what it is made of, and `PageSound`: a form
carries the state its page showed, and one about to decide carries another. That is
all a page has to remember, however old it is: the guard in the transaction lets a
decision through only when the stored state is the one the form carries, and the
stored state is where the log ends (`DecisionExtendsChain`). Riders and batches
change nothing of it, and a purge removes a signup's state, log and answers together.

`BatchInv` is about each run by itself and about the slots they share. `RunInv`: the
riders a run has still to handle are distinct, unrecorded and not mailed by it, but
for the one in hand; before that one is mailed, and until a failed mail is revoked,
the slot is this run's. `SlotsInv`: a mail's slot stays the run's that sent it,
unless a sweep cleared it, and that is why no second run gets one.
`OneInvitationMail` and `OutcomesAreTrue` except the signups in `cleared`, whose
invitations a sweep deleted. `TallyInv`: a run that has not failed counts its rows,
the one in hand, and at most as many more as were purged.

`FeedbackPulseProofs` proves, for any number of tabs, posts, prompts, days and faults:

| Theorem | Statement |
|---|---|
| `FeedbackPulseInvariant` | `Spec => []FeedbackPulseInv` |
| `CadenceCeilingHolds` | `Spec => []CadenceCeiling` |
| `ThanksAreForStoredRows` | `Spec => []AcknowledgedIsStored` |
| `PulsesAreSound` | `Spec => []PulsesSound` |

`CadenceInv` adds what the cadence rests on: a prompt that was shown is remembered, in
the session storage of its tab and under its release with the day or a later one, unless
that write was refused. `CountedInv` ties each stored tap to one prompt that is past its
answer, so that the retry of a tap has no row to double, unless the first insert
reported a failure of what it had stored (`unheard`). `DialogInv` ties a post under
way to the text of its dialog, for a dialog that is open and whose posts never
overlapped (`Settled`).

`NotebookDraftsProofs` proves, for any number of page loads, tabs, edits, ids, failing
writes and undone stages:

| Theorem | Statement |
|---|---|
| `NotebookInvariant`, `NotebookTypeCorrect` | `Spec => []NotebookInv`, `Spec => []TypeOK` |
| `OwnDraftIsWhatIsShown` | `Spec => []OwnKeptMeansKept` |
| `EditsAreNotForgotten` | `Spec => []EditsAreKeptOrComing` |
| `UnreadableDraftsAreSpared` | `Spec => UnreadableSpared`, an action property |
| `OnlyTheMisledTouchOthers` | `Spec => OnlyMisledTouchOthersWork`, an action property |

and, under the hypothesis `MaxOpen = 1` (one tab at a time; refreshes, crashes in the
middle of a save and failing storage are all still there):

| Theorem | Statement |
|---|---|
| `LonePageKeepsWhatItShows` | `Spec => []KeptMeansKept` |
| `OneOutingOneRecord` | `Spec => []NoDuplicateRecord` |
| `SavedStaysSaved` | `Spec => SavedSurvives`, an action property |

The hypothesis is the code's, not the proof's: two tabs that restored one draft share
its id, so each may write over what the other saved, and either may turn auto-save off
for both. `OthersWorkSpared`, without the exception for a misled page, is not proved
with it, since another tab's work is what it is about; with two tabs `draft_takeover`
refutes it. `NotebookInv` has a part for any number of tabs: a
page is closed or was loaded, and the draft under a page's own name is what that page
shows, or the page knows better (`OwnDraft`); a page with entries that are not in the
draft has a timer running or says why not (`Coming`); and another page's draft whose
revision this page takes for the one it knows has entries this page has shown, unless
it is misled (`Known`). The part for one tab follows an
id through the save, the draft that names it and the refresh that restores it:
entries that are already a record are known by that record's id (`Traced`), and
entries that will be saved under an id are no older than what is there (`Newer`). Both
hold of the form and of the stored draft, and a crash between two writes of a save
leaves both true.

`TrackAgentProofs` proves, for any number of parses, saves and riders, any set of
marks and of low-value warnings, and drafts of any length (`TrackAgentAssumption`;
`PayloadAssumption`: texts are made of finitely many words):

| Theorem | Statement |
|---|---|
| `AgentInvariant` | `Spec => []AgentInv` |
| `SessionsAreAsReviewed` | `Spec => []StoredAsReviewed` |
| `RawNoteIsOfItsRows` | `Spec => []NoteOfRows` |
| `RidersReadTheirOwn` | `Spec => []ReadBackIsOwn` |
| `NothingHeardIsLost` | `Spec => []HeardSurvives` |

`AgentInv` says which press a stored session came from, that a request past its
batch holds the id of its session, and that without an overlap the review form, the
note and the parse under way are of one note. `StoredAsReviewed` then needs that the
save normalises the form's payload once more and leaves its rows alone
(`RowsAreTheForms`): one change and one note have nothing to be merged with, and of
several warnings each leaves one that reads alike. `HeardSurvives` rests on the
three deduplications, which are loops. What a loop leaves behind is proved by
induction over the rows read so far: the set of the lengths for which the claim
holds contains 0 and with each number the next (`Induction`, from the
well-foundedness of the natural numbers, `LeastOf`), hence every length.
`NotesOutliveDedupe`, `ChangesOutliveDedupe` and `WarningsOutliveCollapse` are the
claims: a row that is merged away leaves one of its area that contains it, or one of
its component at least as full, and later merges only ever replace a row by a fuller
one.

`TireAdvisorProofs` proves about the advisor, for every number or text in each box
and any number of presses (`AdvisorAssumption`: the payloads are of that form):

| Theorem | Statement |
|---|---|
| `AdvisorInvariant` | `AdvisorSpec => []AdvisorInv` |
| `LatestAdvice` | `AdvisorSpec => []AdviceOfLatestRun` |
| `SuggestionsBounded` | `AdvisorSpec => []AdviceBounded` |
| `ConfidenceIsEarned` | `AdvisorSpec => []ConfidenceEarned` |

`AdvisorInv` adds that a result on the page is the answer to one of the presses, and
that without a press beside another only the latest is in flight: a late reply can
then only be of the latest. What the rules give for one tire (`TireAdvice`) follows
from lemmas about rounding, the cap and the order of a target's ends. Both
properties of the advice hold whichever ties binary floating point decides upwards:
`HalvesUp` is any set. That is why they allow half a tenth, and why `ConfidenceEarned`
leaves a tire exactly 3.05 PSI off its target to either answer.

`FieldEntryProofs` proves, for any texts, sessions, drags and number of gestures
(`FieldAssumption`: a number has no digit its places do not show):

| Theorem | Statement |
|---|---|
| `FieldInvariant` | `Spec => []FieldInv` |
| `NoPressureComesUnasked` | `Spec => []TodayIsMeasuredToday` |
| `GesturesKeepTheirs` | `Spec => GesturesKeepTheirWord`, an action property |
| `AdjustersCount` | `Spec => AdjusterCounts`, an action property |

Here the work is in the functions: `RulerStepFacts`, `SnapFacts`, `ToFixedFacts` and
`AdjusterStepFacts` say what a button, a key or a drag may write, and `RulerStepsBack`,
`AdjusterStepsBack` that the other button leads back. The invariant is the property and
the types: in an adjuster counted in clicks, a text with no decimals is a whole number
only because every path that writes one keeps it so (`Entries`).

The theorems about the two Track Agent pages are of `TrackAgent`'s `Spec` and of
`AdvisorSpec`, each page on its own. `ServesBothPages` (in `TrackAgentProofs`) carries
them over to the Worker that is run: `WorkerSpec => Spec /\ AdvisorSpec`, hence
`WorkerKeepsReviews` and `WorkerAdvisesSoundly`.

Only model-checked are the liveness properties `PurgeCompletes` and `PageSettles`:
they rest on fairness, hence on ENABLED, which the provers used here do not handle.

## What the checks found

Two runs end in a counterexample, each to something the repository says of itself:

1. `draft_takeover`. A draft is named by `{writer, rev}`, but a tab counts from
   revision 1 again after discarding its draft, so the pair comes back for another
   session. A second tab that had restored the first one then removes, or writes
   over, work it has never shown.
2. `unit_travels`. Reset leaves the hidden unit of an adjuster as it was. Start a
   session then, and carry-over fills the adjuster with the last session's 12
   clicks while the form still counts turns: 12 turns are shown, and saved.

### Promises the code does not keep

The modules define these as well. No run is kept for them; added to a configuration
with the bounds named here and without its symmetry, each gives its trace in seconds
unless another time is given.

| Definition | Where | What happens | Instance |
|---|---|---|---|
| `StaleTabSparesLiveSession` (`RiderProfile`) | `src/waitlist-worker.js:725-729` | A form left over from a session that was replaced but never revoked is not recognised as stale, and submitting it revokes the browser's live session, which the comment there says it must not. | `OneBrowser`, 1 request, `MaxVersion = 1`, 2 links, 2 sessions, 1 status change |
| `SweepSparesActiveRider` (`RiderProfile`) | `src/waitlist-profile-service.js:304` | The profile sweep deletes by id what it selected before; a rider who confirms again in between loses the answers of an active record. The purge of signups has the same shape (`src/waitlist-worker.js:394-404`) and can delete a suppression record. | 1 link, 1 session, 3 status changes, 1 sweep |
| `HistoryReadsResubscribed` (`WaitlistSignup`) | `src/waitlist-worker.js:314-319` | The prior status is read in one statement and used in another: an unsubscribe in between leaves a confirmed rider without `resubscribed_at`. | 2 requests, `MaxSignups = 1`, `MaxConfirms = 2`, `MaxUnsubscribes = 1` |
| `RejoinAlwaysTakesNewerLink` (`WaitlistSignup`) | `src/waitlist-worker.js:380` (the page: rejoining always requires the signup form and a fresh email confirmation) | A confirmation has claimed its link and not yet written the status when the rider unsubscribes from another mail; the write then confirms through the old link. | 2 requests, `MaxSignups = 1`, `MaxConfirms = 2`, `MaxUnsubscribes = 1` |
| `NeverSavedTwice` (`NotebookDrafts`) | `public/app.js:1575` | Turning auto-save on just after a save keeps the saved form as a draft; after a refresh it is unsaved work with no id, and saving it makes a second record. Undoing Back in after a save, and discarding an unreadable draft, do the same. | `MaxOpen = 1`, `MaxPages = 2`, `MaxEdits = 1`, `MaxIds = 2` |
| `OwnKeptComesBack` (`NotebookDrafts`) | `public/session-progress.js:342` | A second tab turns auto-save off for the device (`public/app.js:1549`). The first goes on saying that a refresh brings its draft back; the next load does not look for one (`public/app.js:1130`). | as `notebook_tabs` |
| `RawNoteIsOriginal` (`TrackAgent`) | `docs/track-agent-review-payload.md:101` | Of two overlapping parses the second press names the note, and either reply fills the form and enables Save: the rows are stored beside another note, which the scope policy may have refused. | as `track_agent_worker` |
| `StoredWhole` (`TrackAgent`) | `premium/track-agent/src/ui.js:242` (the "Canonical Payload Preview") | The session's label is shown in the preview and sent (`ui.js:360`), and the batch has no column for it (`track-agent-service.js:381-395`); warnings of low value are filtered again on the way. | as `track_agent_worker` |
| `SignsSurvive` (`TrackAgent`) | `premium/track-agent/src/track-agent-service.js:110-116` (no document says that rows are merged) | `compareText` blanks signs and all that is not ASCII: of a note or a change with +2 and one with -2 the second is taken for a repeat and dropped. | as `track_agent_worker` |
| `ConflictLowersConfidence` (`TireAdvisor`) | `docs/track-agent-tire-pressure-advisor.md:151` | A tire called vague, unstable or chattering inside its target leaves medium confidence: `tire-pressure-advisor-rules.js:159` lacks words that `:71` has. | as `track_agent_worker` |
| `NoChangeIsTrue` (`WaitlistAdmin`) | `src/waitlist-admin-service.js:234-237` | Re-selecting the state a stale page shows is answered "no change" although the stored state has moved on; the comment says the guarded batch would report the conflict, but it is not reached. | as `admin_desk` |
| `NobodyInvitedTwice` (`WaitlistAdmin`) | `src/waitlist-profile-batch.js:11-13` | The rider is mailed, leaves, is swept of invitations after thirty days (`src/waitlist-profile-service.js:306-308`), rejoins, and is mailed again by a rerun. The purge of a signup, which deletes its invitations in a statement of its own, does the same in between. | as `admin_desk` (half a minute) |
| `OneRiderStopsNobody` (`WaitlistAdmin`) | `src/waitlist-profile-batch.js:112-114` | The outcome of a rider purged in mid-batch is refused by the foreign key outside the per-rider error handling: the batch ends and the riders after them get nothing until a rerun. | as `admin_desk` |
| `TokenLasts` (`FeedbackPulse`) | `public/app.js:3076-3077` | Opening the notebook in a second tab replaces the cookie the first tab's token is compared with: feedback sent from the first tab is refused until it is reloaded (a pulse asks for a new token, feedback does not). | as `feedback_pulse` |
| `TapsCountedOnce` (`FeedbackPulse`) | `src/experience-pulse-service.js:8` | An insert commits and its reply is lost: the Worker answers 503 (`src/waitlist-worker.js:1008-1014`) and the page posts the tap again under a new token (`public/app.js:3225-3229`), which is a second row. | as `feedback_pulse` |
| `ThanksForThisText` (`FeedbackPulse`) | `public/app.js:3131-3133` | The dialog can be closed and opened, or written in, while a post is on its way; its answer then thanks for a text that was never sent, and hides it. | as `feedback_pulse`, `MaxTexts = 2` |

Seen while modelling, and not stated as a property:

- Two tabs that restore one draft share its pending id; the second to save
  replaces the record that the first was told is saved (`SavedSurvives` with two
  tabs).
- Back in and Correct PRE schedule no draft, while the footer goes on saying that
  a refresh brings the draft back; until the next edit it brings back PRE.
- Undo puts POST back to locked even when it was unlocked before the Back in that
  it undoes (`public/app.js:1685`; the snapshot it took is only tested for being there).
- Save pressed on a form that was just emptied cancels the timer that would have
  discarded the draft, and does not discard it.
- The pressure buttons of a blank field without a reference step from 30, where the
  comment above `rulerStep` says that they stay inactive.
- An adjuster typed past its limit has two dead buttons; one with a half click in it
  is rounded before it is stepped. The session just saved is at once the reference
  beside its own successor.
- A batch's issuance whose transaction committed and whose reply was lost is recorded
  as `already_invited`, though that rider was never mailed and never will be.
- A rider who unsubscribes between a batch's insert and its mail still gets the mail.
- Pressing Save twice, or again after a lost reply, stores the Track Agent session
  twice, under new ids. The review form has room for one lap, two hot pressures, one
  change and one note: what was heard beyond those is shown in no field and not saved.
- Changes are compared by length, so of two that overlap the longer is kept though the
  shorter may have said something else.
- Whoever is let in by the shared token without an id is `anonymous`, and reads and
  lists the sessions of everyone else who is (`premium-access.js:40, 80-82`).

## Limits

Per module, deliberately left out:

- `RiderProfile`: rate limits and mail text of the request-link form, the
  payload's contents (valid or not), and `saveProfileThroughInvitation`, which no
  route calls.
- `WaitlistSignup`: attribution columns and their clearing, the delivery log and
  its retention, the same-origin gate, the staging guard, the consent stamps.
  Supersession of unsubscribe tokens is left out because no statement reads it.
- `NotebookDrafts`: reads of the storage that fail, an unreadable history (its
  refusal is a lost write), import and export, clearing all history (which
  is deleting each record), a failing write of the auto-save switch, the texts of
  the status line. POST readings end the undo window; edits are not told apart by
  field, so the window's end is a step of its own.
- `FieldEntry`: one tire of two (their fields are independent), one adjuster of six,
  the Undo of Back in, warmers, sag and geometry, and values exactly half-way
  between two roundings, where binary fractions decide.
- `WaitlistAdmin`: the other channels' invitations, which `RiderProfile` has;
  authentication, CSRF, lists and filters, which are local to a request or only read;
  the switch that turns batches off; triage of feedback.
- `FeedbackPulse`: bodies, sections and routes of a post, which are cleaned and stored;
  addresses beyond usable or not; several clients in one rate bucket; triage.
- `TrackAgent`: names of tracks and bikes, the session's number and the confidence of a
  review, the warnings the schema adds, the patterns of the built-in parser (what a
  provider may hear is a constant), the schema's checks of keys and types (both callers
  build its shape), the list and summary pages, which only read, and the stub provider.
- `TireAdvisor`: wording, the echo of the conditions, pressures below zero, which no
  gauge shows, and which ties floating point rounds up (`HalvesUp`, a constant).

Not modelled: the scorecard (read-only aggregation and its HTML), `tire-core.js`
(sizes and circumferences, arithmetic of one call), the join form, the static
pages, styles and images (no state).

## Plan

All modules of the first plan are written: `RiderProfile`, `ProfileConsent`,
`RiderProfileProofs`, `WaitlistSignup`, `NotebookDrafts`, then `WaitlistAdmin` (which
took in both the planned `BetaApproval` and `InvitationBatch`, since both are about
signups that go away under them), `FeedbackPulse`, `TrackAgent`, `TireAdvisor`,
`FieldEntry`, and each has its proofs: every safety property a passing run checks is
a theorem. What is left:

1. More abstract specifications with their refinements, after `ProfileConsent`: the
   approvals as a log that decisions are appended to one at a time, and the notebook
   with one tab as a store that keeps the form and its record.
2. `NotebookDrafts`: what two tabs may rely on beyond `OwnKeptMeansKept` and
   `OnlyMisledTouchOthersWork`, for instance which saved record survives when they
   share a draft's id.
