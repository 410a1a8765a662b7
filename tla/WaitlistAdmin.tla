---------------------------- MODULE WaitlistAdmin ----------------------------
(***************************************************************************)
(* What operators do to the wait-list: approval decisions taken from       *)
(* pages that may be out of date, each with its audit event, and batches   *)
(* that invite confirmed riders to their profile.  Both work on signups    *)
(* that riders leave and rejoin, and that the retention sweep purges one   *)
(* statement at a time.                                                    *)
(*                                                                         *)
(* A signup's only invitation here is the operator's (later_invitation):   *)
(* those of the other channels are RiderProfile's.  Authentication, the    *)
(* double submit of the console's token and the wording are left out.      *)
(***************************************************************************)
EXTENDS Naturals, Sequences, FiniteSets, SequencesExt

CONSTANTS
    Signups,
    International,       \* those of the international-interest track
    Operators,
    Runs,                \* names for the batches started
    RequestedLimit,      \* recipients asked for in a batch
    MaxEffort,           \* two for each decision submitted, each operator
                         \* with a page open and each of the moves below,
                         \* three for each batch started, bound
    MaxMoves             \* riders' confirmations and departures, purges,
                         \* lost answers, failed statements and dead
                         \* Workers, bound

BatchMaxRecipients == 25

ASSUME AdminAssumption ==
    /\ IsFiniteSet(Signups) /\ International \subseteq Signups
    /\ "none" \notin Signups \cup Runs
    /\ RequestedLimit \in 1 .. BatchMaxRecipients
    /\ MaxEffort \in Nat /\ MaxMoves \in Nat

VARIABLES
    signup,              \* waitlist_signups
    order,               \* the signups in the order of their confirmed_at
    revoking,            \* unsubscribes whose invitations are still to be revoked
    sweep,               \* the signup the sweep is deleting
    stored,              \* waitlist_beta_approvals
    events,              \* waitlist_beta_approval_events, by signup
    desk,                \* the page each operator has in front of them
    told,                \* history: decisions each operator was told were recorded
    slot,                \* the later invitation of each signup
    run,                 \* each batch: its progress, and its row
    outcomes,            \* waitlist_profile_invitation_batch_outcomes
    mailed,              \* history: <<run, signup>> for each invitation delivered
    cleared,             \* history: signups whose invitations a sweep has deleted
    decisions, moves

approvals == <<stored, events, desk, told, decisions>>
batches   == <<slot, run, outcomes, mailed>>
riders    == <<signup, order, revoking, sweep, cleared>>
vars == <<riders, approvals, batches, moves>>

None == "none"

States == {"awaiting_review", "approved", "hold", "not_approved"}

(* unsubscribed_at and resubscribed_at are set, and never cleared.         *)
Row(status) == [status |-> status, left |-> FALSE, returned |-> FALSE]

Exists(s) == signup[s].status # "purged"

Effort == 2 * (decisions + moves + Cardinality({o \in Operators : desk[o].at # "away"}))
             + 3 * Cardinality({r \in Runs : run[r].at # "unused"})

Move == moves < MaxMoves /\ Effort + 2 <= MaxEffort /\ moves' = moves + 1

-----------------------------------------------------------------------------
(* Approvals.                                                              *)

NoPage == [at |-> "away", signup |-> None, expected |-> None, new |-> None,
           reason |-> FALSE, result |-> ""]

Effective(s) == IF stored[s] = None THEN "awaiting_review" ELSE stored[s]

ReasonRequired(previous, new) ==
    \/ new \in {"hold", "not_approved"}
    \/ previous = "not_approved" /\ new # "not_approved"

Show(o, page) == desk' = [desk EXCEPT ![o] = page]

(* The candidate's page, whose form carries the state it shows.            *)
Detail(s) == [NoPage EXCEPT !.at = "form", !.signup = s, !.expected = Effective(s)]

OpenDetail(o, s) ==
    /\ desk[o].at # "deciding" /\ Exists(s) /\ desk[o] # Detail(s)
    /\ Effort + (IF desk[o].at = "away" THEN 4 ELSE 2) <= MaxEffort
    /\ Show(o, Detail(s))
    /\ UNCHANGED <<riders, batches, moves, stored, events, told, decisions>>

(* The browser keeps the form as it was sent: it can be gone back to.      *)
Answered(page, result) ==
    [page EXCEPT !.at = "form", !.new = None, !.reason = FALSE, !.result = result]

Refused(s, expected, new, reason) ==
    \/ s \in International /\ new = "approved"
    \/ ReasonRequired(expected, new) /\ ~ reason

(* The checks of changeApprovalState, up to its one write.                 *)
Ask(o, page) ==
    Show(o, CASE page.expected = page.new ->
                   Answered(page, "no_change")
              [] page.expected # page.new /\ Refused(page.signup, page.expected, page.new, page.reason) ->
                   Detail(page.signup)
              [] OTHER -> [page EXCEPT !.at = "deciding"])

(* Not approved asks once more, and carries the same decision.  A form     *)
(* may be submitted from a page gone back to, or twice.                    *)
Submit(o) ==
    /\ desk[o].at = "form"
    /\ Effort + 2 <= MaxEffort /\ decisions' = decisions + 1
    /\ \E new \in States, reason \in BOOLEAN :
          LET page == [desk[o] EXCEPT !.new = new, !.reason = reason, !.result = ""]
          IN  CASE ~ Exists(page.signup) -> Show(o, NoPage)
                [] Exists(page.signup) /\ new = "not_approved" ->
                     Show(o, [page EXCEPT !.at = "confirming"])
                [] OTHER -> Ask(o, page)
    /\ UNCHANGED <<riders, batches, moves, stored, events, told>>

ConfirmNotApproved(o) ==
    /\ desk[o].at = "confirming"
    /\ IF Exists(desk[o].signup) THEN Ask(o, desk[o]) ELSE Show(o, NoPage)
    /\ UNCHANGED <<riders, batches, moves, stored, events, told, decisions>>

(* Slip: the checks above are taken for enough.                            *)
GuardExistenceOnly(s, expected) == Exists(s)

(* The precondition both statements of the batch carry.                    *)
Guard(s, expected) == Exists(s) /\ Effective(s) = expected

(* Event and state, or neither.  The answer may not arrive: the operator   *)
(* is left with the form, and the decision stands.                         *)
Decide(o) ==
    LET page == desk[o]
        s    == page.signup
        IN
    /\ page.at = "deciding"
    /\ \E heard \in BOOLEAN :
          /\ IF heard THEN UNCHANGED moves ELSE Move
          /\ IF Guard(s, page.expected)
             THEN /\ stored' = [stored EXCEPT ![s] = page.new]
                  /\ events' = [events EXCEPT ![s] = Append(@,
                                   [from |-> page.expected, to |-> page.new, by |-> o])]
                  /\ told' = IF heard THEN [told EXCEPT ![o][s] = @ + 1] ELSE told
                  /\ Show(o, Answered(page, IF heard THEN "applied" ELSE ""))
             ELSE /\ Show(o, Answered(page, IF heard THEN "conflict" ELSE ""))
                  /\ UNCHANGED <<stored, events, told>>
    /\ UNCHANGED <<riders, batches, decisions>>

-----------------------------------------------------------------------------
(* The riders and the sweep.                                               *)

(* A confirmation.  One that read the status before the rider left makes   *)
(* no note of the return, and the signup may go on counting as suppressed. *)
Confirm(s) ==
    /\ Move /\ signup[s].status \in {"pending", "unsubscribed"}
    /\ \E noted \in (IF signup[s].status = "unsubscribed" THEN BOOLEAN ELSE {FALSE}) :
          signup' = [signup EXCEPT ![s].status = "confirmed", ![s].returned = @ \/ noted]
    /\ order' = Append(Remove(order, s), s)
    /\ UNCHANGED <<revoking, sweep, cleared, approvals, batches>>

Unsubscribe(s) ==
    /\ Move /\ signup[s].status = "confirmed"
    /\ signup' = [signup EXCEPT ![s].status = "unsubscribed", ![s].left = TRUE]
    /\ revoking' = revoking \cup {s}
    /\ UNCHANGED <<order, sweep, cleared, approvals, batches>>

Revoked(s, by) == IF slot[s].link = "live" THEN [slot EXCEPT ![s].link = by] ELSE slot

RevokeInvitations(s) ==
    /\ s \in revoking
    /\ revoking' = revoking \ {s}
    /\ slot' = Revoked(s, "rider")
    /\ UNCHANGED <<signup, order, sweep, cleared, approvals, run, outcomes, mailed, moves>>

NoSlot == [run |-> None, link |-> None]

Clear(gone) ==
    /\ slot' = [s \in Signups |-> IF s \in gone THEN NoSlot ELSE slot[s]]
    /\ cleared' = cleared \cup {s \in gone : slot[s] # NoSlot}

(* The sweep reaches a signup confirmed, or left pending, long enough ago: *)
(* its invitations go first, in a statement of their own.                  *)
PurgeInvitations(s) ==
    /\ sweep = None /\ Move /\ signup[s].status \in {"pending", "confirmed"}
    /\ sweep' = s
    /\ Clear({s})
    /\ UNCHANGED <<signup, order, revoking, approvals, run, outcomes, mailed>>

(* The signup goes, and by cascade its decisions and its outcomes.  An     *)
(* invitation issued in between stops it: the sweep ends with an error.    *)
PurgeSignup ==
    /\ sweep # None
    /\ sweep' = None
    /\ IF slot[sweep] # NoSlot
       THEN UNCHANGED <<signup, order, stored, events, told, outcomes>>
       ELSE /\ signup' = [signup EXCEPT ![sweep] = Row("purged")]
            /\ order' = Remove(order, sweep)
            /\ stored' = [stored EXCEPT ![sweep] = None]
            /\ events' = [events EXCEPT ![sweep] = <<>>]
            /\ told' = [o \in Operators |-> [told[o] EXCEPT ![sweep] = 0]]
            /\ outcomes' = {x \in outcomes : x[2] # sweep}
    /\ UNCHANGED <<revoking, cleared, desk, decisions, slot, run, mailed, moves>>

(* Thirty days after they left, which no batch outlasts, riders lose their *)
(* invitations and keep their signup (sweepProfileRetention).              *)
SweepInvitations ==
    /\ \E gone \in SUBSET {s \in Signups : signup[s].status = "unsubscribed"} :
          /\ \E s \in gone : slot[s] # NoSlot
          /\ \A r \in Runs : run[r].at \notin {"unused", "done", "dead", "swept"} =>
                             gone \cap ToSet(run[r].rest) = {}
          /\ Clear(gone)
    /\ UNCHANGED <<signup, order, revoking, sweep, approvals, run, outcomes, mailed, moves>>

-----------------------------------------------------------------------------
(* Batches.                                                                *)

ActiveConfirmed(s) ==
    signup[s].status = "confirmed" /\ (signup[s].left => signup[s].returned)

Eligible(s) == ActiveConfirmed(s) /\ slot[s] = NoSlot

Outcomes == {"issued", "already_invited", "issue_failed", "send_failed"}

NoRun == [at |-> "unused", rest |-> <<>>, outcome |-> None, status |-> None,
          counts |-> [o \in Outcomes |-> 0]]

SetRun(r, new) == run' = [run EXCEPT ![r] = new]

(* The row of the run is inserted, as running.                             *)
Start(r) ==
    /\ run[r] = NoRun /\ Effort + 3 <= MaxEffort
    /\ SetRun(r, [run[r] EXCEPT !.at = "select", !.status = "running"])
    /\ UNCHANGED <<riders, approvals, slot, outcomes, mailed, moves>>

Before(s, t) == \E i, j \in DOMAIN order : i < j /\ order[i] = s /\ order[j] = t

(* The riders confirmed first, as many as were asked for, in that order.   *)
Select(r) ==
    /\ run[r].at = "select"
    /\ LET eligible == {s \in Signups : Eligible(s)}
           chosen   == {s \in eligible :
                           Cardinality({t \in eligible : Before(t, s)}) < RequestedLimit}
       IN  \E rest \in SetToSeqs(chosen) :
              /\ \A i, j \in DOMAIN rest : i < j => Before(rest[i], rest[j])
              /\ SetRun(r, [run[r] EXCEPT !.at = "check", !.rest = rest])
    /\ UNCHANGED <<riders, approvals, slot, outcomes, mailed, moves>>

Rider(r) == Head(run[r].rest)

(* issueProfileInvitation: confirmed, and then one batch of statements.    *)
IssueCheck(r) ==
    /\ run[r].at = "check" /\ run[r].rest # <<>>
    /\ SetRun(r, [run[r] EXCEPT
           !.at = IF signup[Rider(r)].status = "confirmed" THEN "insert" ELSE "reconcile"])
    /\ UNCHANGED <<riders, approvals, slot, outcomes, mailed, moves>>

(* Slip: the index lets a revoked invitation be replaced.                  *)
AdmitsOverRevoked(s) == Exists(s) /\ slot[s].link # "live"

(* The unique index, and the foreign key.                                  *)
Admits(s) == Exists(s) /\ slot[s] = NoSlot

IssueInsert(r) ==
    /\ run[r].at = "insert"
    /\ IF Admits(Rider(r))
       THEN /\ slot' = [slot EXCEPT ![Rider(r)] = [run |-> r, link |-> "live"]]
            /\ SetRun(r, [run[r] EXCEPT !.at = "send"])
       ELSE /\ SetRun(r, [run[r] EXCEPT !.at = "reconcile"])
            /\ UNCHANGED slot
    /\ UNCHANGED <<riders, approvals, outcomes, mailed, moves>>

Conclude(r, outcome) ==
    SetRun(r, [run[r] EXCEPT !.at = "record", !.outcome = outcome, !.counts[outcome] = @ + 1])

(* Nothing issued: the table says why.                                     *)
Reconcile(r) ==
    /\ run[r].at = "reconcile"
    /\ Conclude(r, IF slot[Rider(r)] # NoSlot THEN "already_invited" ELSE "issue_failed")
    /\ UNCHANGED <<riders, approvals, slot, outcomes, mailed, moves>>

(* An unsubscribe token is minted, which a purged signup refuses, and the  *)
(* mail is sent.  A failure leaves open whether it was delivered.          *)
Send(r) ==
    /\ run[r].at = "send"
    /\ \/ /\ Exists(Rider(r))
          /\ mailed' = mailed \cup {<<r, Rider(r)>>}
          /\ Conclude(r, "issued")
          /\ UNCHANGED moves
       \/ /\ IF Exists(Rider(r)) THEN Move ELSE UNCHANGED moves
          /\ mailed' \in {mailed} \cup IF Exists(Rider(r))
                                       THEN {mailed \cup {<<r, Rider(r)>>}} ELSE {}
          /\ SetRun(r, [run[r] EXCEPT !.at = "revoke"])
    /\ UNCHANGED <<riders, approvals, slot, outcomes>>

(* Slip: a failed send is recorded and its link forgotten.                 *)
RevokeUnsentForgotten(r) ==
    /\ run[r].at = "revoke"
    /\ Conclude(r, "send_failed")
    /\ UNCHANGED <<riders, approvals, slot, outcomes, mailed, moves>>

(* Every invitation of the rider that is not revoked.                      *)
RevokeUnsent(r) ==
    /\ run[r].at = "revoke"
    /\ slot' = Revoked(Rider(r), "unsent")
    /\ Conclude(r, "send_failed")
    /\ UNCHANGED <<riders, approvals, outcomes, mailed, moves>>

Stopped(r) == [run[r] EXCEPT !.at = "finish", !.status = "failed"]

(* The outcome of a rider purged meanwhile is refused by the foreign key,  *)
(* and that ends the batch.                                                *)
Record(r) ==
    /\ run[r].at = "record"
    /\ IF Exists(Rider(r))
       THEN /\ outcomes' = outcomes \cup {<<r, Rider(r), run[r].outcome>>}
            /\ SetRun(r, [run[r] EXCEPT !.at = "check", !.rest = Tail(@)])
       ELSE SetRun(r, Stopped(r)) /\ UNCHANGED outcomes
    /\ UNCHANGED <<riders, approvals, slot, mailed, moves>>

(* Slip: only what could not be sent counts as a failure.                  *)
FailuresToSend(r) == run[r].counts["send_failed"]

Failures(r) == run[r].counts["issue_failed"] + run[r].counts["send_failed"]

Finish(r) ==
    /\ \/ run[r].at = "finish"
       \/ run[r].at = "check" /\ run[r].rest = <<>>
    /\ SetRun(r, [run[r] EXCEPT !.at = "done", !.status =
           CASE @ = "failed" -> @
             [] @ # "failed" /\ Failures(r) > 0 -> "completed_with_failures"
             [] OTHER -> "completed"])
    /\ UNCHANGED <<riders, approvals, slot, outcomes, mailed, moves>>

(* Issuing fails, before the invitation was written or after: either way   *)
(* the error is caught, and the outcome reconciled.                        *)
IssueFails(r) ==
    /\ Move /\ run[r].at \in {"check", "insert"} /\ run[r].rest # <<>>
    /\ SetRun(r, [run[r] EXCEPT !.at = "reconcile"])
    /\ \/ UNCHANGED slot
       \/ /\ run[r].at = "insert" /\ Admits(Rider(r))
          /\ slot' = [slot EXCEPT ![Rider(r)] = [run |-> r, link |-> "live"]]
    /\ UNCHANGED <<riders, approvals, outcomes, mailed>>

(* Any other statement that fails ends the batch.                          *)
StatementFails(r) ==
    /\ Move /\ run[r].at \in {"select", "reconcile", "revoke", "record"}
    /\ SetRun(r, Stopped(r))
    /\ UNCHANGED <<riders, approvals, slot, outcomes, mailed>>

(* The Worker dies, or the update that ends the batch fails.               *)
Dies(r) ==
    /\ Move /\ run[r].at \notin {"unused", "done", "dead", "swept"}
    /\ SetRun(r, [run[r] EXCEPT !.at = "dead", !.status = "running"])
    /\ UNCHANGED <<riders, approvals, slot, outcomes, mailed>>

(* Ninety days on, the row goes and its outcomes with it.                  *)
SweepRun(r) ==
    /\ Move /\ run[r].at \in {"done", "dead"}
    /\ SetRun(r, [NoRun EXCEPT !.at = "swept"])
    /\ outcomes' = {x \in outcomes : x[1] # r}
    /\ UNCHANGED <<riders, approvals, slot, mailed>>

-----------------------------------------------------------------------------
Init ==
    /\ \E pending \in SUBSET Signups :
          /\ Cardinality(pending) <= 1
          /\ signup = [s \in Signups |-> Row(IF s \in pending THEN "pending" ELSE "confirmed")]
          /\ order \in SetToSeqs(Signups \ pending)
    /\ revoking = {} /\ sweep = None /\ cleared = {}
    /\ stored = [s \in Signups |-> None]
    /\ events = [s \in Signups |-> <<>>]
    /\ desk = [o \in Operators |-> NoPage]
    /\ told = [o \in Operators |-> [s \in Signups |-> 0]]
    /\ slot = [s \in Signups |-> NoSlot]
    /\ run = [r \in Runs |-> NoRun]
    /\ outcomes = {} /\ mailed = {}
    /\ decisions = 0 /\ moves = 0

Operator(o) == (\E s \in Signups : OpenDetail(o, s)) \/ Submit(o) \/ ConfirmNotApproved(o)
                 \/ Decide(o)

RiderActs(s) == Confirm(s) \/ Unsubscribe(s) \/ RevokeInvitations(s)

Batch(r) ==
    \/ Start(r) \/ Select(r) \/ IssueCheck(r) \/ IssueInsert(r) \/ Reconcile(r) \/ Send(r)
    \/ RevokeUnsent(r) \/ Record(r) \/ Finish(r) \/ IssueFails(r) \/ StatementFails(r)
    \/ Dies(r) \/ SweepRun(r)

Next ==
    \/ \E o \in Operators : Operator(o)
    \/ \E s \in Signups : RiderActs(s) \/ PurgeInvitations(s)
    \/ PurgeSignup \/ SweepInvitations
    \/ \E r \in Runs : Batch(r)

Spec == Init /\ [][Next]_vars

-----------------------------------------------------------------------------
(* The decisions recorded for a signup read as one chain, from awaiting    *)
(* review to the state in force, whoever decided from whatever page; and   *)
(* no operator was told "recorded" more often than the log names them.     *)
DecisionsChain ==
    \A s \in Signups :
        LET log == events[s]
        IN  /\ stored[s] = IF log = <<>> THEN None ELSE Last(log).to
            /\ \A k \in DOMAIN log :
                  /\ log[k].from # log[k].to
                  /\ log[k].from = IF k = 1 THEN "awaiting_review" ELSE log[k - 1].to
            /\ \A o \in Operators :
                  told[o][s] <= Cardinality({k \in DOMAIN log : log[k].by = o})

(* A rider gets the operator's one invitation once, however many batches   *)
(* run, die or fail, unless a sweep deleted the record of the first: that  *)
(* of a rider who left goes after thirty days, and the rider may rejoin.   *)
OneInvitationMail ==
    \A s \in Signups \ cleared : Cardinality({r \in Runs : <<r, s>> \in mailed}) <= 1

(* What a batch recorded of a rider is what happened: an invitation issued *)
(* was delivered, and only the rider's leaving revokes its link; one that  *)
(* could not be sent opens nothing; one already spent is on record.        *)
OutcomesAreTrue ==
    \A x \in outcomes :
        LET r == x[1]  s == x[2]
        IN  s \notin cleared =>
              CASE x[3] = "issued" ->
                     <<r, s>> \in mailed /\ slot[s].run = r /\ slot[s].link \in {"live", "rider"}
                [] x[3] = "send_failed" -> slot[s].run = r /\ slot[s].link \in {"rider", "unsent"}
                [] x[3] = "already_invited" -> slot[s] # NoSlot /\ <<r, s>> \notin mailed
                [] OTHER -> <<r, s>> \notin mailed /\ slot[s].run # r

(* A batch that ran to its end left one outcome for each rider it counted, *)
(* those purged since aside, and says "completed" of itself only when none *)
(* of them failed.                                                         *)
CompletedRunsAddUp ==
    \A r \in Runs :
        run[r].status \in {"completed", "completed_with_failures"} =>
            /\ run[r].status = "completed" <=>
                 run[r].counts["issue_failed"] = 0 /\ run[r].counts["send_failed"] = 0
            /\ \A o \in Outcomes :
                  LET rows == {x \in outcomes : x[1] = r /\ x[3] = o}
                      gone == {s \in Signups : ~ Exists(s)}
                  IN  /\ Cardinality(rows) <= run[r].counts[o]
                      /\ run[r].counts[o] <= Cardinality(rows) + Cardinality(gone)

(* "a rerun physically cannot double-invite"                               *)
(* (src/waitlist-profile-batch.js:13): no rider is mailed by two batches.  *)
NobodyInvitedTwice ==
    \A s \in Signups : Cardinality({r \in Runs : <<r, s>> \in mailed}) <= 1

(* A decision answered "no change: that is already the current state" was  *)
(* one.                                                                    *)
NoChangeIsTrue ==
    [][\A o \in Operators :
          desk'[o].result = "no_change" /\ desk'[o] # desk[o] =>
              desk'[o].expected = Effective(desk'[o].signup)]_vars

(* One rider's failure never stops the batch: the sweep's deleting a rider *)
(* selected is met like any other failure.                                 *)
OneRiderStopsNobody ==
    [][\A r \in Runs : run[r].at = "record" /\ run'[r].at = "finish" => moves' # moves]_vars
=============================================================================
