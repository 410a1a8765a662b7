-------------------------- MODULE WaitlistSignup --------------------------
(***************************************************************************)
(* One email address on the wait list: the double opt-in, unsubscribing,   *)
(* rejoining and the retention purge, with every request split at the      *)
(* database calls its handler awaits.  None of these calls shares a        *)
(* transaction with another.                                               *)
(*                                                                         *)
(* The rows of a purged signup are gone with it (foreign keys), so the     *)
(* token tables hold the rows of the present signup only.  Token ids are   *)
(* handed out in insertion order.  The supersession of unsubscribe tokens  *)
(* is left out: no statement ever reads it.                                *)
(***************************************************************************)
EXTENDS Naturals, FiniteSets

CONSTANTS
    Requests,            \* requests that may be in flight at once
    EmailLimit,          \* EMAIL_SEND_LIMIT_PER_DAY
    ClientLimit,         \* CLIENT_SEND_LIMIT_PER_HOUR
    MaxSignups,          \* signup rows ever inserted, bound
    MaxConfirms,         \* confirm tokens ever inserted, bound
    MaxUnsubscribes,     \* unsubscribes ever accepted, bound
    MaxJumps,            \* long silences of the address, bound
    MaxCrashes           \* sweeps that die, bound

ASSUME WaitlistAssumption ==
    /\ IsFiniteSet(Requests)
    /\ EmailLimit \in Nat /\ ClientLimit \in Nat
    /\ MaxSignups \in Nat /\ MaxConfirms \in Nat /\ MaxUnsubscribes \in Nat
    /\ MaxJumps \in Nat /\ MaxCrashes \in Nat

VARIABLES
    signup,              \* the row's id, NoId if there is none
    signups,             \* rows ever inserted
    status,              \* of the present row
    age,                 \* of created_at and confirmed_at
    unsubscribes,        \* times unsubscribed_at was stamped
    resubscribedAfter,   \* unsubscribes when resubscribed_at was stamped
    confirmRows, confirmCount, confirmUsed, confirmSuperseded, confirmExpired,
    confirmLapsed,       \* tokens whose expiry is thirty days past
    unsubscribeRows, unsubscribeCount,
    closedThrough,       \* history: confirm tokens inserted before the last
                         \* unsubscribe superseded them all
    claimedBefore,       \* history: those that were claimed before it did
    inbox,               \* links the address received, by purpose
    sent,                \* send_count of the two rate buckets of this window
    mails,               \* history: confirmation emails of this window
    welcomes,            \* history: welcome emails ever sent
    request,             \* requests in flight
    purge,               \* the retention sweep
    purged,              \* history: signup whose tokens a purge deleted
    jumps, crashes       \* bound the model only

signupVars  == <<signup, signups, status, age, unsubscribes, resubscribedAfter>>
confirmVars == <<confirmRows, confirmCount, confirmUsed, confirmSuperseded, confirmExpired,
                 confirmLapsed>>
closedVars  == <<closedThrough, claimedBefore>>
tokenVars   == <<confirmVars, unsubscribeRows, unsubscribeCount, closedVars>>
mailVars    == <<inbox, sent, mails, welcomes>>
purgeVars   == <<purge, purged, jumps, crashes>>

vars == <<signupVars, tokenVars, mailVars, request, purgeVars>>

NoId == 0

Confirms   == 1 .. MaxConfirms
SignupIds  == 1 .. MaxSignups
(* Every confirmation email and every welcome carries a fresh one.         *)
Unsubscribable == 1 .. 2 * MaxConfirms

Idle == [pc |-> "idle", signup |-> NoId, confirm |-> NoId, unsubscribe |-> NoId,
         prior |-> "none"]

RequestStates ==
    [pc : {"idle", "email", "lookup", "insert", "supersede", "mint", "link",
           "send", "claim", "prior", "confirm", "welcomeLink", "welcome",
           "unsubscribe", "close"},
     signup : SignupIds \cup {NoId},
     confirm : Confirms \cup {NoId},
     unsubscribe : Unsubscribable \cup {NoId},
     prior : {"none", "pending", "confirmed", "unsubscribed"}]

Goto(r, next) == request' = [request EXCEPT ![r] = next]
Step(r, pc)   == Goto(r, [request[r] EXCEPT !.pc = pc])
Stop(r)       == Goto(r, Idle)

(* The row a request works on is still there.                              *)
Present(r) == request[r].signup = signup

Outstanding == confirmRows \ (confirmUsed \cup confirmSuperseded)
Usable      == Outstanding \ confirmExpired

-----------------------------------------------------------------------------
(* Slip: the counter is raised whatever it was.                            *)
UnderLimitUnguarded(r, bucket, limit, next) ==
    /\ sent' = [sent EXCEPT ![bucket] = @ + 1]
    /\ Step(r, next)

(* One conditional UPDATE both checks the limit and counts the attempt.    *)
UnderLimit(r, bucket, limit, next) ==
    IF sent[bucket] < limit
    THEN /\ sent' = [sent EXCEPT ![bucket] = @ + 1]
         /\ Step(r, next)
    ELSE /\ Stop(r)
         /\ UNCHANGED sent

(* POST of the signup form: two rate buckets, the lookup, and unless the   *)
(* address is confirmed already, a confirmation email with a fresh confirm *)
(* token and a fresh unsubscribe token.                                    *)
Join(r) ==
    /\ request[r].pc = "idle"
    /\ UnderLimit(r, "client", ClientLimit, "email")
    /\ UNCHANGED <<signupVars, tokenVars, inbox, mails, welcomes, purgeVars>>

LimitEmail(r) ==
    /\ request[r].pc = "email"
    /\ UnderLimit(r, "email", EmailLimit, "lookup")
    /\ UNCHANGED <<signupVars, tokenVars, inbox, mails, welcomes, purgeVars>>

Lookup(r) ==
    /\ request[r].pc = "lookup"
    /\ IF signup = NoId
       THEN Step(r, "insert")
       ELSE IF status = "confirmed"
       THEN Stop(r)
       ELSE Goto(r, [request[r] EXCEPT !.pc = "supersede", !.signup = signup])
    /\ UNCHANGED <<signupVars, tokenVars, mailVars, purgeVars>>

(* The unique index on the address fails the slower of two first joins.    *)
InsertSignup(r) ==
    /\ request[r].pc = "insert"
    /\ IF signup = NoId
       THEN /\ signups < MaxSignups
            /\ signups' = signups + 1
            /\ signup' = signups'
            /\ status' = "pending"
            /\ age' = "new"
            /\ unsubscribes' = 0
            /\ resubscribedAfter' = 0
            /\ Goto(r, [request[r] EXCEPT !.pc = "supersede", !.signup = signup'])
       ELSE /\ Stop(r)
            /\ UNCHANGED signupVars
    /\ UNCHANGED <<tokenVars, mailVars, purgeVars>>

(* mintAndStoreToken: an UPDATE, then an INSERT that needs its signup.     *)
SupersedeConfirms(r) ==
    /\ request[r].pc = "supersede"
    /\ confirmSuperseded' = confirmSuperseded \cup (IF Present(r) THEN Outstanding ELSE {})
    /\ Step(r, "mint")
    /\ UNCHANGED <<signupVars, confirmRows, confirmCount, confirmUsed, confirmExpired, confirmLapsed,
                   unsubscribeRows, unsubscribeCount, closedVars, mailVars, purgeVars>>

MintConfirm(r) ==
    /\ request[r].pc = "mint"
    /\ IF Present(r)
       THEN /\ confirmCount < MaxConfirms
            /\ confirmCount' = confirmCount + 1
            /\ confirmRows' = confirmRows \cup {confirmCount'}
            /\ Goto(r, [request[r] EXCEPT !.pc = "link", !.confirm = confirmCount'])
       ELSE /\ Stop(r)
            /\ UNCHANGED <<confirmCount, confirmRows>>
    /\ UNCHANGED <<signupVars, confirmUsed, confirmSuperseded, confirmExpired, confirmLapsed,
                   unsubscribeRows, unsubscribeCount, closedVars, mailVars, purgeVars>>

(* activeUnsubscribeToken, for either email.                               *)
MintUnsubscribe(r) ==
    /\ request[r].pc \in {"link", "welcomeLink"}
    /\ IF Present(r)
       THEN /\ unsubscribeCount' = unsubscribeCount + 1
            /\ unsubscribeRows' = unsubscribeRows \cup {unsubscribeCount'}
            /\ Goto(r, [request[r] EXCEPT
                            !.pc = IF request[r].pc = "link" THEN "send" ELSE "welcome",
                            !.unsubscribe = unsubscribeCount'])
       ELSE /\ Stop(r)
            /\ UNCHANGED <<unsubscribeCount, unsubscribeRows>>
    /\ UNCHANGED <<signupVars, confirmVars, closedVars, mailVars, purgeVars>>

(* Slip: the unsubscribe link goes into the welcome only.                  *)
SendWithoutLeaving(r) ==
    /\ request[r].pc = "send"
    /\ mails' = mails + 1
    /\ inbox' = [inbox EXCEPT !.confirm = @ \cup {request[r].confirm}]
    /\ Stop(r)
    /\ UNCHANGED <<signupVars, tokenVars, sent, welcomes, purgeVars>>

SendConfirmation(r) ==
    /\ request[r].pc = "send"
    /\ mails' = mails + 1
    /\ inbox' = [confirm |-> inbox.confirm \cup {request[r].confirm},
                 unsubscribe |-> inbox.unsubscribe \cup {request[r].unsubscribe}]
    /\ Stop(r)
    /\ UNCHANGED <<signupVars, tokenVars, sent, welcomes, purgeVars>>

-----------------------------------------------------------------------------
(* POST of the confirmation page.                                          *)
PostConfirm(r, t) ==
    /\ request[r].pc = "idle"
    /\ t \in inbox.confirm \cap confirmRows
    /\ Goto(r, [Idle EXCEPT !.pc = "claim", !.signup = signup, !.confirm = t])
    /\ UNCHANGED <<signupVars, tokenVars, mailVars, purgeVars>>

(* Slip: a link that was used is claimed again.                            *)
ClaimAgain(r) ==
    /\ request[r].pc = "claim"
    /\ IF request[r].confirm \in confirmRows \ (confirmSuperseded \cup confirmExpired)
       THEN /\ confirmUsed' = confirmUsed \cup {request[r].confirm}
            /\ Step(r, "prior")
       ELSE /\ Stop(r)
            /\ UNCHANGED confirmUsed
    /\ UNCHANGED <<signupVars, confirmRows, confirmCount, confirmSuperseded, confirmExpired, confirmLapsed,
                   unsubscribeRows, unsubscribeCount, closedVars, mailVars, purgeVars>>

Claim(r) ==
    /\ request[r].pc = "claim"
    /\ IF request[r].confirm \in Usable
       THEN /\ confirmUsed' = confirmUsed \cup {request[r].confirm}
            /\ Step(r, "prior")
       ELSE /\ Stop(r)
            /\ UNCHANGED confirmUsed
    /\ UNCHANGED <<signupVars, confirmRows, confirmCount, confirmSuperseded, confirmExpired, confirmLapsed,
                   unsubscribeRows, unsubscribeCount, closedVars, mailVars, purgeVars>>

ReadPrior(r) ==
    /\ request[r].pc = "prior"
    /\ Goto(r, [request[r] EXCEPT !.pc = "confirm",
                                  !.prior = IF Present(r) THEN status ELSE "none"])
    /\ UNCHANGED <<signupVars, tokenVars, mailVars, purgeVars>>

(* The age of a stamp that is renewed now.                                 *)
Renewed == IF age = "years" THEN "month" ELSE age

(* The welcome follows whether or not the row was confirmed before.        *)
Confirm(r) ==
    /\ request[r].pc = "confirm"
    /\ IF Present(r) /\ status # "confirmed"
       THEN /\ status' = "confirmed"
            /\ age' = Renewed
            /\ resubscribedAfter' = IF request[r].prior = "unsubscribed"
                                    THEN unsubscribes ELSE resubscribedAfter
       ELSE UNCHANGED <<status, age, resubscribedAfter>>
    /\ Step(r, "welcomeLink")
    /\ UNCHANGED <<signup, signups, unsubscribes, tokenVars, mailVars, purgeVars>>

SendWelcome(r) ==
    /\ request[r].pc = "welcome"
    /\ welcomes' = welcomes + 1
    /\ inbox' = [inbox EXCEPT !.unsubscribe = @ \cup {request[r].unsubscribe}]
    /\ Stop(r)
    /\ UNCHANGED <<signupVars, tokenVars, sent, mails, purgeVars>>

-----------------------------------------------------------------------------
(* POST of the unsubscribe page; module RiderProfile has its last          *)
(* statement, which revokes the profile invitations.                       *)
PostUnsubscribe(r, u) ==
    /\ request[r].pc = "idle"
    /\ u \in inbox.unsubscribe \cap unsubscribeRows
    /\ Goto(r, [Idle EXCEPT !.pc = "unsubscribe", !.signup = signup])
    /\ UNCHANGED <<signupVars, tokenVars, mailVars, purgeVars>>

Unsubscribe(r) ==
    /\ request[r].pc = "unsubscribe"
    /\ IF Present(r)
       THEN /\ unsubscribes < MaxUnsubscribes
            /\ status' = "unsubscribed"
            /\ age' = Renewed
            /\ unsubscribes' = unsubscribes + 1
       ELSE UNCHANGED <<status, age, unsubscribes>>
    /\ Step(r, "close")
    /\ UNCHANGED <<signup, signups, resubscribedAfter, tokenVars, mailVars, purgeVars>>

(* Slip: only the newest confirmation link is closed.                      *)
CloseNewestLink(r) ==
    /\ request[r].pc = "close"
    /\ confirmSuperseded' = confirmSuperseded \cup (Outstanding \cap {confirmCount})
    /\ closedThrough' = confirmCount
    /\ claimedBefore' = confirmUsed
    /\ Stop(r)
    /\ UNCHANGED <<signupVars, confirmRows, confirmCount, confirmUsed, confirmExpired, confirmLapsed,
                   unsubscribeRows, unsubscribeCount, mailVars, purgeVars>>

CloseLinks(r) ==
    /\ request[r].pc = "close"
    /\ IF Present(r)
       THEN /\ confirmSuperseded' = confirmSuperseded \cup Outstanding
            /\ closedThrough' = confirmCount
            /\ claimedBefore' = confirmUsed
       ELSE UNCHANGED <<confirmSuperseded, closedVars>>
    /\ Stop(r)
    /\ UNCHANGED <<signupVars, confirmRows, confirmCount, confirmUsed, confirmExpired, confirmLapsed,
                   unsubscribeRows, unsubscribeCount, mailVars, purgeVars>>

(* A database or provider error, or a Worker that dies, at any await.      *)
Abandon(r) ==
    /\ request[r].pc # "idle"
    /\ Stop(r)
    /\ UNCHANGED <<signupVars, tokenVars, mailVars, purgeVars>>

-----------------------------------------------------------------------------
(* Time.  A confirm token lasts a day; the address falls silent for thirty *)
(* days past that, or for two years after confirming, only while none of   *)
(* its requests is in flight, and then its rate window is a new one.       *)
ConfirmExpires(t) ==
    /\ t \in Usable
    /\ confirmExpired' = confirmExpired \cup {t}
    /\ UNCHANGED <<signupVars, confirmRows, confirmCount, confirmUsed, confirmSuperseded,
                   confirmLapsed, unsubscribeRows, unsubscribeCount, closedVars,
                   mailVars, request, purgeVars>>

Silence(to) ==
    /\ signup # NoId
    /\ jumps < MaxJumps
    /\ \A r \in Requests : request[r] = Idle
    /\ purge.pc = "idle"
    /\ IF to = "years"
       THEN status = "confirmed"
       ELSE age = "new" \/ ~ confirmRows \subseteq confirmLapsed
    /\ age' = IF age = "years" THEN age ELSE to
    /\ jumps' = jumps + 1
    /\ confirmExpired' = confirmExpired \cup confirmRows
    /\ confirmLapsed' = confirmLapsed \cup confirmRows
    /\ sent' = [bucket \in DOMAIN sent |-> 0]
    /\ mails' = 0
    /\ UNCHANGED <<signup, signups, status, unsubscribes, resubscribedAfter, confirmRows,
                   confirmCount, confirmUsed, confirmSuperseded, unsubscribeRows,
                   unsubscribeCount, closedVars, inbox, welcomes, request, purge,
                   purged, crashes>>

-----------------------------------------------------------------------------
(* runRetentionSweep, its purge of signups: select, delete the tokens,     *)
(* delete the signup, which fails on a token that was inserted meanwhile.  *)
PendingDue   == status = "pending" /\ age # "new" /\ confirmRows \subseteq confirmLapsed
ConfirmedDue == status = "confirmed" /\ age = "years"
Due          == signup # NoId /\ (PendingDue \/ ConfirmedDue)

PurgeIdle == [pc |-> "idle", doomed |-> NoId]

PurgeSelect ==
    /\ purge.pc = "idle"
    /\ Due
    /\ purge' = [pc |-> "tokens", doomed |-> signup]
    /\ UNCHANGED <<signupVars, tokenVars, mailVars, request, purged, jumps, crashes>>

(* Slip: the unsubscribe tokens are kept, and the foreign key complains.   *)
PurgeOnlyConfirms ==
    /\ purge.pc = "tokens"
    /\ confirmRows' = {}
    /\ purged' = purge.doomed
    /\ purge' = [purge EXCEPT !.pc = "signup"]
    /\ UNCHANGED <<signupVars, confirmCount, confirmUsed, confirmSuperseded, confirmExpired, confirmLapsed,
                   unsubscribeRows, unsubscribeCount, closedVars, mailVars, request,
                   jumps, crashes>>

PurgeTokens ==
    /\ purge.pc = "tokens"
    /\ confirmRows' = {}
    /\ unsubscribeRows' = {}
    /\ purged' = purge.doomed
    /\ purge' = [purge EXCEPT !.pc = "signup"]
    /\ UNCHANGED <<signupVars, confirmCount, confirmUsed, confirmSuperseded, confirmExpired, confirmLapsed,
                   unsubscribeCount, closedVars, mailVars, request, jumps, crashes>>

PurgeSignup ==
    /\ purge.pc = "signup"
    /\ signup' = IF confirmRows \cup unsubscribeRows = {} THEN NoId ELSE signup
    /\ purge' = PurgeIdle
    /\ UNCHANGED <<signups, status, age, unsubscribes, resubscribedAfter, tokenVars,
                   mailVars, request, purged, jumps, crashes>>

PurgeDies ==
    /\ purge.pc # "idle"
    /\ crashes < MaxCrashes
    /\ crashes' = crashes + 1
    /\ purge' = PurgeIdle
    /\ UNCHANGED <<signupVars, tokenVars, mailVars, request, purged, jumps>>

-----------------------------------------------------------------------------
Init ==
    /\ signup = NoId /\ signups = 0 /\ status = "pending" /\ age = "new"
    /\ unsubscribes = 0 /\ resubscribedAfter = 0
    /\ confirmRows = {} /\ confirmCount = 0 /\ confirmUsed = {}
    /\ confirmSuperseded = {} /\ confirmExpired = {} /\ confirmLapsed = {}
    /\ unsubscribeRows = {} /\ unsubscribeCount = 0
    /\ closedThrough = 0 /\ claimedBefore = {}
    /\ inbox = [confirm |-> {}, unsubscribe |-> {}]
    /\ sent = [client |-> 0, email |-> 0]
    /\ mails = 0 /\ welcomes = 0
    /\ request = [r \in Requests |-> Idle]
    /\ purge = PurgeIdle /\ purged = NoId
    /\ jumps = 0 /\ crashes = 0

JoinStep(r) ==
    \/ Join(r) \/ LimitEmail(r) \/ Lookup(r) \/ InsertSignup(r)
    \/ SupersedeConfirms(r) \/ MintConfirm(r) \/ MintUnsubscribe(r) \/ SendConfirmation(r)

ConfirmStep(r) ==
    \/ \E t \in Confirms : PostConfirm(r, t)
    \/ Claim(r) \/ ReadPrior(r) \/ Confirm(r) \/ SendWelcome(r)

UnsubscribeStep(r) ==
    \/ \E u \in Unsubscribable : PostUnsubscribe(r, u)
    \/ Unsubscribe(r) \/ CloseLinks(r)

TimeStep ==
    \/ \E t \in Confirms : ConfirmExpires(t)
    \/ \E to \in {"month", "years"} : Silence(to)

PurgeStep == PurgeSelect \/ PurgeTokens \/ PurgeSignup \/ PurgeDies

Next ==
    \/ \E r \in Requests :
          JoinStep(r) \/ ConfirmStep(r) \/ UnsubscribeStep(r) \/ Abandon(r)
    \/ TimeStep
    \/ PurgeStep

(* The cron trigger runs the sweep every day; a sweep that started goes on *)
(* unless it dies.  Nothing obliges a rider, or a request, to go on.       *)
Fairness == WF_vars(PurgeSelect) /\ WF_vars(PurgeTokens) /\ WF_vars(PurgeSignup)

Spec == Init /\ [][Next]_vars /\ Fairness

-----------------------------------------------------------------------------
(* Every variable has its type.                                            *)
TypeOK ==
    /\ signup \in {NoId, signups}
    /\ signups \in 0 .. MaxSignups
    /\ status \in {"pending", "confirmed", "unsubscribed"}
    /\ age \in {"new", "month", "years"}
    /\ unsubscribes \in 0 .. MaxUnsubscribes
    /\ resubscribedAfter \in 0 .. unsubscribes
    /\ confirmCount \in 0 .. MaxConfirms
    /\ confirmRows \subseteq 1 .. confirmCount
    /\ confirmUsed \subseteq 1 .. confirmCount
    /\ confirmSuperseded \subseteq 1 .. confirmCount
    /\ confirmLapsed \subseteq confirmExpired
    /\ confirmExpired \subseteq 1 .. confirmCount
    /\ unsubscribeCount \in 0 .. 2 * MaxConfirms
    /\ unsubscribeRows \subseteq 1 .. unsubscribeCount
    /\ closedThrough \in 0 .. confirmCount
    /\ claimedBefore \subseteq confirmUsed
    /\ inbox \in [confirm : SUBSET Confirms, unsubscribe : SUBSET Unsubscribable]
    /\ sent \in [client : 0 .. ClientLimit, email : 0 .. EmailLimit]
    /\ mails \in Nat /\ welcomes \in Nat
    /\ request \in [Requests -> RequestStates]
    /\ purge \in [pc : {"idle", "tokens", "signup"}, doomed : SignupIds \cup {NoId}]
    /\ purged \in SignupIds \cup {NoId}
    /\ jumps \in 0 .. MaxJumps /\ crashes \in 0 .. MaxCrashes

(* No more confirmation emails reach an address in a window than its rate  *)
(* limit, however many joins run at once (waitlist-worker.js 145-151).     *)
MailWithinLimit == mails <= EmailLimit

(* A link is good for one confirmation and one welcome, though the POST    *)
(* reads its row before it claims it (waitlist-worker.js 309-313).         *)
OneWelcomePerLink == welcomes <= Cardinality(confirmUsed)

(* A confirmed rider can always leave: a link in the inbox still resolves, *)
(* unless a purge has taken the tokens (waitlist-tokens.js 28).            *)
ConfirmedCanLeave ==
    signup # NoId /\ status = "confirmed" /\ purged # signup
        => inbox.unsubscribe \cap unsubscribeRows # {}

(* Whoever becomes confirmed after an unsubscribe has closed the links     *)
(* does so through a link inserted later: none of those mailed before      *)
(* confirms any more, also none of several that concurrent joins left      *)
(* valid side by side (waitlist-worker.js 320-323, 373-374).  Excepted is  *)
(* a confirmation that had claimed its link by then, which nothing stops.  *)
RejoinTakesNewerLink ==
    [][status # "confirmed" /\ status' = "confirmed"
          => \E r \in Requests :
                /\ request[r].pc = "confirm" /\ request'[r].pc = "welcomeLink"
                /\ \/ request[r].confirm > closedThrough
                   \/ request[r].confirm \in claimedBefore]_vars

(* What is due for purging is purged or stops being due, although a token  *)
(* inserted meanwhile, or a crash, stops a sweep (waitlist-worker.js       *)
(* 394-404).                                                               *)
PurgeCompletes == Due ~> ~ Due

-----------------------------------------------------------------------------
(* What comments of the code say and the code does not do.                 *)

(* "Rejoining later always requires the signup form and a fresh email      *)
(* confirmation" (waitlist-worker.js 380): not of a rider whose earlier    *)
(* confirmation had claimed its link and not yet written the status.       *)
RejoinAlwaysTakesNewerLink ==
    [][status # "confirmed" /\ status' = "confirmed"
          => \E r \in Requests :
                request[r].pc = "confirm" /\ request[r].confirm > closedThrough]_vars

(* "The history must read unsubscribed-then-resubscribed" (waitlist-       *)
(* worker.js 314-318): whoever is confirmed after an unsubscribe has a     *)
(* resubscribed_at that is later than it.                                  *)
HistoryReadsResubscribed ==
    signup # NoId /\ status = "confirmed" => resubscribedAfter = unsubscribes
===========================================================================
