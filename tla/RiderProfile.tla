--------------------------- MODULE RiderProfile ---------------------------
(***************************************************************************)
(* The rider profile of one wait-list signup: the emailed invitations, the *)
(* edit authorizations they are exchanged for, the stored answers and the  *)
(* append-only consent history, with every request split at the database   *)
(* calls its handler awaits.  A batch() is one transaction and so one      *)
(* step.                                                                   *)
(*                                                                         *)
(* No statement of the code crosses from one signup to another, so one     *)
(* signup is modelled.  Row ids are handed out in insertion order: the id  *)
(* of a row stands for its random id, its digests and its issued_at.       *)
(* Database errors, a Worker that dies and a lost response are all Abandon.*)
(***************************************************************************)
EXTENDS Naturals, Sequences, FiniteSets

CONSTANTS
    Requests,            \* browser requests that may be in flight at once
    Browsers,            \* cookie jars
    BrowserOf,           \* the browser each request comes from
    MaxVersion,          \* consent/notice versions deployed, bound
    MaxInvitations,      \* invitation rows ever inserted, bound
    MaxAuthorizations,   \* authorization rows ever inserted, bound
    MaxBackground,       \* issuances (and unsubscribes) in flight, bound
    MaxStatusChanges,    \* confirmations and unsubscribes together, bound
    MaxSweeps,           \* retention sweeps started, bound
    MaxExpiries          \* rows of either kind that expire, bound

ASSUME ProfileAssumption ==
    /\ BrowserOf \in [Requests -> Browsers]
    /\ MaxVersion \in Nat \ {0}
    /\ MaxInvitations \in Nat
    /\ MaxAuthorizations \in Nat
    /\ MaxBackground \in Nat
    /\ MaxStatusChanges \in Nat
    /\ MaxSweeps \in Nat
    /\ MaxExpiries \in Nat

VARIABLES
    status,              \* waitlist_signups.status
    statusChanges,       \* bounds the model only
    aged,                \* unsubscribed_at is 30 days old
    version,             \* consent and notice versions of the deployed code
    invRows,             \* waitlist_profile_invitations: rows present
    invCount,            \* rows ever inserted
    invUsed, invRevoked, invSuperseded, invExpired,
    authRows,            \* waitlist_profile_edit_authorizations: rows present
    authCount,           \* rows ever inserted
    authInv,             \* invitation_id
    authConsumed, authRevoked, authExpired,
    profile,             \* the waitlist_profiles row
    consent,             \* waitlist_profile_consent_events by event_seq
    withdrawnThrough,    \* history: invitations issued at the last withdrawal
    jar,                 \* PROFILE_COOKIE (and its CSRF twin) per browser
    forms,               \* sessions whose form some tab of a browser shows
    request,             \* browser requests in flight
    issuing,             \* issuances past their confirmed check
    unsubscribing,       \* unsubscribes past their status update
    sweep,               \* the retention sweep
    sweeps               \* bounds the model only

signupVars  == <<status, statusChanges, aged>>
invVars     == <<invRows, invCount, invUsed, invRevoked, invSuperseded, invExpired>>
authVars    == <<authRows, authCount, authInv, authConsumed, authRevoked, authExpired>>
profileVars == <<profile, consent, withdrawnThrough>>
browserVars == <<jar, forms>>
workerVars  == <<issuing, unsubscribing, sweep, sweeps>>

vars == <<signupVars, version, invVars, authVars, profileVars, browserVars,
          request, workerVars>>

Versions       == 1 .. MaxVersion
Invitations    == 1 .. MaxInvitations
Authorizations == 1 .. MaxAuthorizations
NoId           == 0      \* no cookie, no session, no row

NoProfile == [id |-> NoId, by |-> NoId, version |-> 0]

Granted(v)   == [type |-> "granted", version |-> v]
Withdrawn(v) == [type |-> "withdrawn", version |-> v]
ConsentEvents == [type : {"granted", "withdrawn"}, version : Versions]

(***************************************************************************)
(* The validity conditions every statement of the code spells out.         *)
(***************************************************************************)
(* Slip: used_at IS NULL forgotten among the validity conditions.          *)
OutstandingIgnoringUse == invRows \ invRevoked

Outstanding == invRows \ (invUsed \cup invRevoked)
Usable      == Outstanding \ (invSuperseded \cup invExpired)
Live        == authRows \ (authConsumed \cup authRevoked \cup authExpired)

(* resolveEditAuthorization, its first and deciding SELECT.                *)
Resolves(a) ==
    /\ a \in Live
    /\ status = "confirmed"
    /\ authInv[a] \in Usable

(* Slip: any active grant counts, whatever versions it was given under.    *)
ConsentActive(v) ==
    /\ consent # << >>
    /\ consent[Len(consent)].type = "granted"

(* profileConsentState(...).current for the code of version v.             *)
ConsentCurrent(v) ==
    /\ consent # << >>
    /\ consent[Len(consent)] = Granted(v)

(***************************************************************************)
(* Requests.  pc names what the handler does next.  "reply" is a response  *)
(* on its way whose Set-Cookie puts auth in the jar, NoId clearing it.     *)
(***************************************************************************)
Idle == [pc |-> "idle", auth |-> NoId, form |-> NoId, inv |-> NoId,
         version |-> 1, consentRequired |-> FALSE]

Reply(a) == [Idle EXCEPT !.pc = "reply", !.auth = a]

RequestStates ==
    [pc : {"idle", "reuse", "mint", "consent", "save", "withdraw",
           "rejected", "newer", "revoke", "reply"},
     auth : Authorizations \cup {NoId},
     form : Authorizations \cup {NoId},
     inv  : Invitations \cup {NoId},
     version : Versions,
     consentRequired : BOOLEAN]

Goto(r, next) == request' = [request EXCEPT ![r] = next]

(* GET /waitlist/profile/open: the invitation is validated, not consumed.  *)
(* An unknown token is NoId; a POST from another origin, or one that       *)
(* cannot be read, gets the same response.                                 *)
OpenLink(r, i) ==
    /\ request[r].pc = "idle"
    /\ LET cookie == jar[BrowserOf[r]] IN
       Goto(r, IF i \in Usable /\ status = "confirmed"
               THEN [Idle EXCEPT !.pc = IF cookie = NoId THEN "mint" ELSE "reuse",
                                 !.auth = cookie, !.inv = i]
               ELSE Reply(NoId))
    /\ UNCHANGED <<signupVars, version, invVars, authVars, profileVars, browserVars, workerVars>>

(* The browser already holds a session for this invitation: keep it as is. *)
ReuseSession(r) ==
    /\ request[r].pc = "reuse"
    /\ LET a == request[r].auth IN
       Goto(r, IF Resolves(a) /\ authInv[a] = request[r].inv
               THEN Idle
               ELSE [request[r] EXCEPT !.pc = "mint"])
    /\ UNCHANGED <<signupVars, version, invVars, authVars, profileVars, browserVars, workerVars>>

(* INSERT of an independent authorization; siblings are left alone.  The   *)
(* foreign key refuses it once the sweep has deleted the invitation.       *)
MintAuthorization(r) ==
    /\ request[r].pc = "mint"
    /\ authCount < MaxAuthorizations
    /\ request[r].inv \in invRows
    /\ authCount' = authCount + 1
    /\ authRows' = authRows \cup {authCount'}
    /\ authInv' = [authInv EXCEPT ![authCount'] = request[r].inv]
    /\ Goto(r, Reply(authCount'))
    /\ UNCHANGED <<authConsumed, authRevoked, authExpired>>
    /\ UNCHANGED <<signupVars, version, invVars, profileVars, browserVars, workerVars>>

(* GET of the form (or of the delete page): rendered with the CSRF twin of *)
(* the session cookie, or the unavailable page, which clears both.         *)
ShowForm(r) ==
    /\ request[r].pc = "idle"
    /\ LET b == BrowserOf[r] IN
       IF Resolves(jar[b])
       THEN /\ forms' = [forms EXCEPT ![b] = @ \cup {jar[b]}]
            /\ UNCHANGED request
       ELSE /\ Goto(r, Reply(NoId))
            /\ UNCHANGED forms
    /\ UNCHANGED <<signupVars, version, invVars, authVars, profileVars, jar, workerVars>>

(***************************************************************************)
(* POST /waitlist/profile and POST /waitlist/profile/delete.  A tab sends  *)
(* its own form's CSRF value with the cookie its browser holds now.  The   *)
(* first await reads the authorization; a session that does not resolve    *)
(* and a CSRF value of another session both go to the rejection path.  A   *)
(* value that belongs to no session at all is NoId.                        *)
(***************************************************************************)
Submit(r, f, kind) ==
    /\ request[r].pc = "idle"
    /\ f \in forms[BrowserOf[r]] \cup {NoId}
    /\ LET a == jar[BrowserOf[r]]
           sent == [Idle EXCEPT !.auth = a, !.form = f, !.version = version] IN
       Goto(r, IF Resolves(a) /\ f = a
               THEN [sent EXCEPT !.pc = kind]
               ELSE [sent EXCEPT !.pc = "rejected"])
    /\ UNCHANGED <<signupVars, version, invVars, authVars, profileVars, browserVars, workerVars>>

SubmitSave(r, f)     == Submit(r, f, "consent")
SubmitWithdraw(r, f) == Submit(r, f, "withdraw")

(* Slip: any consent history counts, even one that ends in a withdrawal.   *)
ReadConsentHistory(r) ==
    /\ request[r].pc = "consent"
    /\ Goto(r, [request[r] EXCEPT
                    !.pc = "save",
                    !.consentRequired = (consent = << >>)])
    /\ UNCHANGED <<signupVars, version, invVars, authVars, profileVars, browserVars, workerVars>>

(* The consent state is read after the authorization and before the batch. *)
ReadConsent(r) ==
    /\ request[r].pc = "consent"
    /\ Goto(r, [request[r] EXCEPT
                    !.pc = "save",
                    !.consentRequired = ~ ConsentCurrent(request[r].version)])
    /\ UNCHANGED <<signupVars, version, invVars, authVars, profileVars, browserVars, workerVars>>

(* validatedPayload threw (an answer out of range, or a consent that is    *)
(* due and not ticked): nothing is written and the form is shown again.    *)
InvalidPayload(r) ==
    /\ request[r].pc = "save"
    /\ LET a == request[r].auth IN
       IF Resolves(a)
       THEN /\ forms' = [forms EXCEPT ![BrowserOf[r]] = @ \cup {a}]
            /\ Goto(r, Idle)
       ELSE /\ Goto(r, Reply(NoId))
            /\ UNCHANGED forms
    /\ UNCHANGED <<signupVars, version, invVars, authVars, profileVars, jar, workerVars>>

(***************************************************************************)
(* The two mutations.  Statement 1 of each batch claims the authorization; *)
(* every later statement is conditional on that claim, so a lost claim     *)
(* writes nothing and the request is rejected.                             *)
(***************************************************************************)
(* Slip: the save's claim does not look at the signup again.               *)
SaveClaimsAnyStatus(a) == a \in Live /\ authInv[a] \in Usable

SaveClaims(a)     == Resolves(a)
WithdrawClaims(a) == a \in Live /\ status = "confirmed"

ClaimLost(r) ==
    /\ Goto(r, [request[r] EXCEPT !.pc = "rejected", !.consentRequired = FALSE])
    /\ UNCHANGED <<invVars, authVars, profileVars>>

(* Rows of the authorizations that are neither spent nor revoked, but a.   *)
Siblings(a) == (authRows \ (authConsumed \cup authRevoked)) \ {a}

SaveBatch(r) ==
    /\ request[r].pc = "save"
    /\ LET a == request[r].auth
           v == request[r].version IN
       IF SaveClaims(a)
       THEN /\ authConsumed' = authConsumed \cup {a}
            /\ profile' = [id |-> IF profile = NoProfile THEN a ELSE profile.id,
                           by |-> a, version |-> v]
            /\ invUsed' = invUsed \cup {authInv[a]}
            /\ authRevoked' = authRevoked \cup
                   {s \in Siblings(a) : authInv[s] = authInv[a]}
            /\ consent' = IF request[r].consentRequired
                          THEN Append(consent, Granted(v))
                          ELSE consent
            /\ Goto(r, Reply(NoId))
            /\ UNCHANGED <<withdrawnThrough, invRows, invCount, invRevoked, invSuperseded,
                           invExpired, authRows, authCount, authInv, authExpired>>
       ELSE ClaimLost(r)
    /\ UNCHANGED <<signupVars, version, browserVars, workerVars>>

(* Slip: a withdrawal leaves the invitation it came through usable.        *)
WithdrawKeepsInvitations(r) ==
    /\ request[r].pc = "withdraw"
    /\ LET a == request[r].auth IN
       IF WithdrawClaims(a)
       THEN /\ authConsumed' = authConsumed \cup {a}
            /\ profile' = NoProfile
            /\ consent' = Append(consent, Withdrawn(request[r].version))
            /\ authRevoked' = authRevoked \cup Siblings(a)
            /\ withdrawnThrough' = invCount
            /\ Goto(r, Reply(NoId))
            /\ UNCHANGED <<invVars, authRows, authCount, authInv, authExpired>>
       ELSE ClaimLost(r)
    /\ UNCHANGED <<signupVars, version, browserVars, workerVars>>

(* Slip: the evidence names the versions of the answers that are deleted,  *)
(* an empty text if there are none, and not those in force.                *)
WithdrawNamesAnswers(r) ==
    /\ request[r].pc = "withdraw"
    /\ LET a == request[r].auth IN
       IF WithdrawClaims(a)
       THEN /\ authConsumed' = authConsumed \cup {a}
            /\ profile' = NoProfile
            /\ consent' = Append(consent, Withdrawn(profile.version))
            /\ invRevoked' = invRevoked \cup Outstanding
            /\ authRevoked' = authRevoked \cup Siblings(a)
            /\ withdrawnThrough' = invCount
            /\ Goto(r, Reply(NoId))
            /\ UNCHANGED <<invRows, invCount, invUsed, invSuperseded, invExpired,
                           authRows, authCount, authInv, authExpired>>
       ELSE ClaimLost(r)
    /\ UNCHANGED <<signupVars, version, browserVars, workerVars>>

WithdrawBatch(r) ==
    /\ request[r].pc = "withdraw"
    /\ LET a == request[r].auth IN
       IF WithdrawClaims(a)
       THEN /\ authConsumed' = authConsumed \cup {a}
            /\ profile' = NoProfile
            /\ consent' = Append(consent, Withdrawn(request[r].version))
            /\ invRevoked' = invRevoked \cup Outstanding
            /\ authRevoked' = authRevoked \cup Siblings(a)
            /\ withdrawnThrough' = invCount
            /\ Goto(r, Reply(NoId))
            /\ UNCHANGED <<invRows, invCount, invUsed, invSuperseded, invExpired,
                           authRows, authCount, authInv, authExpired>>
       ELSE ClaimLost(r)
    /\ UNCHANGED <<signupVars, version, browserVars, workerVars>>

(***************************************************************************)
(* The rejection path: isSupersededSubmission, two reads, and unless it    *)
(* recognises a replaced session, revokeEditAuthorization of the cookie    *)
(* the request carried.                                                    *)
(***************************************************************************)
ReadStale(r) ==
    /\ request[r].pc = "rejected"
    /\ Goto(r, [request[r] EXCEPT
                    !.pc = IF request[r].form \in authRows \cap authRevoked
                           THEN "newer" ELSE "revoke"])
    /\ UNCHANGED <<signupVars, version, invVars, authVars, profileVars, browserVars, workerVars>>

(* issued_at has whole seconds, so an older session may tie with f.        *)
NewerSession(f, tie) ==
    \E a \in authRows \ {f} :
        /\ authInv[a] = authInv[f]
        /\ a > f \/ tie
        /\ a \notin authRevoked \/ a \in authConsumed

ReadNewer(r) ==
    /\ request[r].pc = "newer"
    /\ \E tie \in BOOLEAN :
           Goto(r, IF NewerSession(request[r].form, tie)
                   THEN Idle
                   ELSE [request[r] EXCEPT !.pc = "revoke"])
    /\ UNCHANGED <<signupVars, version, invVars, authVars, profileVars, browserVars, workerVars>>

RevokeSession(r) ==
    /\ request[r].pc = "revoke"
    /\ authRevoked' = authRevoked \cup
           ({request[r].auth} \cap (authRows \ authConsumed))
    /\ Goto(r, Reply(NoId))
    /\ UNCHANGED <<authRows, authCount, authInv, authConsumed, authExpired>>
    /\ UNCHANGED <<signupVars, version, invVars, profileVars, browserVars, workerVars>>

(***************************************************************************)
(* Responses, failures, cookies.                                           *)
(***************************************************************************)
Deliver(r) ==
    /\ request[r].pc = "reply"
    /\ jar' = [jar EXCEPT ![BrowserOf[r]] = request[r].auth]
    /\ Goto(r, Idle)
    /\ UNCHANGED <<signupVars, version, invVars, authVars, profileVars, forms, workerVars>>

Abandon(r) ==
    /\ request[r].pc # "idle"
    /\ Goto(r, Idle)
    /\ UNCHANGED <<signupVars, version, invVars, authVars, profileVars, browserVars, workerVars>>

CookieExpires(b) ==
    /\ jar[b] \in authExpired
    /\ jar' = [jar EXCEPT ![b] = NoId]
    /\ UNCHANGED <<signupVars, version, invVars, authVars, profileVars, forms, request, workerVars>>

(***************************************************************************)
(* issueProfileInvitation: the confirmed check, then one batch inserting   *)
(* the new invitation and superseding every other.  The channels are those *)
(* of the deployed Worker, which the unique index never refuses.           *)
(***************************************************************************)
StartIssue ==
    /\ status = "confirmed"
    /\ issuing < MaxBackground
    /\ issuing' = issuing + 1
    /\ UNCHANGED <<signupVars, version, invVars, authVars, profileVars, browserVars,
                   request, unsubscribing, sweep, sweeps>>

(* Slip: the new invitation is inserted without superseding the others.    *)
IssueWithoutSuperseding ==
    /\ issuing > 0
    /\ invCount < MaxInvitations
    /\ invCount' = invCount + 1
    /\ invRows' = invRows \cup {invCount'}
    /\ issuing' = issuing - 1
    /\ UNCHANGED <<invUsed, invRevoked, invSuperseded, invExpired>>
    /\ UNCHANGED <<signupVars, version, authVars, profileVars, browserVars,
                   request, unsubscribing, sweep, sweeps>>

IssueBatch ==
    /\ issuing > 0
    /\ invCount < MaxInvitations
    /\ invCount' = invCount + 1
    /\ invRows' = invRows \cup {invCount'}
    /\ invSuperseded' = invSuperseded \cup Outstanding
    /\ issuing' = issuing - 1
    /\ UNCHANGED <<invUsed, invRevoked, invExpired>>
    /\ UNCHANGED <<signupVars, version, authVars, profileVars, browserVars,
                   request, unsubscribing, sweep, sweeps>>

IssueFails ==
    /\ issuing > 0
    /\ issuing' = issuing - 1
    /\ UNCHANGED <<signupVars, version, invVars, authVars, profileVars, browserVars,
                   request, unsubscribing, sweep, sweeps>>

(***************************************************************************)
(* The signup's own status: a confirmed email (module WaitlistSignup has   *)
(* the protocol) and an unsubscribe, whose revocation of the invitations   *)
(* is a later statement than its status update.                            *)
(***************************************************************************)
ConfirmSignup ==
    /\ status # "confirmed"
    /\ statusChanges < MaxStatusChanges
    /\ status' = "confirmed"
    /\ statusChanges' = statusChanges + 1
    /\ UNCHANGED <<aged, version, invVars, authVars, profileVars, browserVars, request, workerVars>>

Unsubscribe ==
    /\ statusChanges < MaxStatusChanges
    /\ unsubscribing < MaxBackground
    /\ status' = "unsubscribed"
    /\ statusChanges' = statusChanges + 1
    /\ aged' = FALSE
    /\ unsubscribing' = unsubscribing + 1
    /\ UNCHANGED <<version, invVars, authVars, profileVars, browserVars, request, issuing, sweep, sweeps>>

RevokeProfileInvitations ==
    /\ unsubscribing > 0
    /\ invRevoked' = invRevoked \cup Outstanding
    /\ unsubscribing' = unsubscribing - 1
    /\ UNCHANGED <<invRows, invCount, invUsed, invSuperseded, invExpired>>
    /\ UNCHANGED <<signupVars, version, authVars, profileVars, browserVars,
                   request, issuing, sweep, sweeps>>

UnsubscribeDies ==
    /\ unsubscribing > 0
    /\ unsubscribing' = unsubscribing - 1
    /\ UNCHANGED <<signupVars, version, invVars, authVars, profileVars, browserVars,
                   request, issuing, sweep, sweeps>>

(***************************************************************************)
(* The clock, and a deployment that raises the versions in force.  A row   *)
(* that can no longer be used is not aged further: nothing would tell.     *)
(***************************************************************************)
MayExpire == Cardinality(invExpired) + Cardinality(authExpired) < MaxExpiries

InvitationExpires(i) ==
    /\ i \in Usable
    /\ MayExpire
    /\ invExpired' = invExpired \cup {i}
    /\ UNCHANGED <<invRows, invCount, invUsed, invRevoked, invSuperseded>>
    /\ UNCHANGED <<signupVars, version, authVars, profileVars, browserVars, request, workerVars>>

AuthorizationExpires(a) ==
    /\ a \in Live
    /\ MayExpire
    /\ authExpired' = authExpired \cup {a}
    /\ UNCHANGED <<authRows, authCount, authInv, authConsumed, authRevoked>>
    /\ UNCHANGED <<signupVars, version, invVars, profileVars, browserVars, request, workerVars>>

ThirtyDaysPass ==
    /\ status = "unsubscribed"
    /\ ~ aged
    /\ aged' = TRUE
    /\ UNCHANGED <<status, statusChanges, version, invVars, authVars, profileVars,
                   browserVars, request, workerVars>>

Deploy ==
    /\ version < MaxVersion
    /\ version' = version + 1
    /\ UNCHANGED <<signupVars, invVars, authVars, profileVars, browserVars, request, workerVars>>

(***************************************************************************)
(* sweepProfileRetention: select the doomed profile, delete it by its id,  *)
(* delete the invitations (their sessions cascade), delete spent sessions. *)
(***************************************************************************)
SweepIdle   == [pc |-> "idle", doomed |-> NoId]
RetentionDue == status = "unsubscribed" /\ aged

SweepSelect ==
    /\ sweep.pc = "idle"
    /\ sweeps < MaxSweeps
    /\ sweeps' = sweeps + 1
    /\ sweep' = IF RetentionDue /\ profile # NoProfile
                THEN [pc |-> "profile", doomed |-> profile.id]
                ELSE [pc |-> "invitations", doomed |-> NoId]
    /\ UNCHANGED <<signupVars, version, invVars, authVars, profileVars, browserVars,
                   request, issuing, unsubscribing>>

SweepProfile ==
    /\ sweep.pc = "profile"
    /\ profile' = IF profile.id = sweep.doomed THEN NoProfile ELSE profile
    /\ sweep' = [pc |-> "invitations", doomed |-> NoId]
    /\ UNCHANGED <<consent, withdrawnThrough>>
    /\ UNCHANGED <<signupVars, version, invVars, authVars, browserVars,
                   request, issuing, unsubscribing, sweeps>>

SweepInvitations ==
    /\ sweep.pc = "invitations"
    /\ invRows'  = IF RetentionDue THEN {} ELSE invRows
    /\ authRows' = IF RetentionDue THEN {} ELSE authRows
    /\ sweep' = [pc |-> "authorizations", doomed |-> NoId]
    /\ UNCHANGED <<invCount, invUsed, invRevoked, invSuperseded, invExpired,
                   authCount, authInv, authConsumed, authRevoked, authExpired>>
    /\ UNCHANGED <<signupVars, version, profileVars, browserVars,
                   request, issuing, unsubscribing, sweeps>>

SweepAuthorizations ==
    /\ sweep.pc = "authorizations"
    /\ authRows' = Live
    /\ sweep' = SweepIdle
    /\ UNCHANGED <<authCount, authInv, authConsumed, authRevoked, authExpired>>
    /\ UNCHANGED <<signupVars, version, invVars, profileVars, browserVars,
                   request, issuing, unsubscribing, sweeps>>

SweepFails ==
    /\ sweep # SweepIdle
    /\ sweep' = SweepIdle
    /\ UNCHANGED <<signupVars, version, invVars, authVars, profileVars, browserVars,
                   request, issuing, unsubscribing, sweeps>>

-----------------------------------------------------------------------------
Init ==
    /\ status = "pending" /\ statusChanges = 0 /\ aged = FALSE
    /\ version = 1
    /\ invRows = {} /\ invCount = 0
    /\ invUsed = {} /\ invRevoked = {} /\ invSuperseded = {} /\ invExpired = {}
    /\ authRows = {} /\ authCount = 0 /\ authInv = [a \in Authorizations |-> NoId]
    /\ authConsumed = {} /\ authRevoked = {} /\ authExpired = {}
    /\ profile = NoProfile /\ consent = << >> /\ withdrawnThrough = 0
    /\ jar = [b \in Browsers |-> NoId]
    /\ forms = [b \in Browsers |-> {}]
    /\ request = [r \in Requests |-> Idle]
    /\ issuing = 0 /\ unsubscribing = 0
    /\ sweep = SweepIdle /\ sweeps = 0

RiderStep(r) ==
    \/ \E i \in 0 .. invCount : OpenLink(r, i)
    \/ ShowForm(r)
    \/ \E f \in Authorizations \cup {NoId} : SubmitSave(r, f) \/ SubmitWithdraw(r, f)

HandlerStep(r) ==
    \/ ReuseSession(r) \/ MintAuthorization(r)
    \/ ReadConsent(r) \/ InvalidPayload(r) \/ SaveBatch(r) \/ WithdrawBatch(r)
    \/ ReadStale(r) \/ ReadNewer(r) \/ RevokeSession(r)
    \/ Deliver(r) \/ Abandon(r)

SignupStep ==
    \/ StartIssue \/ IssueBatch \/ IssueFails
    \/ ConfirmSignup \/ Unsubscribe \/ RevokeProfileInvitations \/ UnsubscribeDies

ClockStep ==
    \/ \E i \in Invitations : InvitationExpires(i)
    \/ \E a \in Authorizations : AuthorizationExpires(a)
    \/ \E b \in Browsers : CookieExpires(b)
    \/ ThirtyDaysPass \/ Deploy

SweepStep ==
    \/ SweepSelect \/ SweepProfile \/ SweepInvitations \/ SweepAuthorizations
    \/ SweepFails

Next ==
    \/ \E r \in Requests : RiderStep(r) \/ HandlerStep(r)
    \/ SignupStep
    \/ ClockStep
    \/ SweepStep

Spec == Init /\ [][Next]_vars

-----------------------------------------------------------------------------
(* Every variable has its type: ids never exceed the rows ever inserted,   *)
(* and each consent event names versions that were deployed.               *)
TypeOK ==
    /\ status \in {"pending", "confirmed", "unsubscribed"}
    /\ statusChanges \in 0 .. MaxStatusChanges
    /\ aged \in BOOLEAN
    /\ version \in Versions
    /\ invCount \in 0 .. MaxInvitations
    /\ invRows \subseteq 1 .. invCount
    /\ invUsed \subseteq 1 .. invCount
    /\ invRevoked \subseteq 1 .. invCount
    /\ invSuperseded \subseteq 1 .. invCount
    /\ invExpired \subseteq 1 .. invCount
    /\ authCount \in 0 .. MaxAuthorizations
    /\ authRows \subseteq 1 .. authCount
    /\ authConsumed \subseteq 1 .. authCount
    /\ authRevoked \subseteq 1 .. authCount
    /\ authExpired \subseteq 1 .. authCount
    /\ authInv \in [Authorizations -> Invitations \cup {NoId}]
    /\ profile \in [id : Authorizations \cup {NoId}, by : Authorizations \cup {NoId},
                    version : Versions \cup {0}]
    /\ consent \in Seq(ConsentEvents)
    /\ withdrawnThrough \in 0 .. invCount
    /\ jar \in [Browsers -> Authorizations \cup {NoId}]
    /\ forms \in [Browsers -> SUBSET Authorizations]
    /\ request \in [Requests -> RequestStates]
    /\ issuing \in 0 .. MaxBackground
    /\ unsubscribing \in 0 .. MaxBackground
    /\ sweep \in [pc : {"idle", "profile", "invitations", "authorizations"},
                  doomed : Authorizations \cup {NoId}]
    /\ sweeps \in 0 .. MaxSweeps

(* "At most one successful profile mutation per invitation": whatever      *)
(* sessions coexist for a link, saves and withdrawals through them succeed *)
(* once (waitlist-profile-auth.js 6-13).                                   *)
OneMutationPerInvitation ==
    \A a, b \in authConsumed : authInv[a] = authInv[b] => a = b

(* However issuances, withdrawals, unsubscribes and sweeps interleave, the *)
(* only link that can still be usable is the last one issued, so a rider   *)
(* never has two (waitlist-profile-service.js 140-146).                    *)
OnlyNewestInvitationUsable == Usable \subseteq {invCount}

(* Stored answers are always covered by consent: the latest consent event  *)
(* is a grant, under the very versions the answers were saved under, even  *)
(* though the save reads the consent state before its transaction          *)
(* (waitlist-profile-auth.js 219, 268-277).                                *)
ConsentCoversProfile ==
    profile # NoProfile =>
        /\ consent # << >>
        /\ consent[Len(consent)] = Granted(profile.version)

(* A withdrawal is final: no link handed out before it, and no form opened *)
(* from such a link, can ever put answers back.                            *)
WithdrawalIsFinal == profile # NoProfile => authInv[profile.by] > withdrawnThrough

(* Why the four invariants above hold: what the sessions, the links and    *)
(* the requests between two database calls owe each other.  Inductive      *)
(* together with TypeOK (module RiderProfileProofs).                       *)
SessionsHaveLinks == \A a \in authRows : authInv[a] \in invRows

SpentSessionsSpendLinks ==
    \A a \in authConsumed : authInv[a] \in invUsed \cup invRevoked

LinksPostdateWithdrawal == \A i \in Outstanding : i > withdrawnThrough

AnswersNameTheirSave ==
    profile # NoProfile => profile.by \in authConsumed /\ profile.version \in Versions

Mutating(r) == request[r].pc \in {"consent", "save", "withdraw"}

RequestInv(r) ==
    LET a == request[r].auth IN
    /\ Mutating(r) => a \in 1 .. authCount
    /\ request[r].pc = "withdraw" /\ a \in Live =>
           \A b \in authConsumed : authInv[b] # authInv[a]
    /\ request[r].pc = "save" /\ a \in Live /\ authInv[a] \in Usable =>
           request[r].consentRequired = ~ ConsentCurrent(request[r].version)

ProfileInv ==
    /\ Outstanding \ invSuperseded \subseteq {invCount}
    /\ SessionsHaveLinks
    /\ SpentSessionsSpendLinks
    /\ LinksPostdateWithdrawal
    /\ AnswersNameTheirSave
    /\ OneMutationPerInvitation
    /\ ConsentCoversProfile
    /\ WithdrawalIsFinal
    /\ \A r \in Requests : RequestInv(r)

(* Answers and consent are written only in an instant at which the signup  *)
(* is confirmed, whatever was true when the request was validated.         *)
NothingWrittenUnlessConfirmed ==
    [][consent' # consent \/ profile' \notin {profile, NoProfile}
       => status = "confirmed"]_vars

(* Reading consent early and writing it in the batch is indistinguishable  *)
(* from deciding both in one step: the promise of ProfileConsent.          *)
Promise == INSTANCE ProfileConsent WITH answers <- profile.version

ImplementsPromise == Promise!AbstractSpec

-----------------------------------------------------------------------------
(* What comments of the code say and the code does not do.                 *)

(* "A stale tab sends the browser's CURRENT cookie with its OWN older CSRF *)
(* value ... leave the live authorization alone" (waitlist-worker.js       *)
(* 725-728): a submit from a form this Worker rendered never revokes a     *)
(* session that could still save.                                          *)
StaleTabSparesLiveSession ==
    [][\A r \in Requests :
         /\ request[r].pc = "revoke"
         /\ request[r].form # NoId
         /\ authRevoked' # authRevoked
         => ~ Resolves(request[r].auth)]_vars

(* "Profile data lives while its record is active"                         *)
(* (waitlist-profile-service.js 269): retention never deletes the answers  *)
(* of a confirmed rider.                                                   *)
SweepSparesActiveRider ==
    [][profile # NoProfile /\ profile' = NoProfile /\ consent' = consent
       => status # "confirmed"]_vars
===========================================================================
