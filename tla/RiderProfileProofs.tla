------------------------ MODULE RiderProfileProofs ------------------------
(***************************************************************************)
(* Theorems about RiderProfile, for every number of requests and browsers  *)
(* and every value of the bounds.                                          *)
(***************************************************************************)
EXTENDS RiderProfile, SequenceTheorems, TLAPS

(* The groups only abbreviate the UNCHANGED conjuncts of the actions.       *)
USE DEF signupVars, invVars, authVars, profileVars, browserVars, workerVars

-----------------------------------------------------------------------------
(* The type invariant.                                                     *)

(* The states a handler leaves its request in are request states.          *)
LEMMA IdleIsState == Idle \in RequestStates
  BY ProfileAssumption DEF Idle, RequestStates, Versions, NoId

LEMMA ReplyIsState ==
    ASSUME NEW a \in Authorizations \cup {NoId}
    PROVE  Reply(a) \in RequestStates
  BY IdleIsState DEF Reply, RequestStates

LEMMA GotoKeepsType ==
    ASSUME request \in [Requests -> RequestStates],
           NEW r \in Requests, NEW next \in RequestStates, Goto(r, next)
    PROVE  request' \in [Requests -> RequestStates]
  BY DEF Goto

LEMMA TypeInit == Init => TypeOK
  <1> SUFFICES ASSUME Init PROVE TypeOK
    OBVIOUS
  <1>1. request \in [Requests -> RequestStates]
    BY IdleIsState DEF Init
  <1>2. /\ consent \in Seq(ConsentEvents)
        /\ version \in Versions
    BY ProfileAssumption DEF Init, Versions
  <1>3. /\ authInv \in [Authorizations -> Invitations \cup {NoId}]
        /\ jar \in [Browsers -> Authorizations \cup {NoId}]
        /\ forms \in [Browsers -> SUBSET Authorizations]
        /\ profile \in [id : Authorizations \cup {NoId}, by : Authorizations \cup {NoId},
                         version : Versions \cup {0}]
        /\ sweep \in [pc : {"idle", "profile", "invitations", "authorizations"},
                       doomed : Authorizations \cup {NoId}]
    BY DEF Init, NoProfile, SweepIdle
  <1>4. /\ statusChanges \in 0 .. MaxStatusChanges
        /\ invCount \in 0 .. MaxInvitations
        /\ authCount \in 0 .. MaxAuthorizations
        /\ withdrawnThrough \in 0 .. invCount
        /\ issuing \in 0 .. MaxBackground
        /\ unsubscribing \in 0 .. MaxBackground
        /\ sweeps \in 0 .. MaxSweeps
    BY ProfileAssumption DEF Init
  <1> QED
    BY <1>1, <1>2, <1>3, <1>4 DEF Init, TypeOK

LEMMA TypeOpenLink ==
    ASSUME TypeOK, NEW r \in Requests, NEW i \in 0 .. invCount, OpenLink(r, i)
    PROVE  TypeOK'
  <1>1. /\ r \in DOMAIN request
        /\ jar[BrowserOf[r]] \in Authorizations \cup {NoId}
        /\ i \in Invitations \cup {NoId}
    BY ProfileAssumption DEF TypeOK, Invitations, NoId
  <1> DEFINE cookie == jar[BrowserOf[r]]
             next == IF i \in Usable /\ status = "confirmed"
               THEN [Idle EXCEPT !.pc = IF cookie = NoId THEN "mint" ELSE "reuse",
                                 !.auth = cookie, !.inv = i]
               ELSE Reply(NoId)
  <1>2. next \in RequestStates
    BY <1>1, ReplyIsState, IdleIsState DEF RequestStates
  <1>3. Goto(r, next)
    BY DEF OpenLink
  <1>4. request' \in [Requests -> RequestStates]
    BY <1>2, <1>3, GotoKeepsType DEF TypeOK
  <1> QED
    BY <1>4 DEF TypeOK, OpenLink

LEMMA TypeMintAuthorization ==
    ASSUME TypeOK, NEW r \in Requests, MintAuthorization(r)
    PROVE  TypeOK'
  <1>1. authCount' \in Authorizations
    BY ProfileAssumption DEF TypeOK, MintAuthorization, Authorizations
  <1>2. Reply(authCount') \in RequestStates
    BY <1>1, ReplyIsState
  <1>3. request' \in [Requests -> RequestStates]
    BY <1>2, GotoKeepsType DEF TypeOK, MintAuthorization
  <1>4. authInv' \in [Authorizations -> Invitations \cup {NoId}]
    BY <1>1 DEF TypeOK, MintAuthorization, RequestStates
  <1>5. 1 .. authCount \subseteq 1 .. authCount'
    BY DEF TypeOK, MintAuthorization
  <1> QED
    BY <1>1, <1>3, <1>4, <1>5 DEF TypeOK, MintAuthorization, Authorizations

LEMMA TypeSaveBatch ==
    ASSUME TypeOK, NEW r \in Requests, SaveBatch(r)
    PROVE  TypeOK'
  <1> DEFINE a == request[r].auth
             v == request[r].version
  <1>1. /\ request[r] \in RequestStates
        /\ a \in Authorizations \cup {NoId}
        /\ v \in Versions
    BY DEF TypeOK, RequestStates
  <1>2. CASE SaveClaims(a)
    <2>1. a \in 1 .. authCount /\ authInv[a] \in 1 .. invCount
      BY <1>2 DEF SaveClaims, Resolves, Live, Usable, Outstanding, TypeOK
    <2>2. request' \in [Requests -> RequestStates]
      BY <1>2, ReplyIsState, GotoKeepsType DEF TypeOK, SaveBatch
    <2>3. consent' \in Seq(ConsentEvents)
      <3>1. Granted(v) \in ConsentEvents
        BY <1>1 DEF Granted, ConsentEvents
      <3>2. Append(consent, Granted(v)) \in Seq(ConsentEvents)
        BY <3>1, AppendProperties DEF TypeOK
      <3> QED
        BY <1>2, <3>2 DEF TypeOK, SaveBatch
    <2>4. profile' \in [id : Authorizations \cup {NoId}, by : Authorizations \cup {NoId},
                        version : Versions \cup {0}]
      BY <1>1, <1>2 DEF TypeOK, SaveBatch
    <2> QED
      BY <1>2, <2>1, <2>2, <2>3, <2>4
      DEF TypeOK, SaveBatch, Siblings
  <1>3. CASE ~ SaveClaims(a)
    <2>1. [request[r] EXCEPT !.pc = "rejected", !.consentRequired = FALSE] \in RequestStates
      BY <1>1 DEF RequestStates
    <2>2. request' \in [Requests -> RequestStates]
      BY <1>3, <2>1, GotoKeepsType DEF TypeOK, SaveBatch, ClaimLost
    <2> QED
      BY <1>3, <2>2
      DEF TypeOK, SaveBatch, ClaimLost
  <1> QED BY <1>2, <1>3

LEMMA TypeWithdrawBatch ==
    ASSUME TypeOK, NEW r \in Requests, WithdrawBatch(r)
    PROVE  TypeOK'
  <1> DEFINE a == request[r].auth
             v == request[r].version
  <1>1. /\ request[r] \in RequestStates
        /\ a \in Authorizations \cup {NoId}
        /\ v \in Versions
    BY DEF TypeOK, RequestStates
  <1>2. CASE WithdrawClaims(a)
    <2>1. a \in 1 .. authCount
      BY <1>2 DEF WithdrawClaims, Live, TypeOK
    <2>2. request' \in [Requests -> RequestStates]
      BY <1>2, ReplyIsState, GotoKeepsType DEF TypeOK, WithdrawBatch, NoId
    <2>3. consent' \in Seq(ConsentEvents)
      <3>1. Withdrawn(v) \in ConsentEvents
        BY <1>1 DEF Withdrawn, ConsentEvents
      <3>2. Append(consent, Withdrawn(v)) \in Seq(ConsentEvents)
        BY <3>1, AppendProperties DEF TypeOK
      <3> QED
        BY <1>2, <3>2 DEF WithdrawBatch
    <2>4. profile' \in [id : Authorizations \cup {NoId}, by : Authorizations \cup {NoId},
                        version : Versions \cup {0}]
      BY <1>2 DEF WithdrawBatch, NoProfile
    <2>5. withdrawnThrough' \in 0 .. invCount'
      BY <1>2 DEF TypeOK, WithdrawBatch
    <2> QED
      BY <1>2, <2>1, <2>2, <2>3, <2>4, <2>5
      DEF TypeOK, WithdrawBatch, Siblings, Outstanding
  <1>3. CASE ~ WithdrawClaims(a)
    <2>1. [request[r] EXCEPT !.pc = "rejected", !.consentRequired = FALSE] \in RequestStates
      BY <1>1 DEF RequestStates
    <2>2. request' \in [Requests -> RequestStates]
      BY <1>3, <2>1, GotoKeepsType DEF TypeOK, WithdrawBatch, ClaimLost
    <2> QED
      BY <1>3, <2>2 DEF TypeOK, WithdrawBatch, ClaimLost
  <1> QED BY <1>2, <1>3

(* The other steps of a request move it, and at most grow one of the sets  *)
(* of forms, revoked sessions and cookies.                                 *)
LEMMA TypeSubmit ==
    ASSUME TypeOK, NEW r \in Requests, NEW f \in Authorizations \cup {NoId},
           NEW kind \in {"consent", "withdraw"}, Submit(r, f, kind)
    PROVE  TypeOK'
  <1> DEFINE a == jar[BrowserOf[r]]
             sent == [Idle EXCEPT !.auth = a, !.form = f, !.version = version]
             next == IF Resolves(a) /\ f = a
                     THEN [sent EXCEPT !.pc = kind]
                     ELSE [sent EXCEPT !.pc = "rejected"]
  <1>1. a \in Authorizations \cup {NoId} /\ version \in Versions
    BY ProfileAssumption DEF TypeOK
  <1>2. sent \in RequestStates
    BY <1>1, IdleIsState DEF RequestStates
  <1>3. next \in RequestStates
    BY <1>2 DEF RequestStates
  <1>4. request' \in [Requests -> RequestStates]
    BY <1>3, GotoKeepsType DEF TypeOK, Submit
  <1> QED
    BY <1>4 DEF TypeOK, Submit

LEMMA TypeRead ==
    ASSUME TypeOK, NEW r \in Requests,
           ReuseSession(r) \/ ReadConsent(r) \/ ReadStale(r) \/ ReadNewer(r) \/ Abandon(r)
    PROVE  TypeOK'
  <1>1. request[r] \in RequestStates
    BY DEF TypeOK
  <1>2. \A p \in {"mint", "newer", "revoke"} : [request[r] EXCEPT !.pc = p] \in RequestStates
    BY <1>1 DEF RequestStates
  <1>3. \A b \in BOOLEAN :
           [request[r] EXCEPT !.pc = "save", !.consentRequired = b] \in RequestStates
    BY <1>1 DEF RequestStates
  <1>4. \E next \in RequestStates : Goto(r, next)
    <2>1. CASE ReuseSession(r)
      BY <2>1, <1>2, IdleIsState DEF ReuseSession
    <2>2. CASE ReadConsent(r)
      <3>1. (~ ConsentCurrent(request[r].version)) \in BOOLEAN
        BY DEF ConsentCurrent
      <3> QED
        BY <2>2, <3>1, <1>3 DEF ReadConsent
    <2>3. CASE ReadStale(r)
      BY <2>3, <1>2 DEF ReadStale
    <2>4. CASE ReadNewer(r)
      BY <2>4, <1>2, IdleIsState DEF ReadNewer
    <2>5. CASE Abandon(r)
      BY <2>5, IdleIsState DEF Abandon
    <2> QED BY <2>1, <2>2, <2>3, <2>4, <2>5
  <1>5. request' \in [Requests -> RequestStates]
    BY <1>4, GotoKeepsType DEF TypeOK
  <1> QED
    BY <1>5 DEF TypeOK, ReuseSession, ReadConsent, ReadStale, ReadNewer, Abandon

LEMMA TypeRespond ==
    ASSUME TypeOK, NEW r \in Requests,
           ShowForm(r) \/ InvalidPayload(r) \/ RevokeSession(r) \/ Deliver(r)
    PROVE  TypeOK'
  <1>1. /\ request[r] \in RequestStates
        /\ BrowserOf[r] \in Browsers
        /\ jar[BrowserOf[r]] \in Authorizations \cup {NoId}
        /\ request[r].auth \in Authorizations \cup {NoId}
    BY ProfileAssumption DEF TypeOK, RequestStates
  <1>2. Reply(NoId) \in RequestStates
    BY ReplyIsState
  <1>3. request' \in [Requests -> RequestStates]
    BY <1>2, IdleIsState, GotoKeepsType
    DEF TypeOK, ShowForm, InvalidPayload, RevokeSession, Deliver
  <1>4. \A a : Resolves(a) => a \in Authorizations
    <2>1. authRows \subseteq Authorizations
      BY ProfileAssumption DEF TypeOK, Authorizations
    <2> QED
      BY <2>1 DEF Resolves, Live
  <1>5. CASE ShowForm(r)
    <2>1. forms' \in [Browsers -> SUBSET Authorizations]
      BY <1>1, <1>4, <1>5 DEF TypeOK, ShowForm
    <2>2. UNCHANGED <<signupVars, version, invVars, authVars, profileVars, jar, workerVars>>
      BY <1>5 DEF ShowForm
    <2> QED BY <1>3, <2>1, <2>2 DEF TypeOK
  <1>6. CASE InvalidPayload(r)
    <2>1. forms' \in [Browsers -> SUBSET Authorizations]
      BY <1>1, <1>4, <1>6 DEF TypeOK, InvalidPayload
    <2>2. UNCHANGED <<signupVars, version, invVars, authVars, profileVars, jar, workerVars>>
      BY <1>6 DEF InvalidPayload
    <2> QED BY <1>3, <2>1, <2>2 DEF TypeOK
  <1>7. CASE RevokeSession(r)
    BY <1>3, <1>7 DEF TypeOK, RevokeSession
  <1>8. CASE Deliver(r)
    BY <1>1, <1>3, <1>8 DEF TypeOK, Deliver
  <1> QED BY <1>5, <1>6, <1>7, <1>8

(* The background work on the signup, the clock and the sweep.             *)
LEMMA TypeSignup == ASSUME TypeOK, SignupStep PROVE TypeOK'
  <1> USE ProfileAssumption DEF TypeOK
  <1>1. CASE StartIssue
    <2>1. issuing' \in 0 .. MaxBackground
      BY <1>1 DEF StartIssue
    <2> QED
      BY <1>1, <2>1 DEF StartIssue
  <1>2. CASE IssueBatch
    <2>1. 1 .. invCount \subseteq 1 .. invCount' /\ invCount' \in 1 .. invCount'
      BY <1>2 DEF IssueBatch
    <2>2. withdrawnThrough' \in 0 .. invCount'
      BY <1>2 DEF IssueBatch
    <2> QED
      BY <1>2, <2>1, <2>2 DEF IssueBatch, Outstanding
  <1>3. CASE IssueFails
    BY <1>3 DEF IssueFails
  <1>4. CASE ConfirmSignup
    BY <1>4 DEF ConfirmSignup
  <1>5. CASE Unsubscribe
    <2>1. /\ unsubscribing' \in 0 .. MaxBackground
          /\ statusChanges' \in 0 .. MaxStatusChanges
      BY <1>5 DEF Unsubscribe
    <2> QED
      BY <1>5, <2>1 DEF Unsubscribe
  <1>6. CASE RevokeProfileInvitations
    BY <1>6 DEF RevokeProfileInvitations, Outstanding
  <1>7. CASE UnsubscribeDies
    BY <1>7 DEF UnsubscribeDies
  <1> QED
    BY <1>1, <1>2, <1>3, <1>4, <1>5, <1>6, <1>7 DEF SignupStep

LEMMA TypeClock == ASSUME TypeOK, ClockStep PROVE TypeOK'
  <1> USE ProfileAssumption DEF TypeOK
  <1>1. CASE \E i \in Invitations : InvitationExpires(i)
    BY <1>1 DEF InvitationExpires, Usable, Outstanding
  <1>2. CASE \E a \in Authorizations : AuthorizationExpires(a)
    BY <1>2 DEF AuthorizationExpires, Live
  <1>3. CASE \E b \in Browsers : CookieExpires(b)
    BY <1>3 DEF CookieExpires
  <1>4. CASE ThirtyDaysPass
    BY <1>4 DEF ThirtyDaysPass
  <1>5. CASE Deploy
    BY <1>5 DEF Deploy, Versions
  <1> QED
    BY <1>1, <1>2, <1>3, <1>4, <1>5 DEF ClockStep

LEMMA TypeSweep == ASSUME TypeOK, SweepStep PROVE TypeOK'
  <1> USE ProfileAssumption DEF TypeOK, SweepIdle, NoProfile
  <1>1. CASE SweepSelect
    <2>1. profile.id \in Authorizations \cup {NoId}
      OBVIOUS
    <2> QED
      BY <1>1, <2>1 DEF SweepSelect
  <1>2. CASE SweepProfile
    BY <1>2 DEF SweepProfile
  <1>3. CASE SweepInvitations
    BY <1>3 DEF SweepInvitations
  <1>4. CASE SweepAuthorizations
    BY <1>4 DEF SweepAuthorizations, Live
  <1>5. CASE SweepFails
    BY <1>5 DEF SweepFails
  <1> QED
    BY <1>1, <1>2, <1>3, <1>4, <1>5 DEF SweepStep

LEMMA TypeStep == TypeOK /\ [Next]_vars => TypeOK'
  <1> SUFFICES ASSUME TypeOK, [Next]_vars PROVE TypeOK'
    OBVIOUS
  <1>1. CASE \E r \in Requests : RiderStep(r)
    <2> PICK r \in Requests : RiderStep(r)
      BY <1>1
    <2>1. CASE \E i \in 0 .. invCount : OpenLink(r, i)
      BY <2>1, TypeOpenLink
    <2>2. CASE ShowForm(r)
      BY <2>2, TypeRespond
    <2>3. CASE \E f \in Authorizations \cup {NoId} : SubmitSave(r, f) \/ SubmitWithdraw(r, f)
      BY <2>3, TypeSubmit DEF SubmitSave, SubmitWithdraw
    <2> QED
      BY <2>1, <2>2, <2>3 DEF RiderStep
  <1>2. CASE \E r \in Requests : HandlerStep(r)
    BY <1>2, TypeMintAuthorization, TypeSaveBatch, TypeWithdrawBatch, TypeRead, TypeRespond
    DEF HandlerStep
  <1>3. CASE SignupStep
    BY <1>3, TypeSignup
  <1>4. CASE ClockStep
    BY <1>4, TypeClock
  <1>5. CASE SweepStep
    BY <1>5, TypeSweep
  <1>6. CASE UNCHANGED vars
    BY <1>6 DEF vars, TypeOK
  <1> QED
    BY <1>1, <1>2, <1>3, <1>4, <1>5, <1>6 DEF Next

(* Every variable keeps its type and no id exceeds the rows ever inserted, *)
(* whatever requests, issuances, unsubscribes and sweeps interleave.       *)
THEOREM TypeCorrect == Spec => []TypeOK
  BY TypeInit, TypeStep, PTL DEF Spec

-----------------------------------------------------------------------------
(* The safety invariants, all from ProfileInv.                             *)

LEMMA ProfileInvInit == Init => ProfileInv
  BY DEF Init, ProfileInv, SessionsHaveLinks, SpentSessionsSpendLinks,
         LinksPostdateWithdrawal, AnswersNameTheirSave, OneMutationPerInvitation,
         ConsentCoversProfile, WithdrawalIsFinal, RequestInv, Mutating, Idle, Outstanding

(***************************************************************************)
(* Most steps only take things away: rows disappear, links and sessions    *)
(* lose their validity, a request leaves the path to its batch.            *)
(***************************************************************************)
Quiet ==
    /\ UNCHANGED <<invCount, authCount, authInv, authConsumed, consent, withdrawnThrough>>
    /\ profile' \in {profile, NoProfile}
    /\ invUsed' = invUsed
    /\ invRows' \subseteq invRows
    /\ invRevoked \subseteq invRevoked'
    /\ invSuperseded \subseteq invSuperseded'
    /\ invExpired \subseteq invExpired'
    /\ authRows' \subseteq authRows
    /\ authRows' = {} \/ invRows' = invRows
    /\ authRevoked \subseteq authRevoked'
    /\ authExpired \subseteq authExpired'
    /\ \A r \in Requests :
           request'[r] = request[r] \/ request'[r].pc \notin {"consent", "save", "withdraw"}

LEMMA QuietKeepsInv ==
    ASSUME TypeOK, ProfileInv, Quiet
    PROVE  ProfileInv'
  <1>1. Outstanding' \subseteq Outstanding /\ Usable' \subseteq Usable /\ Live' \subseteq Live
    BY DEF Quiet, Outstanding, Usable, Live
  <1>2. (Outstanding \ invSuperseded)' \subseteq {invCount'}
    BY <1>1 DEF ProfileInv, Quiet
  <1>3. SessionsHaveLinks'
    BY DEF ProfileInv, SessionsHaveLinks, Quiet
  <1>4. SpentSessionsSpendLinks'
    BY DEF ProfileInv, SpentSessionsSpendLinks, Quiet
  <1>5. LinksPostdateWithdrawal'
    BY <1>1 DEF ProfileInv, LinksPostdateWithdrawal, Quiet
  <1>6. AnswersNameTheirSave'
    BY DEF ProfileInv, AnswersNameTheirSave, Quiet
  <1>7. OneMutationPerInvitation'
    BY DEF ProfileInv, OneMutationPerInvitation, Quiet
  <1>8. ConsentCoversProfile'
    BY DEF ProfileInv, ConsentCoversProfile, Quiet
  <1>9. WithdrawalIsFinal'
    BY DEF ProfileInv, WithdrawalIsFinal, Quiet
  <1>10. ASSUME NEW r \in Requests PROVE RequestInv(r)'
    <2>1. CASE request'[r] = request[r]
      <3>1. RequestInv(r)
        BY DEF ProfileInv
      <3> QED
        BY <1>1, <2>1, <3>1 DEF RequestInv, Mutating, ConsentCurrent, Quiet
    <2>2. CASE request'[r].pc \notin {"consent", "save", "withdraw"}
      BY <2>2 DEF RequestInv, Mutating
    <2> QED
      BY <2>1, <2>2 DEF Quiet
  <1> QED
    BY <1>2, <1>3, <1>4, <1>5, <1>6, <1>7, <1>8, <1>9, <1>10 DEF ProfileInv

(* A request that moves to a state off that path is quiet.                 *)
LEMMA GotoIsQuiet ==
    ASSUME TypeOK, NEW r \in Requests, NEW next, Goto(r, next),
           next.pc \notin {"consent", "save", "withdraw"}
    PROVE  \A q \in Requests :
               request'[q] = request[q] \/ request'[q].pc \notin {"consent", "save", "withdraw"}
  BY DEF TypeOK, Goto

LEMMA OthersMutateOn ==
    ASSUME TypeOK, NEW r \in Requests, NEW next, Goto(r, next), NEW q \in Requests, q # r
    PROVE  request'[q] = request[q]
  BY DEF TypeOK, Goto

LEMMA MoverState ==
    ASSUME TypeOK, NEW r \in Requests, NEW next, Goto(r, next)
    PROVE  request'[r] = next
  BY DEF TypeOK, Goto

(* A submit enters the path with a session that could save: nobody has     *)
(* spent its link.                                                         *)
LEMMA SubmitKeepsInv ==
    ASSUME TypeOK, ProfileInv, NEW r \in Requests,
           NEW f \in Authorizations \cup {NoId}, NEW kind \in {"consent", "withdraw"},
           Submit(r, f, kind)
    PROVE  ProfileInv'
  <1> DEFINE a == jar[BrowserOf[r]]
             sent == [Idle EXCEPT !.auth = a, !.form = f, !.version = version]
             next == IF Resolves(a) /\ f = a
                     THEN [sent EXCEPT !.pc = kind]
                     ELSE [sent EXCEPT !.pc = "rejected"]
  <1>1. Goto(r, next)
    BY DEF Submit
  <1>2. RequestInv(r)'
    <2>1. CASE Resolves(a) /\ f = a
      <3>1. request'[r].pc = kind /\ request'[r].auth = a
        <4>1. request'[r] = [sent EXCEPT !.pc = kind]
          BY <1>1, <2>1, MoverState
        <4> QED
          BY <4>1 DEF Idle
      <3>2. a \in 1 .. authCount
        BY <2>1 DEF TypeOK, Resolves, Live
      <3>3. \A b \in authConsumed : authInv[b] # authInv[a]
        BY <2>1 DEF Resolves, Usable, Outstanding, ProfileInv, SpentSessionsSpendLinks
      <3> QED
        BY <3>1, <3>2, <3>3 DEF RequestInv, Mutating, Submit
    <2>2. CASE ~ (Resolves(a) /\ f = a)
      <3>1. request'[r].pc = "rejected"
        BY <1>1, <2>2, MoverState DEF Idle
      <3> QED
        BY <3>1 DEF RequestInv, Mutating
    <2> QED BY <2>1, <2>2
  <1>3. ASSUME NEW q \in Requests, q # r PROVE RequestInv(q)'
    <2>1. request'[q] = request[q]
      BY <1>1, <1>3, OthersMutateOn
    <2> QED
      BY <2>1 DEF ProfileInv, RequestInv, Mutating, Submit, Live, Usable, Outstanding, ConsentCurrent
  <1> QED
    BY <1>2, <1>3
    DEF Submit, ProfileInv, SessionsHaveLinks, SpentSessionsSpendLinks, LinksPostdateWithdrawal,
        AnswersNameTheirSave, OneMutationPerInvitation, ConsentCoversProfile,
        WithdrawalIsFinal, Outstanding

LEMMA ReadConsentKeepsInv ==
    ASSUME TypeOK, ProfileInv, NEW r \in Requests, ReadConsent(r)
    PROVE  ProfileInv'
  <1> DEFINE next == [request[r] EXCEPT
                          !.pc = "save",
                          !.consentRequired = ~ ConsentCurrent(request[r].version)]
  <1>1. Goto(r, next) /\ request[r] \in RequestStates
    BY DEF ReadConsent, TypeOK
  <1>2. RequestInv(r)'
    <2>1. /\ request'[r].pc = "save"
          /\ request'[r].auth = request[r].auth
          /\ request'[r].version = request[r].version
          /\ request'[r].consentRequired = ~ ConsentCurrent(request[r].version)
      <3>1. request'[r] = next
        BY <1>1, MoverState
      <3> QED
        BY <1>1, <3>1 DEF RequestStates
    <2>2. request[r].auth \in 1 .. authCount
      BY DEF ReadConsent, ProfileInv, RequestInv, Mutating
    <2> QED
      BY <2>1, <2>2 DEF ReadConsent, RequestInv, Mutating, ConsentCurrent
  <1>3. ASSUME NEW q \in Requests, q # r PROVE RequestInv(q)'
    <2>1. request'[q] = request[q]
      BY <1>1, <1>3, OthersMutateOn
    <2> QED
      BY <2>1 DEF ProfileInv, RequestInv, Mutating, ReadConsent, Live, Usable, Outstanding, ConsentCurrent
  <1> QED
    BY <1>2, <1>3
    DEF ReadConsent, ProfileInv, SessionsHaveLinks, SpentSessionsSpendLinks,
        LinksPostdateWithdrawal, AnswersNameTheirSave, OneMutationPerInvitation,
        ConsentCoversProfile, WithdrawalIsFinal, Outstanding

(* A new session is nobody's yet.                                          *)
LEMMA MintKeepsInv ==
    ASSUME TypeOK, ProfileInv, NEW r \in Requests, MintAuthorization(r)
    PROVE  ProfileInv'
  <1> DEFINE n == authCount + 1
  <1>1. /\ n \in Authorizations
        /\ \A a \in 1 .. authCount : a # n /\ a \in Authorizations /\ a \in 1 .. n
    BY ProfileAssumption DEF TypeOK, MintAuthorization, Authorizations
  <1>2. /\ authInv'[n] = request[r].inv
        /\ \A a \in 1 .. authCount : authInv'[a] = authInv[a]
    BY <1>1 DEF TypeOK, MintAuthorization
  <1>3. Live' \subseteq Live \cup {n} /\ Usable' = Usable /\ Outstanding' = Outstanding
    BY DEF MintAuthorization, Live, Usable, Outstanding
  <1>4. SessionsHaveLinks'
    BY <1>2 DEF TypeOK, ProfileInv, SessionsHaveLinks, MintAuthorization
  <1>5. SpentSessionsSpendLinks' /\ OneMutationPerInvitation' /\ WithdrawalIsFinal'
        /\ AnswersNameTheirSave'
    BY <1>2 DEF TypeOK, ProfileInv, SpentSessionsSpendLinks, OneMutationPerInvitation,
                WithdrawalIsFinal, AnswersNameTheirSave, MintAuthorization
  <1>6. LinksPostdateWithdrawal' /\ ConsentCoversProfile'
        /\ (Outstanding \ invSuperseded)' \subseteq {invCount'}
    BY <1>3 DEF ProfileInv, LinksPostdateWithdrawal, ConsentCoversProfile, MintAuthorization
  <1>7. ASSUME NEW q \in Requests PROVE RequestInv(q)'
    <2>1. CASE q = r
      <3>1. request'[r] = Reply(authCount')
        BY MoverState DEF MintAuthorization
      <3> QED
        BY <2>1, <3>1 DEF RequestInv, Mutating, Reply, Idle
    <2>2. CASE q # r
      <3>1. request'[q] = request[q] /\ RequestInv(q)
        BY <2>2, OthersMutateOn DEF MintAuthorization, ProfileInv
      <3>2. CASE ~ Mutating(q)
        BY <3>1, <3>2 DEF RequestInv, Mutating
      <3>3. CASE Mutating(q)
        <4> DEFINE a == request[q].auth
        <4>1. a \in 1 .. authCount /\ a # n /\ authInv'[a] = authInv[a] /\ a \in 1 .. authCount'
          BY <1>1, <1>2, <3>1, <3>3 DEF RequestInv, MintAuthorization
        <4>2. \A b \in authConsumed : authInv'[b] = authInv[b]
          BY <1>2 DEF TypeOK
        <4> QED
          BY <1>3, <3>1, <4>1, <4>2
          DEF RequestInv, Mutating, MintAuthorization, ConsentCurrent
      <3> QED BY <3>2, <3>3
    <2> QED BY <2>1, <2>2
  <1> QED
    BY <1>4, <1>5, <1>6, <1>7 DEF ProfileInv

(* A new link replaces every other; no session in flight holds it.         *)
LEMMA IssueKeepsInv ==
    ASSUME TypeOK, ProfileInv, IssueBatch
    PROVE  ProfileInv'
  <1> DEFINE n == invCount + 1
  <1>1. /\ Outstanding' \subseteq Outstanding \cup {n}
        /\ Usable' \subseteq {n}
        /\ Live' = Live
    BY DEF IssueBatch, Outstanding, Usable, Live
  <1>2. \A a \in Live : authInv[a] # n
    BY DEF TypeOK, ProfileInv, SessionsHaveLinks, Live
  <1>3. (Outstanding \ invSuperseded)' \subseteq {invCount'}
    BY <1>1 DEF IssueBatch
  <1>4. LinksPostdateWithdrawal'
    BY <1>1 DEF TypeOK, ProfileInv, LinksPostdateWithdrawal, IssueBatch
  <1>5. SessionsHaveLinks' /\ SpentSessionsSpendLinks'
    BY DEF ProfileInv, SessionsHaveLinks, SpentSessionsSpendLinks, IssueBatch
  <1>6. AnswersNameTheirSave' /\ OneMutationPerInvitation' /\ ConsentCoversProfile'
        /\ WithdrawalIsFinal'
    BY DEF ProfileInv, AnswersNameTheirSave, OneMutationPerInvitation,
           ConsentCoversProfile, WithdrawalIsFinal, IssueBatch
  <1>7. ASSUME NEW r \in Requests PROVE RequestInv(r)'
    BY <1>1, <1>2 DEF ProfileInv, RequestInv, Mutating, ConsentCurrent, IssueBatch
  <1> QED
    BY <1>3, <1>4, <1>5, <1>6, <1>7 DEF ProfileInv

(* A lost claim sends the request to the rejection path.                   *)
LEMMA ClaimLostIsQuiet ==
    ASSUME TypeOK, NEW r \in Requests, ClaimLost(r)
    PROVE  Quiet
  <1> DEFINE next == [request[r] EXCEPT !.pc = "rejected", !.consentRequired = FALSE]
  <1>1. next.pc = "rejected"
    BY DEF TypeOK, RequestStates
  <1>2. \A q \in Requests :
           request'[q] = request[q] \/ request'[q].pc \notin {"consent", "save", "withdraw"}
    BY <1>1, GotoIsQuiet DEF ClaimLost
  <1> QED
    BY <1>2 DEF ClaimLost, Quiet

(* A save spends the newest link, and the sessions that shared it.         *)
LEMMA SaveKeepsInv ==
    ASSUME TypeOK, ProfileInv, NEW r \in Requests, SaveBatch(r)
    PROVE  ProfileInv'
  <1> DEFINE a == request[r].auth
             v == request[r].version
             i == authInv[a]
  <1>1. CASE ~ SaveClaims(a)
    BY <1>1, ClaimLostIsQuiet, QuietKeepsInv DEF SaveBatch, Quiet, ClaimLost
  <1>2. CASE SaveClaims(a)
    <2>1. /\ a \in Live /\ a \in 1 .. authCount /\ v \in Versions
          /\ i \in Usable /\ i \in Outstanding /\ i = invCount
      BY <1>2 DEF SaveClaims, Resolves, Live, Usable, TypeOK, ProfileInv, RequestStates
    <2>2. \A b \in authConsumed : authInv[b] # i
      BY <2>1 DEF Outstanding, ProfileInv, SpentSessionsSpendLinks
    <2>3. /\ authConsumed' = authConsumed \cup {a}
          /\ invUsed' = invUsed \cup {i}
          /\ authRevoked' = authRevoked \cup {s \in Siblings(a) : authInv[s] = i}
          /\ profile'.by = a /\ profile'.version = v
          /\ UNCHANGED <<authInv, authCount, authRows, authExpired, invRows, invCount,
                         invRevoked, invSuperseded, invExpired, withdrawnThrough>>
      BY <1>2 DEF SaveBatch
    <2>4. /\ Outstanding' = Outstanding \ {i}
          /\ Usable' = {}
          /\ Live' \subseteq Live
          /\ \A s \in Live' : authInv[s] # i
      <3>1. Outstanding' = Outstanding \ {i} /\ Usable' = Usable \ {i}
        BY <2>3 DEF Outstanding, Usable
      <3>2. Usable \subseteq {i}
        BY <2>1 DEF Usable, ProfileInv
      <3>3. Live' \subseteq Live \ {a}
        BY <2>3 DEF Live
      <3>4. \A s \in Live' : s \in Siblings(a)
        BY <3>3 DEF Live, Siblings
      <3> QED
        BY <2>3, <3>1, <3>2, <3>3, <3>4 DEF Live
    <2>5. (Outstanding \ invSuperseded)' \subseteq {invCount'} /\ LinksPostdateWithdrawal'
      BY <2>3, <2>4 DEF ProfileInv, LinksPostdateWithdrawal
    <2>6. SessionsHaveLinks' /\ SpentSessionsSpendLinks' /\ AnswersNameTheirSave'
      BY <2>1, <2>3 DEF ProfileInv, SessionsHaveLinks, SpentSessionsSpendLinks, AnswersNameTheirSave
    <2>7. OneMutationPerInvitation'
      BY <2>2, <2>3 DEF ProfileInv, OneMutationPerInvitation
    <2>8. WithdrawalIsFinal'
      BY <2>1, <2>3 DEF ProfileInv, LinksPostdateWithdrawal, WithdrawalIsFinal
    <2>9. ConsentCoversProfile'
      <3>1. CASE request[r].consentRequired
        <4>1. consent' = Append(consent, Granted(v))
          BY <1>2, <3>1 DEF SaveBatch
        <4>2. Granted(v) \in ConsentEvents /\ consent \in Seq(ConsentEvents)
          BY <2>1 DEF Granted, ConsentEvents, TypeOK
        <4>3. consent' # << >> /\ consent'[Len(consent')] = Granted(v)
          BY <4>1, <4>2, AppendProperties
        <4> QED
          BY <2>3, <4>3 DEF ConsentCoversProfile
      <3>2. CASE ~ request[r].consentRequired
        <4>1. consent' = consent
          BY <1>2, <3>2 DEF SaveBatch
        <4>2. ConsentCurrent(v)
          BY <2>1, <3>2 DEF ProfileInv, RequestInv, SaveBatch
        <4> QED
          BY <2>3, <4>1, <4>2 DEF ConsentCoversProfile, ConsentCurrent
      <3> QED BY <3>1, <3>2
    <2>10. ASSUME NEW q \in Requests PROVE RequestInv(q)'
      <3>1. CASE q = r
        <4>1. request'[r] = Reply(NoId)
          BY <1>2, MoverState DEF SaveBatch
        <4> QED
          BY <3>1, <4>1 DEF RequestInv, Mutating, Reply, Idle
      <3>2. CASE q # r
        <4>1. request'[q] = request[q] /\ RequestInv(q)
          BY <1>2, <3>2, OthersMutateOn DEF SaveBatch, ProfileInv
        <4> QED
          BY <2>3, <2>4, <4>1 DEF RequestInv, Mutating
      <3> QED BY <3>1, <3>2
    <2> QED
      BY <2>5, <2>6, <2>7, <2>8, <2>9, <2>10 DEF ProfileInv
  <1> QED BY <1>1, <1>2

(* A withdrawal leaves no link and no session behind.                      *)
LEMMA WithdrawKeepsInv ==
    ASSUME TypeOK, ProfileInv, NEW r \in Requests, WithdrawBatch(r)
    PROVE  ProfileInv'
  <1> DEFINE a == request[r].auth
  <1>1. CASE ~ WithdrawClaims(a)
    BY <1>1, ClaimLostIsQuiet, QuietKeepsInv DEF WithdrawBatch
  <1>2. CASE WithdrawClaims(a)
    <2>1. a \in Live /\ a \in 1 .. authCount
      BY <1>2 DEF WithdrawClaims, Live, TypeOK
    <2>2. /\ authConsumed' = authConsumed \cup {a}
          /\ profile' = NoProfile
          /\ invRevoked' = invRevoked \cup Outstanding
          /\ authRevoked' = authRevoked \cup Siblings(a)
          /\ withdrawnThrough' = invCount
          /\ UNCHANGED <<authInv, authCount, authRows, authExpired, invRows, invCount,
                         invUsed, invSuperseded, invExpired>>
      BY <1>2 DEF WithdrawBatch
    <2>3. Outstanding' = {} /\ Usable' = {} /\ Live' = {}
      BY <2>2 DEF Outstanding, Usable, Live, Siblings
    <2>4. authInv[a] \in invUsed' \cup invRevoked'
      BY <2>1, <2>2 DEF Live, Outstanding, ProfileInv, SessionsHaveLinks
    <2>5. \A b \in authConsumed : authInv[b] # authInv[a]
      BY <2>1 DEF WithdrawBatch, ProfileInv, RequestInv
    <2>6. SpentSessionsSpendLinks' /\ OneMutationPerInvitation'
      BY <2>2, <2>4, <2>5
      DEF ProfileInv, SpentSessionsSpendLinks, OneMutationPerInvitation
    <2>7. ASSUME NEW q \in Requests PROVE RequestInv(q)'
      <3>1. CASE q = r
        <4>1. request'[r] = Reply(NoId)
          BY <1>2, MoverState DEF WithdrawBatch
        <4> QED
          BY <3>1, <4>1 DEF RequestInv, Mutating, Reply, Idle
      <3>2. CASE q # r
        <4>1. request'[q] = request[q] /\ RequestInv(q)
          BY <1>2, <3>2, OthersMutateOn DEF WithdrawBatch, ProfileInv
        <4> QED
          BY <2>2, <2>3, <4>1 DEF RequestInv, Mutating
      <3> QED BY <3>1, <3>2
    <2> QED
      BY <2>2, <2>3, <2>6, <2>7
      DEF ProfileInv, SessionsHaveLinks, LinksPostdateWithdrawal, AnswersNameTheirSave,
          ConsentCoversProfile, WithdrawalIsFinal
  <1> QED BY <1>1, <1>2

(* The rest is quiet.                                                      *)
LEMMA RequestStepIsQuiet ==
    ASSUME TypeOK, NEW r \in Requests,
           \/ \E i \in 0 .. invCount : OpenLink(r, i)
           \/ ReuseSession(r) \/ ShowForm(r) \/ InvalidPayload(r)
           \/ ReadStale(r) \/ ReadNewer(r) \/ RevokeSession(r)
           \/ Deliver(r) \/ Abandon(r)
    PROVE  Quiet
  <1>1. /\ Idle.pc \notin {"consent", "save", "withdraw"}
        /\ \A a : Reply(a).pc \notin {"consent", "save", "withdraw"}
    BY DEF Idle, Reply
  <1>2. \A p \in {"mint", "newer", "revoke"} :
           [request[r] EXCEPT !.pc = p].pc \notin {"consent", "save", "withdraw"}
    BY DEF TypeOK, RequestStates
  <1> DEFINE OffPath == \A q \in Requests :
                 request'[q] = request[q] \/ request'[q].pc \notin {"consent", "save", "withdraw"}
  <1>3. CASE \E i \in 0 .. invCount : OpenLink(r, i)
    <2> PICK i \in 0 .. invCount : OpenLink(r, i)
      BY <1>3
    <2>1. [Idle EXCEPT !.pc = IF jar[BrowserOf[r]] = NoId THEN "mint" ELSE "reuse",
                       !.auth = jar[BrowserOf[r]], !.inv = i].pc
              \notin {"consent", "save", "withdraw"}
      BY DEF Idle
    <2>2. OffPath
      BY <1>1, <2>1, GotoIsQuiet DEF OpenLink
    <2> QED
      BY <2>2 DEF OpenLink, Quiet
  <1>4. CASE ReuseSession(r)
    <2>1. OffPath
      BY <1>1, <1>2, <1>4, GotoIsQuiet DEF ReuseSession
    <2> QED
      BY <1>4, <2>1 DEF ReuseSession, Quiet
  <1>5. CASE ShowForm(r)
    <2>1. OffPath
      BY <1>1, <1>5, GotoIsQuiet DEF ShowForm
    <2> QED
      BY <1>5, <2>1 DEF ShowForm, Quiet
  <1>6. CASE InvalidPayload(r)
    <2>1. OffPath
      BY <1>1, <1>6, GotoIsQuiet DEF InvalidPayload
    <2> QED
      BY <1>6, <2>1 DEF InvalidPayload, Quiet
  <1>7. CASE ReadStale(r)
    <2>1. OffPath
      BY <1>2, <1>7, GotoIsQuiet DEF ReadStale
    <2> QED
      BY <1>7, <2>1 DEF ReadStale, Quiet
  <1>8. CASE ReadNewer(r)
    <2>1. OffPath
      BY <1>1, <1>2, <1>8, GotoIsQuiet DEF ReadNewer
    <2> QED
      BY <1>8, <2>1 DEF ReadNewer, Quiet
  <1>9. CASE RevokeSession(r) \/ Deliver(r) \/ Abandon(r)
    <2>1. OffPath
      BY <1>1, <1>9, GotoIsQuiet DEF RevokeSession, Deliver, Abandon
    <2> QED
      BY <1>9, <2>1 DEF RevokeSession, Deliver, Abandon, Quiet
  <1> QED
    BY <1>3, <1>4, <1>5, <1>6, <1>7, <1>8, <1>9

LEMMA OtherStepIsQuiet ==
    ASSUME TypeOK,
           \/ SignupStep /\ ~ IssueBatch
           \/ ClockStep
           \/ SweepStep
           \/ UNCHANGED vars
    PROVE  Quiet
  <1>1. CASE SignupStep /\ ~ IssueBatch
    BY <1>1 DEF SignupStep, StartIssue, IssueFails, ConfirmSignup, Unsubscribe,
                RevokeProfileInvitations, UnsubscribeDies, Quiet
  <1>2. CASE ClockStep
    BY <1>2 DEF ClockStep, InvitationExpires, AuthorizationExpires, CookieExpires,
                ThirtyDaysPass, Deploy, Quiet
  <1>3. CASE SweepStep
    BY <1>3 DEF SweepStep, SweepSelect, SweepProfile, SweepInvitations,
                SweepAuthorizations, SweepFails, Live, Quiet
  <1>4. CASE UNCHANGED vars
    BY <1>4 DEF vars, Quiet
  <1> QED BY <1>1, <1>2, <1>3, <1>4

LEMMA ProfileInvStep ==
    TypeOK /\ ProfileInv /\ [Next]_vars => ProfileInv'
  <1> SUFFICES ASSUME TypeOK, ProfileInv, [Next]_vars PROVE ProfileInv'
    OBVIOUS
  <1>1. CASE \E r \in Requests : RiderStep(r)
    <2> PICK r \in Requests : RiderStep(r)
      BY <1>1
    <2>1. CASE (\E i \in 0 .. invCount : OpenLink(r, i)) \/ ShowForm(r)
      BY <2>1, RequestStepIsQuiet, QuietKeepsInv
    <2>2. CASE \E f \in Authorizations \cup {NoId} : SubmitSave(r, f) \/ SubmitWithdraw(r, f)
      BY <2>2, SubmitKeepsInv DEF SubmitSave, SubmitWithdraw
    <2> QED
      BY <2>1, <2>2 DEF RiderStep
  <1>2. CASE \E r \in Requests : HandlerStep(r)
    <2> PICK r \in Requests : HandlerStep(r)
      BY <1>2
    <2>1. CASE MintAuthorization(r)
      BY <2>1, MintKeepsInv
    <2>2. CASE ReadConsent(r)
      BY <2>2, ReadConsentKeepsInv
    <2>3. CASE SaveBatch(r)
      BY <2>3, SaveKeepsInv
    <2>4. CASE WithdrawBatch(r)
      BY <2>4, WithdrawKeepsInv
    <2>5. CASE \/ ReuseSession(r) \/ InvalidPayload(r) \/ ReadStale(r) \/ ReadNewer(r)
               \/ RevokeSession(r) \/ Deliver(r) \/ Abandon(r)
      BY <2>5, RequestStepIsQuiet, QuietKeepsInv
    <2> QED
      BY <2>1, <2>2, <2>3, <2>4, <2>5 DEF HandlerStep
  <1>3. CASE IssueBatch
    BY <1>3, IssueKeepsInv
  <1>4. CASE (SignupStep /\ ~ IssueBatch) \/ ClockStep \/ SweepStep \/ UNCHANGED vars
    BY <1>4, OtherStepIsQuiet, QuietKeepsInv
  <1> QED
    BY <1>1, <1>2, <1>3, <1>4 DEF Next

(* What links, sessions, answers and requests owe each other always holds. *)
THEOREM ProfileInvariant == Spec => []ProfileInv
  <1>1. Init => TypeOK /\ ProfileInv
    BY TypeInit, ProfileInvInit
  <1>2. (TypeOK /\ ProfileInv) /\ [Next]_vars => (TypeOK /\ ProfileInv)'
    BY TypeStep, ProfileInvStep
  <1> QED
    BY <1>1, <1>2, PTL DEF Spec

(* At most one profile mutation ever succeeds per invitation.              *)
THEOREM OneMutation == Spec => []OneMutationPerInvitation
  <1>1. ProfileInv => OneMutationPerInvitation
    BY DEF ProfileInv
  <1> QED
    BY <1>1, ProfileInvariant, PTL

(* The only link that can still be usable is the last one issued.          *)
THEOREM OnlyNewestUsable == Spec => []OnlyNewestInvitationUsable
  <1>1. ProfileInv => OnlyNewestInvitationUsable
    BY DEF ProfileInv, OnlyNewestInvitationUsable, Usable
  <1> QED
    BY <1>1, ProfileInvariant, PTL

(* Stored answers are covered by the latest consent event.                 *)
THEOREM AnswersCovered == Spec => []ConsentCoversProfile
  <1>1. ProfileInv => ConsentCoversProfile
    BY DEF ProfileInv
  <1> QED
    BY <1>1, ProfileInvariant, PTL

(* No link handed out before a withdrawal puts answers back.               *)
THEOREM WithdrawalFinal == Spec => []WithdrawalIsFinal
  <1>1. ProfileInv => WithdrawalIsFinal
    BY DEF ProfileInv
  <1> QED
    BY <1>1, ProfileInvariant, PTL

-----------------------------------------------------------------------------
(* What a step may do to the answers and the consent history.              *)

(* Only the two batches write; every other step at most erases answers.    *)
LEMMA OnlyBatchesWrite ==
    ASSUME TypeOK, [Next]_vars,
           ~ \E r \in Requests : SaveBatch(r) \/ WithdrawBatch(r)
    PROVE  consent' = consent /\ profile' \in {profile, NoProfile}
  <1>1. CASE \E r \in Requests : RiderStep(r)
    <2> PICK r \in Requests : RiderStep(r)
      BY <1>1
    <2>1. CASE (\E i \in 0 .. invCount : OpenLink(r, i)) \/ ShowForm(r)
      BY <2>1, RequestStepIsQuiet DEF Quiet
    <2>2. CASE \E f \in Authorizations \cup {NoId} : SubmitSave(r, f) \/ SubmitWithdraw(r, f)
      BY <2>2 DEF SubmitSave, SubmitWithdraw, Submit
    <2> QED
      BY <2>1, <2>2 DEF RiderStep
  <1>2. CASE \E r \in Requests : HandlerStep(r)
    <2> PICK r \in Requests : HandlerStep(r)
      BY <1>2
    <2>1. CASE MintAuthorization(r) \/ ReadConsent(r)
      BY <2>1 DEF MintAuthorization, ReadConsent
    <2>2. CASE \/ ReuseSession(r) \/ InvalidPayload(r) \/ ReadStale(r) \/ ReadNewer(r)
               \/ RevokeSession(r) \/ Deliver(r) \/ Abandon(r)
      BY <2>2, RequestStepIsQuiet DEF Quiet
    <2> QED
      BY <2>1, <2>2 DEF HandlerStep
  <1>3. CASE IssueBatch
    BY <1>3 DEF IssueBatch
  <1>4. CASE (SignupStep /\ ~ IssueBatch) \/ ClockStep \/ SweepStep \/ UNCHANGED vars
    BY <1>4, OtherStepIsQuiet DEF Quiet
  <1> QED
    BY <1>1, <1>2, <1>3, <1>4 DEF Next

(* Answers and consent are written only while the signup is confirmed.     *)
THEOREM WrittenOnlyConfirmed == Spec => NothingWrittenUnlessConfirmed
  <1>1. TypeOK /\ [Next]_vars =>
            [consent' # consent \/ profile' \notin {profile, NoProfile}
             => status = "confirmed"]_vars
    <2> SUFFICES ASSUME TypeOK, [Next]_vars,
                        consent' # consent \/ profile' \notin {profile, NoProfile}
                 PROVE  status = "confirmed"
      OBVIOUS
    <2> PICK r \in Requests : SaveBatch(r) \/ WithdrawBatch(r)
      BY OnlyBatchesWrite
    <2>1. CASE SaveBatch(r)
      BY <2>1 DEF SaveBatch, SaveClaims, Resolves, ClaimLost
    <2>2. CASE WithdrawBatch(r)
      BY <2>2 DEF WithdrawBatch, WithdrawClaims, ClaimLost
    <2> QED BY <2>1, <2>2
  <1> QED
    BY <1>1, TypeCorrect, PTL DEF Spec, NothingWrittenUnlessConfirmed

-----------------------------------------------------------------------------
(* The refinement of ProfileConsent.                                       *)

LEMMA PromiseInit == Init => Promise!AbstractInit
  BY DEF Init, NoProfile, Promise!AbstractInit

(* A save that claims its session is the abstract save of its version: the *)
(* consent state it read earlier is still the one it would read now.       *)
LEMMA SaveImplementsSave ==
    ASSUME TypeOK, ProfileInv, NEW r \in Requests, SaveBatch(r),
           SaveClaims(request[r].auth)
    PROVE  Promise!Save(request[r].version)
  <1> DEFINE v == request[r].version
  <1>1. request[r].consentRequired = ~ ConsentCurrent(v)
    BY DEF ProfileInv, RequestInv, SaveBatch, SaveClaims, Resolves
  <1>2. Promise!ConsentCurrent(v) <=> ConsentCurrent(v)
    BY DEF Promise!ConsentCurrent, ConsentCurrent, Promise!Granted, Granted
  <1>3. profile'.version = v
    BY DEF SaveBatch
  <1>4. consent' = IF request[r].consentRequired THEN Append(consent, Granted(v)) ELSE consent
    BY DEF SaveBatch
  <1> QED
    BY <1>1, <1>2, <1>3, <1>4
    DEF Promise!Save, Promise!ConsentAfterSave, Promise!Granted, Granted

LEMMA PromiseStep ==
    TypeOK /\ ProfileInv /\ [Next]_vars => [Promise!AbstractNext]_(Promise!abstractVars)
  <1> SUFFICES ASSUME TypeOK, ProfileInv, [Next]_vars
               PROVE  Promise!AbstractNext \/ UNCHANGED Promise!abstractVars
    OBVIOUS
  <1>1. ASSUME NEW r \in Requests, SaveBatch(r)
        PROVE  Promise!AbstractNext \/ UNCHANGED Promise!abstractVars
    <2>1. CASE SaveClaims(request[r].auth)
      <3>1. request[r].version \in Promise!Versions
        BY DEF TypeOK, RequestStates, Versions, Promise!Versions
      <3> QED
        BY <1>1, <2>1, <3>1, SaveImplementsSave DEF Promise!AbstractNext
    <2>2. CASE ~ SaveClaims(request[r].auth)
      BY <1>1, <2>2 DEF SaveBatch, ClaimLost, Promise!abstractVars
    <2> QED BY <2>1, <2>2
  <1>2. ASSUME NEW r \in Requests, WithdrawBatch(r)
        PROVE  Promise!AbstractNext \/ UNCHANGED Promise!abstractVars
    <2>1. CASE WithdrawClaims(request[r].auth)
      <3>1. request[r].version \in Promise!Versions
        BY DEF TypeOK, RequestStates, Versions, Promise!Versions
      <3>2. Promise!Withdraw(request[r].version)
        BY <1>2, <2>1 DEF WithdrawBatch, NoProfile, Promise!Withdraw, Promise!Withdrawn, Withdrawn
      <3> QED
        BY <3>1, <3>2 DEF Promise!AbstractNext
    <2>2. CASE ~ WithdrawClaims(request[r].auth)
      BY <1>2, <2>2 DEF WithdrawBatch, ClaimLost, Promise!abstractVars
    <2> QED BY <2>1, <2>2
  <1>3. CASE ~ \E r \in Requests : SaveBatch(r) \/ WithdrawBatch(r)
    <2>1. consent' = consent /\ profile' \in {profile, NoProfile}
      BY <1>3, OnlyBatchesWrite
    <2>2. CASE profile' = profile
      BY <2>1, <2>2 DEF Promise!abstractVars
    <2>3. CASE profile' = NoProfile /\ profile # NoProfile
      <3>1. profile.version # 0
        BY <2>3, ProfileAssumption DEF ProfileInv, AnswersNameTheirSave, Versions
      <3> QED
        BY <2>1, <2>3, <3>1 DEF NoProfile, Promise!AbstractNext, Promise!Erase
    <2> QED BY <2>1, <2>2, <2>3
  <1> QED BY <1>1, <1>2, <1>3

(* Reading the consent state early and writing it in the batch implements  *)
(* the save that decides in one step.                                      *)
THEOREM Refinement == Spec => ImplementsPromise
  BY PromiseInit, PromiseStep, TypeCorrect, ProfileInvariant, PTL
  DEF Spec, ImplementsPromise, Promise!AbstractSpec
===========================================================================
