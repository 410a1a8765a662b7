----------------------- MODULE WaitlistSignupProofs -----------------------
(***************************************************************************)
(* Theorems about WaitlistSignup, for every finite number of requests and  *)
(* every value of the limits and bounds.                                   *)
(***************************************************************************)
EXTENDS WaitlistSignup, FiniteSetTheorems, TLAPS

(* The groups only abbreviate the UNCHANGED conjuncts of the actions.       *)
USE DEF signupVars, confirmVars, closedVars, tokenVars, mailVars, purgeVars

(* The requests at certain statements.                                     *)
At(pcs) == {r \in Requests : request[r].pc \in pcs}

Joining   == {"lookup", "insert", "supersede", "mint", "link", "send"}
Welcoming == {"prior", "confirm", "welcomeLink", "welcome"}
Unlinked  == {"link", "prior", "confirm", "welcomeLink"}

(* The signup is there, and no purge has taken its tokens.                 *)
Intact   == signup # NoId /\ purged # signup
CanLeave == inbox.unsubscribe \cap unsubscribeRows # {}

(* What a request holds is what its statements put there: tokens that were *)
(* inserted, of the signup it works on, which can be left once it has come *)
(* as far as confirming.                                                   *)
RequestInv(q) ==
    /\ q.pc \notin {"idle", "email", "lookup", "insert"} => q.signup \in 1 .. signups
    /\ q.pc \in {"link", "send", "claim"} => q.confirm \in 1 .. confirmCount
    /\ q.pc \in {"prior", "confirm"} => q.confirm \in confirmUsed
    /\ q.pc \in {"send", "welcome"} => q.unsubscribe \in 1 .. unsubscribeCount
    /\ q.pc \in {"link", "send"} /\ q.signup # signup => q.confirm \notin confirmRows
    /\ q.pc \in {"send", "welcome"} /\ q.signup = signup /\ Intact
          => q.unsubscribe \in unsubscribeRows
    /\ q.pc \in {"claim", "prior", "confirm"} /\ q.signup = signup /\ Intact => CanLeave

(* Each mail of the window, sent or still to be sent, is counted; each     *)
(* welcome, and each unsubscribe token, has a confirm token of its own.    *)
Counted ==
    /\ mails + Cardinality(At(Joining)) <= sent.email
    /\ welcomes + Cardinality(At(Welcoming)) <= Cardinality(confirmUsed)
    /\ unsubscribeCount + Cardinality(At(Unlinked)) <= confirmCount + Cardinality(confirmUsed)

LinksInv ==
    /\ inbox.confirm \subseteq 1 .. confirmCount
    /\ purge.pc # "idle" => purge.doomed = signup /\ signup # NoId
    /\ purged \in 0 .. signups
    /\ signup = NoId => confirmRows = {} /\ unsubscribeRows = {}
    /\ Intact /\ inbox.confirm \cap confirmRows # {} => CanLeave
    /\ Intact /\ status = "confirmed" => CanLeave
    /\ \A t \in Outstanding : t > closedThrough
    /\ \A t \in confirmUsed \ claimedBefore : t > closedThrough

RequestsInv == \A r \in Requests : RequestInv(request[r])

WaitlistInv == TypeOK /\ RequestsInv /\ Counted /\ LinksInv

-----------------------------------------------------------------------------
(* Counting.                                                               *)

LEMMA AtFinite ==
    ASSUME NEW CONSTANT pcs
    PROVE  IsFiniteSet(At(pcs)) /\ Cardinality(At(pcs)) \in Nat
  <1>1. At(pcs) \in SUBSET Requests /\ IsFiniteSet(Requests)
    BY WaitlistAssumption DEF At
  <1>2. IsFiniteSet(At(pcs))
    BY <1>1, FS_Subset
  <1> QED
    BY <1>2, FS_CardinalityType

(* A request that moves leaves where it was and is counted where it goes.  *)
LEMMA CountMove ==
    ASSUME TypeOK, NEW r \in Requests, NEW next \in RequestStates, Goto(r, next),
           NEW CONSTANT pcs
    PROVE  /\ Cardinality(At(pcs)) \in Nat /\ Cardinality(At(pcs))' \in Nat
           /\ Cardinality(At(pcs))' = Cardinality(At(pcs))
                                          - (IF request[r].pc \in pcs THEN 1 ELSE 0)
                                          + (IF next.pc \in pcs THEN 1 ELSE 0)
  <1>1. /\ request'[r] = next
        /\ \A p \in Requests \ {r} : request'[p] = request[p]
    BY DEF Goto, TypeOK
  <1> DEFINE rest == At(pcs) \ {r}
  <1>2. At(pcs)' = IF next.pc \in pcs THEN rest \cup {r} ELSE rest
    BY <1>1 DEF At
  <1>3. /\ IsFiniteSet(rest) /\ Cardinality(rest) \in Nat
        /\ Cardinality(rest) = Cardinality(At(pcs)) - (IF r \in At(pcs) THEN 1 ELSE 0)
    <2>1. IsFiniteSet(rest) /\ Cardinality(rest) =
            IF r \in At(pcs) THEN Cardinality(At(pcs)) - 1 ELSE Cardinality(At(pcs))
      BY AtFinite, FS_RemoveElement
    <2>2. Cardinality(rest) \in Nat
      BY <2>1, FS_CardinalityType
    <2> QED
      BY <2>1, <2>2, AtFinite
  <1>4. r \in At(pcs) <=> request[r].pc \in pcs
    BY DEF At
  <1>5. r \notin rest
    OBVIOUS
  <1> HIDE DEF rest
  <1>6. Cardinality(rest \cup {r}) = Cardinality(rest) + 1
    BY <1>3, <1>5, FS_AddElement
  <1> QED
    BY <1>2, <1>3, <1>4, <1>6, AtFinite

LEMMA CountSome ==
    ASSUME NEW r \in Requests, NEW CONSTANT pcs, request[r].pc \in pcs
    PROVE  Cardinality(At(pcs)) >= 1
  <1>1. r \in At(pcs)
    BY DEF At
  <1> QED
    BY <1>1, AtFinite, FS_EmptySet

LEMMA UsedFinite ==
    ASSUME TypeOK
    PROVE  /\ IsFiniteSet(confirmUsed) /\ Cardinality(confirmUsed) \in Nat
           /\ Cardinality(confirmUsed) <= confirmCount
  <1>1. IsFiniteSet(1 .. confirmCount) /\ Cardinality(1 .. confirmCount) = confirmCount
    BY FS_Interval DEF TypeOK
  <1>2. IsFiniteSet(confirmUsed) /\ Cardinality(confirmUsed) <= Cardinality(1 .. confirmCount)
    BY <1>1, FS_Subset DEF TypeOK
  <1> QED
    BY <1>1, <1>2, FS_CardinalityType

-----------------------------------------------------------------------------
(* Requests.                                                               *)

LEMMA IdleIsState == Idle \in RequestStates /\ Idle.pc = "idle"
  BY DEF Idle, RequestStates

LEMMA GotoTypes ==
    ASSUME TypeOK, NEW r \in Requests, NEW next \in RequestStates, Goto(r, next)
    PROVE  request' \in [Requests -> RequestStates]
  BY DEF TypeOK, Goto

(* A request moves without being counted anew, and nothing else changes.   *)
LEMMA QuietMove ==
    ASSUME WaitlistInv, NEW r \in Requests, NEW next \in RequestStates, Goto(r, next),
           RequestInv(next),
           next.pc \in Joining => request[r].pc \in Joining,
           next.pc \in Welcoming => request[r].pc \in Welcoming,
           next.pc \in Unlinked => request[r].pc \in Unlinked,
           UNCHANGED <<signupVars, tokenVars, mailVars, purgeVars>>
    PROVE  WaitlistInv'
  <1>1. TypeOK
    BY DEF WaitlistInv
  <1>2. TypeOK'
    BY <1>1, GotoTypes DEF TypeOK
  <1>3. RequestsInv'
    <2>1. \A p \in Requests \ {r} : request'[p] = request[p]
      BY <1>1 DEF TypeOK, Goto
    <2>2. request'[r] = next
      BY <1>1 DEF TypeOK, Goto
    <2> QED
      BY <2>1, <2>2 DEF WaitlistInv, RequestsInv, RequestInv, Intact, CanLeave
  <1>4. Counted'
    <2>1. /\ Cardinality(At(Joining))' <= Cardinality(At(Joining))
          /\ Cardinality(At(Welcoming))' <= Cardinality(At(Welcoming))
          /\ Cardinality(At(Unlinked))' <= Cardinality(At(Unlinked))
          /\ Cardinality(At(Joining))' \in Nat /\ Cardinality(At(Welcoming))' \in Nat
          /\ Cardinality(At(Unlinked))' \in Nat
      BY <1>1, CountMove
    <2> QED
      BY <1>1, <2>1, AtFinite, UsedFinite DEF WaitlistInv, Counted, TypeOK
  <1>5. LinksInv'
    BY DEF WaitlistInv, LinksInv, Intact, CanLeave, Outstanding
  <1> QED
    BY <1>2, <1>3, <1>4, <1>5 DEF WaitlistInv

(* Each request step moves its request to another state.                   *)
LEMMA StopIsQuiet ==
    ASSUME WaitlistInv, NEW r \in Requests, Stop(r),
           UNCHANGED <<signupVars, tokenVars, mailVars, purgeVars>>
    PROVE  WaitlistInv'
  <1>1. Idle \in RequestStates /\ RequestInv(Idle) /\ Goto(r, Idle)
    BY IdleIsState DEF Stop, RequestInv
  <1>2. Idle.pc \notin Joining \cup Welcoming \cup Unlinked
    BY IdleIsState DEF Joining, Welcoming, Unlinked
  <1> QED
    BY <1>1, <1>2, QuietMove

LEMMA StepType ==
    ASSUME TypeOK, NEW r \in Requests,
           NEW pc \in {"email", "lookup", "insert", "supersede", "mint", "link", "send", "claim",
                       "prior", "confirm", "welcomeLink", "welcome", "unsubscribe", "close"},
           Step(r, pc)
    PROVE  \E next \in RequestStates :
              /\ Goto(r, next) /\ next.pc = pc
              /\ next.signup = request[r].signup /\ next.confirm = request[r].confirm
              /\ next.unsubscribe = request[r].unsubscribe
  <1> DEFINE next == [request[r] EXCEPT !.pc = pc]
  <1>1. next \in RequestStates /\ Goto(r, next)
    BY DEF TypeOK, RequestStates, Step
  <1>2. /\ next.pc = pc /\ next.signup = request[r].signup /\ next.confirm = request[r].confirm
        /\ next.unsubscribe = request[r].unsubscribe
    BY DEF TypeOK, RequestStates
  <1> QED
    BY <1>1, <1>2

(* As long as the signup stays, tokens and mails that are only added leave *)
(* what a request holds as it was.                                         *)
LEMMA GrowKeeps ==
    ASSUME TypeOK, TypeOK', NEW CONSTANT q \in RequestStates, RequestInv(q),
           UNCHANGED <<signup, signups, purged>>,
           confirmCount <= confirmCount', unsubscribeCount <= unsubscribeCount',
           confirmRows' \subseteq confirmRows \cup {confirmCount + 1},
           unsubscribeRows \subseteq unsubscribeRows',
           confirmUsed \subseteq confirmUsed',
           inbox.unsubscribe \subseteq inbox'.unsubscribe
    PROVE  RequestInv(q)'
  <1>1. /\ confirmCount \in Nat /\ confirmCount' \in Nat
        /\ unsubscribeCount \in Nat /\ unsubscribeCount' \in Nat
    BY WaitlistAssumption DEF TypeOK
  <1> QED
    BY <1>1 DEF RequestInv, Intact, CanLeave

LEMMA OthersKeep ==
    ASSUME WaitlistInv, TypeOK', NEW r \in Requests, NEW next \in RequestStates, Goto(r, next),
           UNCHANGED <<signup, signups, purged>>,
           confirmCount <= confirmCount', unsubscribeCount <= unsubscribeCount',
           confirmRows' \subseteq confirmRows \cup {confirmCount + 1},
           unsubscribeRows \subseteq unsubscribeRows',
           confirmUsed \subseteq confirmUsed',
           inbox.unsubscribe \subseteq inbox'.unsubscribe,
           RequestInv(request[r])'
    PROVE  RequestsInv'
  <1>1. SUFFICES ASSUME NEW CONSTANT p \in Requests \ {r} PROVE RequestInv(request[p])'
    BY DEF RequestsInv
  <1>2. request'[p] = request[p] /\ request[p] \in RequestStates
    BY <1>1 DEF WaitlistInv, TypeOK, Goto
  <1>3. PICK q \in RequestStates : q = request[p]
    BY <1>2
  <1>4. RequestInv(q)
    BY <1>1, <1>3 DEF WaitlistInv, RequestsInv
  <1>5. RequestInv(q)'
    BY <1>4, GrowKeeps DEF WaitlistInv
  <1> QED
    BY <1>2, <1>3, <1>5 DEF RequestInv, Intact, CanLeave

-----------------------------------------------------------------------------
(* Joining.                                                                *)

LEMMA JoinKeeps ==
    ASSUME WaitlistInv, NEW r \in Requests, Join(r)
    PROVE  WaitlistInv'
  <1>1. CASE ~ sent["client"] < ClientLimit
    BY <1>1, StopIsQuiet DEF Join, UnderLimit
  <1>2. CASE sent["client"] < ClientLimit
    <2>1. TypeOK /\ request[r].pc = "idle"
      BY DEF WaitlistInv, Join
    <2>2. PICK next \in RequestStates : Goto(r, next) /\ next.pc = "email"
      BY <1>2, <2>1, StepType DEF Join, UnderLimit
    <2>3. /\ sent' = [sent EXCEPT !["client"] = @ + 1]
          /\ UNCHANGED <<signupVars, tokenVars, inbox, mails, welcomes, purgeVars>>
      BY <1>2 DEF Join, UnderLimit
    <2>4. sent' \in [client : 0 .. ClientLimit, email : 0 .. EmailLimit] /\ sent'.email = sent.email
      BY <1>2, <2>1, <2>3, WaitlistAssumption DEF TypeOK
    <2>5. TypeOK'
      BY <2>1, <2>2, <2>3, <2>4, GotoTypes DEF TypeOK
    <2>6. RequestsInv'
      <3>1. RequestInv(request[r])'
        BY <2>1, <2>2 DEF RequestInv, TypeOK, Goto
      <3> QED
        BY <2>1, <2>2, <2>3, <2>5, <3>1, OthersKeep DEF TypeOK
    <2>7. Counted'
      <3>0. /\ request[r].pc \notin Joining /\ next.pc \notin Joining
            /\ request[r].pc \notin Welcoming /\ next.pc \notin Welcoming
            /\ request[r].pc \notin Unlinked /\ next.pc \notin Unlinked
        BY <2>1, <2>2 DEF Joining, Welcoming, Unlinked
      <3>1. /\ Cardinality(At(Joining))' = Cardinality(At(Joining))
            /\ Cardinality(At(Welcoming))' = Cardinality(At(Welcoming))
            /\ Cardinality(At(Unlinked))' = Cardinality(At(Unlinked))
        BY <2>1, <2>2, <3>0, CountMove
      <3> QED
        BY <2>3, <2>4, <3>1 DEF WaitlistInv, Counted
    <2>8. LinksInv'
      BY <2>3 DEF WaitlistInv, LinksInv, Intact, CanLeave, Outstanding
    <2> QED
      BY <2>5, <2>6, <2>7, <2>8 DEF WaitlistInv
  <1> QED
    BY <1>1, <1>2

LEMMA LimitEmailKeeps ==
    ASSUME WaitlistInv, NEW r \in Requests, LimitEmail(r)
    PROVE  WaitlistInv'
  <1>1. CASE ~ sent["email"] < EmailLimit
    BY <1>1, StopIsQuiet DEF LimitEmail, UnderLimit
  <1>2. CASE sent["email"] < EmailLimit
    <2>1. TypeOK /\ request[r].pc = "email"
      BY DEF WaitlistInv, LimitEmail
    <2>2. PICK next \in RequestStates : Goto(r, next) /\ next.pc = "lookup"
      BY <1>2, <2>1, StepType DEF LimitEmail, UnderLimit
    <2>3. /\ sent' = [sent EXCEPT !["email"] = @ + 1]
          /\ UNCHANGED <<signupVars, tokenVars, inbox, mails, welcomes, purgeVars>>
      BY <1>2 DEF LimitEmail, UnderLimit
    <2>4. /\ sent' \in [client : 0 .. ClientLimit, email : 0 .. EmailLimit]
          /\ sent'.email = sent.email + 1 /\ sent.email \in Nat
      BY <1>2, <2>1, <2>3, WaitlistAssumption DEF TypeOK
    <2>5. TypeOK'
      BY <2>1, <2>2, <2>3, <2>4, GotoTypes DEF TypeOK
    <2>6. RequestsInv'
      <3>1. RequestInv(request[r])'
        BY <2>1, <2>2 DEF RequestInv, TypeOK, Goto
      <3> QED
        BY <2>1, <2>2, <2>3, <2>5, <3>1, OthersKeep DEF TypeOK
    <2>7. Counted'
      <3>0. /\ request[r].pc \notin Joining /\ next.pc \in Joining
            /\ request[r].pc \notin Welcoming /\ next.pc \notin Welcoming
            /\ request[r].pc \notin Unlinked /\ next.pc \notin Unlinked
        BY <2>1, <2>2 DEF Joining, Welcoming, Unlinked
      <3>1. /\ Cardinality(At(Joining))' = Cardinality(At(Joining)) + 1
            /\ Cardinality(At(Welcoming))' = Cardinality(At(Welcoming))
            /\ Cardinality(At(Unlinked))' = Cardinality(At(Unlinked))
            /\ Cardinality(At(Joining)) \in Nat
        BY <2>1, <2>2, <3>0, CountMove
      <3> QED
        BY <2>1, <2>3, <2>4, <3>1 DEF WaitlistInv, Counted, TypeOK
    <2>8. LinksInv'
      BY <2>3 DEF WaitlistInv, LinksInv, Intact, CanLeave, Outstanding
    <2> QED
      BY <2>5, <2>6, <2>7, <2>8 DEF WaitlistInv
  <1> QED
    BY <1>1, <1>2

LEMMA LookupKeeps ==
    ASSUME WaitlistInv, NEW r \in Requests, Lookup(r)
    PROVE  WaitlistInv'
  <1>1. /\ TypeOK /\ request[r].pc = "lookup" /\ request[r] \in RequestStates
        /\ UNCHANGED <<signupVars, tokenVars, mailVars, purgeVars>>
    BY DEF WaitlistInv, Lookup, TypeOK
  <1>2. CASE signup = NoId
    <2>1. Step(r, "insert")
      BY <1>2 DEF Lookup
    <2>2. PICK next \in RequestStates : Goto(r, next) /\ next.pc = "insert"
      BY <1>1, <2>1, StepType
    <2>3. RequestInv(next)
      BY <2>2 DEF RequestInv
    <2> QED
      BY <1>1, <2>2, <2>3, QuietMove DEF Joining, Welcoming, Unlinked
  <1>3. CASE signup # NoId /\ status = "confirmed"
    BY <1>1, <1>3, StopIsQuiet DEF Lookup
  <1>4. CASE signup # NoId /\ status # "confirmed"
    <2> DEFINE next == [request[r] EXCEPT !.pc = "supersede", !.signup = signup]
    <2>1. Goto(r, next)
      BY <1>4 DEF Lookup
    <2>2. next.pc = "supersede" /\ next.signup = signup /\ signup \in 1 .. signups
      BY <1>1, <1>4, WaitlistAssumption DEF RequestStates, TypeOK, NoId
    <2>3. next \in RequestStates
      <3>1. signup \in SignupIds
        BY <1>1, <2>2, WaitlistAssumption DEF SignupIds, TypeOK
      <3> QED
        BY <1>1, <3>1 DEF RequestStates
    <2>4. RequestInv(next)
      BY <2>2 DEF RequestInv
    <2> QED
      BY <1>1, <2>1, <2>2, <2>3, <2>4, QuietMove DEF Joining, Welcoming, Unlinked
  <1> QED
    BY <1>2, <1>3, <1>4

(* The first row of an address is new to every request in flight.          *)
LEMMA InsertKeeps ==
    ASSUME WaitlistInv, NEW r \in Requests, InsertSignup(r)
    PROVE  WaitlistInv'
  <1>1. CASE signup # NoId
    BY <1>1, StopIsQuiet DEF InsertSignup
  <1>2. CASE signup = NoId
    <2> DEFINE moved == [request[r] EXCEPT !.pc = "supersede", !.signup = signup']
    <2>1. /\ TypeOK /\ RequestsInv /\ Counted /\ LinksInv
          /\ request[r].pc = "insert" /\ request[r] \in RequestStates
      BY DEF WaitlistInv, InsertSignup, TypeOK
    <2>2. /\ signups' = signups + 1 /\ signup' = signups + 1 /\ signups \in Nat
          /\ signups + 1 \in 1 .. MaxSignups
      BY <1>2, <2>1, WaitlistAssumption DEF InsertSignup, TypeOK
    <2>3. /\ status' = "pending" /\ age' = "new" /\ unsubscribes' = 0 /\ resubscribedAfter' = 0
          /\ UNCHANGED <<tokenVars, mailVars, purgeVars>>
      BY <1>2 DEF InsertSignup
    <2>4. Goto(r, moved)
      BY <1>2 DEF InsertSignup
    <2>5. moved \in RequestStates /\ moved.pc = "supersede" /\ moved.signup = signups + 1
      BY <2>1, <2>2 DEF RequestStates, SignupIds
    <2>6. PICK next \in RequestStates :
             Goto(r, next) /\ next.pc = "supersede" /\ next.signup = signups + 1
      BY <2>4, <2>5
    <2>7. TypeOK'
      <3>1. 0 \in 0 .. MaxUnsubscribes /\ 0 \in 0 .. 0
        BY WaitlistAssumption
      <3> QED
        BY <2>1, <2>2, <2>3, <2>6, <3>1, GotoTypes DEF TypeOK
    <2>8. RequestsInv'
      <3>1. SUFFICES ASSUME NEW p \in Requests PROVE RequestInv(request[p])'
        BY DEF RequestsInv
      <3>2. CASE p = r
        <4>1. request'[p] = next
          BY <2>1, <2>6, <3>2 DEF TypeOK, Goto
        <4> QED
          BY <2>2, <2>6, <4>1 DEF RequestInv
      <3>3. CASE p # r
        <4>1. request'[p] = request[p] /\ RequestInv(request[p])
          BY <2>1, <2>6, <3>3 DEF TypeOK, Goto, RequestsInv
        <4>2. confirmRows = {}
          BY <1>2, <2>1 DEF LinksInv
        <4> QED
          BY <2>2, <2>3, <4>1, <4>2 DEF RequestInv
      <3> QED
        BY <3>2, <3>3
    <2>9. Counted'
      <3>0. /\ request[r].pc \in Joining /\ next.pc \in Joining
            /\ request[r].pc \notin Welcoming /\ next.pc \notin Welcoming
            /\ request[r].pc \notin Unlinked /\ next.pc \notin Unlinked
        BY <2>1, <2>6 DEF Joining, Welcoming, Unlinked
      <3>1. /\ Cardinality(At(Joining))' = Cardinality(At(Joining))
            /\ Cardinality(At(Welcoming))' = Cardinality(At(Welcoming))
            /\ Cardinality(At(Unlinked))' = Cardinality(At(Unlinked))
        BY <2>1, <2>6, <3>0, CountMove
      <3> QED
        BY <2>1, <2>3, <3>1 DEF Counted
    <2>10. LinksInv'
      <3>1. confirmRows = {} /\ unsubscribeRows = {} /\ purge.pc = "idle"
        BY <1>2, <2>1 DEF LinksInv
      <3> QED
        BY <2>1, <2>2, <2>3, <3>1 DEF LinksInv, Intact, Outstanding, NoId
    <2> QED
      BY <2>7, <2>8, <2>9, <2>10 DEF WaitlistInv
  <1> QED
    BY <1>1, <1>2

LEMMA SupersedeKeeps ==
    ASSUME WaitlistInv, NEW r \in Requests, SupersedeConfirms(r)
    PROVE  WaitlistInv'
  <1>1. /\ TypeOK /\ RequestsInv /\ Counted /\ LinksInv
        /\ request[r].pc = "supersede"
        /\ confirmSuperseded' \subseteq confirmSuperseded \cup Outstanding
        /\ confirmSuperseded \subseteq confirmSuperseded'
        /\ UNCHANGED <<signupVars, confirmRows, confirmCount, confirmUsed, confirmExpired,
                       confirmLapsed,
                       unsubscribeRows, unsubscribeCount, closedVars, mailVars, purgeVars>>
    BY DEF WaitlistInv, SupersedeConfirms
  <1>2. PICK next \in RequestStates :
           Goto(r, next) /\ next.pc = "mint" /\ next.signup = request[r].signup
    BY <1>1, StepType DEF SupersedeConfirms
  <1>3. TypeOK'
    BY <1>1, <1>2, GotoTypes DEF TypeOK, Outstanding
  <1>4. RequestsInv'
    <2>1. RequestInv(request[r])'
      BY <1>1, <1>2 DEF RequestsInv, RequestInv, TypeOK, Goto
    <2> QED
      BY <1>1, <1>2, <1>3, <2>1, OthersKeep DEF TypeOK
  <1>5. Counted'
    <2>0. /\ request[r].pc \in Joining /\ next.pc \in Joining
          /\ request[r].pc \notin Welcoming /\ next.pc \notin Welcoming
          /\ request[r].pc \notin Unlinked /\ next.pc \notin Unlinked
      BY <1>1, <1>2 DEF Joining, Welcoming, Unlinked
    <2>1. /\ Cardinality(At(Joining))' = Cardinality(At(Joining))
          /\ Cardinality(At(Welcoming))' = Cardinality(At(Welcoming))
          /\ Cardinality(At(Unlinked))' = Cardinality(At(Unlinked))
      BY <1>1, <1>2, <2>0, CountMove
    <2> QED
      BY <1>1, <2>1 DEF Counted
  <1>6. LinksInv'
    BY <1>1 DEF LinksInv, Intact, CanLeave, Outstanding
  <1> QED
    BY <1>3, <1>4, <1>5, <1>6 DEF WaitlistInv

(* The new link is in no inbox yet.                                        *)
LEMMA MintConfirmKeeps ==
    ASSUME WaitlistInv, NEW r \in Requests, MintConfirm(r)
    PROVE  WaitlistInv'
  <1>1. CASE ~ Present(r)
    BY <1>1, StopIsQuiet DEF MintConfirm
  <1>2. CASE Present(r)
    <2> DEFINE moved == [request[r] EXCEPT !.pc = "link", !.confirm = confirmCount']
    <2>1. /\ TypeOK /\ RequestsInv /\ Counted /\ LinksInv
          /\ request[r].pc = "mint" /\ request[r] \in RequestStates
          /\ request[r].signup = signup /\ signup \in 1 .. signups
      BY <1>2 DEF WaitlistInv, MintConfirm, TypeOK, Present, RequestsInv, RequestInv
    <2>2. /\ confirmCount \in Nat /\ confirmCount' = confirmCount + 1
          /\ confirmCount + 1 \in 1 .. MaxConfirms
          /\ confirmRows' = confirmRows \cup {confirmCount + 1}
      BY <1>2, <2>1, WaitlistAssumption DEF MintConfirm, TypeOK
    <2>3. UNCHANGED <<signupVars, confirmUsed, confirmSuperseded, confirmExpired, confirmLapsed,
                      unsubscribeRows, unsubscribeCount, closedVars, mailVars, purgeVars>>
      BY <1>2 DEF MintConfirm
    <2>4. Goto(r, moved)
      BY <1>2 DEF MintConfirm
    <2>5. moved \in RequestStates /\ moved.pc = "link" /\ moved.confirm = confirmCount + 1
          /\ moved.signup = signup
      BY <2>1, <2>2 DEF RequestStates, Confirms
    <2>6. PICK next \in RequestStates :
             Goto(r, next) /\ next.pc = "link" /\ next.confirm = confirmCount + 1
             /\ next.signup = signup
      BY <2>4, <2>5
    <2>7. TypeOK'
      <3>1. /\ 1 .. confirmCount \subseteq 1 .. confirmCount'
            /\ 0 .. confirmCount \subseteq 0 .. confirmCount'
            /\ confirmCount + 1 \in 1 .. confirmCount'
        BY <2>2
      <3> QED
        BY <2>1, <2>2, <2>3, <2>6, <3>1, GotoTypes DEF TypeOK
    <2>8. RequestsInv'
      <3>1. RequestInv(request[r])'
        <4>1. request'[r] = next
          BY <2>1, <2>6 DEF TypeOK, Goto
        <4> QED
          BY <2>1, <2>2, <2>3, <2>6, <4>1 DEF RequestInv
      <3> QED
        BY <2>1, <2>2, <2>3, <2>6, <2>7, <3>1, OthersKeep DEF TypeOK
    <2>9. Counted'
      <3>0. /\ request[r].pc \in Joining /\ next.pc \in Joining
            /\ request[r].pc \notin Welcoming /\ next.pc \notin Welcoming
            /\ request[r].pc \notin Unlinked /\ next.pc \in Unlinked
        BY <2>1, <2>6 DEF Joining, Welcoming, Unlinked
      <3>1. /\ Cardinality(At(Joining))' = Cardinality(At(Joining))
            /\ Cardinality(At(Welcoming))' = Cardinality(At(Welcoming))
            /\ Cardinality(At(Unlinked))' = Cardinality(At(Unlinked)) + 1
            /\ Cardinality(At(Unlinked)) \in Nat
        BY <2>1, <2>6, <3>0, CountMove
      <3>2. Cardinality(confirmUsed) \in Nat /\ unsubscribeCount \in Nat
        BY <2>1, UsedFinite, WaitlistAssumption DEF TypeOK
      <3> QED
        BY <2>1, <2>2, <2>3, <3>1, <3>2 DEF Counted
    <2>10. LinksInv'
      <3>1. /\ inbox.confirm \subseteq 1 .. confirmCount'
            /\ inbox.confirm \cap confirmRows' = inbox.confirm \cap confirmRows
        BY <2>1, <2>2 DEF LinksInv
      <3>2. confirmCount + 1 > closedThrough
        BY <2>1, <2>2 DEF TypeOK
      <3>3. signup' # NoId
        BY <2>1, <2>3 DEF NoId
      <3> QED
        BY <2>1, <2>2, <2>3, <3>1, <3>2, <3>3 DEF LinksInv, Intact, CanLeave, Outstanding
    <2> QED
      BY <2>7, <2>8, <2>9, <2>10 DEF WaitlistInv
  <1> QED
    BY <1>1, <1>2

(* The token is counted against the confirm token it comes with.           *)
LEMMA MintUnsubscribeKeeps ==
    ASSUME WaitlistInv, NEW r \in Requests, MintUnsubscribe(r)
    PROVE  WaitlistInv'
  <1>1. CASE ~ Present(r)
    BY <1>1, StopIsQuiet DEF MintUnsubscribe
  <1>2. CASE Present(r)
    <2> DEFINE pc == IF request[r].pc = "link" THEN "send" ELSE "welcome"
               moved == [request[r] EXCEPT !.pc = pc, !.unsubscribe = unsubscribeCount']
    <2>1. /\ TypeOK /\ RequestsInv /\ Counted /\ LinksInv
          /\ request[r].pc \in {"link", "welcomeLink"} /\ request[r] \in RequestStates
          /\ request[r].signup = signup /\ signup \in 1 .. signups
      BY <1>2 DEF WaitlistInv, MintUnsubscribe, TypeOK, Present, RequestsInv, RequestInv
    <2>2. /\ unsubscribeCount' = unsubscribeCount + 1
          /\ unsubscribeRows' = unsubscribeRows \cup {unsubscribeCount + 1}
          /\ UNCHANGED <<signupVars, confirmVars, closedVars, mailVars, purgeVars>>
      BY <1>2 DEF MintUnsubscribe
    <2>3. unsubscribeCount \in Nat /\ unsubscribeCount + 1 \in 1 .. 2 * MaxConfirms
      <3>1. Cardinality(At(Unlinked)) >= 1 /\ Cardinality(At(Unlinked)) \in Nat
        BY <2>1, CountSome, AtFinite DEF Unlinked
      <3>2. /\ unsubscribeCount \in Nat /\ confirmCount \in Nat /\ confirmCount <= MaxConfirms
            /\ Cardinality(confirmUsed) \in Nat /\ Cardinality(confirmUsed) <= confirmCount
        BY <2>1, UsedFinite, WaitlistAssumption DEF TypeOK
      <3> QED
        BY <2>1, <3>1, <3>2, WaitlistAssumption DEF Counted
    <2>4. Goto(r, moved)
      BY <1>2 DEF MintUnsubscribe
    <2>5. /\ moved \in RequestStates /\ moved.pc = pc /\ moved.unsubscribe = unsubscribeCount + 1
          /\ moved.signup = signup /\ moved.confirm = request[r].confirm
      BY <2>1, <2>2, <2>3 DEF RequestStates, Unsubscribable
    <2>6. PICK next \in RequestStates :
             /\ Goto(r, next) /\ next.pc = pc /\ next.unsubscribe = unsubscribeCount + 1
             /\ next.signup = signup /\ next.confirm = request[r].confirm
      BY <2>4, <2>5
    <2>7. TypeOK'
      BY <2>1, <2>2, <2>3, <2>6, GotoTypes DEF TypeOK
    <2>8. RequestsInv'
      <3>1. RequestInv(request[r])'
        <4>1. request'[r] = next
          BY <2>1, <2>6 DEF TypeOK, Goto
        <4> QED
          BY <2>1, <2>2, <2>3, <2>6, <4>1 DEF RequestsInv, RequestInv
      <3> QED
        BY <2>1, <2>2, <2>3, <2>6, <2>7, <3>1, OthersKeep DEF TypeOK
    <2>9. Counted'
      <3>0. /\ request[r].pc \in Joining <=> next.pc \in Joining
            /\ request[r].pc \in Welcoming <=> next.pc \in Welcoming
            /\ request[r].pc \in Unlinked /\ next.pc \notin Unlinked
        BY <2>1, <2>6 DEF Joining, Welcoming, Unlinked
      <3>1. /\ Cardinality(At(Joining))' = Cardinality(At(Joining))
            /\ Cardinality(At(Welcoming))' = Cardinality(At(Welcoming))
            /\ Cardinality(At(Unlinked))' = Cardinality(At(Unlinked)) - 1
            /\ Cardinality(At(Unlinked)) \in Nat
        BY <2>1, <2>6, <3>0, CountMove, AtFinite
      <3>2. Cardinality(confirmUsed) \in Nat /\ confirmCount \in Nat
        BY <2>1, UsedFinite, WaitlistAssumption DEF TypeOK
      <3> QED
        BY <2>1, <2>2, <2>3, <3>1, <3>2 DEF Counted
    <2>10. LinksInv'
      BY <2>1, <2>2 DEF LinksInv, Intact, CanLeave, Outstanding, NoId
    <2> QED
      BY <2>7, <2>8, <2>9, <2>10 DEF WaitlistInv
  <1> QED
    BY <1>1, <1>2

(* A mail that confirms brings the link that leaves along.                 *)
LEMMA SendConfirmationKeeps ==
    ASSUME WaitlistInv, NEW r \in Requests, SendConfirmation(r)
    PROVE  WaitlistInv'
  <1> DEFINE q == request[r]
  <1>1. /\ TypeOK /\ RequestsInv /\ Counted /\ LinksInv
        /\ q.pc = "send" /\ RequestInv(q)
    BY DEF WaitlistInv, SendConfirmation, RequestsInv
  <1>2. /\ mails' = mails + 1
        /\ inbox'.confirm = inbox.confirm \cup {q.confirm}
        /\ inbox'.unsubscribe = inbox.unsubscribe \cup {q.unsubscribe}
        /\ UNCHANGED <<signupVars, tokenVars, sent, welcomes, purgeVars>>
    BY DEF SendConfirmation
  <1>3. Goto(r, Idle) /\ Idle \in RequestStates /\ Idle.pc = "idle"
    BY IdleIsState DEF SendConfirmation, Stop
  <1>4. q.confirm \in 1 .. confirmCount /\ q.unsubscribe \in 1 .. unsubscribeCount
    BY <1>1 DEF RequestInv
  <1>5. TypeOK'
    <2>1. q.confirm \in Confirms /\ q.unsubscribe \in Unsubscribable
      BY <1>1, <1>4, WaitlistAssumption DEF TypeOK, Confirms, Unsubscribable
    <2>2. inbox' \in [confirm : SUBSET Confirms, unsubscribe : SUBSET Unsubscribable]
      BY <1>1, <2>1 DEF TypeOK, SendConfirmation
    <2> QED
      BY <1>1, <1>2, <1>3, <2>2, GotoTypes DEF TypeOK
  <1>6. RequestsInv'
    <2>1. RequestInv(request[r])'
      BY <1>1, <1>3 DEF RequestInv, TypeOK, Goto
    <2> QED
      BY <1>1, <1>2, <1>3, <1>5, <2>1, OthersKeep DEF TypeOK
  <1>7. Counted'
    <2>0. /\ q.pc \in Joining /\ q.pc \notin Welcoming /\ q.pc \notin Unlinked
          /\ Idle.pc \notin Joining /\ Idle.pc \notin Welcoming /\ Idle.pc \notin Unlinked
      BY <1>1, <1>3 DEF Joining, Welcoming, Unlinked
    <2>1. /\ Cardinality(At(Joining))' = Cardinality(At(Joining)) - 1
          /\ Cardinality(At(Welcoming))' = Cardinality(At(Welcoming))
          /\ Cardinality(At(Unlinked))' = Cardinality(At(Unlinked))
          /\ Cardinality(At(Joining)) \in Nat
      BY <1>1, <1>3, <2>0, CountMove, AtFinite
    <2> QED
      BY <1>1, <1>2, <2>1 DEF Counted, TypeOK
  <1>8. LinksInv'
    <2>1. Intact /\ inbox'.confirm \cap confirmRows # {} => CanLeave'
      <3>1. CASE q.confirm \in confirmRows
        BY <1>1, <1>2, <3>1 DEF RequestInv, CanLeave
      <3>2. CASE q.confirm \notin confirmRows
        BY <1>1, <1>2, <3>2 DEF LinksInv, CanLeave
      <3> QED
        BY <3>1, <3>2
    <2> QED
      BY <1>1, <1>2, <1>4, <2>1 DEF LinksInv, Intact, CanLeave, Outstanding
  <1> QED
    BY <1>5, <1>6, <1>7, <1>8 DEF WaitlistInv

-----------------------------------------------------------------------------
(* Confirming.                                                             *)

LEMMA PostConfirmKeeps ==
    ASSUME WaitlistInv, NEW r \in Requests, NEW t \in Confirms, PostConfirm(r, t)
    PROVE  WaitlistInv'
  <1> DEFINE moved == [Idle EXCEPT !.pc = "claim", !.signup = signup, !.confirm = t]
  <1>1. /\ TypeOK /\ LinksInv /\ t \in inbox.confirm /\ t \in confirmRows
        /\ Goto(r, moved) /\ UNCHANGED <<signupVars, tokenVars, mailVars, purgeVars>>
    BY DEF WaitlistInv, PostConfirm
  <1>2. signup \in 1 .. signups /\ signup \in SignupIds
    BY <1>1, WaitlistAssumption DEF LinksInv, TypeOK, SignupIds, NoId
  <1>3. moved \in RequestStates /\ moved.pc = "claim" /\ moved.signup = signup /\ moved.confirm = t
    BY <1>2 DEF RequestStates, Idle
  <1>4. RequestInv(moved)
    BY <1>1, <1>2, <1>3 DEF RequestInv, LinksInv, TypeOK
  <1> QED
    BY <1>1, <1>3, <1>4, QuietMove DEF Joining, Welcoming, Unlinked

(* The link was outstanding: it is newly used, and newer than the last     *)
(* unsubscribe.                                                            *)
LEMMA ClaimKeeps ==
    ASSUME WaitlistInv, NEW r \in Requests, Claim(r)
    PROVE  WaitlistInv'
  <1> DEFINE t == request[r].confirm
  <1>1. CASE t \notin Usable
    BY <1>1, StopIsQuiet DEF Claim
  <1>2. CASE t \in Usable
    <2>1. /\ TypeOK /\ RequestsInv /\ Counted /\ LinksInv
          /\ request[r].pc = "claim"
          /\ t \in confirmRows /\ t \notin confirmUsed /\ t > closedThrough
      BY <1>2 DEF WaitlistInv, LinksInv, Claim, Usable, Outstanding
    <2>2. /\ confirmUsed' = confirmUsed \cup {t}
          /\ UNCHANGED <<signupVars, confirmRows, confirmCount, confirmSuperseded, confirmExpired,
                         confirmLapsed, unsubscribeRows, unsubscribeCount, closedVars, mailVars,
                         purgeVars>>
      BY <1>2 DEF Claim
    <2>3. PICK next \in RequestStates :
             /\ Goto(r, next) /\ next.pc = "prior"
             /\ next.signup = request[r].signup /\ next.confirm = t
      BY <1>2, <2>1, StepType DEF Claim
    <2>4. TypeOK'
      BY <2>1, <2>2, <2>3, GotoTypes DEF TypeOK
    <2>5. RequestsInv'
      <3>1. RequestInv(request[r])'
        <4>1. request'[r] = next
          BY <2>1, <2>3 DEF TypeOK, Goto
        <4> QED
          BY <2>1, <2>2, <2>3, <4>1 DEF RequestsInv, RequestInv, Intact, CanLeave
      <3> QED
        BY <2>1, <2>2, <2>3, <2>4, <3>1, OthersKeep DEF TypeOK
    <2>6. Counted'
      <3>0. /\ request[r].pc \notin Joining /\ next.pc \notin Joining
            /\ request[r].pc \notin Welcoming /\ next.pc \in Welcoming
            /\ request[r].pc \notin Unlinked /\ next.pc \in Unlinked
        BY <2>1, <2>3 DEF Joining, Welcoming, Unlinked
      <3>1. /\ Cardinality(At(Joining))' = Cardinality(At(Joining))
            /\ Cardinality(At(Welcoming))' = Cardinality(At(Welcoming)) + 1
            /\ Cardinality(At(Unlinked))' = Cardinality(At(Unlinked)) + 1
            /\ Cardinality(At(Welcoming)) \in Nat /\ Cardinality(At(Unlinked)) \in Nat
        BY <2>1, <2>3, <3>0, CountMove
      <3>2. /\ Cardinality(confirmUsed') = Cardinality(confirmUsed) + 1
            /\ Cardinality(confirmUsed) \in Nat
        BY <2>1, <2>2, UsedFinite, FS_AddElement
      <3>3. unsubscribeCount \in Nat /\ confirmCount \in Nat /\ welcomes \in Nat
        BY <2>1, WaitlistAssumption DEF TypeOK
      <3> QED
        BY <2>1, <2>2, <3>1, <3>2, <3>3 DEF Counted
    <2>7. LinksInv'
      BY <2>1, <2>2 DEF LinksInv, Intact, CanLeave, Outstanding
    <2> QED
      BY <2>4, <2>5, <2>6, <2>7 DEF WaitlistInv
  <1> QED
    BY <1>1, <1>2

LEMMA ReadPriorKeeps ==
    ASSUME WaitlistInv, NEW r \in Requests, ReadPrior(r)
    PROVE  WaitlistInv'
  <1> DEFINE moved == [request[r] EXCEPT !.pc = "confirm",
                                        !.prior = IF Present(r) THEN status ELSE "none"]
  <1>1. /\ TypeOK /\ request[r] \in RequestStates /\ request[r].pc = "prior"
        /\ RequestInv(request[r])
        /\ Goto(r, moved) /\ UNCHANGED <<signupVars, tokenVars, mailVars, purgeVars>>
    BY DEF WaitlistInv, TypeOK, RequestsInv, ReadPrior
  <1>2. /\ moved \in RequestStates /\ moved.pc = "confirm"
        /\ moved.signup = request[r].signup /\ moved.confirm = request[r].confirm
    BY <1>1 DEF RequestStates, TypeOK
  <1>3. RequestInv(moved)
    BY <1>1, <1>2 DEF RequestInv
  <1> QED
    BY <1>1, <1>2, <1>3, QuietMove DEF Joining, Welcoming, Unlinked

(* A row is confirmed by a request that found it with a link to leave.     *)
LEMMA ConfirmKeeps ==
    ASSUME WaitlistInv, NEW r \in Requests, Confirm(r)
    PROVE  WaitlistInv'
  <1>1. /\ TypeOK /\ RequestsInv /\ Counted /\ LinksInv
        /\ request[r].pc = "confirm" /\ RequestInv(request[r])
        /\ UNCHANGED <<signup, signups, unsubscribes, tokenVars, mailVars, purgeVars>>
    BY DEF WaitlistInv, Confirm, RequestsInv
  <1>2. /\ status' \in {status, "confirmed"} /\ age' \in {"new", "month", "years"}
        /\ resubscribedAfter' \in {resubscribedAfter, unsubscribes}
        /\ status' # status => Present(r)
    BY <1>1 DEF Confirm, Renewed, TypeOK
  <1>3. PICK next \in RequestStates :
           Goto(r, next) /\ next.pc = "welcomeLink" /\ next.signup = request[r].signup
    BY <1>1, StepType DEF Confirm
  <1>4. TypeOK'
    <2>1. resubscribedAfter' \in 0 .. unsubscribes'
      BY <1>1, <1>2, WaitlistAssumption DEF TypeOK
    <2> QED
      BY <1>1, <1>2, <1>3, <2>1, GotoTypes DEF TypeOK
  <1>5. RequestsInv'
    <2>1. RequestInv(request[r])'
      <3>1. request'[r] = next
        BY <1>1, <1>3 DEF TypeOK, Goto
      <3> QED
        BY <1>1, <1>3, <3>1 DEF RequestInv
    <2> QED
      BY <1>1, <1>3, <1>4, <2>1, OthersKeep DEF TypeOK
  <1>6. Counted'
    <2>0. /\ request[r].pc \notin Joining /\ next.pc \notin Joining
          /\ request[r].pc \in Welcoming /\ next.pc \in Welcoming
          /\ request[r].pc \in Unlinked /\ next.pc \in Unlinked
      BY <1>1, <1>3 DEF Joining, Welcoming, Unlinked
    <2>1. /\ Cardinality(At(Joining))' = Cardinality(At(Joining))
          /\ Cardinality(At(Welcoming))' = Cardinality(At(Welcoming))
          /\ Cardinality(At(Unlinked))' = Cardinality(At(Unlinked))
      BY <1>1, <1>3, <2>0, CountMove
    <2> QED
      BY <1>1, <2>1 DEF Counted
  <1>7. LinksInv'
    BY <1>1, <1>2 DEF LinksInv, RequestInv, Present, Intact, CanLeave, Outstanding
  <1> QED
    BY <1>4, <1>5, <1>6, <1>7 DEF WaitlistInv

LEMMA SendWelcomeKeeps ==
    ASSUME WaitlistInv, NEW r \in Requests, SendWelcome(r)
    PROVE  WaitlistInv'
  <1> DEFINE q == request[r]
  <1>1. /\ TypeOK /\ RequestsInv /\ Counted /\ LinksInv
        /\ q.pc = "welcome" /\ RequestInv(q)
    BY DEF WaitlistInv, SendWelcome, RequestsInv
  <1>2. /\ welcomes' = welcomes + 1
        /\ UNCHANGED <<signupVars, tokenVars, sent, mails, purgeVars>>
    BY DEF SendWelcome
  <1>3. Goto(r, Idle) /\ Idle \in RequestStates /\ Idle.pc = "idle"
    BY IdleIsState DEF SendWelcome, Stop
  <1>4. /\ inbox' \in [confirm : SUBSET Confirms, unsubscribe : SUBSET Unsubscribable]
        /\ inbox'.confirm = inbox.confirm /\ inbox.unsubscribe \subseteq inbox'.unsubscribe
    <2>1. q.unsubscribe \in Unsubscribable
      BY <1>1, WaitlistAssumption DEF RequestInv, TypeOK, Unsubscribable
    <2> QED
      BY <1>1, <2>1 DEF SendWelcome, TypeOK
  <1>5. TypeOK'
    BY <1>1, <1>2, <1>3, <1>4, GotoTypes DEF TypeOK
  <1>6. RequestsInv'
    <2>1. RequestInv(request[r])'
      BY <1>1, <1>3 DEF RequestInv, TypeOK, Goto
    <2> QED
      BY <1>1, <1>2, <1>3, <1>4, <1>5, <2>1, OthersKeep DEF TypeOK
  <1>7. Counted'
    <2>0. /\ q.pc \notin Joining /\ q.pc \in Welcoming /\ q.pc \notin Unlinked
          /\ Idle.pc \notin Joining /\ Idle.pc \notin Welcoming /\ Idle.pc \notin Unlinked
      BY <1>1, <1>3 DEF Joining, Welcoming, Unlinked
    <2>1. /\ Cardinality(At(Joining))' = Cardinality(At(Joining))
          /\ Cardinality(At(Welcoming))' = Cardinality(At(Welcoming)) - 1
          /\ Cardinality(At(Unlinked))' = Cardinality(At(Unlinked))
          /\ Cardinality(At(Welcoming)) \in Nat
      BY <1>1, <1>3, <2>0, CountMove, AtFinite
    <2>2. Cardinality(confirmUsed) \in Nat
      BY <1>1, UsedFinite
    <2> QED
      BY <1>1, <1>2, <2>1, <2>2 DEF Counted, TypeOK
  <1>8. LinksInv'
    BY <1>1, <1>2, <1>4 DEF LinksInv, Intact, CanLeave, Outstanding
  <1> QED
    BY <1>5, <1>6, <1>7, <1>8 DEF WaitlistInv

-----------------------------------------------------------------------------
(* Unsubscribing.                                                          *)

LEMMA PostUnsubscribeKeeps ==
    ASSUME WaitlistInv, NEW r \in Requests, NEW u \in Unsubscribable, PostUnsubscribe(r, u)
    PROVE  WaitlistInv'
  <1> DEFINE moved == [Idle EXCEPT !.pc = "unsubscribe", !.signup = signup]
  <1>1. /\ TypeOK /\ LinksInv /\ u \in unsubscribeRows
        /\ Goto(r, moved) /\ UNCHANGED <<signupVars, tokenVars, mailVars, purgeVars>>
    BY DEF WaitlistInv, PostUnsubscribe
  <1>2. signup \in 1 .. signups /\ signup \in SignupIds
    BY <1>1, WaitlistAssumption DEF LinksInv, TypeOK, SignupIds, NoId
  <1>3. moved \in RequestStates /\ moved.pc = "unsubscribe" /\ moved.signup = signup
    BY <1>2 DEF RequestStates, Idle
  <1>4. RequestInv(moved)
    BY <1>2, <1>3 DEF RequestInv
  <1> QED
    BY <1>1, <1>3, <1>4, QuietMove DEF Joining, Welcoming, Unlinked

LEMMA UnsubscribeKeeps ==
    ASSUME WaitlistInv, NEW r \in Requests, Unsubscribe(r)
    PROVE  WaitlistInv'
  <1>1. /\ TypeOK /\ RequestsInv /\ Counted /\ LinksInv
        /\ request[r].pc = "unsubscribe" /\ RequestInv(request[r])
        /\ UNCHANGED <<signup, signups, resubscribedAfter, tokenVars, mailVars, purgeVars>>
    BY DEF WaitlistInv, Unsubscribe, RequestsInv
  <1>2. /\ status' \in {status, "unsubscribed"} /\ age' \in {"new", "month", "years"}
        /\ unsubscribes' \in unsubscribes .. MaxUnsubscribes
    BY <1>1, WaitlistAssumption DEF Unsubscribe, Renewed, TypeOK
  <1>3. PICK next \in RequestStates :
           Goto(r, next) /\ next.pc = "close" /\ next.signup = request[r].signup
    BY <1>1, StepType DEF Unsubscribe
  <1>4. TypeOK'
    <2>1. resubscribedAfter' \in 0 .. unsubscribes' /\ unsubscribes' \in 0 .. MaxUnsubscribes
      BY <1>1, <1>2, WaitlistAssumption DEF TypeOK
    <2> QED
      BY <1>1, <1>2, <1>3, <2>1, GotoTypes DEF TypeOK
  <1>5. RequestsInv'
    <2>1. RequestInv(request[r])'
      <3>1. request'[r] = next
        BY <1>1, <1>3 DEF TypeOK, Goto
      <3> QED
        BY <1>1, <1>3, <3>1 DEF RequestInv
    <2> QED
      BY <1>1, <1>3, <1>4, <2>1, OthersKeep DEF TypeOK
  <1>6. Counted'
    <2>0. /\ request[r].pc \notin Joining /\ next.pc \notin Joining
          /\ request[r].pc \notin Welcoming /\ next.pc \notin Welcoming
          /\ request[r].pc \notin Unlinked /\ next.pc \notin Unlinked
      BY <1>1, <1>3 DEF Joining, Welcoming, Unlinked
    <2>1. /\ Cardinality(At(Joining))' = Cardinality(At(Joining))
          /\ Cardinality(At(Welcoming))' = Cardinality(At(Welcoming))
          /\ Cardinality(At(Unlinked))' = Cardinality(At(Unlinked))
      BY <1>1, <1>3, <2>0, CountMove
    <2> QED
      BY <1>1, <2>1 DEF Counted
  <1>7. LinksInv'
    BY <1>1, <1>2 DEF LinksInv, Intact, CanLeave, Outstanding
  <1> QED
    BY <1>4, <1>5, <1>6, <1>7 DEF WaitlistInv

(* Nothing is outstanding that was inserted before.                        *)
LEMMA CloseLinksKeeps ==
    ASSUME WaitlistInv, NEW r \in Requests, CloseLinks(r)
    PROVE  WaitlistInv'
  <1>1. /\ TypeOK /\ RequestsInv /\ Counted /\ LinksInv
        /\ request[r].pc = "close"
        /\ UNCHANGED <<signupVars, confirmRows, confirmCount, confirmUsed, confirmExpired,
                       confirmLapsed,
                       unsubscribeRows, unsubscribeCount, mailVars, purgeVars>>
    BY DEF WaitlistInv, CloseLinks
  <1>2. /\ confirmSuperseded' \subseteq 1 .. confirmCount /\ closedThrough' \in 0 .. confirmCount
        /\ \A t \in Outstanding' : t > closedThrough'
        /\ claimedBefore' \subseteq confirmUsed
        /\ \A t \in confirmUsed \ claimedBefore' : t > closedThrough'
    <2>1. CASE Present(r)
      <3>1. /\ confirmSuperseded' = confirmSuperseded \cup Outstanding
            /\ closedThrough' = confirmCount /\ claimedBefore' = confirmUsed
        BY <2>1 DEF CloseLinks
      <3>2. Outstanding' = {} /\ Outstanding \subseteq 1 .. confirmCount
        BY <1>1, <3>1 DEF Outstanding, TypeOK
      <3>3. confirmCount \in 0 .. confirmCount
        BY <1>1, WaitlistAssumption DEF TypeOK
      <3> QED
        BY <1>1, <3>1, <3>2, <3>3 DEF TypeOK
    <2>2. CASE ~ Present(r)
      BY <1>1, <2>2 DEF CloseLinks, Outstanding, TypeOK, LinksInv
    <2> QED
      BY <2>1, <2>2
  <1>3. Goto(r, Idle) /\ Idle \in RequestStates /\ Idle.pc = "idle"
    BY IdleIsState DEF CloseLinks, Stop
  <1>4. TypeOK'
    BY <1>1, <1>2, <1>3, GotoTypes DEF TypeOK
  <1>5. RequestsInv'
    <2>1. RequestInv(request[r])'
      BY <1>1, <1>3 DEF RequestInv, TypeOK, Goto
    <2> QED
      BY <1>1, <1>3, <1>4, <2>1, OthersKeep DEF TypeOK
  <1>6. Counted'
    <2>0. /\ request[r].pc \notin Joining /\ Idle.pc \notin Joining
          /\ request[r].pc \notin Welcoming /\ Idle.pc \notin Welcoming
          /\ request[r].pc \notin Unlinked /\ Idle.pc \notin Unlinked
      BY <1>1, <1>3 DEF Joining, Welcoming, Unlinked
    <2>1. /\ Cardinality(At(Joining))' = Cardinality(At(Joining))
          /\ Cardinality(At(Welcoming))' = Cardinality(At(Welcoming))
          /\ Cardinality(At(Unlinked))' = Cardinality(At(Unlinked))
      BY <1>1, <1>3, <2>0, CountMove
    <2> QED
      BY <1>1, <2>1 DEF Counted
  <1>7. LinksInv'
    BY <1>1, <1>2 DEF LinksInv, Intact, CanLeave
  <1> QED
    BY <1>4, <1>5, <1>6, <1>7 DEF WaitlistInv

LEMMA AbandonKeeps ==
    ASSUME WaitlistInv, NEW r \in Requests, Abandon(r)
    PROVE  WaitlistInv'
  BY StopIsQuiet DEF Abandon

-----------------------------------------------------------------------------
(* Time and the purge, which move no request.                              *)

(* Requests that stand still keep what they hold, and are counted alike.   *)
LEMMA StandStill ==
    ASSUME WaitlistInv, UNCHANGED request,
           UNCHANGED <<signup, signups, purged, confirmRows, confirmCount, confirmUsed,
                       unsubscribeRows, unsubscribeCount, inbox>>
    PROVE  RequestsInv'
  BY DEF WaitlistInv, RequestsInv, RequestInv, Intact, CanLeave

LEMMA CountsStand ==
    ASSUME UNCHANGED request, NEW CONSTANT pcs
    PROVE  Cardinality(At(pcs))' = Cardinality(At(pcs))
  BY DEF At

LEMMA ConfirmExpiresKeeps ==
    ASSUME WaitlistInv, NEW t \in Confirms, ConfirmExpires(t)
    PROVE  WaitlistInv'
  <1>1. /\ TypeOK /\ Counted /\ LinksInv
        /\ t \in confirmRows /\ confirmExpired' = confirmExpired \cup {t}
        /\ UNCHANGED <<signupVars, confirmRows, confirmCount, confirmUsed, confirmSuperseded,
                       confirmLapsed, unsubscribeRows, unsubscribeCount, closedVars,
                       mailVars, request, purgeVars>>
    BY DEF WaitlistInv, ConfirmExpires, Usable, Outstanding
  <1>2. TypeOK'
    BY <1>1 DEF TypeOK
  <1>3. RequestsInv'
    BY <1>1, StandStill
  <1>4. Counted'
    BY <1>1, CountsStand DEF Counted
  <1>5. LinksInv'
    BY <1>1 DEF LinksInv, Intact, CanLeave, Outstanding
  <1> QED
    BY <1>2, <1>3, <1>4, <1>5 DEF WaitlistInv

(* A new window starts with no mail on its way.                            *)
LEMMA SilenceKeeps ==
    ASSUME WaitlistInv, NEW to \in {"month", "years"}, Silence(to)
    PROVE  WaitlistInv'
  <1>1. /\ TypeOK /\ Counted /\ LinksInv
        /\ \A r \in Requests : request[r].pc = "idle"
        /\ UNCHANGED <<signup, signups, status, unsubscribes, resubscribedAfter, confirmRows,
                       confirmCount, confirmUsed, confirmSuperseded, unsubscribeRows,
                       unsubscribeCount, closedVars, inbox, welcomes, request, purge,
                       purged, crashes>>
    BY IdleIsState DEF WaitlistInv, Silence
  <1>2. /\ age' \in {"new", "month", "years"} /\ jumps' \in 0 .. MaxJumps
        /\ confirmExpired' = confirmExpired \cup confirmRows
        /\ confirmLapsed' = confirmLapsed \cup confirmRows
        /\ mails' = 0
    BY <1>1, WaitlistAssumption DEF Silence, TypeOK
  <1>3. sent' \in [client : 0 .. ClientLimit, email : 0 .. EmailLimit] /\ sent'.email = 0
    BY <1>1, WaitlistAssumption DEF Silence, TypeOK
  <1>4. TypeOK'
    BY <1>1, <1>2, <1>3 DEF TypeOK
  <1>5. RequestsInv'
    BY <1>1, StandStill
  <1>6. Counted'
    <2>1. At(Joining) = {}
      BY <1>1 DEF At, Joining
    <2>2. Cardinality(At(Joining))' = 0
      BY <1>1, <2>1, CountsStand, FS_EmptySet
    <2>3. /\ Cardinality(At(Welcoming))' = Cardinality(At(Welcoming))
          /\ Cardinality(At(Unlinked))' = Cardinality(At(Unlinked))
      BY <1>1, CountsStand
    <2> QED
      BY <1>1, <1>2, <1>3, <2>2, <2>3 DEF Counted
  <1>7. LinksInv'
    BY <1>1 DEF LinksInv, Intact, CanLeave, Outstanding
  <1> QED
    BY <1>4, <1>5, <1>6, <1>7 DEF WaitlistInv

LEMMA PurgeSelectKeeps ==
    ASSUME WaitlistInv, PurgeSelect
    PROVE  WaitlistInv'
  <1>1. /\ TypeOK /\ Counted /\ LinksInv /\ signup # NoId
        /\ purge' = [pc |-> "tokens", doomed |-> signup]
        /\ UNCHANGED <<signupVars, tokenVars, mailVars, request, purged, jumps, crashes>>
    BY DEF WaitlistInv, PurgeSelect, Due
  <1>2. signup \in SignupIds
    BY <1>1, WaitlistAssumption DEF TypeOK, SignupIds, NoId
  <1>3. TypeOK'
    BY <1>1, <1>2 DEF TypeOK
  <1>4. RequestsInv'
    BY <1>1, StandStill
  <1>5. Counted'
    BY <1>1, CountsStand DEF Counted
  <1>6. LinksInv'
    BY <1>1 DEF LinksInv, Intact, CanLeave, Outstanding
  <1> QED
    BY <1>3, <1>4, <1>5, <1>6 DEF WaitlistInv

(* Whoever could leave by a token that goes is not intact any more.        *)
LEMMA PurgeTokensKeeps ==
    ASSUME WaitlistInv, PurgeTokens
    PROVE  WaitlistInv'
  <1>1. /\ TypeOK /\ RequestsInv /\ Counted /\ LinksInv
        /\ purge.pc = "tokens" /\ confirmRows' = {} /\ unsubscribeRows' = {}
        /\ purged' = signup /\ signup # NoId
        /\ purge' = [purge EXCEPT !.pc = "signup"]
        /\ UNCHANGED <<signupVars, confirmCount, confirmUsed, confirmSuperseded, confirmExpired,
                       confirmLapsed, unsubscribeCount, closedVars, mailVars, request, jumps,
                       crashes>>
    BY DEF WaitlistInv, PurgeTokens, LinksInv
  <1>2. purged' \in SignupIds /\ purged' \in 0 .. signups
    BY <1>1, WaitlistAssumption DEF TypeOK, SignupIds, NoId
  <1>3. purge' \in [pc : {"idle", "tokens", "signup"}, doomed : SignupIds \cup {NoId}]
    BY <1>1 DEF TypeOK
  <1>4. TypeOK'
    BY <1>1, <1>2, <1>3 DEF TypeOK
  <1>5. RequestsInv'
    BY <1>1 DEF RequestsInv, RequestInv, Intact
  <1>6. Counted'
    BY <1>1, CountsStand DEF Counted
  <1>7. LinksInv'
    <2>1. purge'.doomed = purge.doomed /\ purge.doomed = signup
      BY <1>1 DEF TypeOK, LinksInv
    <2> QED
      BY <1>1, <1>2, <2>1 DEF LinksInv, Intact, Outstanding
  <1> QED
    BY <1>4, <1>5, <1>6, <1>7 DEF WaitlistInv

LEMMA PurgeSignupKeeps ==
    ASSUME WaitlistInv, PurgeSignup
    PROVE  WaitlistInv'
  <1>1. /\ TypeOK /\ RequestsInv /\ Counted /\ LinksInv
        /\ signup' = IF confirmRows \cup unsubscribeRows = {} THEN NoId ELSE signup
        /\ purge' = PurgeIdle
        /\ UNCHANGED <<signups, status, age, unsubscribes, resubscribedAfter, tokenVars,
                       mailVars, request, purged, jumps, crashes>>
    BY DEF WaitlistInv, PurgeSignup
  <1>2. signup' = signup \/ (signup' = NoId /\ confirmRows = {} /\ unsubscribeRows = {})
    BY <1>1
  <1>3. TypeOK'
    BY <1>1, <1>2 DEF TypeOK, PurgeIdle
  <1>4. RequestsInv'
    <2>1. CASE signup' = signup
      BY <1>1, <2>1 DEF RequestsInv, RequestInv, Intact, CanLeave
    <2>2. CASE signup' = NoId /\ confirmRows = {}
      BY <1>1, <2>2 DEF RequestsInv, RequestInv, Intact
    <2> QED
      BY <1>2, <2>1, <2>2
  <1>5. Counted'
    BY <1>1, CountsStand DEF Counted
  <1>6. LinksInv'
    BY <1>1, <1>2 DEF LinksInv, Intact, CanLeave, Outstanding, PurgeIdle
  <1> QED
    BY <1>3, <1>4, <1>5, <1>6 DEF WaitlistInv

LEMMA PurgeDiesKeeps ==
    ASSUME WaitlistInv, PurgeDies
    PROVE  WaitlistInv'
  <1>1. /\ TypeOK /\ Counted /\ LinksInv
        /\ crashes' \in 0 .. MaxCrashes /\ purge' = PurgeIdle
        /\ UNCHANGED <<signupVars, tokenVars, mailVars, request, purged, jumps>>
    BY WaitlistAssumption DEF WaitlistInv, PurgeDies, TypeOK
  <1>2. TypeOK'
    BY <1>1 DEF TypeOK, PurgeIdle
  <1>3. RequestsInv'
    BY <1>1, StandStill
  <1>4. Counted'
    BY <1>1, CountsStand DEF Counted
  <1>5. LinksInv'
    BY <1>1 DEF LinksInv, Intact, CanLeave, Outstanding, PurgeIdle
  <1> QED
    BY <1>2, <1>3, <1>4, <1>5 DEF WaitlistInv

-----------------------------------------------------------------------------
(* The specification.                                                      *)

LEMMA WaitlistInit == Init => WaitlistInv
  <1> SUFFICES ASSUME Init PROVE WaitlistInv
    OBVIOUS
  <1>1. \A r \in Requests : request[r] = Idle
    BY DEF Init
  <1>2. TypeOK
    <2>1. /\ 0 \in 0 .. MaxSignups /\ 0 \in 0 .. MaxUnsubscribes /\ 0 \in 0 .. MaxConfirms
          /\ 0 \in 0 .. 2 * MaxConfirms /\ 0 \in 0 .. ClientLimit /\ 0 \in 0 .. EmailLimit
          /\ 0 \in 0 .. MaxJumps /\ 0 \in 0 .. MaxCrashes
      BY WaitlistAssumption
    <2> QED
      BY <2>1, IdleIsState DEF Init, TypeOK, PurgeIdle, NoId
  <1>3. RequestsInv
    BY <1>1, IdleIsState DEF RequestsInv, RequestInv
  <1>4. Counted
    <2>1. At(Joining) = {} /\ At(Welcoming) = {} /\ At(Unlinked) = {}
      BY <1>1, IdleIsState DEF At, Joining, Welcoming, Unlinked
    <2> QED
      BY <2>1, FS_EmptySet DEF Init, Counted
  <1>5. LinksInv
    BY DEF Init, LinksInv, Intact, PurgeIdle, NoId, Outstanding
  <1> QED
    BY <1>2, <1>3, <1>4, <1>5 DEF WaitlistInv

LEMMA WaitlistStep == WaitlistInv /\ [Next]_vars => WaitlistInv'
  <1> SUFFICES ASSUME WaitlistInv, [Next]_vars PROVE WaitlistInv'
    OBVIOUS
  <1>1. ASSUME NEW r \in Requests, JoinStep(r) PROVE WaitlistInv'
    BY <1>1, JoinKeeps, LimitEmailKeeps, LookupKeeps, InsertKeeps, SupersedeKeeps,
       MintConfirmKeeps, MintUnsubscribeKeeps, SendConfirmationKeeps DEF JoinStep
  <1>2. ASSUME NEW r \in Requests, ConfirmStep(r) PROVE WaitlistInv'
    BY <1>2, PostConfirmKeeps, ClaimKeeps, ReadPriorKeeps, ConfirmKeeps, SendWelcomeKeeps
       DEF ConfirmStep
  <1>3. ASSUME NEW r \in Requests, UnsubscribeStep(r) PROVE WaitlistInv'
    BY <1>3, PostUnsubscribeKeeps, UnsubscribeKeeps, CloseLinksKeeps DEF UnsubscribeStep
  <1>4. ASSUME NEW r \in Requests, Abandon(r) PROVE WaitlistInv'
    BY <1>4, AbandonKeeps
  <1>5. CASE TimeStep
    BY <1>5, ConfirmExpiresKeeps, SilenceKeeps DEF TimeStep
  <1>6. CASE PurgeStep
    BY <1>6, PurgeSelectKeeps, PurgeTokensKeeps, PurgeSignupKeeps, PurgeDiesKeeps DEF PurgeStep
  <1>7. CASE UNCHANGED vars
    <2>1. TypeOK'
      BY <1>7 DEF WaitlistInv, TypeOK, vars
    <2>2. RequestsInv'
      BY <1>7, StandStill DEF vars
    <2>3. Counted'
      BY <1>7, CountsStand DEF WaitlistInv, Counted, vars
    <2>4. LinksInv'
      BY <1>7 DEF WaitlistInv, LinksInv, Intact, CanLeave, Outstanding, vars
    <2> QED
      BY <2>1, <2>2, <2>3, <2>4 DEF WaitlistInv
  <1> QED
    BY <1>1, <1>2, <1>3, <1>4, <1>5, <1>6, <1>7 DEF Next

(* The invariant the others follow from: the counts that bound the mails,  *)
(* and the links that requests, rows and the inbox hold in common.         *)
THEOREM WaitlistInvariant == Spec => []WaitlistInv
  <1> QED
    BY WaitlistInit, WaitlistStep, PTL DEF Spec

(* Every variable has its type, and the unsubscribe tokens stay within     *)
(* twice the confirm tokens (waitlist-tokens.js 20-39).                    *)
THEOREM WaitlistTypeCorrect == Spec => []TypeOK
  <1>1. WaitlistInv => TypeOK
    BY DEF WaitlistInv
  <1> QED
    BY <1>1, WaitlistInvariant, PTL

(* However many joins run at once, no more confirmation emails leave in a  *)
(* window than the rate limit allows (waitlist-worker.js 145-151).         *)
THEOREM MailsStayWithinLimit == Spec => []MailWithinLimit
  <1>1. WaitlistInv => MailWithinLimit
    <2> SUFFICES ASSUME WaitlistInv PROVE MailWithinLimit
      OBVIOUS
    <2>1. mails + Cardinality(At(Joining)) <= sent.email /\ mails \in Nat
          /\ sent.email \in 0 .. EmailLimit
      BY DEF WaitlistInv, Counted, TypeOK
    <2> QED
      BY <2>1, AtFinite, WaitlistAssumption DEF MailWithinLimit
  <1> QED
    BY <1>1, WaitlistInvariant, PTL

(* No confirmation link brings two welcomes, however its POSTs interleave  *)
(* (waitlist-worker.js 309-313).                                           *)
THEOREM LinksWelcomeOnce == Spec => []OneWelcomePerLink
  <1>1. WaitlistInv => OneWelcomePerLink
    <2> SUFFICES ASSUME WaitlistInv PROVE OneWelcomePerLink
      OBVIOUS
    <2>1. /\ welcomes + Cardinality(At(Welcoming)) <= Cardinality(confirmUsed) /\ welcomes \in Nat
          /\ Cardinality(confirmUsed) \in Nat
      BY UsedFinite DEF WaitlistInv, Counted, TypeOK
    <2> QED
      BY <2>1, AtFinite DEF OneWelcomePerLink
  <1> QED
    BY <1>1, WaitlistInvariant, PTL

(* A confirmed rider has a working link to leave by, unless a purge took   *)
(* it (waitlist-tokens.js 28).                                             *)
THEOREM ConfirmedRidersCanLeave == Spec => []ConfirmedCanLeave
  <1>1. WaitlistInv => ConfirmedCanLeave
    BY DEF WaitlistInv, LinksInv, ConfirmedCanLeave, Intact, CanLeave
  <1> QED
    BY <1>1, WaitlistInvariant, PTL

(* A confirmation after an unsubscribe is through a link inserted later,   *)
(* or one claimed before (waitlist-worker.js 320-323, 373-374).            *)
THEOREM RejoiningTakesNewerLink == Spec => RejoinTakesNewerLink
  <1> DEFINE Renews ==
         status # "confirmed" /\ status' = "confirmed"
            => \E r \in Requests :
                  /\ request[r].pc = "confirm" /\ request'[r].pc = "welcomeLink"
                  /\ \/ request[r].confirm > closedThrough
                     \/ request[r].confirm \in claimedBefore
  <1>1. WaitlistInv /\ [Next]_vars => [Renews]_vars
    <2> SUFFICES ASSUME WaitlistInv, Next, status # "confirmed", status' = "confirmed"
                 PROVE  Renews
      BY DEF vars
    <2>1. PICK r \in Requests : Confirm(r)
      BY DEF Next, JoinStep, ConfirmStep, UnsubscribeStep, TimeStep, PurgeStep, signupVars,
             Join, LimitEmail, Lookup, InsertSignup, SupersedeConfirms, MintConfirm,
             MintUnsubscribe, SendConfirmation, PostConfirm, Claim, ReadPrior, SendWelcome,
             PostUnsubscribe, Unsubscribe, CloseLinks, Abandon, ConfirmExpires, Silence,
             PurgeSelect, PurgeTokens, PurgeSignup, PurgeDies
    <2>2. request[r].pc = "confirm" /\ request[r].confirm \in confirmUsed
      BY <2>1 DEF Confirm, WaitlistInv, RequestsInv, RequestInv
    <2>3. request'[r].pc = "welcomeLink"
      BY <2>1 DEF Confirm, Step, Goto, WaitlistInv, TypeOK, RequestStates
    <2>4. request[r].confirm > closedThrough \/ request[r].confirm \in claimedBefore
      BY <2>2 DEF WaitlistInv, LinksInv
    <2> QED
      BY <2>2, <2>3, <2>4
  <1> QED
    BY <1>1, WaitlistInvariant, PTL DEF Spec, RejoinTakesNewerLink
===========================================================================
