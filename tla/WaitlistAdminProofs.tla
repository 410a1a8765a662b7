------------------------ MODULE WaitlistAdminProofs ------------------------
(***************************************************************************)
(* Theorems about the approvals and the batches of WaitlistAdmin, for      *)
(* every finite number of riders, any number of operators and batches and  *)
(* every value of the bounds.                                              *)
(***************************************************************************)
EXTENDS WaitlistAdmin, SequenceTheorems, FiniteSetTheorems, TLAPS

USE DEF approvals, batches, riders

(* The log of a signup, and how often an operator is named in one.         *)
Entry == [from : States, to : States, by : Operators]
Named(log, o) == {k \in DOMAIN log : log[k].by = o}

Pages == [at : {"away", "form", "confirming", "deciding"}, signup : Signups \cup {None},
          expected : States \cup {None}, new : States \cup {None}, reason : BOOLEAN,
          result : {"", "no_change", "applied", "conflict"}]

(* A page that shows a signup carries the state it was in; one that asks   *)
(* to decide carries a decision, and at the batch a change.                *)
PageSound(page) ==
    /\ page \in Pages
    /\ page.at # "away" => page.signup \in Signups /\ page.expected \in States
    /\ page.at \in {"confirming", "deciding"} => page.new \in States
    /\ page.at = "deciding" => page.new # page.expected

ApprovalTypes ==
    /\ stored \in [Signups -> States \cup {None}]
    /\ events \in [Signups -> Seq(Entry)]
    /\ told \in [Operators -> [Signups -> Nat]]
    /\ desk \in [Operators -> Pages]

(* The parts of DecisionsChain, for one signup.                            *)
StateIsLast(s) == stored[s] = IF events[s] = <<>> THEN None ELSE Last(events[s]).to

LogChains(log) ==
    \A k \in DOMAIN log :
        /\ log[k].from # log[k].to
        /\ log[k].from = IF k = 1 THEN "awaiting_review" ELSE log[k - 1].to

ToldIsLogged(s) == \A o \in Operators : told[o][s] <= Cardinality(Named(events[s], o))

Chained == \A s \in Signups : StateIsLast(s) /\ LogChains(events[s]) /\ ToldIsLogged(s)

ApprovalInv ==
    /\ ApprovalTypes
    /\ \A o \in Operators : PageSound(desk[o])
    /\ Chained

-----------------------------------------------------------------------------
(* Logs.                                                                   *)

LEMMA NamedFinite ==
    ASSUME NEW log \in Seq(Entry), NEW o
    PROVE  IsFiniteSet(Named(log, o)) /\ Cardinality(Named(log, o)) \in Nat
  <1>1. DOMAIN log = 1 .. Len(log) /\ Len(log) \in Nat
    BY LenProperties
  <1>2. IsFiniteSet(1 .. Len(log))
    BY <1>1, FS_Interval
  <1>3. Named(log, o) \subseteq 1 .. Len(log)
    BY <1>1 DEF Named
  <1> QED
    BY <1>2, <1>3, FS_Subset, FS_CardinalityType

(* An appended entry names its author once more, and nobody else.          *)
LEMMA NamedAppend ==
    ASSUME NEW log \in Seq(Entry), NEW e \in Entry, NEW o
    PROVE  Cardinality(Named(Append(log, e), o)) =
               Cardinality(Named(log, o)) + (IF e.by = o THEN 1 ELSE 0)
  <1> DEFINE longer == Append(log, e)
  <1>1. /\ longer \in Seq(Entry) /\ Len(longer) = Len(log) + 1
        /\ \A k \in 1 .. Len(log) : longer[k] = log[k]
        /\ longer[Len(log) + 1] = e
    BY AppendProperties
  <1>2. Len(log) \in Nat /\ DOMAIN log = 1 .. Len(log) /\ DOMAIN longer = 1 .. (Len(log) + 1)
    BY <1>1, LenProperties
  <1> HIDE DEF longer
  <1>3. CASE e.by = o
    <2>1. Named(longer, o) = Named(log, o) \cup {Len(log) + 1}
      BY <1>1, <1>2, <1>3 DEF Named
    <2>2. Len(log) + 1 \notin Named(log, o)
      BY <1>2 DEF Named
    <2>3. Cardinality(Named(log, o) \cup {Len(log) + 1}) = Cardinality(Named(log, o)) + 1
      BY <2>2, NamedFinite, FS_AddElement
    <2> QED
      BY <1>3, <2>1, <2>3 DEF longer
  <1>4. CASE e.by # o
    <2>1. Named(longer, o) = Named(log, o)
      BY <1>1, <1>2, <1>4 DEF Named
    <2> QED
      BY <1>4, <2>1, NamedFinite DEF longer
  <1> QED
    BY <1>3, <1>4

(* A log without entries chains, and names nobody.                         *)
LEMMA EmptyLog ==
    /\ <<>> \in Seq(Entry) /\ LogChains(<<>>)
    /\ \A o : Cardinality(Named(<<>>, o)) = 0
  <1>1. <<>> \in Seq(Entry) /\ DOMAIN <<>> = {}
    <2>1. <<>> \in Seq(Entry) /\ Len(<<>>) = 0
      BY EmptySeq
    <2> QED
      BY <2>1, LenProperties
  <1>2. LogChains(<<>>)
    BY <1>1 DEF LogChains
  <1>3. \A o : Named(<<>>, o) = {}
    BY <1>1 DEF Named
  <1>4. Cardinality({}) = 0
    BY FS_EmptySet
  <1> QED
    BY <1>1, <1>2, <1>3, <1>4

-----------------------------------------------------------------------------
(* The steps.                                                              *)

LEMMA ApprovalInit == Init => ApprovalInv
  <1> SUFFICES ASSUME Init PROVE ApprovalInv
    OBVIOUS
  <1>0. /\ stored = [s \in Signups |-> None] /\ events = [s \in Signups |-> <<>>]
        /\ desk = [o \in Operators |-> NoPage]
        /\ told = [o \in Operators |-> [s \in Signups |-> 0]]
    BY DEF Init
  <1>1. ApprovalTypes
    BY <1>0, EmptyLog DEF ApprovalTypes, NoPage, Pages
  <1>2. \A o \in Operators : PageSound(desk[o])
    BY DEF Init, PageSound, NoPage, Pages
  <1>3. ASSUME NEW s \in Signups
        PROVE  StateIsLast(s) /\ LogChains(events[s]) /\ ToldIsLogged(s)
    <2>1. events[s] = <<>> /\ stored[s] = None /\ \A o \in Operators : told[o][s] = 0
      BY <1>0
    <2> QED
      BY <2>1, EmptyLog DEF StateIsLast, ToldIsLogged
  <1>4. Chained
    BY <1>3 DEF Chained
  <1> QED
    BY <1>1, <1>2, <1>4 DEF ApprovalInv

(* A step that shows a sound page and writes nothing.                      *)
LEMMA ShowKeeps ==
    ASSUME ApprovalInv, NEW o \in Operators, NEW page, PageSound(page), Show(o, page),
           UNCHANGED <<stored, events, told>>
    PROVE  ApprovalInv'
  <1>1. desk' = [desk EXCEPT ![o] = page] /\ page \in Pages
    BY DEF Show, PageSound
  <1>2. ApprovalTypes'
    BY <1>1 DEF ApprovalInv, ApprovalTypes
  <1>3. \A p \in Operators : PageSound(desk'[p])
    BY <1>1 DEF ApprovalInv, ApprovalTypes
  <1>4. Chained'
    BY DEF ApprovalInv, Chained, StateIsLast, LogChains, ToldIsLogged
  <1> QED
    BY <1>2, <1>3, <1>4 DEF ApprovalInv, PageSound

LEMMA EffectiveIsState ==
    ASSUME ApprovalInv, NEW s \in Signups
    PROVE  Effective(s) \in States
  BY DEF ApprovalInv, ApprovalTypes, Effective, States

LEMMA DetailSound ==
    ASSUME ApprovalInv, NEW s \in Signups
    PROVE  PageSound(Detail(s))
  BY EffectiveIsState DEF Detail, NoPage, PageSound, Pages

LEMMA NoPageSound == PageSound(NoPage)
  BY DEF NoPage, PageSound, Pages

(* Going back to the form keeps what it showed.                            *)
LEMMA AnsweredSound ==
    ASSUME NEW page, PageSound(page), page.at # "away",
           NEW result \in {"", "no_change", "applied", "conflict"}
    PROVE  PageSound(Answered(page, result))
  BY DEF Answered, PageSound, Pages

LEMMA AskKeeps ==
    ASSUME ApprovalInv, NEW o \in Operators, NEW page \in Pages, PageSound(page),
           page.at # "away", page.new \in States, Ask(o, page),
           UNCHANGED <<stored, events, told>>
    PROVE  ApprovalInv'
  <1>1. page.signup \in Signups /\ page.expected \in States
    BY DEF PageSound
  <1>2. CASE page.expected = page.new
    <2>1. Show(o, Answered(page, "no_change"))
      BY <1>2 DEF Ask
    <2> QED
      BY <2>1, AnsweredSound, ShowKeeps
  <1>3. CASE page.expected # page.new
              /\ Refused(page.signup, page.expected, page.new, page.reason)
    <2>1. Show(o, Detail(page.signup))
      BY <1>3 DEF Ask
    <2> QED
      BY <1>1, <2>1, DetailSound, ShowKeeps
  <1>4. CASE page.expected # page.new
              /\ ~ Refused(page.signup, page.expected, page.new, page.reason)
    <2>1. Show(o, [page EXCEPT !.at = "deciding"])
      BY <1>4 DEF Ask
    <2>2. PageSound([page EXCEPT !.at = "deciding"])
      BY <1>1, <1>4 DEF PageSound, Pages
    <2> QED
      BY <2>1, <2>2, ShowKeeps
  <1> QED
    BY <1>2, <1>3, <1>4

LEMMA SubmitKeeps ==
    ASSUME ApprovalInv, NEW o \in Operators, Submit(o)
    PROVE  ApprovalInv'
  <1>1. PICK new \in States, reason \in BOOLEAN :
          LET page == [desk[o] EXCEPT !.new = new, !.reason = reason, !.result = ""] IN
          CASE ~ Exists(page.signup) -> Show(o, NoPage)
            [] Exists(page.signup) /\ new = "not_approved" ->
                 Show(o, [page EXCEPT !.at = "confirming"])
            [] OTHER -> Ask(o, page)
    BY DEF Submit
  <1> DEFINE page == [desk[o] EXCEPT !.new = new, !.reason = reason, !.result = ""]
  <1>2. /\ desk[o].at = "form" /\ PageSound(desk[o])
        /\ UNCHANGED <<stored, events, told>>
    BY DEF Submit, ApprovalInv
  <1>3. page \in Pages /\ page.at = "form" /\ page.new = new /\ PageSound(page)
    BY <1>2 DEF PageSound, Pages
  <1>4. CASE ~ Exists(page.signup)
    <2>1. Show(o, NoPage)
      BY <1>1, <1>4
    <2> QED
      BY <1>2, <2>1, NoPageSound, ShowKeeps
  <1>5. CASE Exists(page.signup) /\ new = "not_approved"
    <2>1. Show(o, [page EXCEPT !.at = "confirming"])
      BY <1>1, <1>5
    <2>2. PageSound([page EXCEPT !.at = "confirming"])
      BY <1>3 DEF PageSound, Pages
    <2> QED
      BY <1>2, <2>1, <2>2, ShowKeeps
  <1>6. CASE Exists(page.signup) /\ new # "not_approved"
    <2>1. Ask(o, page)
      BY <1>1, <1>6
    <2> HIDE DEF page
    <2> QED
      BY <1>2, <1>3, <2>1, AskKeeps
  <1> QED
    BY <1>4, <1>5, <1>6

LEMMA ConfirmNotApprovedKeeps ==
    ASSUME ApprovalInv, NEW o \in Operators, ConfirmNotApproved(o)
    PROVE  ApprovalInv'
  <1>1. /\ desk[o].at = "confirming" /\ PageSound(desk[o])
        /\ UNCHANGED <<stored, events, told>>
    BY DEF ConfirmNotApproved, ApprovalInv
  <1>2. CASE Exists(desk[o].signup)
    <2>1. Ask(o, desk[o])
      BY <1>2 DEF ConfirmNotApproved
    <2>2. desk[o] \in Pages /\ desk[o].new \in States
      BY <1>1 DEF PageSound
    <2> QED
      BY <1>1, <2>1, <2>2, AskKeeps
  <1>3. CASE ~ Exists(desk[o].signup)
    <2>1. Show(o, NoPage)
      BY <1>3 DEF ConfirmNotApproved
    <2> QED
      BY <1>1, <2>1, NoPageSound, ShowKeeps
  <1> QED
    BY <1>2, <1>3

(* The heart of it: the guard lets a decision through only from the state  *)
(* its form carried, which is then where the log ends.                     *)
LEMMA DecisionExtendsChain ==
    ASSUME ApprovalInv, NEW o \in Operators, Decide(o), NEW s \in Signups,
           s = desk[o].signup, Guard(s, desk[o].expected), desk[o].at = "deciding"
    PROVE  ApprovalTypes' /\ Chained'
  <1> DEFINE e == [from |-> desk[o].expected, to |-> desk[o].new, by |-> o]
             log == events[s]
  <1>1. /\ desk[o].expected \in States /\ desk[o].new \in States
        /\ desk[o].new # desk[o].expected /\ desk[o] \in Pages
    BY DEF ApprovalInv, PageSound
  <1>2. e \in Entry /\ log \in Seq(Entry)
    BY <1>1 DEF Entry, ApprovalInv, ApprovalTypes
  <1>3. /\ stored' = [stored EXCEPT ![s] = desk[o].new]
        /\ events' = [events EXCEPT ![s] = Append(log, e)]
        /\ \/ told' = [told EXCEPT ![o] = [told[o] EXCEPT ![s] = told[o][s] + 1]]
           \/ told' = told
        /\ \E result \in {"", "applied"} : Show(o, Answered(desk[o], result))
    BY DEF Decide
  <1>4. /\ Append(log, e) \in Seq(Entry) /\ Append(log, e) # <<>>
        /\ Len(Append(log, e)) = Len(log) + 1
        /\ \A k \in 1 .. Len(log) : Append(log, e)[k] = log[k]
        /\ Append(log, e)[Len(log) + 1] = e
        /\ Len(log) \in Nat /\ DOMAIN log = 1 .. Len(log)
        /\ DOMAIN Append(log, e) = 1 .. (Len(log) + 1)
    BY <1>2, AppendProperties, LenProperties
  <1> HIDE DEF e, log
  <1>11. /\ told' \in [Operators -> [Signups -> Nat]]
        /\ \A p \in Operators, other \in Signups :
              \/ told'[p][other] = told[p][other]
              \/ p = o /\ other = s /\ told'[p][other] = told[p][other] + 1
    <2>1. told \in [Operators -> [Signups -> Nat]] /\ told[o] \in [Signups -> Nat]
      BY DEF ApprovalInv, ApprovalTypes
    <2>2. CASE told' = told
      BY <2>1, <2>2
    <2> DEFINE row == [told[o] EXCEPT ![s] = told[o][s] + 1]
    <2>3. /\ row \in [Signups -> Nat] /\ row[s] = told[o][s] + 1
          /\ \A other \in Signups \ {s} : row[other] = told[o][other]
      BY <2>1
    <2>4. CASE told' = [told EXCEPT ![o] = row]
      <3> HIDE DEF row
      <3>1. told' \in [Operators -> [Signups -> Nat]]
        BY <2>1, <2>3, <2>4
      <3>2. told'[o] = row /\ \A p \in Operators \ {o} : told'[p] = told[p]
        BY <2>1, <2>4
      <3> QED
        BY <2>3, <3>1, <3>2
    <2> QED
      BY <1>3, <2>2, <2>4
  <1>5. ApprovalTypes'
    <2>1. PICK result \in {"", "applied"} : desk' = [desk EXCEPT ![o] = Answered(desk[o], result)]
      BY <1>3 DEF Show
    <2>2. Answered(desk[o], result) \in Pages
      BY <1>1 DEF Answered, Pages
    <2>3. desk' \in [Operators -> Pages]
      BY <2>1, <2>2 DEF ApprovalInv, ApprovalTypes
    <2>5. /\ stored' \in [Signups -> States \cup {None}]
          /\ events' \in [Signups -> Seq(Entry)]
      BY <1>1, <1>3, <1>4 DEF ApprovalInv, ApprovalTypes
    <2> QED
      BY <1>11, <2>3, <2>5 DEF ApprovalTypes
  <1>6. ASSUME NEW other \in Signups, other # s
        PROVE  StateIsLast(other)' /\ LogChains(events'[other]) /\ ToldIsLogged(other)'
    <2>1. events'[other] = events[other] /\ stored'[other] = stored[other]
      BY <1>3, <1>6 DEF ApprovalInv, ApprovalTypes
    <2>2. \A p \in Operators : told'[p][other] = told[p][other]
      BY <1>11, <1>6
    <2> QED
      BY <2>1, <2>2 DEF ApprovalInv, Chained, StateIsLast, ToldIsLogged
  <1>7. events'[s] = Append(log, e) /\ stored'[s] = desk[o].new
    BY <1>3 DEF ApprovalInv, ApprovalTypes
  <1>8. StateIsLast(s)'
    BY <1>4, <1>7 DEF StateIsLast, Last, e
  <1>9. LogChains(events'[s])
    <2>1. LogChains(log)
      BY DEF ApprovalInv, Chained, log
    <2>2. e.from # e.to
      BY <1>1 DEF e
    <2>3. e.from = IF Len(log) = 0 THEN "awaiting_review" ELSE log[Len(log)].to
      <3>1. stored[s] = IF log = <<>> THEN None ELSE Last(log).to
        BY DEF ApprovalInv, Chained, StateIsLast, log
      <3>2. e.from = IF stored[s] = None THEN "awaiting_review" ELSE stored[s]
        BY DEF Guard, Effective, e
      <3>3. CASE log = <<>>
        BY <3>1, <3>2, <3>3
      <3>4. CASE log # <<>>
        <4>1. Len(log) # 0 /\ Len(log) \in DOMAIN log
          BY <1>2, <1>4, <3>4, EmptySeq
        <4>2. log[Len(log)] \in Entry
          BY <1>2, <1>4, <4>1, ElementOfSeq
        <4> QED
          BY <3>1, <3>2, <3>4, <4>1, <4>2 DEF Last, Entry, States, None
      <3> QED
        BY <3>3, <3>4
    <2>4. ASSUME NEW k \in 1 .. (Len(log) + 1)
          PROVE  /\ Append(log, e)[k].from # Append(log, e)[k].to
                 /\ Append(log, e)[k].from =
                      IF k = 1 THEN "awaiting_review" ELSE Append(log, e)[k - 1].to
      <3>1. CASE k = Len(log) + 1
        <4>1. Append(log, e)[k] = e
          BY <1>4, <3>1
        <4>2. k = 1 <=> Len(log) = 0
          BY <1>4, <3>1
        <4>3. k # 1 => Append(log, e)[k - 1] = log[Len(log)]
          <5>1. Len(log) \in Nat /\ \A i \in 1 .. Len(log) : Append(log, e)[i] = log[i]
            BY <1>4
          <5>2. k - 1 = Len(log) /\ (k # 1 => Len(log) \in 1 .. Len(log))
            BY <5>1, <3>1
          <5> QED
            BY <5>1, <5>2
        <4> QED
          BY <2>2, <2>3, <4>1, <4>2, <4>3
      <3>2. CASE k # Len(log) + 1
        BY <1>4, <2>1, <3>2 DEF LogChains
      <3> QED
        BY <3>1, <3>2
    <2> QED
      BY <1>4, <1>7, <2>4 DEF LogChains
  <1>10. ToldIsLogged(s)'
    <2> SUFFICES ASSUME NEW p \in Operators
                 PROVE  told'[p][s] <= Cardinality(Named(events'[s], p))
      BY DEF ToldIsLogged
    <2>1. told[p][s] \in Nat /\ told[p][s] <= Cardinality(Named(log, p))
      BY DEF ApprovalInv, ApprovalTypes, Chained, ToldIsLogged, log
    <2>2. Cardinality(Named(log, p)) \in Nat
      BY <1>2, NamedFinite
    <2>3. Cardinality(Named(events'[s], p)) =
            Cardinality(Named(log, p)) + (IF p = o THEN 1 ELSE 0)
      <3>1. e.by = o
        BY DEF e
      <3> QED
        BY <1>2, <1>7, <3>1, NamedAppend
    <2>4. told'[p][s] = told[p][s] \/ (p = o /\ told'[p][s] = told[p][s] + 1)
      BY <1>11
    <2> QED
      BY <2>1, <2>2, <2>3, <2>4
  <1> QED
    BY <1>5, <1>6, <1>8, <1>9, <1>10 DEF Chained

LEMMA DecideKeeps ==
    ASSUME ApprovalInv, NEW o \in Operators, Decide(o)
    PROVE  ApprovalInv'
  <1>1. desk[o].at = "deciding" /\ PageSound(desk[o]) /\ desk[o].signup \in Signups
    BY DEF Decide, ApprovalInv, PageSound
  <1>2. PICK result \in {"", "applied", "conflict"} : Show(o, Answered(desk[o], result))
    BY DEF Decide
  <1>3. PageSound(Answered(desk[o], result))
    BY <1>1, AnsweredSound
  <1>4. CASE Guard(desk[o].signup, desk[o].expected)
    <2>1. ApprovalTypes' /\ Chained'
      BY <1>1, <1>4, DecisionExtendsChain
    <2>2. \A p \in Operators : PageSound(desk'[p])
      BY <1>2, <1>3 DEF Show, ApprovalInv, ApprovalTypes
    <2> QED
      BY <2>1, <2>2 DEF ApprovalInv, PageSound
  <1>5. CASE ~ Guard(desk[o].signup, desk[o].expected)
    <2>1. UNCHANGED <<stored, events, told>>
      BY <1>5 DEF Decide
    <2> QED
      BY <1>2, <1>3, <2>1, ShowKeeps
  <1> QED
    BY <1>4, <1>5

(* The purge takes a signup's decisions and their log away together.       *)
LEMMA PurgeKeeps ==
    ASSUME ApprovalInv, PurgeSignup
    PROVE  ApprovalInv'
  <1>1. CASE UNCHANGED <<stored, events, told, desk>>
    BY <1>1 DEF ApprovalInv, ApprovalTypes, Chained, StateIsLast, ToldIsLogged
  <1>2. CASE /\ stored' = [stored EXCEPT ![sweep] = None]
             /\ events' = [events EXCEPT ![sweep] = <<>>]
             /\ told' = [o \in Operators |-> [told[o] EXCEPT ![sweep] = 0]]
             /\ desk' = desk
    <2>1. ApprovalTypes'
      BY <1>2, EmptyLog DEF ApprovalInv, ApprovalTypes
    <2>2. ASSUME NEW s \in Signups
          PROVE  StateIsLast(s)' /\ LogChains(events'[s]) /\ ToldIsLogged(s)'
      <3>1. CASE s = sweep
        <4>1. events'[s] = <<>> /\ stored'[s] = None /\ \A o \in Operators : told'[o][s] = 0
          BY <1>2, <3>1 DEF ApprovalInv, ApprovalTypes
        <4> QED
          BY <4>1, EmptyLog DEF StateIsLast, ToldIsLogged
      <3>2. CASE s # sweep
        <4>1. events'[s] = events[s] /\ stored'[s] = stored[s]
          BY <1>2, <3>2 DEF ApprovalInv, ApprovalTypes
        <4>2. \A o \in Operators : told'[o][s] = told[o][s]
          BY <1>2, <3>2 DEF ApprovalInv, ApprovalTypes
        <4> QED
          BY <4>1, <4>2 DEF ApprovalInv, Chained, StateIsLast, ToldIsLogged
      <3> QED
        BY <3>1, <3>2
    <2> QED
      BY <1>2, <2>1, <2>2 DEF ApprovalInv, Chained
  <1> QED
    BY <1>1, <1>2 DEF PurgeSignup

(* Riders and batches write nothing of the approvals.                      *)
LEMMA QuietKeeps ==
    ASSUME ApprovalInv, UNCHANGED approvals
    PROVE  ApprovalInv'
  BY DEF ApprovalInv, ApprovalTypes, Chained, StateIsLast, ToldIsLogged

LEMMA RidersAreQuiet ==
    ASSUME NEW s \in Signups, RiderActs(s) \/ PurgeInvitations(s)
    PROVE  UNCHANGED approvals
  BY DEF RiderActs, Confirm, Unsubscribe, RevokeInvitations, PurgeInvitations, Clear

LEMMA BatchesAreQuiet ==
    ASSUME NEW r \in Runs, Batch(r)
    PROVE  UNCHANGED approvals
  BY DEF Batch, Start, Select, IssueCheck, IssueInsert, Reconcile, Send, RevokeUnsent,
         Record, Finish, IssueFails, StatementFails, Dies, SweepRun

LEMMA ApprovalStep == ApprovalInv /\ [Next]_vars => ApprovalInv'
  <1> SUFFICES ASSUME ApprovalInv, [Next]_vars PROVE ApprovalInv'
    OBVIOUS
  <1>1. ASSUME NEW o \in Operators, Operator(o) PROVE ApprovalInv'
    <2>1. ASSUME NEW s \in Signups, OpenDetail(o, s) PROVE ApprovalInv'
      <3>1. Show(o, Detail(s)) /\ UNCHANGED <<stored, events, told>>
        BY <2>1 DEF OpenDetail
      <3> QED
        BY <3>1, DetailSound, ShowKeeps
    <2> QED
      BY <1>1, <2>1, SubmitKeeps, ConfirmNotApprovedKeeps, DecideKeeps DEF Operator
  <1>2. ASSUME NEW s \in Signups, RiderActs(s) \/ PurgeInvitations(s) PROVE ApprovalInv'
    BY <1>2, RidersAreQuiet, QuietKeeps
  <1>3. ASSUME PurgeSignup \/ SweepInvitations PROVE ApprovalInv'
    BY <1>3, PurgeKeeps, QuietKeeps DEF SweepInvitations
  <1>4. ASSUME NEW r \in Runs, Batch(r) PROVE ApprovalInv'
    BY <1>4, BatchesAreQuiet, QuietKeeps
  <1>5. CASE UNCHANGED vars
    BY <1>5, QuietKeeps DEF vars
  <1> QED
    BY <1>1, <1>2, <1>3, <1>4, <1>5 DEF Next

(* The approvals keep their types, pages carry what a decision needs, and  *)
(* each log ends in the state in force (changeApprovalState).              *)
THEOREM ApprovalInvariant == Spec => []ApprovalInv
  BY ApprovalInit, ApprovalStep, PTL DEF Spec

(* Whoever decides from whatever page, a signup's decisions read as one    *)
(* chain that ends in its state, and nobody is told "recorded" of a        *)
(* decision the log does not name them for.                                *)
THEOREM DecisionsReadAsOneChain == Spec => []DecisionsChain
  <1>1. ApprovalInv => DecisionsChain
    BY DEF ApprovalInv, Chained, StateIsLast, LogChains, ToldIsLogged, Named, DecisionsChain
  <1> QED
    BY <1>1, ApprovalInvariant, PTL

-----------------------------------------------------------------------------
(* Batches.  What a batch still has to do, what it has recorded and what   *)
(* the invitations show hang together by the riders of each.               *)
Ats == {"unused", "select", "check", "insert", "reconcile", "send", "revoke", "record",
        "finish", "done", "dead", "swept"}

RunStates ==
    [at : Ats, rest : Seq(Signups), outcome : Outcomes \cup {None},
     status : {None, "running", "failed", "completed", "completed_with_failures"},
     counts : [Outcomes -> Nat]]

Links == {None, "live", "rider", "unsent"}

BatchTypes ==
    /\ signup \in [Signups -> [status : {"pending", "confirmed", "unsubscribed", "purged"},
                               left : BOOLEAN, returned : BOOLEAN]]
    /\ sweep \in Signups \cup {None} /\ cleared \subseteq Signups
    /\ slot \in [Signups -> [run : Runs \cup {None}, link : Links]]
    /\ run \in [Runs -> RunStates]
    /\ outcomes \subseteq Runs \X Signups \X Outcomes
    /\ mailed \subseteq Runs \X Signups

Distinct(q) == \A i, j \in DOMAIN q : q[i] = q[j] => i = j
Riders(q)   == {q[i] : i \in DOMAIN q}

(* One row of OutcomesAreTrue.                                             *)
OutcomeTrue(r, s, o) ==
    s \notin cleared =>
      CASE o = "issued" ->
             <<r, s>> \in mailed /\ slot[s].run = r /\ slot[s].link \in {"live", "rider"}
        [] o = "send_failed" -> slot[s].run = r /\ slot[s].link \in {"rider", "unsent"}
        [] o = "already_invited" -> slot[s] # NoSlot /\ <<r, s>> \notin mailed
        [] OTHER -> <<r, s>> \notin mailed /\ slot[s].run # r

AtRider == {"insert", "reconcile", "send", "revoke", "record"}
Open    == AtRider \cup {"check"}

Unrecorded(r, s) == \A o \in Outcomes : <<r, s, o>> \notin outcomes

(* A batch x: riders it has not come to have no mail or row of it, the one *)
(* it is at has the invitation it sends or revokes.                        *)
RunInv(r, x) ==
    /\ x.at \in AtRider => x.rest # <<>>
    /\ x.at \in {"unused", "select"} =>
          \A s \in Signups : <<r, s>> \notin mailed /\ Unrecorded(r, s)
    /\ x.at \in Open =>
          /\ Distinct(x.rest)
          /\ \A s \in Riders(x.rest) :
                /\ Unrecorded(r, s)
                /\ <<r, s>> \in mailed => s = Head(x.rest) /\ x.at \in {"revoke", "record"}
    /\ x.at \in {"send", "revoke"} /\ Head(x.rest) \notin cleared =>
          slot[Head(x.rest)].run = r /\ slot[Head(x.rest)].link \in {"live", "rider"}
    /\ x.at = "record" => x.outcome \in Outcomes /\ OutcomeTrue(r, Head(x.rest), x.outcome)

Rows(r, o) == {x \in outcomes : x[1] = r /\ x[3] = o}
Gone       == {s \in Signups : ~ Exists(s)}
Due(x, o)  == IF x.at = "record" /\ x.outcome = o THEN 1 ELSE 0

(* Its counts are its rows, the one about to be recorded, and at most the  *)
(* riders purged.                                                          *)
TallyInv(r, x) ==
    /\ x.at = "finish" => x.status = "failed"
    /\ x.status \in {"completed", "completed_with_failures"} =>
          /\ x.at = "done"
          /\ x.status = "completed" <=> x.counts["issue_failed"] = 0 /\ x.counts["send_failed"] = 0
    /\ x.status # "failed" /\ x.at # "dead" =>
          \A o \in Outcomes :
             /\ Cardinality(Rows(r, o)) + Due(x, o) <= x.counts[o]
             /\ x.counts[o] <= Cardinality(Rows(r, o)) + Due(x, o) + Cardinality(Gone)

SlotsInv ==
    /\ \A s \in Signups : slot[s] = NoSlot \/ (slot[s].run \in Runs /\ slot[s].link # None)
    /\ \A r \in Runs, s \in Signups \ cleared : <<r, s>> \in mailed => slot[s].run = r
    /\ \A r \in Runs, s \in Signups, o \in Outcomes :
          <<r, s, o>> \in outcomes => OutcomeTrue(r, s, o)
    /\ sweep # None => Exists(sweep)

BatchInv ==
    /\ BatchTypes
    /\ SlotsInv
    /\ \A r \in Runs : RunInv(r, run[r])
    /\ \A r \in Runs : TallyInv(r, run[r])

-----------------------------------------------------------------------------
(* The riders of a batch.                                                  *)

LEMMA TailRiders ==
    ASSUME NEW q \in Seq(Signups), q # <<>>
    PROVE  /\ Head(q) \in Signups /\ Head(q) \in Riders(q) /\ Riders(q) \subseteq Signups
           /\ Tail(q) \in Seq(Signups) /\ Riders(Tail(q)) \subseteq Riders(q)
           /\ Distinct(q) => Distinct(Tail(q)) /\ Head(q) \notin Riders(Tail(q))
  <1>1. Len(q) \in Nat \ {0} /\ DOMAIN q = 1 .. Len(q)
    BY EmptySeq, LenProperties
  <1>2. /\ Head(q) = q[1] /\ Tail(q) \in Seq(Signups) /\ Len(Tail(q)) = Len(q) - 1
        /\ \A i \in 1 .. Len(Tail(q)) : Tail(q)[i] = q[i + 1]
    BY <1>1, HeadTailProperties
  <1>3. DOMAIN Tail(q) = 1 .. (Len(q) - 1)
    BY <1>1, <1>2, LenProperties
  <1>4. \A i \in 1 .. (Len(q) - 1) : Tail(q)[i] = q[i + 1] /\ i + 1 \in 1 .. Len(q) /\ i + 1 # 1
    BY <1>1, <1>2
  <1>5. Head(q) \in Riders(q) /\ Riders(q) \subseteq Signups /\ Riders(Tail(q)) \subseteq Riders(q)
    BY <1>1, <1>2, <1>3, <1>4 DEF Riders
  <1>6. ASSUME Distinct(q) PROVE Distinct(Tail(q)) /\ Head(q) \notin Riders(Tail(q))
    BY <1>1, <1>2, <1>3, <1>4, <1>6 DEF Distinct, Riders
  <1> QED
    BY <1>2, <1>5, <1>6

LEMMA RowsFinite ==
    ASSUME BatchTypes, NEW r, NEW o
    PROVE  IsFiniteSet(Rows(r, o)) /\ Cardinality(Rows(r, o)) \in Nat
  <1> DEFINE all == {<<r, s, o>> : s \in Signups}
  <1>1. IsFiniteSet(all)
    <2> DEFINE f == [s \in Signups |-> <<r, s, o>>]
    <2>1. f \in Surjection(Signups, all)
      BY DEF Surjection
    <2> QED
      BY <2>1, AdminAssumption, FS_Surjection
  <1>2. Rows(r, o) \subseteq all
    BY DEF Rows, BatchTypes
  <1> QED
    BY <1>1, <1>2, FS_Subset, FS_CardinalityType

LEMMA GoneFinite == IsFiniteSet(Gone) /\ Cardinality(Gone) \in Nat
  BY AdminAssumption, FS_Subset, FS_CardinalityType DEF Gone

(* A batch moves, and nothing it has to do with changes.                   *)
LEMMA RunMoves ==
    ASSUME BatchInv, NEW CONSTANT r \in Runs, NEW CONSTANT next \in RunStates, SetRun(r, next),
           RunInv(r, next), TallyInv(r, next),
           UNCHANGED <<signup, sweep, cleared, slot, outcomes, mailed>>
    PROVE  BatchInv'
  <1>1. BatchTypes'
    BY DEF BatchInv, BatchTypes, SetRun
  <1>2. SlotsInv'
    BY DEF BatchInv, SlotsInv, OutcomeTrue, Exists
  <1>3. run'[r] = next /\ \A p \in Runs \ {r} : run'[p] = run[p]
    BY DEF BatchInv, BatchTypes, SetRun
  <1>4. ASSUME NEW p \in Runs PROVE RunInv(p, run[p])' /\ TallyInv(p, run[p])'
    <2>1. PICK x \in RunStates : x = run'[p] /\ RunInv(p, x) /\ TallyInv(p, x)
      BY <1>3 DEF BatchInv, BatchTypes
    <2>2. RunInv(p, x)'
      BY <2>1 DEF RunInv, Unrecorded, OutcomeTrue
    <2>3. TallyInv(p, x)'
      BY <2>1 DEF TallyInv, Rows, Gone, Exists
    <2> QED
      BY <2>1, <2>2, <2>3 DEF RunInv, TallyInv, Due, OutcomeTrue, Unrecorded
  <1> QED
    BY <1>1, <1>2, <1>4 DEF BatchInv

LEMMA StartKeeps ==
    ASSUME BatchInv, NEW CONSTANT r \in Runs, Start(r)
    PROVE  BatchInv'
  <1>1. /\ run[r] = NoRun /\ SetRun(r, [run[r] EXCEPT !.at = "select", !.status = "running"])
        /\ UNCHANGED <<signup, sweep, cleared, slot, outcomes, mailed>>
        /\ RunInv(r, run[r]) /\ TallyInv(r, run[r]) /\ NoRun \in RunStates
    BY DEF Start, BatchInv, BatchTypes
  <1>2. PICK next \in RunStates :
           /\ SetRun(r, next) /\ next.at = "select" /\ next.status = "running"
           /\ next.counts = NoRun.counts
    <2> DEFINE moved == [NoRun EXCEPT !.at = "select", !.status = "running"]
    <2>1. moved \in RunStates
      BY <1>1 DEF RunStates, Ats
    <2>2. moved.at = "select" /\ moved.status = "running" /\ moved.counts = NoRun.counts
      BY DEF NoRun
    <2> QED
      BY <1>1, <2>1, <2>2
  <1>3. NoRun.at = "unused" /\ NoRun.status = None
    BY DEF NoRun
  <1>4. RunInv(r, next)
    BY <1>1, <1>2, <1>3 DEF RunInv, Open, AtRider
  <1>5. TallyInv(r, next)
    BY <1>1, <1>2, <1>3 DEF TallyInv, Due, None
  <1> QED
    BY <1>1, <1>2, <1>4, <1>5, RunMoves

LEMMA SelectKeeps ==
    ASSUME BatchInv, NEW CONSTANT r \in Runs, Select(r)
    PROVE  BatchInv'
  <1>1. /\ run[r].at = "select" /\ run[r] \in RunStates
        /\ UNCHANGED <<signup, sweep, cleared, slot, outcomes, mailed>>
        /\ RunInv(r, run[r]) /\ TallyInv(r, run[r])
    BY DEF Select, BatchInv, BatchTypes
  <1>2. PICK chosen \in SUBSET Signups : \E rest \in SetToSeqs(chosen) :
           SetRun(r, [run[r] EXCEPT !.at = "check", !.rest = rest])
    BY DEF Select
  <1>3. PICK rest \in SetToSeqs(chosen) :
           SetRun(r, [run[r] EXCEPT !.at = "check", !.rest = rest])
    BY <1>2
  <1>4. rest \in Seq(Signups) /\ Distinct(rest)
    <2>1. Cardinality(chosen) \in Nat
      BY AdminAssumption, FS_Subset, FS_CardinalityType
    <2>2. rest \in [1 .. Cardinality(chosen) -> chosen] /\ Distinct(rest)
      BY DEF SetToSeqs, Distinct
    <2> QED
      BY <2>1, <2>2
  <1>5. PICK next \in RunStates :
           /\ SetRun(r, next) /\ next.at = "check" /\ next.rest = rest
           /\ next.status = run[r].status /\ next.counts = run[r].counts
    <2> DEFINE moved == [run[r] EXCEPT !.at = "check", !.rest = rest]
    <2>1. moved \in RunStates
      BY <1>1, <1>4 DEF RunStates, Ats
    <2>2. /\ moved.at = "check" /\ moved.rest = rest
          /\ moved.status = run[r].status /\ moved.counts = run[r].counts
      BY <1>1 DEF RunStates
    <2> QED
      BY <1>3, <2>1, <2>2
  <1>6. RunInv(r, next)
    <2>1. Riders(rest) \subseteq Signups
      BY <1>4 DEF Riders
    <2> QED
      BY <1>1, <1>4, <1>5, <2>1 DEF RunInv, Open, AtRider
  <1>7. TallyInv(r, next)
    BY <1>1, <1>5 DEF TallyInv, Due
  <1> QED
    BY <1>1, <1>5, <1>6, <1>7, RunMoves

(* A batch goes on to where nothing new is asked of it.                    *)
LEMMA AtMoves ==
    ASSUME BatchInv, NEW CONSTANT r \in Runs, run[r].at \in {"check", "insert"},
           run[r].rest # <<>>, NEW CONSTANT at \in {"insert", "reconcile"},
           SetRun(r, [run[r] EXCEPT !.at = at]),
           UNCHANGED <<signup, sweep, cleared, slot, outcomes, mailed>>
    PROVE  BatchInv'
  <1>1. run[r] \in RunStates /\ RunInv(r, run[r]) /\ TallyInv(r, run[r])
    BY DEF BatchInv, BatchTypes
  <1>2. PICK next \in RunStates :
           /\ SetRun(r, next) /\ next.at = at /\ next.rest = run[r].rest
           /\ next.status = run[r].status /\ next.counts = run[r].counts
    BY <1>1 DEF RunStates, Ats
  <1>3. RunInv(r, next)
    BY <1>1, <1>2 DEF RunInv, Open, AtRider
  <1>4. TallyInv(r, next)
    BY <1>1, <1>2 DEF TallyInv, Due
  <1> QED
    BY <1>2, <1>3, <1>4, RunMoves

LEMMA IssueCheckKeeps ==
    ASSUME BatchInv, NEW CONSTANT r \in Runs, IssueCheck(r)
    PROVE  BatchInv'
  BY AtMoves DEF IssueCheck

(* A batch that ended, and one that was given up.                          *)
LEMMA EndMoves ==
    ASSUME BatchInv, NEW CONSTANT r \in Runs,
           NEW CONSTANT at \in {"finish", "dead"}, NEW CONSTANT status \in {"running", "failed"},
           at = "finish" => status = "failed",
           SetRun(r, [run[r] EXCEPT !.at = at, !.status = status]),
           UNCHANGED <<signup, sweep, cleared, slot, outcomes, mailed>>
    PROVE  BatchInv'
  <1>1. run[r] \in RunStates
    BY DEF BatchInv, BatchTypes
  <1>2. PICK next \in RunStates : SetRun(r, next) /\ next.at = at /\ next.status = status
    <2> DEFINE moved == [run[r] EXCEPT !.at = at, !.status = status]
    <2>1. moved \in RunStates
      BY <1>1 DEF RunStates, Ats
    <2>2. moved.at = at /\ moved.status = status
      BY <1>1 DEF RunStates
    <2> QED
      BY <2>1, <2>2
  <1>3. RunInv(r, next)
    BY <1>2 DEF RunInv, Open, AtRider
  <1>4. TallyInv(r, next)
    BY <1>2 DEF TallyInv, Due
  <1> QED
    BY <1>2, <1>3, <1>4, RunMoves

LEMMA StatementFailsKeeps ==
    ASSUME BatchInv, NEW CONSTANT r \in Runs, StatementFails(r)
    PROVE  BatchInv'
  BY EndMoves DEF StatementFails, Stopped

LEMMA DiesKeeps ==
    ASSUME BatchInv, NEW CONSTANT r \in Runs, Dies(r)
    PROVE  BatchInv'
  BY EndMoves DEF Dies

LEMMA FinishKeeps ==
    ASSUME BatchInv, NEW CONSTANT r \in Runs, Finish(r)
    PROVE  BatchInv'
  <1> DEFINE status == IF run[r].status = "failed" THEN "failed"
                       ELSE IF Failures(r) > 0 THEN "completed_with_failures" ELSE "completed"
  <1>1. /\ run[r] \in RunStates /\ RunInv(r, run[r]) /\ TallyInv(r, run[r])
        /\ run[r].at \in {"check", "finish"}
        /\ UNCHANGED <<signup, sweep, cleared, slot, outcomes, mailed>>
    BY DEF Finish, BatchInv, BatchTypes
  <1>2. SetRun(r, [run[r] EXCEPT !.at = "done", !.status = status])
    BY DEF Finish
  <1>3. PICK next \in RunStates :
           /\ SetRun(r, next) /\ next.at = "done" /\ next.status = status
           /\ next.counts = run[r].counts
    <2> DEFINE moved == [run[r] EXCEPT !.at = "done", !.status = status]
    <2>1. moved \in RunStates
      BY <1>1 DEF RunStates, Ats
    <2>2. moved.at = "done" /\ moved.status = status /\ moved.counts = run[r].counts
      BY <1>1 DEF RunStates
    <2> QED
      BY <1>2, <2>1, <2>2
  <1>4. RunInv(r, next)
    BY <1>3 DEF RunInv, Open, AtRider
  <1>5. TallyInv(r, next)
    <2>1. CASE run[r].status = "failed"
      BY <1>3, <2>1 DEF TallyInv
    <2>2. CASE run[r].status # "failed"
      <3>1. /\ run[r].counts["issue_failed"] \in Nat /\ run[r].counts["send_failed"] \in Nat
        BY <1>1 DEF RunStates, Outcomes
      <3>2. Failures(r) > 0 <=>
               ~ (run[r].counts["issue_failed"] = 0 /\ run[r].counts["send_failed"] = 0)
        BY <3>1 DEF Failures
      <3>3. \A o \in Outcomes : Due(next, o) = 0 /\ Due(run[r], o) = 0
        BY <1>1, <1>3 DEF Due
      <3> QED
        BY <1>1, <1>3, <2>2, <3>2, <3>3 DEF TallyInv
    <2> QED
      BY <2>1, <2>2
  <1> QED
    BY <1>1, <1>3, <1>4, <1>5, RunMoves

(* The outcome is counted before it is recorded.                           *)
LEMMA ConcludeState ==
    ASSUME BatchInv, NEW CONSTANT r \in Runs, NEW CONSTANT o \in Outcomes, Conclude(r, o),
           run[r].at \in {"reconcile", "send", "revoke"}
    PROVE  \E next \in RunStates :
              /\ SetRun(r, next) /\ next.at = "record" /\ next.rest = run[r].rest
              /\ next.outcome = o /\ TallyInv(r, next)
  <1> DEFINE counts == [run[r].counts EXCEPT ![o] = @ + 1]
  <1>1. run[r] \in RunStates /\ TallyInv(r, run[r])
    BY DEF BatchInv, BatchTypes
  <1>2. counts \in [Outcomes -> Nat] /\ counts[o] = run[r].counts[o] + 1
        /\ \A x \in Outcomes \ {o} : counts[x] = run[r].counts[x]
    BY <1>1 DEF RunStates
  <1>3. SetRun(r, [run[r] EXCEPT !.at = "record", !.outcome = o, !.counts = counts])
    BY DEF Conclude
  <1> HIDE DEF counts
  <1>4. PICK next \in RunStates :
           /\ SetRun(r, next) /\ next.at = "record" /\ next.rest = run[r].rest
           /\ next.outcome = o /\ next.status = run[r].status /\ next.counts = counts
    <2> DEFINE moved == [run[r] EXCEPT !.at = "record", !.outcome = o, !.counts = counts]
    <2>1. moved \in RunStates
      BY <1>1, <1>2 DEF RunStates, Ats
    <2>2. /\ moved.at = "record" /\ moved.rest = run[r].rest /\ moved.outcome = o
          /\ moved.status = run[r].status /\ moved.counts = counts
      BY <1>1 DEF RunStates
    <2> QED
      BY <1>3, <2>1, <2>2
  <1>5. TallyInv(r, next)
    <2>1. \A x \in Outcomes : Due(run[r], x) = 0 /\ Due(next, x) = (IF x = o THEN 1 ELSE 0)
      BY <1>4 DEF Due
    <2>2. \A x \in Outcomes : run[r].counts[x] \in Nat /\ Cardinality(Rows(r, x)) \in Nat
      BY <1>1, RowsFinite DEF RunStates, BatchInv
    <2> QED
      BY <1>1, <1>2, <1>4, <2>1, <2>2, GoneFinite DEF TallyInv
  <1> QED
    BY <1>4, <1>5

LEMMA ReconcileKeeps ==
    ASSUME BatchInv, NEW CONSTANT r \in Runs, Reconcile(r)
    PROVE  BatchInv'
  <1>1. /\ run[r].at = "reconcile" /\ run[r] \in RunStates /\ RunInv(r, run[r])
        /\ UNCHANGED <<signup, sweep, cleared, slot, outcomes, mailed>>
    BY DEF Reconcile, BatchInv, BatchTypes
  <1>2. PICK o \in {"already_invited", "issue_failed"} :
           /\ Conclude(r, o)
           /\ IF slot[Rider(r)] # NoSlot THEN o = "already_invited" ELSE o = "issue_failed"
    BY DEF Reconcile
  <1>3. PICK next \in RunStates :
           /\ SetRun(r, next) /\ next.at = "record" /\ next.rest = run[r].rest
           /\ next.outcome = o /\ TallyInv(r, next)
    BY <1>1, <1>2, ConcludeState DEF Outcomes
  <1>4. RunInv(r, next)
    <2>1. run[r].rest # <<>> /\ Rider(r) \in Riders(run[r].rest) /\ Rider(r) \in Signups
      BY <1>1, TailRiders DEF RunInv, AtRider, RunStates, Rider
    <2>2. <<r, Rider(r)>> \notin mailed
      BY <1>1, <2>1 DEF RunInv, Open, AtRider
    <2>3. slot[Rider(r)] = NoSlot => slot[Rider(r)].run # r
      BY AdminAssumption DEF NoSlot, None
    <2>4. OutcomeTrue(r, Rider(r), o)
      BY <1>2, <2>2, <2>3 DEF OutcomeTrue
    <2> QED
      BY <1>1, <1>3, <2>1, <2>4 DEF RunInv, Open, AtRider, Outcomes, Rider
  <1> QED
    BY <1>1, <1>3, <1>4, RunMoves

-----------------------------------------------------------------------------
(* Steps that touch what batches share.                                    *)

(* What the others may do beside a batch p.                                *)
Harmless(p) ==
    /\ cleared \subseteq cleared'
    /\ \A s \in Signups : Unrecorded(p, s) => Unrecorded(p, s)'
    /\ \A s \in Signups : <<p, s>> \in mailed' => <<p, s>> \in mailed
    /\ \A s \in Signups \ cleared' :
          slot[s].run = p /\ slot[s].link \in {"live", "rider"} =>
              slot'[s].run = p /\ slot'[s].link \in {"live", "rider"}
    /\ \A s \in Signups, o \in Outcomes : OutcomeTrue(p, s, o) => OutcomeTrue(p, s, o)'

LEMMA HarmlessKeeps ==
    ASSUME NEW CONSTANT p \in Runs, Harmless(p), NEW CONSTANT x \in RunStates, RunInv(p, x)
    PROVE  RunInv(p, x)'
  <1>1. x.rest # <<>> => Head(x.rest) \in Signups
    BY TailRiders DEF RunStates
  <1>2. Riders(x.rest) \subseteq Signups
    BY DEF RunStates, Riders
  <1>3. x.at \in {"send", "revoke", "record"} => x.at \in AtRider
    BY DEF AtRider
  <1> QED
    BY <1>1, <1>2, <1>3 DEF Harmless, RunInv

(* One batch moves, harmlessly to the others.                              *)
LEMMA OthersKeep ==
    ASSUME BatchInv, NEW CONSTANT r \in Runs, NEW CONSTANT next \in RunStates, SetRun(r, next),
           BatchTypes', SlotsInv', RunInv(r, next)', TallyInv(r, next)',
           \A p \in Runs \ {r} : Harmless(p) /\ \A o \in Outcomes : Rows(p, o)' = Rows(p, o),
           UNCHANGED signup
    PROVE  BatchInv'
  <1>1. run'[r] = next /\ \A p \in Runs \ {r} : run'[p] = run[p]
    BY DEF BatchInv, BatchTypes, SetRun
  <1>2. ASSUME NEW p \in Runs \ {r} PROVE RunInv(p, run[p])' /\ TallyInv(p, run[p])'
    <2>1. PICK x \in RunStates : x = run[p] /\ x = run'[p] /\ RunInv(p, x) /\ TallyInv(p, x)
      BY <1>1, <1>2 DEF BatchInv, BatchTypes
    <2>2. RunInv(p, x)'
      BY <1>2, <2>1, HarmlessKeeps
    <2>3. TallyInv(p, x)'
      BY <1>2, <2>1 DEF TallyInv, Gone, Exists
    <2> QED
      BY <2>1, <2>2, <2>3 DEF RunInv, TallyInv, Due, OutcomeTrue, Unrecorded
  <1>3. RunInv(r, run[r])' /\ TallyInv(r, run[r])'
    BY <1>1 DEF RunInv, TallyInv, Due, OutcomeTrue, Unrecorded
  <1> QED
    BY <1>2, <1>3 DEF BatchInv

(* No mail and no row is the work of nobody.                               *)
LEMMA RiderOf ==
    ASSUME BatchInv, NEW CONSTANT r \in Runs, run[r].at \in AtRider
    PROVE  /\ run[r] \in RunStates /\ RunInv(r, run[r]) /\ TallyInv(r, run[r])
           /\ run[r].rest \in Seq(Signups) /\ run[r].rest # <<>>
           /\ Rider(r) \in Signups /\ Rider(r) \in Riders(run[r].rest) /\ Unrecorded(r, Rider(r))
           /\ run[r].at \in {"insert", "reconcile", "send"} => <<r, Rider(r)>> \notin mailed
  <1>1. run[r] \in RunStates /\ RunInv(r, run[r]) /\ TallyInv(r, run[r])
    BY DEF BatchInv, BatchTypes
  <1>2. run[r].rest \in Seq(Signups) /\ run[r].rest # <<>>
    BY <1>1 DEF RunStates, RunInv
  <1>3. Rider(r) \in Signups /\ Rider(r) \in Riders(run[r].rest)
    BY <1>2, TailRiders DEF Rider
  <1> QED
    BY <1>1, <1>2, <1>3 DEF RunInv, Open, AtRider

(* The invitation is inserted where there was none.                        *)
LEMMA InsertMoves ==
    ASSUME BatchInv, NEW CONSTANT r \in Runs, run[r].at = "insert", Admits(Rider(r)),
           slot' = [slot EXCEPT ![Rider(r)] = [run |-> r, link |-> "live"]],
           NEW CONSTANT at \in {"send", "reconcile"}, SetRun(r, [run[r] EXCEPT !.at = at]),
           UNCHANGED <<signup, sweep, cleared, outcomes, mailed>>
    PROVE  BatchInv'
  <1>1. /\ run[r] \in RunStates /\ RunInv(r, run[r]) /\ TallyInv(r, run[r])
        /\ Unrecorded(r, Rider(r)) /\ run[r].rest # <<>>
    BY RiderOf DEF AtRider
  <1>2. PICK s \in Signups : s = Rider(r)
    BY RiderOf DEF AtRider
  <1>3. slot[s] = NoSlot /\ slot[s].run \notin Runs /\ slot[s].run = None /\ slot[s].link = None
    BY <1>2, AdminAssumption DEF Admits, NoSlot, None
  <1>4. /\ slot'[s].run = r /\ slot'[s].link = "live"
        /\ \A t \in Signups \ {s} : slot'[t] = slot[t]
    BY <1>2 DEF BatchInv, BatchTypes
  <1>5. PICK next \in RunStates :
           /\ SetRun(r, next) /\ next.at = at /\ next.rest = run[r].rest
           /\ next.status = run[r].status /\ next.counts = run[r].counts
    BY <1>1 DEF RunStates, Ats
  <1>6. ASSUME NEW p \in Runs, NEW t \in Signups, NEW o \in Outcomes, OutcomeTrue(p, t, o),
               p # r \/ t # s
        PROVE  OutcomeTrue(p, t, o)'
    <2>1. CASE t = s
      BY <1>3, <1>4, <1>6, <2>1 DEF OutcomeTrue, NoSlot, None
    <2>2. CASE t # s
      BY <1>4, <1>6, <2>2 DEF OutcomeTrue
    <2> QED
      BY <2>1, <2>2
  <1>7. BatchTypes'
    BY <1>2, <1>5 DEF BatchInv, BatchTypes, SetRun, Links
  <1>8. SlotsInv'
    <2>1. \A t \in Signups : slot'[t] = NoSlot \/ (slot'[t].run \in Runs /\ slot'[t].link # None)
      BY <1>4 DEF BatchInv, SlotsInv, None
    <2>2. \A p \in Runs, t \in Signups \ cleared : <<p, t>> \in mailed => slot'[t].run = p
      BY <1>3, <1>4 DEF BatchInv, SlotsInv
    <2>3. \A p \in Runs, t \in Signups, o \in Outcomes :
             <<p, t, o>> \in outcomes => OutcomeTrue(p, t, o)'
      BY <1>1, <1>2, <1>6 DEF BatchInv, SlotsInv, Unrecorded
    <2> QED
      BY <2>1, <2>2, <2>3 DEF BatchInv, SlotsInv, Exists
  <1>9. RunInv(r, next)'
    BY <1>1, <1>2, <1>4, <1>5 DEF RunInv, Open, AtRider, Unrecorded, Rider
  <1>10. TallyInv(r, next)'
    BY <1>1, <1>5 DEF TallyInv, Due, Rows, Gone, Exists
  <1>11. ASSUME NEW p \in Runs \ {r}
         PROVE  Harmless(p) /\ \A o \in Outcomes : Rows(p, o)' = Rows(p, o)
    BY <1>3, <1>4, <1>6, <1>11 DEF Harmless, Unrecorded, Rows
  <1> QED
    BY <1>5, <1>7, <1>8, <1>9, <1>10, <1>11, OthersKeep

LEMMA IssueInsertKeeps ==
    ASSUME BatchInv, NEW CONSTANT r \in Runs, IssueInsert(r)
    PROVE  BatchInv'
  <1>1. CASE Admits(Rider(r))
    BY <1>1, InsertMoves DEF IssueInsert
  <1>2. CASE ~ Admits(Rider(r))
    <2>1. run[r].rest # <<>>
      BY RiderOf DEF IssueInsert, AtRider
    <2> QED
      BY <1>2, <2>1, AtMoves DEF IssueInsert
  <1> QED
    BY <1>1, <1>2

LEMMA IssueFailsKeeps ==
    ASSUME BatchInv, NEW CONSTANT r \in Runs, IssueFails(r)
    PROVE  BatchInv'
  <1>1. CASE UNCHANGED slot
    BY <1>1, AtMoves DEF IssueFails
  <1>2. CASE ~ UNCHANGED slot
    BY <1>2, InsertMoves DEF IssueFails
  <1> QED
    BY <1>1, <1>2

(* A mail goes out at most when the batch is at its rider.                 *)
LEMMA SendMoves ==
    ASSUME BatchInv, NEW CONSTANT r \in Runs, run[r].at = "send",
           mailed' \in {mailed, mailed \cup {<<r, Rider(r)>>}},
           NEW CONSTANT next \in RunStates, SetRun(r, next), next.rest = run[r].rest,
           TallyInv(r, next),
           \/ next.at = "revoke"
           \/ next.at = "record" /\ next.outcome = "issued" /\ <<r, Rider(r)>> \in mailed',
           UNCHANGED <<signup, sweep, cleared, slot, outcomes>>
    PROVE  BatchInv'
  <1>1. /\ run[r] \in RunStates /\ RunInv(r, run[r])
        /\ Unrecorded(r, Rider(r)) /\ run[r].rest # <<>>
    BY RiderOf DEF AtRider
  <1>2. PICK s \in Signups : s = Rider(r)
    BY RiderOf DEF AtRider
  <1>3. s \notin cleared => slot[s].run = r /\ slot[s].link \in {"live", "rider"}
    BY <1>1, <1>2 DEF RunInv, Rider
  <1>4. \A p \in Runs, t \in Signups :
           p # r \/ t # s => (<<p, t>> \in mailed' <=> <<p, t>> \in mailed)
    BY <1>2
  <1>5. \A p \in Runs, t \in Signups, o \in Outcomes :
           OutcomeTrue(p, t, o) /\ (p # r \/ t # s) => OutcomeTrue(p, t, o)'
    BY <1>4 DEF OutcomeTrue
  <1>6. BatchTypes'
    BY <1>2 DEF BatchInv, BatchTypes, SetRun
  <1>7. SlotsInv'
    <2>1. \A p \in Runs, t \in Signups \ cleared : <<p, t>> \in mailed' => slot[t].run = p
      BY <1>3, <1>4 DEF BatchInv, SlotsInv
    <2>2. \A p \in Runs, t \in Signups, o \in Outcomes :
             <<p, t, o>> \in outcomes => OutcomeTrue(p, t, o)'
      BY <1>1, <1>2, <1>5 DEF BatchInv, SlotsInv, Unrecorded
    <2> QED
      BY <2>1, <2>2 DEF BatchInv, SlotsInv, Exists
  <1>8. RunInv(r, next)'
    <2>1. Distinct(next.rest) /\ \A t \in Riders(next.rest) :
             Unrecorded(r, t) /\ (<<r, t>> \in mailed' => t = s)
      BY <1>1, <1>2, <1>4 DEF RunInv, Open, AtRider, Rider, Riders, RunStates
    <2>2. next.at = "record" => OutcomeTrue(r, s, "issued")'
      BY <1>2, <1>3 DEF OutcomeTrue
    <2> QED
      BY <1>1, <1>2, <1>3, <2>1, <2>2 DEF RunInv, Open, AtRider, Unrecorded, Rider, Outcomes
  <1>9. TallyInv(r, next)'
    BY DEF TallyInv, Due, Rows, Gone, Exists
  <1>10. ASSUME NEW p \in Runs \ {r}
         PROVE  Harmless(p) /\ \A o \in Outcomes : Rows(p, o)' = Rows(p, o)
    BY <1>4, <1>5, <1>10 DEF Harmless, Unrecorded, Rows
  <1> QED
    BY <1>6, <1>7, <1>8, <1>9, <1>10, OthersKeep

LEMMA SendKeeps ==
    ASSUME BatchInv, NEW CONSTANT r \in Runs, Send(r)
    PROVE  BatchInv'
  <1>1. /\ run[r].at = "send" /\ run[r] \in RunStates /\ TallyInv(r, run[r])
        /\ UNCHANGED <<signup, sweep, cleared, slot, outcomes>>
    BY DEF Send, BatchInv, BatchTypes
  <1>2. CASE Conclude(r, "issued") /\ mailed' = mailed \cup {<<r, Rider(r)>>}
    <2>1. PICK next \in RunStates :
             /\ SetRun(r, next) /\ next.at = "record" /\ next.rest = run[r].rest
             /\ next.outcome = "issued" /\ TallyInv(r, next)
      BY <1>1, <1>2, ConcludeState DEF Outcomes
    <2> QED
      BY <1>1, <1>2, <2>1, SendMoves
  <1>3. CASE /\ mailed' \in {mailed, mailed \cup {<<r, Rider(r)>>}}
             /\ SetRun(r, [run[r] EXCEPT !.at = "revoke"])
    <2>1. PICK next \in RunStates :
             /\ SetRun(r, next) /\ next.at = "revoke" /\ next.rest = run[r].rest
             /\ next.status = run[r].status /\ next.counts = run[r].counts
      BY <1>1, <1>3 DEF RunStates, Ats
    <2>2. TallyInv(r, next)
      BY <1>1, <2>1 DEF TallyInv, Due
    <2> QED
      BY <1>1, <1>3, <2>1, <2>2, SendMoves
  <1> QED
    BY <1>2, <1>3 DEF Send

(* Only the batch that issued a link revokes it as unsent.                 *)
LEMMA RevokeUnsentKeeps ==
    ASSUME BatchInv, NEW CONSTANT r \in Runs, RevokeUnsent(r)
    PROVE  BatchInv'
  <1>1. /\ run[r].at = "revoke" /\ slot' = Revoked(Rider(r), "unsent")
        /\ UNCHANGED <<signup, sweep, cleared, outcomes, mailed>>
    BY DEF RevokeUnsent
  <1>2. /\ run[r] \in RunStates /\ RunInv(r, run[r])
        /\ Unrecorded(r, Rider(r)) /\ run[r].rest # <<>>
    BY <1>1, RiderOf DEF AtRider
  <1>3. PICK s \in Signups : s = Rider(r)
    BY <1>1, RiderOf DEF AtRider
  <1>4. PICK next \in RunStates :
           /\ SetRun(r, next) /\ next.at = "record" /\ next.rest = run[r].rest
           /\ next.outcome = "send_failed" /\ TallyInv(r, next)
    BY <1>1, ConcludeState DEF RevokeUnsent, Outcomes
  <1>5. s \notin cleared => slot[s].run = r /\ slot[s].link \in {"live", "rider"}
    BY <1>1, <1>2, <1>3 DEF RunInv, Rider
  <1>6. /\ slot' \in [Signups -> [run : Runs \cup {None}, link : Links]]
        /\ slot'[s].run = slot[s].run
        /\ slot'[s].link = IF slot[s].link = "live" THEN "unsent" ELSE slot[s].link
        /\ \A t \in Signups \ {s} : slot'[t] = slot[t]
        /\ slot[s] = NoSlot => slot'[s] = NoSlot
    BY <1>1, <1>3 DEF Revoked, BatchInv, BatchTypes, Links, NoSlot, None
  <1>7. slot'[s] = NoSlot => slot[s] = NoSlot
    BY <1>3, <1>6 DEF NoSlot, None, BatchInv, SlotsInv
  <1>8. \A p \in Runs, t \in Signups, o \in Outcomes :
           OutcomeTrue(p, t, o) /\ (p # r \/ t # s) => OutcomeTrue(p, t, o)'
    <2> SUFFICES ASSUME NEW p \in Runs, NEW t \in Signups, NEW o \in Outcomes,
                        OutcomeTrue(p, t, o), p # r \/ t # s
                 PROVE  OutcomeTrue(p, t, o)'
      OBVIOUS
    <2>1. CASE t = s
      BY <1>1, <1>5, <1>6, <1>7, <2>1 DEF OutcomeTrue
    <2>2. CASE t # s
      BY <1>1, <1>6, <2>2 DEF OutcomeTrue
    <2> QED
      BY <2>1, <2>2
  <1>9. BatchTypes'
    BY <1>1, <1>4, <1>6 DEF BatchInv, BatchTypes, SetRun
  <1>10. SlotsInv'
    <2>1. \A t \in Signups : slot'[t] = NoSlot \/ (slot'[t].run \in Runs /\ slot'[t].link # None)
      BY <1>6 DEF BatchInv, SlotsInv, None
    <2>2. \A p \in Runs, t \in Signups \ cleared : <<p, t>> \in mailed => slot'[t].run = p
      BY <1>6 DEF BatchInv, SlotsInv
    <2>3. \A p \in Runs, t \in Signups, o \in Outcomes :
             <<p, t, o>> \in outcomes => OutcomeTrue(p, t, o)'
      BY <1>2, <1>3, <1>8 DEF BatchInv, SlotsInv, Unrecorded
    <2> QED
      BY <1>1, <2>1, <2>2, <2>3 DEF BatchInv, SlotsInv, Exists
  <1>11. RunInv(r, next)'
    <2>1. OutcomeTrue(r, s, "send_failed")'
      BY <1>1, <1>5, <1>6 DEF OutcomeTrue
    <2> QED
      BY <1>1, <1>2, <1>3, <1>4, <2>1 DEF RunInv, Open, AtRider, Unrecorded, Rider, Outcomes
  <1>12. TallyInv(r, next)'
    BY <1>1, <1>4 DEF TallyInv, Due, Rows, Gone, Exists
  <1>13. ASSUME NEW p \in Runs \ {r}
         PROVE  Harmless(p) /\ \A o \in Outcomes : Rows(p, o)' = Rows(p, o)
    BY <1>1, <1>5, <1>6, <1>8, <1>13 DEF Harmless, Unrecorded, Rows
  <1> QED
    BY <1>1, <1>4, <1>9, <1>10, <1>11, <1>12, <1>13, OthersKeep

(* The row is the rider's first of this batch.                             *)
LEMMA RecordKeeps ==
    ASSUME BatchInv, NEW CONSTANT r \in Runs, Record(r)
    PROVE  BatchInv'
  <1>1. CASE ~ Exists(Rider(r))
    BY <1>1, EndMoves DEF Record, Stopped
  <1>2. CASE Exists(Rider(r))
    <2>1. /\ run[r].at = "record"
          /\ outcomes' = outcomes \cup {<<r, Rider(r), run[r].outcome>>}
          /\ SetRun(r, [run[r] EXCEPT !.at = "check", !.rest = Tail(@)])
          /\ UNCHANGED <<signup, sweep, cleared, slot, mailed>>
      BY <1>2 DEF Record
    <2>2. /\ run[r] \in RunStates /\ RunInv(r, run[r]) /\ TallyInv(r, run[r])
          /\ run[r].rest \in Seq(Signups) /\ run[r].rest # <<>>
          /\ Unrecorded(r, Rider(r))
      BY <2>1, RiderOf DEF AtRider
    <2>3. PICK s \in Signups : s = Rider(r)
      BY <2>1, RiderOf DEF AtRider
    <2>4. PICK o \in Outcomes : o = run[r].outcome
      BY <2>1, <2>2 DEF RunInv
    <2>5. PICK rest \in Seq(Signups) :
             /\ rest = Tail(run[r].rest) /\ Distinct(rest)
             /\ Riders(rest) \subseteq Riders(run[r].rest) /\ s \notin Riders(rest)
             /\ Riders(rest) \subseteq Signups
      BY <2>1, <2>2, <2>3, TailRiders DEF RunInv, Open, AtRider, Rider
    <2>6. PICK next \in RunStates :
             /\ SetRun(r, next) /\ next.at = "check" /\ next.rest = rest
             /\ next.status = run[r].status /\ next.counts = run[r].counts
      <3> DEFINE moved == [run[r] EXCEPT !.at = "check", !.rest = rest]
      <3>1. moved \in RunStates
        BY <2>2 DEF RunStates, Ats
      <3>2. /\ moved.at = "check" /\ moved.rest = rest
            /\ moved.status = run[r].status /\ moved.counts = run[r].counts
        BY <2>2 DEF RunStates
      <3> QED
        BY <2>1, <2>5, <3>1, <3>2
    <2>7. outcomes' = outcomes \cup {<<r, s, o>>} /\ <<r, s, o>> \notin outcomes
      BY <2>1, <2>2, <2>3, <2>4 DEF Unrecorded
    <2>8. OutcomeTrue(r, s, o) /\ \A p \in Runs, t \in Signups, x \in Outcomes :
                                     OutcomeTrue(p, t, x) => OutcomeTrue(p, t, x)'
      BY <2>1, <2>2, <2>3, <2>4 DEF RunInv, OutcomeTrue, Rider
    <2>9. BatchTypes'
      BY <2>1, <2>6, <2>7 DEF BatchInv, BatchTypes, SetRun
    <2>10. SlotsInv'
      BY <2>1, <2>7, <2>8 DEF BatchInv, SlotsInv, Exists
    <2>11. RunInv(r, next)'
      <3>1. \A t \in Riders(rest) : Unrecorded(r, t)' /\ <<r, t>> \notin mailed
        BY <2>1, <2>2, <2>3, <2>5, <2>7 DEF RunInv, Open, AtRider, Unrecorded, Rider
      <3> QED
        BY <2>1, <2>5, <2>6, <3>1 DEF RunInv, Open, AtRider, Unrecorded
    <2>12. TallyInv(r, next)'
      <3>1. Rows(r, o)' = Rows(r, o) \cup {<<r, s, o>>} /\ <<r, s, o>> \notin Rows(r, o)
        BY <2>7 DEF Rows
      <3>2. Cardinality(Rows(r, o))' = Cardinality(Rows(r, o)) + 1
        BY <3>1, RowsFinite, FS_AddElement DEF BatchInv
      <3>3. \A x \in Outcomes \ {o} : Rows(r, x)' = Rows(r, x)
        BY <2>7 DEF Rows
      <3>4. Gone' = Gone
        BY <2>1 DEF Gone, Exists
      <3>5. \A x \in Outcomes : /\ Due(next, x) = 0
                                /\ Due(run[r], x) = (IF x = o THEN 1 ELSE 0)
        BY <2>1, <2>4, <2>6 DEF Due
      <3>6. \A x \in Outcomes : Cardinality(Rows(r, x)) \in Nat
        BY RowsFinite DEF BatchInv
      <3>7. \A x \in Outcomes : Cardinality(Rows(r, x))' =
                                   Cardinality(Rows(r, x)) + Due(run[r], x)
        BY <3>2, <3>3, <3>5, <3>6
      <3>8. run[r].status # "failed" => \A x \in Outcomes :
               /\ Cardinality(Rows(r, x))' <= next.counts[x]
               /\ next.counts[x] <= Cardinality(Rows(r, x))' + Cardinality(Gone)'
        BY <2>1, <2>2, <2>6, <3>4, <3>7 DEF TallyInv
      <3>9. run[r].status \notin {"completed", "completed_with_failures"}
        BY <2>1, <2>2 DEF TallyInv
      <3> QED
        BY <2>6, <3>5, <3>6, <3>7, <3>8, <3>9, GoneFinite DEF TallyInv, Due
    <2>13. ASSUME NEW p \in Runs \ {r}
           PROVE  Harmless(p) /\ \A x \in Outcomes : Rows(p, x)' = Rows(p, x)
      BY <2>1, <2>7, <2>8, <2>13 DEF Harmless, Unrecorded, Rows
    <2> QED
      BY <2>1, <2>6, <2>9, <2>10, <2>11, <2>12, <2>13, OthersKeep
  <1> QED
    BY <1>1, <1>2

LEMMA SweepRunKeeps ==
    ASSUME BatchInv, NEW CONSTANT r \in Runs, SweepRun(r)
    PROVE  BatchInv'
  <1>1. /\ SetRun(r, [NoRun EXCEPT !.at = "swept"])
        /\ outcomes' = {x \in outcomes : x[1] # r}
        /\ UNCHANGED <<signup, sweep, cleared, slot, mailed>>
    BY DEF SweepRun
  <1>2. PICK next \in RunStates :
           /\ SetRun(r, next) /\ next.at = "swept" /\ next.status = None
           /\ next.counts = [o \in Outcomes |-> 0]
    <2> DEFINE moved == [NoRun EXCEPT !.at = "swept"]
    <2>1. /\ moved = [at |-> "swept", rest |-> <<>>, outcome |-> None, status |-> None,
                      counts |-> [o \in Outcomes |-> 0]]
      BY DEF NoRun
    <2>2. <<>> \in Seq(Signups)
      BY EmptySeq
    <2>3. moved \in RunStates
      <3> DEFINE zero == [o \in Outcomes |-> 0]
      <3>1. zero \in [Outcomes -> Nat] /\ "swept" \in Ats
        BY DEF Ats
      <3> HIDE DEF zero
      <3> QED
        BY <2>1, <2>2, <3>1 DEF RunStates, zero
    <2> QED
      BY <1>1, <2>1, <2>3
  <1>3. \A p \in Runs, t \in Signups, o \in Outcomes : OutcomeTrue(p, t, o) => OutcomeTrue(p, t, o)'
    BY <1>1 DEF OutcomeTrue
  <1>4. BatchTypes'
    BY <1>1, <1>2 DEF BatchInv, BatchTypes, SetRun
  <1>5. SlotsInv'
    BY <1>1, <1>3 DEF BatchInv, SlotsInv, Exists
  <1>6. RunInv(r, next)'
    BY <1>2 DEF RunInv, Open, AtRider
  <1>7. TallyInv(r, next)'
    <2>1. \A o \in Outcomes : Rows(r, o)' = {} /\ Due(next, o) = 0
      BY <1>1, <1>2 DEF Rows, Due
    <2>2. Gone' = Gone
      BY <1>1 DEF Gone, Exists
    <2>3. \A o \in Outcomes : Cardinality(Rows(r, o))' = 0 /\ next.counts[o] = 0
      BY <1>2, <2>1, FS_EmptySet
    <2>4. Cardinality(Gone)' \in Nat
      BY <2>2, GoneFinite
    <2> QED
      BY <1>2, <2>1, <2>3, <2>4 DEF TallyInv, Due, None
  <1>8. ASSUME NEW p \in Runs \ {r}
        PROVE  Harmless(p) /\ \A o \in Outcomes : Rows(p, o)' = Rows(p, o)
    BY <1>1, <1>3, <1>8 DEF Harmless, Unrecorded, Rows
  <1> QED
    BY <1>1, <1>2, <1>4, <1>5, <1>6, <1>7, <1>8, OthersKeep

-----------------------------------------------------------------------------
(* The riders and the sweep beside the batches.                            *)

LEMMA BesideRuns ==
    ASSUME BatchInv, UNCHANGED <<run, outcomes, mailed>>, BatchTypes', SlotsInv',
           \A p \in Runs : Harmless(p), Gone' = Gone
    PROVE  BatchInv'
  <1>1. ASSUME NEW p \in Runs PROVE RunInv(p, run[p])' /\ TallyInv(p, run[p])'
    <2>1. PICK x \in RunStates : x = run[p] /\ x = run'[p] /\ RunInv(p, x) /\ TallyInv(p, x)
      BY DEF BatchInv, BatchTypes
    <2>2. RunInv(p, x)'
      BY <2>1, HarmlessKeeps
    <2>3. TallyInv(p, x)'
      BY <2>1 DEF TallyInv, Rows
    <2> QED
      BY <2>1, <2>2, <2>3 DEF RunInv, TallyInv, Due, OutcomeTrue, Unrecorded
  <1> QED
    BY <1>1 DEF BatchInv

(* A rider comes or goes.                                                  *)
LEMMA StatusMoves ==
    ASSUME BatchInv, NEW CONSTANT s \in Signups, Exists(s),
           NEW CONSTANT row \in [status : {"confirmed", "unsubscribed"}, left : BOOLEAN,
                                 returned : BOOLEAN],
           signup' = [signup EXCEPT ![s] = row],
           UNCHANGED <<sweep, cleared, slot, run, outcomes, mailed>>
    PROVE  BatchInv'
  <1>1. \A t \in Signups : Exists(t)' <=> Exists(t)
    BY DEF BatchInv, BatchTypes, Exists
  <1>2. BatchTypes'
    BY DEF BatchInv, BatchTypes
  <1>3. SlotsInv'
    BY <1>1 DEF BatchInv, SlotsInv, OutcomeTrue, BatchTypes
  <1>4. \A p \in Runs : Harmless(p)
    BY DEF Harmless, Unrecorded, OutcomeTrue
  <1>5. Gone' = Gone
    BY <1>1 DEF Gone
  <1> QED
    BY <1>2, <1>3, <1>4, <1>5, BesideRuns

LEMMA RiderConfirmKeeps ==
    ASSUME BatchInv, NEW CONSTANT s \in Signups, Confirm(s)
    PROVE  BatchInv'
  <1>1. PICK noted \in BOOLEAN : signup' = [signup EXCEPT ![s].status = "confirmed",
                                                         ![s].returned = @ \/ noted]
    BY DEF Confirm
  <1>2. /\ UNCHANGED <<sweep, cleared, slot, run, outcomes, mailed>> /\ Exists(s)
        /\ signup[s] \in [status : {"pending", "confirmed", "unsubscribed", "purged"},
                          left : BOOLEAN, returned : BOOLEAN]
    BY DEF Confirm, Exists, BatchInv, BatchTypes
  <1>3. PICK row \in [status : {"confirmed", "unsubscribed"}, left : BOOLEAN, returned : BOOLEAN] :
           signup' = [signup EXCEPT ![s] = row]
    <2>1. PICK returned \in BOOLEAN : returned = (signup[s].returned \/ noted)
      BY <1>2
    <2> DEFINE row == [signup[s] EXCEPT !.status = "confirmed", !.returned = returned]
    <2>2. signup' = [signup EXCEPT ![s] = row]
      BY <1>1, <2>1
    <2>3. row \in [status : {"confirmed", "unsubscribed"}, left : BOOLEAN, returned : BOOLEAN]
      BY <1>2
    <2> QED
      BY <2>2, <2>3
  <1> QED
    BY <1>2, <1>3, StatusMoves

LEMMA RiderUnsubscribeKeeps ==
    ASSUME BatchInv, NEW CONSTANT s \in Signups, Unsubscribe(s)
    PROVE  BatchInv'
  <1>1. /\ signup' = [signup EXCEPT ![s].status = "unsubscribed", ![s].left = TRUE]
        /\ UNCHANGED <<sweep, cleared, slot, run, outcomes, mailed>> /\ Exists(s)
        /\ signup[s] \in [status : {"pending", "confirmed", "unsubscribed", "purged"},
                          left : BOOLEAN, returned : BOOLEAN]
    BY DEF Unsubscribe, Exists, BatchInv, BatchTypes
  <1>2. PICK row \in [status : {"confirmed", "unsubscribed"}, left : BOOLEAN, returned : BOOLEAN] :
           signup' = [signup EXCEPT ![s] = row]
    <2> DEFINE row == [signup[s] EXCEPT !.status = "unsubscribed", !.left = TRUE]
    <2>1. signup' = [signup EXCEPT ![s] = row]
      BY <1>1
    <2>2. row \in [status : {"confirmed", "unsubscribed"}, left : BOOLEAN, returned : BOOLEAN]
      BY <1>1
    <2> QED
      BY <2>1, <2>2
  <1> QED
    BY <1>1, <1>2, StatusMoves

(* A rider's leaving revokes a link, and makes no outcome untrue.          *)
LEMMA RevokeInvitationsKeeps ==
    ASSUME BatchInv, NEW CONSTANT s \in Signups, RevokeInvitations(s)
    PROVE  BatchInv'
  <1>1. /\ slot' = Revoked(s, "rider")
        /\ UNCHANGED <<signup, sweep, cleared, run, outcomes, mailed>>
    BY DEF RevokeInvitations
  <1>2. /\ slot' \in [Signups -> [run : Runs \cup {None}, link : Links]]
        /\ slot'[s].run = slot[s].run
        /\ slot'[s].link = IF slot[s].link = "live" THEN "rider" ELSE slot[s].link
        /\ \A t \in Signups \ {s} : slot'[t] = slot[t]
        /\ slot'[s] = NoSlot <=> slot[s] = NoSlot
    BY <1>1 DEF Revoked, BatchInv, BatchTypes, Links, NoSlot, None
  <1>3. \A p \in Runs, t \in Signups, o \in Outcomes :
           OutcomeTrue(p, t, o) => OutcomeTrue(p, t, o)'
    <2> SUFFICES ASSUME NEW p \in Runs, NEW t \in Signups, NEW o \in Outcomes, OutcomeTrue(p, t, o)
                 PROVE  OutcomeTrue(p, t, o)'
      OBVIOUS
    <2>1. CASE t = s
      BY <1>1, <1>2, <2>1 DEF OutcomeTrue
    <2>2. CASE t # s
      BY <1>1, <1>2, <2>2 DEF OutcomeTrue
    <2> QED
      BY <2>1, <2>2
  <1>4. BatchTypes'
    BY <1>1, <1>2 DEF BatchInv, BatchTypes
  <1>5. SlotsInv'
    BY <1>1, <1>2, <1>3 DEF BatchInv, SlotsInv, Exists, None
  <1>6. \A p \in Runs : Harmless(p)
    BY <1>1, <1>2, <1>3 DEF Harmless, Unrecorded
  <1>7. Gone' = Gone
    BY <1>1 DEF Gone, Exists
  <1> QED
    BY <1>1, <1>4, <1>5, <1>6, <1>7, BesideRuns

(* Nothing is claimed any more of riders whose invitations are deleted.    *)
LEMMA ClearKeeps ==
    ASSUME BatchInv, NEW CONSTANT gone \in SUBSET Signups, Clear(gone),
           sweep' = sweep \/ (sweep' \in Signups /\ Exists(sweep')),
           UNCHANGED <<signup, run, outcomes, mailed>>
    PROVE  BatchInv'
  <1>2. NoSlot \in [run : Runs \cup {None}, link : Links]
    BY DEF NoSlot, Links
  <1>3. /\ slot' \in [Signups -> [run : Runs \cup {None}, link : Links]]
        /\ \A t \in Signups : slot'[t] = slot[t] \/ (t \in cleared' /\ slot'[t] = NoSlot)
        /\ cleared \subseteq cleared' /\ cleared' \subseteq Signups
    BY <1>2 DEF Clear, BatchInv, BatchTypes
  <1>4. \A p \in Runs, t \in Signups, o \in Outcomes :
           OutcomeTrue(p, t, o) => OutcomeTrue(p, t, o)'
    BY <1>3 DEF OutcomeTrue
  <1>5. BatchTypes'
    BY <1>3 DEF BatchInv, BatchTypes
  <1>6. SlotsInv'
    <2>1. sweep' # None => Exists(sweep)'
      BY DEF Exists, BatchInv, SlotsInv
    <2> QED
      BY <1>3, <1>4, <2>1 DEF BatchInv, SlotsInv
  <1>7. \A p \in Runs : Harmless(p)
    BY <1>3, <1>4 DEF Harmless, Unrecorded
  <1>8. Gone' = Gone
    BY DEF Gone, Exists
  <1> QED
    BY <1>5, <1>6, <1>7, <1>8, BesideRuns

LEMMA PurgeInvitationsKeeps ==
    ASSUME BatchInv, NEW CONSTANT s \in Signups, PurgeInvitations(s)
    PROVE  BatchInv'
  <1>1. /\ sweep' = s /\ Exists(s) /\ Clear({s}) /\ UNCHANGED <<signup, run, outcomes, mailed>>
    BY DEF PurgeInvitations, Exists
  <1>2. {s} \in SUBSET Signups /\ sweep' \in Signups /\ Exists(sweep')
    BY <1>1 DEF Exists
  <1> QED
    BY <1>1, <1>2, ClearKeeps

LEMMA SweepInvitationsKeeps == BatchInv /\ SweepInvitations => BatchInv'
  <1> SUFFICES ASSUME BatchInv, SweepInvitations PROVE BatchInv'
    OBVIOUS
  <1>1. PICK gone \in SUBSET Signups : Clear(gone)
    BY DEF SweepInvitations
  <1>2. UNCHANGED <<signup, sweep, run, outcomes, mailed>>
    BY DEF SweepInvitations
  <1> QED
    BY <1>1, <1>2, ClearKeeps

(* A purged rider's rows go, and the rider is one more that is gone.       *)
LEMMA SweptSignupKeeps ==
    ASSUME BatchInv, PurgeSignup
    PROVE  BatchInv'
  <1>1. /\ sweep \in Signups /\ Exists(sweep) /\ sweep' = None
        /\ UNCHANGED <<cleared, slot, run, mailed>>
    BY DEF PurgeSignup, BatchInv, BatchTypes, SlotsInv
  <1>2. CASE UNCHANGED <<signup, outcomes>>
    <2>1. BatchTypes' /\ SlotsInv'
      BY <1>1, <1>2 DEF BatchInv, BatchTypes, SlotsInv, OutcomeTrue
    <2>2. \A p \in Runs : Harmless(p)
      BY <1>1, <1>2 DEF Harmless, Unrecorded, OutcomeTrue
    <2>3. Gone' = Gone
      BY <1>2 DEF Gone, Exists
    <2> QED
      BY <1>1, <1>2, <2>1, <2>2, <2>3, BesideRuns
  <1>3. CASE /\ signup' = [signup EXCEPT ![sweep] = Row("purged")]
             /\ outcomes' = {x \in outcomes : x[2] # sweep}
    <2>1. /\ Row("purged").status = "purged"
          /\ Row("purged") \in [status : {"pending", "confirmed", "unsubscribed", "purged"},
                               left : BOOLEAN, returned : BOOLEAN]
      BY DEF Row
    <2>2. BatchTypes'
      BY <1>1, <1>3, <2>1 DEF BatchInv, BatchTypes
    <2>3. \A p \in Runs, t \in Signups, o \in Outcomes :
             OutcomeTrue(p, t, o) => OutcomeTrue(p, t, o)'
      BY <1>1 DEF OutcomeTrue
    <2>4. SlotsInv'
      BY <1>1, <1>3, <2>3 DEF BatchInv, SlotsInv
    <2>5. \A p \in Runs : Harmless(p)
      BY <1>1, <1>3, <2>3 DEF Harmless, Unrecorded
    <2>6. Cardinality(Gone)' = Cardinality(Gone) + 1
      <3>1. sweep \notin Gone
        BY <1>1 DEF Gone
      <3>2. Gone' = Gone \cup {sweep}
        BY <1>1, <1>3, <2>1 DEF Gone, Exists, BatchInv, BatchTypes
      <3> QED
        BY <3>1, <3>2, GoneFinite, FS_AddElement
    <2>7. ASSUME NEW CONSTANT p \in Runs, NEW CONSTANT o \in Outcomes
          PROVE  /\ Cardinality(Rows(p, o))' \in Nat
                 /\ Cardinality(Rows(p, o))' <= Cardinality(Rows(p, o))
                 /\ Cardinality(Rows(p, o)) <= Cardinality(Rows(p, o))' + 1
      <3> DEFINE row == <<p, sweep, o>>
                 kept == Rows(p, o) \ {row}
      <3>1. Rows(p, o)' = kept
        BY <1>3 DEF Rows, BatchInv, BatchTypes
      <3>2. IsFiniteSet(Rows(p, o)) /\ Cardinality(Rows(p, o)) \in Nat
        BY RowsFinite DEF BatchInv
      <3>3. /\ IsFiniteSet(kept)
            /\ Cardinality(kept) = IF row \in Rows(p, o) THEN Cardinality(Rows(p, o)) - 1
                                                        ELSE Cardinality(Rows(p, o))
        BY <3>2, FS_RemoveElement
      <3>4. Cardinality(kept) \in Nat
        BY <3>3, FS_CardinalityType
      <3> HIDE DEF kept
      <3> QED
        BY <3>1, <3>2, <3>3, <3>4
    <2>8. ASSUME NEW CONSTANT p \in Runs PROVE RunInv(p, run[p])' /\ TallyInv(p, run[p])'
      <3>1. PICK x \in RunStates : x = run[p] /\ x = run'[p] /\ RunInv(p, x) /\ TallyInv(p, x)
        BY <1>1 DEF BatchInv, BatchTypes
      <3>2. RunInv(p, x)'
        BY <2>5, <3>1, HarmlessKeeps
      <3>3. ASSUME NEW CONSTANT o \in Outcomes,
                   Cardinality(Rows(p, o)) + Due(x, o) <= x.counts[o],
                   x.counts[o] <= Cardinality(Rows(p, o)) + Due(x, o) + Cardinality(Gone)
            PROVE  /\ Cardinality(Rows(p, o))' + Due(x, o) <= x.counts[o]
                   /\ x.counts[o] <= Cardinality(Rows(p, o))' + Due(x, o) + Cardinality(Gone)'
        <4>1. /\ x.counts[o] \in Nat /\ Due(x, o) \in Nat /\ Cardinality(Rows(p, o)) \in Nat
              /\ Cardinality(Gone) \in Nat
          BY RowsFinite, GoneFinite DEF RunStates, Due, BatchInv
        <4> QED
          BY <2>6, <2>7, <3>3, <4>1
      <3>4. TallyInv(p, x)'
        BY <3>1, <3>3 DEF TallyInv, Due
      <3> QED
        BY <3>1, <3>2, <3>4 DEF RunInv, TallyInv, Due, OutcomeTrue, Unrecorded
    <2> QED
      BY <2>2, <2>4, <2>8 DEF BatchInv
  <1> QED
    BY <1>2, <1>3 DEF PurgeSignup

LEMMA StillKeeps ==
    ASSUME BatchInv, UNCHANGED <<riders, batches>>
    PROVE  BatchInv'
  <1>1. BatchTypes' /\ SlotsInv'
    BY DEF BatchInv, BatchTypes, SlotsInv, OutcomeTrue, Exists
  <1>2. \A p \in Runs : Harmless(p)
    BY DEF Harmless, Unrecorded, OutcomeTrue
  <1>3. Gone' = Gone
    BY DEF Gone, Exists
  <1> QED
    BY <1>1, <1>2, <1>3, BesideRuns

LEMMA OperatorsAreBeside ==
    ASSUME NEW o \in Operators, Operator(o)
    PROVE  UNCHANGED <<riders, batches>>
  BY DEF Operator, OpenDetail, Submit, ConfirmNotApproved, Decide

LEMMA BatchStep == BatchInv /\ [Next]_vars => BatchInv'
  <1> SUFFICES ASSUME BatchInv, [Next]_vars PROVE BatchInv'
    OBVIOUS
  <1>1. ASSUME NEW o \in Operators, Operator(o) PROVE BatchInv'
    BY <1>1, OperatorsAreBeside, StillKeeps
  <1>2. ASSUME NEW s \in Signups, RiderActs(s) PROVE BatchInv'
    BY <1>2, RiderConfirmKeeps, RiderUnsubscribeKeeps, RevokeInvitationsKeeps DEF RiderActs
  <1>3. ASSUME NEW s \in Signups, PurgeInvitations(s) PROVE BatchInv'
    BY <1>3, PurgeInvitationsKeeps
  <1>4. ASSUME PurgeSignup PROVE BatchInv'
    BY <1>4, SweptSignupKeeps
  <1>7. ASSUME SweepInvitations PROVE BatchInv'
    BY <1>7, SweepInvitationsKeeps
  <1>5. ASSUME NEW r \in Runs, Batch(r) PROVE BatchInv'
    BY <1>5, StartKeeps, SelectKeeps, IssueCheckKeeps, IssueInsertKeeps, ReconcileKeeps, SendKeeps,
       RevokeUnsentKeeps, RecordKeeps, FinishKeeps, IssueFailsKeeps, StatementFailsKeeps, DiesKeeps,
       SweepRunKeeps DEF Batch
  <1>6. CASE UNCHANGED vars
    BY <1>6, StillKeeps DEF vars
  <1> QED
    BY <1>1, <1>2, <1>3, <1>4, <1>5, <1>6, <1>7 DEF Next

LEMMA BatchInit == Init => BatchInv
  <1> SUFFICES ASSUME Init PROVE BatchInv
    OBVIOUS
  <1>1. /\ sweep = None /\ cleared = {} /\ outcomes = {} /\ mailed = {}
        /\ slot = [s \in Signups |-> NoSlot] /\ run = [r \in Runs |-> NoRun]
    BY DEF Init
  <1>2. PICK pending \in SUBSET Signups :
           signup = [s \in Signups |-> Row(IF s \in pending THEN "pending" ELSE "confirmed")]
    BY DEF Init
  <1>3. /\ signup \in [Signups -> [status : {"pending", "confirmed", "unsubscribed", "purged"},
                                   left : BOOLEAN, returned : BOOLEAN]]
    BY <1>2 DEF Row
  <1>4. NoRun \in RunStates
    <2> DEFINE zero == [o \in Outcomes |-> 0]
    <2>1. zero \in [Outcomes -> Nat] /\ "unused" \in Ats /\ <<>> \in Seq(Signups)
      BY EmptySeq DEF Ats
    <2>2. NoRun = [at |-> "unused", rest |-> <<>>, outcome |-> None, status |-> None,
                   counts |-> zero]
      BY DEF NoRun
    <2> HIDE DEF zero
    <2> QED
      BY <2>1, <2>2 DEF RunStates
  <1>5. BatchTypes
    BY <1>1, <1>3, <1>4 DEF BatchTypes, NoSlot, Links
  <1>6. SlotsInv
    BY <1>1 DEF SlotsInv
  <1>7. NoRun.at = "unused" /\ NoRun.status = None /\ \A o \in Outcomes : NoRun.counts[o] = 0
    BY DEF NoRun
  <1>8. \A r \in Runs : RunInv(r, run[r])
    BY <1>1, <1>7 DEF RunInv, Open, AtRider, Unrecorded
  <1>9. ASSUME NEW r \in Runs PROVE TallyInv(r, run[r])
    <2>1. \A o \in Outcomes : Rows(r, o) = {} /\ Due(NoRun, o) = 0
      BY <1>1, <1>7 DEF Rows, Due
    <2>2. \A o \in Outcomes : Cardinality(Rows(r, o)) = 0
      BY <2>1, FS_EmptySet
    <2> QED
      BY <1>1, <1>7, <2>1, <2>2, GoneFinite DEF TallyInv, None
  <1> QED
    BY <1>5, <1>6, <1>8, <1>9 DEF BatchInv

(* The batches keep their types, each rider's invitation is of the batch   *)
(* that mails it, and counts and rows move together                        *)
(* (executeProfileInvitationBatch).                                        *)
THEOREM BatchInvariant == Spec => []BatchInv
  BY BatchInit, BatchStep, PTL DEF Spec

(* However many batches run, die or fail beside each other, a rider gets   *)
(* one mail with an invitation, unless a sweep deleted the record of the   *)
(* first: the daily one deletes those of riders who left thirty days ago,  *)
(* and a rider who rejoins after it is mailed again.                       *)
THEOREM RidersInvitedOnce == Spec => []OneInvitationMail
  <1>1. BatchInv => OneInvitationMail
    <2> SUFFICES ASSUME BatchInv, NEW s \in Signups \ cleared
                 PROVE  Cardinality({r \in Runs : <<r, s>> \in mailed}) <= 1
      BY DEF OneInvitationMail
    <2>1. \A r \in Runs : <<r, s>> \in mailed => r = slot[s].run
      BY DEF BatchInv, SlotsInv
    <2> DEFINE by == {r \in Runs : <<r, s>> \in mailed}
    <2>2. by = {} \/ by = {slot[s].run}
      BY <2>1
    <2>3. Cardinality({}) = 0 /\ Cardinality({slot[s].run}) = 1
      BY FS_EmptySet, FS_Singleton
    <2> HIDE DEF by
    <2>4. Cardinality(by) <= 1
      BY <2>2, <2>3
    <2> QED
      BY <2>4 DEF by
  <1> QED
    BY <1>1, BatchInvariant, PTL

(* What a batch recorded of a rider is what happened.                      *)
THEOREM RecordedOutcomesAreTrue == Spec => []OutcomesAreTrue
  <1>1. BatchInv => OutcomesAreTrue
    <2> SUFFICES ASSUME BatchInv, NEW x \in outcomes
                 PROVE  OutcomeTrue(x[1], x[2], x[3])
      BY DEF OutcomesAreTrue, OutcomeTrue
    <2>1. x \in Runs \X Signups \X Outcomes
      BY DEF BatchInv, BatchTypes
    <2>2. x[1] \in Runs /\ x[2] \in Signups /\ x[3] \in Outcomes /\ x = <<x[1], x[2], x[3]>>
      BY <2>1
    <2> QED
      BY <2>2 DEF BatchInv, SlotsInv
  <1> QED
    BY <1>1, BatchInvariant, PTL

(* A batch that ran to its end counted the rows it left, those of riders   *)
(* purged aside, and says "completed" only when none failed.               *)
THEOREM BatchesAddUp == Spec => []CompletedRunsAddUp
  <1>1. BatchInv => CompletedRunsAddUp
    <2> SUFFICES ASSUME BatchInv, NEW r \in Runs,
                        run[r].status \in {"completed", "completed_with_failures"}
                 PROVE  /\ run[r].status = "completed" <=>
                             run[r].counts["issue_failed"] = 0 /\ run[r].counts["send_failed"] = 0
                        /\ \A o \in Outcomes :
                              /\ Cardinality(Rows(r, o)) <= run[r].counts[o]
                              /\ run[r].counts[o] <= Cardinality(Rows(r, o)) + Cardinality(Gone)
      BY DEF CompletedRunsAddUp, Rows, Gone
    <2>1. TallyInv(r, run[r]) /\ run[r].at = "done"
      BY DEF BatchInv, TallyInv
    <2>2. \A o \in Outcomes : Due(run[r], o) = 0 /\ Cardinality(Rows(r, o)) \in Nat
      BY <2>1, RowsFinite DEF Due, BatchInv
    <2> QED
      BY <2>1, <2>2, GoneFinite DEF TallyInv
  <1> QED
    BY <1>1, BatchInvariant, PTL
=============================================================================
