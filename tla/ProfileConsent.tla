-------------------------- MODULE ProfileConsent --------------------------
(***************************************************************************)
(* What the rider profile promises, without requests, links or sessions:   *)
(* one stored answer set and an append-only consent history, each changed  *)
(* by indivisible operations.  A save decides at the instant it takes      *)
(* effect whether a fresh grant is due; RiderProfile, whose handler reads  *)
(* the consent state several database calls before it writes, is shown to  *)
(* implement this.                                                         *)
(***************************************************************************)
EXTENDS Naturals, Sequences

CONSTANT MaxVersion      \* highest consent/notice version ever deployed

VARIABLES
    answers,             \* notice version of the stored answers, 0 if none
    consent              \* the consent events, oldest first

abstractVars == <<answers, consent>>

Versions == 1 .. MaxVersion

Granted(v)   == [type |-> "granted", version |-> v]
Withdrawn(v) == [type |-> "withdrawn", version |-> v]

(* The latest event is a grant under the versions in force.                *)
ConsentCurrent(v) ==
    /\ consent # << >>
    /\ consent[Len(consent)] = Granted(v)

(* What a save under version v leaves in the consent history.              *)
ConsentAfterSave(v) ==
    IF ConsentCurrent(v) THEN consent ELSE Append(consent, Granted(v))

AbstractInit ==
    /\ answers = 0
    /\ consent = << >>

Save(v) ==
    /\ answers' = v
    /\ consent' = ConsentAfterSave(v)

Withdraw(v) ==
    /\ answers' = 0
    /\ consent' = Append(consent, Withdrawn(v))

Erase ==
    /\ answers # 0
    /\ answers' = 0
    /\ UNCHANGED consent

AbstractNext ==
    \/ \E v \in Versions : Save(v) \/ Withdraw(v)
    \/ Erase

AbstractSpec == AbstractInit /\ [][AbstractNext]_abstractVars
===========================================================================
