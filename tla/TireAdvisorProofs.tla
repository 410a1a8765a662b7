------------------------- MODULE TireAdvisorProofs -------------------------
(***************************************************************************)
(* Theorems about TireAdvisor, for every input a rider can send and any    *)
(* number of presses.                                                      *)
(***************************************************************************)
EXTENDS TireAdvisor, SequenceTheorems, TLAPS

-----------------------------------------------------------------------------
(* The rules.                                                              *)

(* Rounding to a tenth gives a whole number of tenths, moves by half of    *)
(* one at most, either way, and keeps what is at most one PSI there.       *)
LEMMA Rounding ==
    ASSUME NEW a \in Int, NEW b \in Int
    PROVE  /\ RoundPsi(a, b) \in Int
           /\ RoundPsi(a, b) <= a - b + 5 /\ a - b - 5 <= RoundPsi(a, b)
           /\ a - b <= 100 => RoundPsi(a, b) <= 100
           /\ a - b >= 0 => RoundPsi(a, b) >= 0
           /\ a - b > 5 => RoundPsi(a, b) >= 10
           /\ 0 <= a - b /\ a - b < 5 => RoundPsi(a, b) = 0
  <1>1. CASE <<a, b>> \in HalvesUp
    <2>1. RoundPsi(a, b) = ((a - b + 5) \div 10) * 10
      BY <1>1 DEF RoundPsi
    <2> QED
      BY <2>1
  <1>2. CASE <<a, b>> \notin HalvesUp
    <2>1. RoundPsi(a, b) = ((a - b + 4) \div 10) * 10
      BY <1>2 DEF RoundPsi
    <2> QED
      BY <2>1
  <1> QED
    BY <1>1, <1>2

(* The cap is never above the default.                                     *)
LEMMA CapBounded ==
    ASSUME NEW input \in Input
    PROVE  Cap(input) \in 1 .. DefaultCap
  BY DEF Input, Cap, DefaultCap, Least, Absent

(* A target that is there has two ends, in order.                          *)
LEMMA TargetOrdered ==
    ASSUME NEW input \in Input, NEW tire \in Tires, Target(input, tire) # NoEnds
    PROVE  /\ Target(input, tire).min \in Nat /\ Target(input, tire).max \in Nat
           /\ Target(input, tire).min <= Target(input, tire).max
  <1>1. input[tire] \in Boxes
    BY DEF Input, Tires
  <1>2. CASE NumberValue(input[tire].point) # Absent
    BY <1>1, <1>2 DEF Target, NumberValue, Boxes, Entry, Absent, Text
  <1>3. CASE NumberValue(input[tire].point) = Absent
    BY <1>1, <1>3 DEF Target, NormalRange, NumberValue, Boxes, Entry, Absent, Text
  <1> QED
    BY <1>2, <1>3

(* The cap bounds what is left of a difference, rounding apart.            *)
LEMMA CappedBounds ==
    ASSUME NEW input \in Input, NEW a \in Int, NEW b \in Int, a - b >= 1
    PROVE  LET c == Capped(a, b, input) IN
           /\ c \in Int /\ c >= 0 /\ c <= 100
           /\ c <= a - b + 5 /\ c <= Cap(input) + 5
           /\ a - b < 5 => c = 0
           /\ a - b > 5 /\ Cap(input) > 5 => c >= 10
  <1> DEFINE cap == Cap(input)
  <1>1. cap \in 1 .. 100
    BY CapBounded DEF DefaultCap
  <1>2. Capped(a, b, input) = IF a - b <= cap THEN RoundPsi(a, b) ELSE RoundPsi(cap, 0)
    BY DEF Capped
  <1> HIDE DEF cap
  <1>3. CASE a - b <= cap
    <2>1. Capped(a, b, input) = RoundPsi(a, b)
      BY <1>2, <1>3
    <2>2. /\ RoundPsi(a, b) \in Int /\ RoundPsi(a, b) <= a - b + 5
          /\ a - b <= 100 => RoundPsi(a, b) <= 100
          /\ a - b >= 0 => RoundPsi(a, b) >= 0
          /\ a - b > 5 => RoundPsi(a, b) >= 10
          /\ 0 <= a - b /\ a - b < 5 => RoundPsi(a, b) = 0
      BY Rounding
    <2> QED
      BY <1>1, <1>3, <2>1, <2>2 DEF cap
  <1>4. CASE ~ (a - b <= cap)
    <2>1. Capped(a, b, input) = RoundPsi(cap, 0)
      BY <1>2, <1>4
    <2>2. /\ RoundPsi(cap, 0) \in Int /\ RoundPsi(cap, 0) >= 0 /\ RoundPsi(cap, 0) <= 100
          /\ RoundPsi(cap, 0) <= cap + 5
          /\ cap < 5 => RoundPsi(cap, 0) = 0
          /\ cap > 5 => RoundPsi(cap, 0) >= 10
      BY <1>1, Rounding
    <2> QED
      BY <1>1, <1>4, <2>1, <2>2 DEF cap
  <1> QED
    BY <1>3, <1>4

(* What is said of one tire of a valid and complete input.                 *)
LEMMA TireAdvice ==
    ASSUME NEW input \in Input, Valid(input), Missing(input) = {}, NEW tire \in Tires
    PROVE  LET hot == input[tire].hot  a == Adjustment(input, tire) IN
           /\ a.amount <= DefaultCap
           /\ a.amount <= Off(input, tire, hot) + 5
           /\ a.amount <= Cap(input) + 5
           /\ Off(input, tire, Applied(hot, a)) <= Off(input, tire, hot)
           /\ a.direction = "hold" <=> Off(input, tire, hot) = 0
           /\ Off(input, tire, hot) > 5 /\ Cap(input) > 5 => Applied(hot, a) # hot
  <1> DEFINE hot == input[tire].hot
             lo  == Target(input, tire).min
             hi  == Target(input, tire).max
             a   == Adjustment(input, tire)
  <1>1. Target(input, tire) # NoEnds /\ hot # Absent /\ hot # Text
    BY DEF Missing, Valid
  <1>2. hot \in Nat
    BY <1>1 DEF Input, Boxes, Entry, Tires
  <1>3. lo \in Nat /\ hi \in Nat /\ lo <= hi
    BY <1>1, TargetOrdered
  <1>4. Cap(input) \in 1 .. 100
    BY CapBounded DEF DefaultCap
  <1> HIDE DEF lo, hi
  <1>5. CASE hot < lo
    <2> DEFINE c == Capped(lo, hot, input)
    <2>1. a.direction = "increase" /\ a.amount = c
      BY <1>5, <1>2, <1>3 DEF Adjustment, lo, hi
    <2>2. Off(input, tire, hot) = lo - hot
      BY <1>5 DEF Off, lo, hi
    <2>3. /\ c \in Int /\ c >= 0 /\ c <= 100
          /\ c <= lo - hot + 5 /\ c <= Cap(input) + 5
          /\ lo - hot < 5 => c = 0
          /\ lo - hot > 5 /\ Cap(input) > 5 => c >= 10
      BY <1>2, <1>3, <1>5, CappedBounds
    <2> HIDE DEF c
    <2>4. Applied(hot, a) = hot + c
      BY <2>1 DEF Applied
    <2>5. Off(input, tire, hot + c) <= lo - hot
      BY <2>3, <1>2, <1>3, <1>5 DEF Off, lo, hi
    <2> QED
      BY <2>1, <2>2, <2>3, <2>4, <2>5, <1>2, <1>3, <1>4, <1>5 DEF DefaultCap
  <1>6. CASE hot > hi
    <2> DEFINE c == Capped(hot, hi, input)
    <2>1. a.direction = "decrease" /\ a.amount = c
      BY <1>6, <1>2, <1>3 DEF Adjustment, lo, hi
    <2>2. Off(input, tire, hot) = hot - hi
      BY <1>6, <1>2, <1>3 DEF Off, lo, hi
    <2>3. /\ c \in Int /\ c >= 0 /\ c <= 100
          /\ c <= hot - hi + 5 /\ c <= Cap(input) + 5
          /\ hot - hi < 5 => c = 0
          /\ hot - hi > 5 /\ Cap(input) > 5 => c >= 10
      BY <1>2, <1>3, <1>6, CappedBounds
    <2> HIDE DEF c
    <2>4. Applied(hot, a) = hot - c
      BY <2>1 DEF Applied
    <2>5. Off(input, tire, hot - c) <= hot - hi
      BY <2>3, <1>2, <1>3, <1>6 DEF Off, lo, hi
    <2> QED
      BY <2>1, <2>2, <2>3, <2>4, <2>5, <1>2, <1>3, <1>4, <1>6 DEF DefaultCap
  <1>7. CASE ~ (hot < lo) /\ ~ (hot > hi)
    <2>1. a = [direction |-> "hold", amount |-> 0]
      BY <1>7 DEF Adjustment, lo, hi
    <2>2. Off(input, tire, hot) = 0
      BY <1>7 DEF Off, lo, hi
    <2> QED
      BY <1>4, <2>1, <2>2 DEF Applied, DefaultCap
  <1> QED
    BY <1>5, <1>6, <1>7

(* The answer to an input is "ready" exactly when the input is valid,      *)
(* complete and no question; then it is the adjustments.                   *)
LEMMA AnswerReady ==
    ASSUME NEW input \in Input
    PROVE  IF Valid(input) /\ Missing(input) = {} /\ "question" \notin input.symptoms
           THEN /\ Answer(input).status = "ready"
                /\ Answer(input).adjustments = Adjustments(input)
           ELSE Answer(input).status # "ready"
  <1>1. CASE "question" \in input.symptoms
    BY <1>1 DEF Answer, Evaluated, Suggests, OutputValid, Refusal
  <1>2. CASE "question" \notin input.symptoms /\ Missing(input) # {}
    BY <1>2 DEF Answer, Evaluated, Suggests, OutputValid, Refusal
  <1>3. CASE "question" \notin input.symptoms /\ Missing(input) = {}
    <2>1. Evaluated(input).status = "ready" /\ Evaluated(input).adjustments = Adjustments(input)
      BY <1>3 DEF Evaluated, Suggests
    <2>2. ASSUME Valid(input) PROVE OutputValid(Evaluated(input))
      <3>1. ASSUME NEW tire \in Tires
            PROVE  Adjustments(input)[tire].amount <= DefaultCap
        BY <1>3, <2>2, TireAdvice DEF Adjustments
      <3> QED
        BY <2>1, <3>1 DEF OutputValid
    <2> QED
      BY <1>3, <2>1, <2>2 DEF Answer, Refusal
  <1> QED
    BY <1>1, <1>2, <1>3

-----------------------------------------------------------------------------
(* The page.                                                               *)

SentInputs == Inputs \cup Reruns
Runs == [at : {"sent", "done"}, input : SentInputs]

(* The result on the page is the answer to some press, and so is the last  *)
(* word of the status line; presses are only in flight side by side when   *)
(* rerun says so.                                                          *)
AdvisorInv ==
    /\ runs \in Seq(Runs)
    /\ lost \in Nat
    /\ advice.of \in 0 .. Len(runs)
    /\ advice.of = 0 => advice.result = Refusal
    /\ advice.of # 0 => advice.result = Answer(runs[advice.of].input)
    /\ status \in {"idle", "running", "received", "error"}
    /\ ~ rerun => InFlight \subseteq {Len(runs)}
    /\ AdviceOfLatestRun

LEMMA AdvisorInvInit == AdvisorInit => AdvisorInv
  BY DEF AdvisorInit, AdvisorInv, InFlight, AdviceOfLatestRun

LEMMA InvRunAdvisor ==
    ASSUME AdvisorInv, RunAdvisor
    PROVE  AdvisorInv'
  <1>1. PICK input \in SentInputs : runs' = Append(runs, [at |-> "sent", input |-> input])
    BY DEF RunAdvisor, SentInputs
  <1>2. runs \in Seq(Runs) /\ [at |-> "sent", input |-> input] \in Runs
    BY DEF AdvisorInv, Runs
  <1>3. /\ runs' \in Seq(Runs) /\ Len(runs') = Len(runs) + 1
        /\ \A k \in 1 .. Len(runs) : runs'[k] = runs[k]
    BY <1>1, <1>2, AppendProperties
  <1>4. /\ Len(runs) \in Nat
        /\ DOMAIN runs = 1 .. Len(runs) /\ DOMAIN runs' = 1 .. Len(runs')
    BY <1>2, <1>3, LenProperties
  <1>5. advice' = advice /\ lost' = lost /\ status' = "running"
    BY DEF RunAdvisor
  <1>6. advice'.of \in 0 .. Len(runs')
    BY <1>3, <1>4, <1>5 DEF AdvisorInv
  <1>7. advice'.of # 0 => advice'.result = Answer(runs'[advice'.of].input)
    BY <1>3, <1>4, <1>5 DEF AdvisorInv
  <1>8. ~ rerun' => InFlight' \subseteq {Len(runs')}
    <2>1. ASSUME ~ rerun', NEW k \in InFlight' PROVE k = Len(runs')
      <3>1. k \in 1 .. Len(runs') /\ runs'[k].at = "sent"
        BY <1>4 DEF InFlight
      <3>2. ASSUME k \in 1 .. Len(runs) PROVE FALSE
        <4>1. InFlight = {}
          BY <2>1 DEF RunAdvisor
        <4> QED
          BY <1>3, <1>4, <3>1, <3>2, <4>1 DEF InFlight
      <3> QED
        BY <1>3, <1>4, <3>1, <3>2
    <2> QED
      BY <2>1
  <1> QED
    BY <1>3, <1>5, <1>6, <1>7, <1>8 DEF AdvisorInv, AdviceOfLatestRun

(* A run that ends leaves the other runs as they were.                     *)
LEMMA RunEnds ==
    ASSUME AdvisorInv, NEW k \in DOMAIN runs,
           runs' = [runs EXCEPT ![k].at = "done"]
    PROVE  /\ runs' \in Seq(Runs) /\ Len(runs') = Len(runs)
           /\ Len(runs) \in Nat /\ k \in 1 .. Len(runs)
           /\ \A j \in 1 .. Len(runs) : runs'[j].input = runs[j].input
           /\ InFlight' \subseteq InFlight
  <1>1. runs \in Seq(Runs) /\ Len(runs) \in Nat /\ DOMAIN runs = 1 .. Len(runs)
    BY LenProperties DEF AdvisorInv
  <1>2. runs \in [1 .. Len(runs) -> Runs]
    BY <1>1, ElementOfSeq
  <1>3. runs' \in [1 .. Len(runs) -> Runs]
    BY <1>1, <1>2 DEF Runs
  <1>4. runs' \in Seq(Runs) /\ Len(runs') = Len(runs)
    BY <1>1, <1>3
  <1> QED
    BY <1>1, <1>2, <1>3, <1>4 DEF InFlight, Runs

LEMMA InvAdvisorReplies ==
    ASSUME AdvisorInv, NEW k \in DOMAIN runs, AdvisorReplies(k)
    PROVE  AdvisorInv'
  <1>1. runs' = [runs EXCEPT ![k].at = "done"] /\ runs[k].at = "sent" /\ k \in InFlight
    BY DEF AdvisorReplies, InFlight
  <1>2. /\ runs' \in Seq(Runs) /\ Len(runs') = Len(runs)
        /\ Len(runs) \in Nat /\ k \in 1 .. Len(runs)
        /\ runs'[k].input = runs[k].input
        /\ InFlight' \subseteq InFlight
    BY <1>1, RunEnds
  <1>3. /\ advice' = [of |-> k, result |-> Answer(runs[k].input)]
        /\ status' = IF Answer(runs[k].input) = Refusal THEN "error" ELSE "received"
        /\ rerun' = rerun /\ lost' = lost
    BY DEF AdvisorReplies
  <1>4. ~ rerun => k = Len(runs)
    BY <1>1 DEF AdvisorInv
  <1> QED
    BY <1>2, <1>3, <1>4 DEF AdvisorInv, AdviceOfLatestRun

LEMMA InvRunLost ==
    ASSUME AdvisorInv, NEW k \in DOMAIN runs, RunLost(k)
    PROVE  AdvisorInv'
  <1>1. runs' = [runs EXCEPT ![k].at = "done"]
    BY DEF RunLost
  <1>2. /\ runs' \in Seq(Runs) /\ Len(runs') = Len(runs) /\ Len(runs) \in Nat
        /\ \A j \in 1 .. Len(runs) : runs'[j].input = runs[j].input
        /\ InFlight' \subseteq InFlight
    BY <1>1, RunEnds
  <1>3. advice' = advice /\ status' = "error" /\ rerun' = rerun /\ lost' = lost + 1
    BY DEF RunLost
  <1>4. lost' \in Nat /\ lost' # 0
    BY <1>3 DEF AdvisorInv
  <1>5. advice'.of # 0 => advice'.result = Answer(runs'[advice'.of].input)
    BY <1>2, <1>3 DEF AdvisorInv
  <1> QED
    BY <1>2, <1>3, <1>4, <1>5 DEF AdvisorInv, AdviceOfLatestRun

LEMMA AdvisorInvStep == AdvisorInv /\ [AdvisorNext]_advisorVars => AdvisorInv'
  <1> SUFFICES ASSUME AdvisorInv, [AdvisorNext]_advisorVars PROVE AdvisorInv'
    OBVIOUS
  <1>1. CASE UNCHANGED advisorVars
    BY <1>1 DEF advisorVars, AdvisorInv, AdviceOfLatestRun, InFlight
  <1> QED
    BY <1>1, InvRunAdvisor, InvAdvisorReplies, InvRunLost DEF AdvisorNext

(* The inductive invariant of the page.                                    *)
THEOREM AdvisorInvariant == AdvisorSpec => []AdvisorInv
  BY AdvisorInvInit, AdvisorInvStep, PTL DEF AdvisorSpec

(* A result on the page is of the latest press, and a refused run takes    *)
(* the old suggestion away (renderAdvisorResult, renderErrorResult).       *)
THEOREM LatestAdvice == AdvisorSpec => []AdviceOfLatestRun
  <1>1. AdvisorInv => AdviceOfLatestRun
    BY DEF AdvisorInv
  <1> QED
    BY <1>1, AdvisorInvariant, PTL

LEMMA AdviceOfPayload ==
    ASSUME AdvisorInv, advice.of # 0
    PROVE  /\ runs[advice.of].input \in SentInputs /\ runs[advice.of].input \in Input
           /\ advice.result = Answer(runs[advice.of].input)
  <1>1. runs \in Seq(Runs) /\ advice.of \in 1 .. Len(runs)
    BY LenProperties DEF AdvisorInv
  <1>2. runs[advice.of] \in Runs
    BY <1>1, ElementOfSeq
  <1> QED
    BY <1>2, AdvisorAssumption DEF Runs, SentInputs, AdvisorInv

LEMMA BoundedFromInv == AdvisorInv => AdviceBounded
  <1> SUFFICES ASSUME AdvisorInv, advice.of # 0
               PROVE  LET input == runs[advice.of].input  result == advice.result IN
                      IF Valid(input) /\ Missing(input) = {} /\ "question" \notin input.symptoms
                      THEN /\ result.status = "ready"
                           /\ \A tire \in Tires :
                                 LET hot == input[tire].hot  a == result.adjustments[tire] IN
                                 /\ a.amount <= 100 /\ a.amount <= Off(input, tire, hot) + 5
                                 /\ a.amount <= Cap(input) + 5
                                 /\ Off(input, tire, Applied(hot, a)) <= Off(input, tire, hot)
                                 /\ a.direction = "hold" <=> Off(input, tire, hot) = 0
                                 /\ Off(input, tire, hot) > 5 /\ Cap(input) > 5
                                       => Applied(hot, a) # hot
                      ELSE result.status # "ready"
    BY DEF AdviceBounded
  <1> DEFINE input == runs[advice.of].input
  <1>1. input \in Input
    BY AdviceOfPayload
  <1>2. advice.result = Answer(input)
    BY AdviceOfPayload
  <1> HIDE DEF input
  <1>3. CASE Valid(input) /\ Missing(input) = {} /\ "question" \notin input.symptoms
    <2>1. \A tire \in Tires : advice.result.adjustments[tire] = Adjustment(input, tire)
      BY <1>1, <1>2, <1>3, AnswerReady DEF Adjustments
    <2> QED
      BY <1>1, <1>2, <1>3, <2>1, AnswerReady, TireAdvice DEF input, DefaultCap
  <1>4. CASE ~ (Valid(input) /\ Missing(input) = {} /\ "question" \notin input.symptoms)
    BY <1>1, <1>2, <1>4, AnswerReady DEF input
  <1> QED
    BY <1>3, <1>4

(* Whatever a rider enters, however often, and whichever way floating      *)
(* point rounds a tie, a suggestion is small, in the right direction,      *)
(* within the rider's own cap but for rounding to a tenth, and never makes *)
(* a tire worse (adjustmentFor, roundPsi).                                 *)
THEOREM SuggestionsBounded == AdvisorSpec => []AdviceBounded
  BY AdvisorInvariant, BoundedFromInv, PTL

-----------------------------------------------------------------------------
(* Confidence.                                                             *)

LEMMA RoundingThree ==
    ASSUME NEW a \in Int, NEW b \in Int
    PROVE  /\ a - b > 305 => RoundPsi(a, b) >= 310
           /\ a - b < 305 => RoundPsi(a, b) <= 300
           /\ a - b < -305 => RoundPsi(a, b) <= -310
           /\ a - b > -305 => RoundPsi(a, b) >= -300
  <1>1. CASE <<a, b>> \in HalvesUp
    <2>1. RoundPsi(a, b) = ((a - b + 5) \div 10) * 10
      BY <1>1 DEF RoundPsi
    <2> QED
      BY <2>1
  <1>2. CASE <<a, b>> \notin HalvesUp
    <2>1. RoundPsi(a, b) = ((a - b + 4) \div 10) * 10
      BY <1>2 DEF RoundPsi
    <2> QED
      BY <2>1
  <1> QED
    BY <1>1, <1>2

(* The warning of a tire far outside its target is given when it is more   *)
(* than 3.05 PSI off, and not when it is less.                             *)
LEMMA FarOff ==
    ASSUME NEW input \in Input, Valid(input), Missing(input) = {}, NEW tire \in Tires
    PROVE  LET off == Off(input, tire, input[tire].hot) IN
           /\ off < 305 => ~ (Distance(TargetDelta(input, tire)) > 300)
           /\ ~ (off <= 305) => Distance(TargetDelta(input, tire)) > 300
  <1> DEFINE hot == input[tire].hot
             lo  == Target(input, tire).min
             hi  == Target(input, tire).max
  <1>1. hot \in Nat
    BY DEF Missing, Valid, Input, Boxes, Entry, Tires
  <1>2. lo \in Nat /\ hi \in Nat /\ lo <= hi
    BY TargetOrdered DEF Missing
  <1>3. /\ TargetDelta(input, tire) = IF hot < lo THEN RoundPsi(hot, lo)
                                      ELSE IF hot > hi THEN RoundPsi(hot, hi) ELSE 0
        /\ Off(input, tire, hot) = IF hot < lo THEN lo - hot
                                   ELSE IF hot > hi THEN hot - hi ELSE 0
    BY DEF TargetDelta, Off
  <1> HIDE DEF lo, hi, hot
  <1>5. CASE hot < lo
    <2> DEFINE x == RoundPsi(hot, lo)
    <2>1. /\ x \in Int /\ x <= hot - lo + 5
          /\ hot - lo < -305 => x <= -310
          /\ hot - lo > -305 => x >= -300
      BY <1>1, <1>2, Rounding, RoundingThree
    <2>2. TargetDelta(input, tire) = x /\ Off(input, tire, hot) = lo - hot
      BY <1>3, <1>5
    <2> HIDE DEF x
    <2>3. x <= 4
      BY <1>1, <1>2, <1>5, <2>1
    <2> QED
      BY <1>1, <1>2, <1>5, <2>1, <2>2, <2>3 DEF Distance, hot
  <1>6. CASE hot > hi
    <2> DEFINE x == RoundPsi(hot, hi)
    <2>1. /\ x \in Int /\ (hot - hi >= 0 => x >= 0)
          /\ hot - hi > 305 => x >= 310
          /\ hot - hi < 305 => x <= 300
      BY <1>1, <1>2, Rounding, RoundingThree
    <2>2. TargetDelta(input, tire) = x /\ Off(input, tire, hot) = hot - hi
      BY <1>1, <1>2, <1>3, <1>6
    <2> HIDE DEF x
    <2> QED
      BY <1>1, <1>2, <1>6, <2>1, <2>2 DEF Distance, hot
  <1>7. CASE ~ (hot < lo) /\ ~ (hot > hi)
    BY <1>3, <1>7 DEF Distance, hot
  <1> QED
    BY <1>5, <1>6, <1>7

(* A suggestion to hold is of a tire that is not off, one to decrease of a *)
(* tire above its target.                                                  *)
LEMMA DirectionOf ==
    ASSUME NEW input \in Input, Valid(input), Missing(input) = {}, NEW tire \in Tires
    PROVE  LET d == Adjustments(input)[tire].direction IN
           /\ d = "hold" <=> Off(input, tire, input[tire].hot) = 0
           /\ d = "decrease" <=> input[tire].hot > Target(input, tire).max
  <1>1. input[tire].hot \in Nat
    BY DEF Missing, Valid, Input, Boxes, Entry, Tires
  <1>2. /\ Target(input, tire).min \in Nat /\ Target(input, tire).max \in Nat
        /\ Target(input, tire).min <= Target(input, tire).max
    BY TargetOrdered DEF Missing
  <1> QED
    BY <1>1, <1>2 DEF Adjustments, Adjustment, Off

(* The confidence of an answer that is ready.                              *)
LEMMA ConfidenceOf ==
    ASSUME NEW input \in Input, Answer(input).status = "ready"
    PROVE  LET known == input.tireKnown /\ input.trackKnown
               off(tire) == Off(input, tire, input[tire].hot) IN
           /\ Answer(input).confidence = "medium" =>
                 known /\ ~ AtOdds(input) /\ \A tire \in Tires : off(tire) <= 305
           /\ known /\ ~ AtOdds(input) /\ "vague" \notin input.symptoms
              /\ (\A tire \in Tires : off(tire) < 305)
                 => Answer(input).confidence = "medium"
  <1> DEFINE adjustments == Adjustments(input)
             conflicts == ConflictWarnings(input, adjustments)
             warnings == ContextWarnings(input) \cup conflicts \cup FarOutsideWarnings(input)
             off(tire) == Off(input, tire, input[tire].hot)
  <1>1. Valid(input) /\ Missing(input) = {} /\ "question" \notin input.symptoms
    BY AnswerReady
  <1>2. Answer(input).confidence = IF warnings = {} THEN "medium" ELSE "low"
    <2>1. Answer(input) = Evaluated(input)
      BY DEF Answer, Refusal
    <2>2. Evaluated(input) = Suggests("ready", adjustments, warnings,
                                      IF warnings = {} THEN "medium" ELSE "low")
      BY <1>1 DEF Evaluated
    <2> QED
      BY <2>1, <2>2 DEF Suggests
  <1>3. ContextWarnings(input) = {} <=> input.tireKnown /\ input.trackKnown
    BY DEF ContextWarnings
  <1>4. /\ FarOutsideWarnings(input) = {} => \A tire \in Tires : off(tire) <= 305
        /\ (\A tire \in Tires : off(tire) < 305) => FarOutsideWarnings(input) = {}
    BY <1>1, FarOff DEF FarOutsideWarnings
  <1>5. conflicts = {} <=>
          /\ "loose" \in input.symptoms =>
                 ~ \A tire \in Tires : adjustments[tire].direction = "hold"
          /\ "cold" \in input.symptoms =>
                 ~ \E tire \in Tires : adjustments[tire].direction = "decrease"
    BY DEF ConflictWarnings
  <1>6. \A tire \in Tires :
          /\ adjustments[tire].direction = "hold" <=> off(tire) = 0
          /\ adjustments[tire].direction = "decrease"
               <=> input[tire].hot > Target(input, tire).max
    BY <1>1, DirectionOf
  <1>7. conflicts = {} <=> ~ AtOdds(input)
    BY <1>5, <1>6 DEF AtOdds
  <1> HIDE DEF conflicts
  <1>8. warnings = {} <=> /\ ContextWarnings(input) = {} /\ conflicts = {}
                          /\ FarOutsideWarnings(input) = {}
    OBVIOUS
  <1> HIDE DEF warnings
  <1> QED
    BY <1>2, <1>3, <1>4, <1>7, <1>8

LEMMA ConfidenceFromInv == AdvisorInv => ConfidenceEarned
  <1> SUFFICES ASSUME AdvisorInv, advice.of # 0, advice.result.status = "ready"
               PROVE  LET input == runs[advice.of].input
                          known == input.tireKnown /\ input.trackKnown
                          off(tire) == Off(input, tire, input[tire].hot) IN
                      /\ advice.result.confidence = "medium" =>
                            known /\ ~ AtOdds(input) /\ \A tire \in Tires : off(tire) <= 305
                      /\ known /\ ~ AtOdds(input) /\ "vague" \notin input.symptoms
                         /\ (\A tire \in Tires : off(tire) < 305)
                            => advice.result.confidence = "medium"
    BY DEF ConfidenceEarned
  <1> DEFINE input == runs[advice.of].input
  <1>1. input \in Input /\ advice.result = Answer(input)
    BY AdviceOfPayload
  <1> HIDE DEF input
  <1> QED
    BY <1>1, ConfidenceOf DEF input

(* Medium confidence is claimed only when nothing the rules know of speaks *)
(* against it, and then it is claimed, whatever a rider enters; words that *)
(* one list of symptoms has and the other has not, and 3.05 PSI to the     *)
(* hundredth, are left to either answer (evaluateTirePressureAdvisor).     *)
THEOREM ConfidenceIsEarned == AdvisorSpec => []ConfidenceEarned
  BY AdvisorInvariant, ConfidenceFromInv, PTL
===========================================================================
