--------------------------- MODULE TireAdvisor ----------------------------
(***************************************************************************)
(* The tire pressure advisor: the rules that turn hot pressures and the    *)
(* rider's own targets into a bounded suggestion, the validation before    *)
(* and after them, and the page whose button may be pressed again before   *)
(* the first answer is there.                                              *)
(*                                                                         *)
(* Pressures are whole hundredths of a PSI.  What lies half-way between    *)
(* two tenths goes up or down as binary floating point has it, which is a  *)
(* constant here.  The texts of warnings and reasons, the echo of the      *)
(* observed conditions and the phrase lists are left out: of the rider's   *)
(* words the model keeps which of the lists find one of theirs among them. *)
(***************************************************************************)
EXTENDS Integers, Sequences

CONSTANTS
    HalvesUp,            \* <<a, b>> whose difference, half-way between two
                         \* tenths, is rounded up
    Inputs,              \* payloads of a first press
    Reruns,              \* payloads of a press that follows it
    MaxRuns,             \* presses, bound
    MaxLost              \* lost requests, bound

VARIABLES
    runs,                \* requests, numbered in the order of the presses
    advice,              \* the result on the page, and the payload it is of
    status,              \* the line beside the button
    rerun,          \* history: the latest run was pressed beside another
    lost

advisorVars == <<runs, advice, status, rerun, lost>>

Absent == -1             \* null, and what an empty box sends
Text   == -2             \* a box holding something that is no number
Tires  == {"front", "rear"}

Entry == Nat \cup {Absent, Text}
Boxes == [cold : Entry, hot : Entry, point : Entry, range : [min : Entry, max : Entry]]
Input == [front : Boxes, rear : Boxes,
          symptoms : SUBSET {"loose", "vague", "cold", "question"},
          tireKnown : BOOLEAN, trackKnown : BOOLEAN, cap : Nat \cup {Absent}]

ASSUME AdvisorAssumption ==
    /\ Inputs \subseteq Input /\ Reruns \subseteq Input
    /\ MaxRuns \in Nat /\ MaxLost \in Nat

-----------------------------------------------------------------------------
(* The rules.                                                              *)

Least(a, b)  == IF a <= b THEN a ELSE b
Distance(a)  == IF a < 0 THEN 0 - a ELSE a

(* a - b to a tenth (Math.round).                                          *)
RoundPsi(a, b) == ((a - b + (IF <<a, b>> \in HalvesUp THEN 5 ELSE 4)) \div 10) * 10

NumberValue(x) == IF x >= 0 THEN x ELSE Absent

NoEnds == [min |-> Absent, max |-> Absent]

(* normalizeRange: both ends, in order, or no range.                       *)
NormalRange(r) ==
    IF NumberValue(r.min) # Absent /\ NumberValue(r.max) # Absent /\ r.min <= r.max
    THEN r ELSE NoEnds

(* targetRangeFromInput: a numeric point wins; one that is no number is    *)
(* passed over without a word.                                             *)
Target(input, tire) ==
    LET t == input[tire] IN
    IF NumberValue(t.point) # Absent THEN [min |-> t.point, max |-> t.point]
    ELSE NormalRange(t.range)

(* validateTirePressureAdvisorInput                                        *)
Valid(input) ==
    \A tire \in Tires :
        LET t == input[tire] IN
        /\ t.cold # Text /\ t.hot # Text
        /\ t.range # NoEnds => NormalRange(t.range) # NoEnds

Missing(input) ==
    {tire \in Tires :
        \/ input[tire].cold = Absent \/ input[tire].hot = Absent
        \/ Target(input, tire) = NoEnds}

DefaultCap == 100

Cap(input) ==
    IF input.cap = Absent \/ input.cap = 0 THEN DefaultCap
    ELSE Least(input.cap, DefaultCap)

TargetDelta(input, tire) ==
    LET hot == input[tire].hot  target == Target(input, tire) IN
    IF hot < target.min THEN RoundPsi(hot, target.min)
    ELSE IF hot > target.max THEN RoundPsi(hot, target.max)
    ELSE 0

(* The smaller of a - b and the cap, rounded.                              *)
Capped(a, b, input) ==
    IF a - b <= Cap(input) THEN RoundPsi(a, b) ELSE RoundPsi(Cap(input), 0)

(* Slip: both bounds are taken for the near one.                           *)
AdjustmentToFarBound(input, tire) ==
    LET hot == input[tire].hot  target == Target(input, tire) IN
    CASE hot < target.min ->
            [direction |-> "increase", amount |-> Capped(target.max, hot, input)]
      [] hot > target.max ->
            [direction |-> "decrease", amount |-> Capped(hot, target.min, input)]
      [] OTHER -> [direction |-> "hold", amount |-> 0]

(* adjustmentFor: to the near bound of the target, by the cap at most.     *)
Adjustment(input, tire) ==
    LET hot == input[tire].hot  target == Target(input, tire) IN
    CASE hot < target.min ->
            [direction |-> "increase", amount |-> Capped(target.min, hot, input)]
      [] hot > target.max ->
            [direction |-> "decrease", amount |-> Capped(hot, target.max, input)]
      [] OTHER -> [direction |-> "hold", amount |-> 0]

Adjustments(input) == [tire \in Tires |-> Adjustment(input, tire)]

(* Slip: one tire inside its target is enough for a conflict.              *)
ConflictWarningsAnyHold(input, adjustments) ==
    {w \in input.symptoms :
        \/ w = "loose" /\ \E tire \in Tires : adjustments[tire].direction = "hold"
        \/ w = "cold" /\ \E tire \in Tires : adjustments[tire].direction = "decrease"}

(* "loose" stands for loose, greasy, slid(e), sliding and spin(ning),      *)
(* "vague" for chatter, instability, unstable and vague, "cold" for cold   *)
(* and no grip.  Each list is tried on the same words.                     *)
ConflictWarnings(input, adjustments) ==
    {w \in input.symptoms :
        \/ w = "loose" /\ \A tire \in Tires : adjustments[tire].direction = "hold"
        \/ w = "cold" /\ \E tire \in Tires : adjustments[tire].direction = "decrease"}

FarOutsideWarnings(input) ==
    IF \E tire \in Tires : Distance(TargetDelta(input, tire)) > 300 THEN {"far"} ELSE {}

ContextWarnings(input) ==
    (IF input.tireKnown THEN {} ELSE {"tire"})
    \cup (IF input.trackKnown THEN {} ELSE {"track"})

Suggests(status_, adjustments, warnings, confidence) ==
    [status |-> status_, adjustments |-> adjustments, warnings |-> warnings,
     confidence |-> confidence]

(* evaluateTirePressureAdvisor                                             *)
Evaluated(input) ==
    LET adjustments == Adjustments(input)
        warnings == ContextWarnings(input) \cup ConflictWarnings(input, adjustments)
                    \cup FarOutsideWarnings(input)
        incomplete == IF input.symptoms \cap {"loose", "vague"} # {} THEN {"incomplete"}
                      ELSE {}
    IN  CASE "question" \in input.symptoms ->
                Suggests("not_supported", <<>>, {"question"}, "low")
          [] "question" \notin input.symptoms /\ Missing(input) # {} ->
                Suggests("needs_more_info", <<>>, ContextWarnings(input) \cup incomplete,
                         "low")
          [] OTHER ->
                Suggests("ready", adjustments, warnings,
                         IF warnings = {} THEN "medium" ELSE "low")

(* validateTirePressureAdvisorOutput throws past one PSI.                  *)
OutputValid(output) ==
    output.status = "ready" =>
        \A tire \in Tires : output.adjustments[tire].amount <= DefaultCap

Refusal == [status |-> "error"]

(* POST /track-agent/tire-pressure-advisor                                 *)
Answer(input) ==
    IF Valid(input) /\ OutputValid(Evaluated(input)) THEN Evaluated(input) ELSE Refusal

-----------------------------------------------------------------------------
(* The page.                                                               *)

InFlight == {k \in DOMAIN runs : runs[k].at = "sent"}

AdvisorInit ==
    /\ runs = <<>> /\ advice = [of |-> 0, result |-> Refusal]
    /\ status = "idle" /\ rerun = FALSE /\ lost = 0

(* runAdvisor, which waits for no earlier run.                             *)
RunAdvisor ==
    /\ Len(runs) < MaxRuns
    /\ \E input \in IF runs = <<>> THEN Inputs ELSE Reruns :
          runs' = Append(runs, [at |-> "sent", input |-> input])
    /\ rerun' = (InFlight # {})
    /\ status' = "running"
    /\ UNCHANGED <<advice, lost>>

(* Slip: a refused run leaves the last result on the page.                 *)
AdvisorRepliesKeepingOld(k) ==
    LET result == Answer(runs[k].input) IN
    /\ runs[k].at = "sent"
    /\ runs' = [runs EXCEPT ![k].at = "done"]
    /\ advice' = IF result = Refusal THEN advice ELSE [of |-> k, result |-> result]
    /\ status' = IF result = Refusal THEN "error" ELSE "received"
    /\ UNCHANGED <<rerun, lost>>

(* renderAdvisorResult, or renderErrorResult, which clears the suggestion. *)
AdvisorReplies(k) ==
    LET result == Answer(runs[k].input) IN
    /\ runs[k].at = "sent"
    /\ runs' = [runs EXCEPT ![k].at = "done"]
    /\ advice' = [of |-> k, result |-> result]
    /\ status' = IF result = Refusal THEN "error" ELSE "received"
    /\ UNCHANGED <<rerun, lost>>

(* fetch rejects: only the status line says so.                            *)
RunLost(k) ==
    /\ lost < MaxLost
    /\ runs[k].at = "sent"
    /\ runs' = [runs EXCEPT ![k].at = "done"]
    /\ status' = "error"
    /\ lost' = lost + 1
    /\ UNCHANGED <<advice, rerun>>

AdvisorNext == RunAdvisor \/ \E k \in DOMAIN runs : AdvisorReplies(k) \/ RunLost(k)

AdvisorSpec == AdvisorInit /\ [][AdvisorNext]_advisorVars

-----------------------------------------------------------------------------
(* How far a hot pressure is from the target.                              *)
Off(input, tire, hot) ==
    LET target == Target(input, tire) IN
    IF hot < target.min THEN target.min - hot
    ELSE IF hot > target.max THEN hot - target.max ELSE 0

Applied(hot, adjustment) ==
    CASE adjustment.direction = "increase" -> hot + adjustment.amount
      [] adjustment.direction = "decrease" -> hot - adjustment.amount
      [] OTHER -> hot

(* "Suggest only small, bounded, reviewable changes": followed to the      *)
(* letter, a suggestion of the page never leaves a tire further from the   *)
(* rider's target than it was, never moves it by more than one PSI or, by  *)
(* more than rounding to a tenth, past the rider's own cap or the near end *)
(* of the target, says hold exactly inside the target, and moves a tire    *)
(* that is off by more than half a tenth, unless the rider's cap is not    *)
(* more than that; a valid and complete input is always answered           *)
(* (adjustmentFor, roundPsi, validateOrThrow).                             *)
AdviceBounded ==
    advice.of # 0 =>
        LET input == runs[advice.of].input  result == advice.result IN
        IF Valid(input) /\ Missing(input) = {} /\ "question" \notin input.symptoms
        THEN /\ result.status = "ready"
             /\ \A tire \in Tires :
                   LET hot == input[tire].hot  a == result.adjustments[tire] IN
                   /\ a.amount <= 100 /\ a.amount <= Off(input, tire, hot) + 5
                   /\ a.amount <= Cap(input) + 5
                   /\ Off(input, tire, Applied(hot, a)) <= Off(input, tire, hot)
                   /\ a.direction = "hold" <=> Off(input, tire, hot) = 0
                   /\ Off(input, tire, hot) > 5 /\ Cap(input) > 5 => Applied(hot, a) # hot
        ELSE result.status # "ready"

(* The rider's words are at odds with the suggestions.                     *)
AtOdds(input) ==
    \/ "loose" \in input.symptoms
       /\ \A tire \in Tires : Off(input, tire, input[tire].hot) = 0
    \/ "cold" \in input.symptoms
       /\ \E tire \in Tires : input[tire].hot > Target(input, tire).max

(* Medium confidence is claimed only when the tire and the track are       *)
(* known, no tire is more than three PSI off, rounded to a tenth, and a    *)
(* loose or a cold tire is not at odds with the suggestions; and it is     *)
(* claimed when all that is so and no tire is called vague or chattering   *)
(* (docs/track-agent-tire-pressure-advisor.md:146; of :151 see             *)
(* ConflictLowersConfidence below).                                        *)
ConfidenceEarned ==
    advice.of # 0 /\ advice.result.status = "ready" =>
        LET input == runs[advice.of].input
            known == input.tireKnown /\ input.trackKnown
            off(tire) == Off(input, tire, input[tire].hot) IN
        /\ advice.result.confidence = "medium" =>
              known /\ ~ AtOdds(input) /\ \A tire \in Tires : off(tire) <= 305
        /\ known /\ ~ AtOdds(input) /\ "vague" \notin input.symptoms
           /\ (\A tire \in Tires : off(tire) < 305)
              => advice.result.confidence = "medium"

(* The result on the page is of the latest press once the page says so,    *)
(* unless two runs were under way at once; a refused run takes the old     *)
(* suggestion away (renderErrorResult).                                    *)
AdviceOfLatestRun ==
    /\ status = "received" /\ ~ rerun => advice.of = Len(runs)
    /\ status = "error" /\ ~ rerun /\ lost = 0 => advice.result = Refusal

-----------------------------------------------------------------------------
(* What a document of the code says, and the code does not keep.           *)

(* "Conflicting handling symptom and pressure data lowers confidence"      *)
(* (docs/track-agent-tire-pressure-advisor.md:151): a tire that chatters   *)
(* or feels vague inside its target is no reason for medium confidence.    *)
ConflictLowersConfidence ==
    advice.of # 0 /\ advice.result.status = "ready" =>
        LET input == runs[advice.of].input IN
        advice.result.confidence = "medium" /\ "vague" \in input.symptoms =>
            \E tire \in Tires : Off(input, tire, input[tire].hot) > 0
===========================================================================
