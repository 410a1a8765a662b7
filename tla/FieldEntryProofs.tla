-------------------------- MODULE FieldEntryProofs -------------------------
(***************************************************************************)
(* Proofs about FieldEntry, for any texts, any sessions saved before or    *)
(* elsewhere, any drag and any number of gestures.                         *)
(***************************************************************************)
EXTENDS FieldEntry, WellFoundedInduction, TLAPS

Stages == {"day", "pre", "post"}

FieldTypes ==
    /\ text \in [Fields -> Entries]
    /\ clicks \in Entries /\ unit \in Units \cup {Unset}
    /\ setup \in Setups
    /\ drag = NoDrag \/ drag \in [field : Fields, start : Int]
    /\ sessions \in Seq(Sessions)

FieldInv == FieldTypes /\ TodayIsMeasuredToday

-----------------------------------------------------------------------------
(* Numbers and texts.                                                      *)

LEMMA EntryFacts ==
    ASSUME NEW t \in Entries
    PROVE  /\ t.n \in Int /\ t.places \in 0 .. 2 /\ t.n % Ulp(t.places) = 0
           /\ t.kind \in {"number", "words", "unsupported", "blank"}
           /\ t.kind = "blank" <=> t = Blank
<1>1. CASE t = Blank
  <2>1. t.n = 0 /\ t.places = 0 /\ t.kind = "blank"
    BY <1>1 DEF Blank
  <2> QED BY <1>1, <2>1 DEF Ulp
<1>2. CASE t # Blank
  <2>1. /\ t \in [kind : {"number", "words", "unsupported"}, n : Int, places : 0 .. 2]
        /\ t.n % Ulp(t.places) = 0
    BY <1>2 DEF Entries
  <2> QED BY <1>2, <2>1
<1> QED BY <1>1, <1>2

LEMMA NumberFacts ==
    ASSUME NEW n \in Int, NEW places \in 0 .. 2, n % Ulp(places) = 0
    PROVE  /\ Number(n, places) \in Entries
           /\ Number(n, places).kind = "number"
           /\ Number(n, places).n = n /\ Number(n, places).places = places
           /\ Number(n, places) # Blank
<1>1. /\ Number(n, places).kind = "number"
      /\ Number(n, places).n = n /\ Number(n, places).places = places
      /\ Number(n, places) # Blank
  BY DEF Number, Blank
<1>2. Number(n, places) \in [kind : {"number", "words", "unsupported"}, n : Int, places : 0 .. 2]
  BY DEF Number
<1> HIDE DEF Number
<1> QED BY <1>1, <1>2 DEF Entries

LEMMA BlankIsEntry == Blank \in Entries /\ Blank.n = 0 /\ Blank.places = 0 /\ Blank.kind = "blank"
BY DEF Blank, Entries

LEMMA TenFacts ==
    ASSUME NEW n \in Int
    PROVE  n % 10 = 0 <=> \E k \in Int : n = 10 * k
<1>1. ASSUME n % 10 = 0 PROVE n = 10 * (n \div 10)
  BY <1>1
<1>2. n \div 10 \in Int
  OBVIOUS
<1> QED BY <1>1, <1>2

LEMMA TenthsFacts ==
    ASSUME NEW n \in Int
    PROVE  /\ Tenths(n) \in Int /\ Tenths(n) % 10 = 0
           /\ 1000 <= n /\ n <= 4500 => 1000 <= Tenths(n) /\ Tenths(n) <= 4500
<1> DEFINE k == (n + 5) \div 10
<1>1. k \in Int /\ 10 * k <= n + 5 /\ n + 5 < 10 * k + 10
  OBVIOUS
<1>2. Tenths(n) = k * 10
  BY DEF Tenths
<1> HIDE DEF k
<1>3. (k * 10) % 10 = 0
  BY <1>1
<1> QED BY <1>1, <1>2, <1>3

LEMMA SnapFacts ==
    ASSUME NEW n \in Int
    PROVE  /\ Snap(n) \in Int /\ Snap(n) % 10 = 0
           /\ PsiMin <= Snap(n) /\ Snap(n) <= PsiMax
<1>1. Tenths(n) \in Int
  BY TenthsFacts
<1> DEFINE c == Clamped(Tenths(n))
<1>2. c \in Int /\ 1000 <= c /\ c <= 4500
  BY <1>1 DEF Clamped, PsiMin, PsiMax
<1>3. Snap(n) = Tenths(c)
  BY DEF Snap
<1> HIDE DEF c
<1> QED BY <1>2, <1>3, TenthsFacts DEF PsiMin, PsiMax

(* The hundredths of a number written to some places are so to more.       *)
LEMMA MorePlaces ==
    ASSUME NEW n \in Int, NEW p \in 0 .. 2, NEW q \in 0 .. 2, p <= q, n % Ulp(p) = 0
    PROVE  n % Ulp(q) = 0
<1>1. n % 100 = 0 => n % 10 = 0
  OBVIOUS
<1>2. n % 1 = 0
  OBVIOUS
<1> QED BY <1>1, <1>2 DEF Ulp

(* toFixed, half away from zero, of a number at zero or above.             *)
Ulps == {1, 10, 100}

RoundUp(m, ulp) == ((2 * m + ulp) \div (2 * ulp)) * ulp

LEMMA RoundUpFacts ==
    ASSUME NEW m \in Nat, NEW ulp \in Ulps
    PROVE  /\ RoundUp(m, ulp) \in Int /\ RoundUp(m, ulp) % ulp = 0
           /\ (0 - RoundUp(m, ulp)) % ulp = 0
           /\ m % ulp = 0 => RoundUp(m, ulp) = m
<1>1. CASE ulp = 1
  <2>1. RoundUp(m, 1) = m
    BY DEF RoundUp
  <2> QED BY <1>1, <2>1
<1>2. CASE ulp = 10
  <2> DEFINE k == (2 * m + 10) \div 20
  <2>1. RoundUp(m, 10) = k * 10 /\ k \in Int
    BY DEF RoundUp
  <2>2. m % 10 = 0 => k * 10 = m
    OBVIOUS
  <2> HIDE DEF k
  <2>3. (k * 10) % 10 = 0 /\ (0 - k * 10) % 10 = 0
    BY <2>1
  <2> QED BY <1>2, <2>1, <2>2, <2>3
<1>3. CASE ulp = 100
  <2> DEFINE k == (2 * m + 100) \div 200
  <2>1. RoundUp(m, 100) = k * 100 /\ k \in Int
    BY DEF RoundUp
  <2>2. m % 100 = 0 => k * 100 = m
    OBVIOUS
  <2> HIDE DEF k
  <2>3. (k * 100) % 100 = 0 /\ (0 - k * 100) % 100 = 0
    BY <2>1
  <2> QED BY <1>3, <2>1, <2>2, <2>3
<1> QED BY <1>1, <1>2, <1>3 DEF Ulps

(* toFixed writes a number at the places asked for, and one that has no    *)
(* more places is left as it is.                                           *)
LEMMA ToFixedFacts ==
    ASSUME NEW n \in Int, NEW places \in 0 .. 2
    PROVE  /\ ToFixed(n, places) \in Int /\ ToFixed(n, places) % Ulp(places) = 0
           /\ n % Ulp(places) = 0 => ToFixed(n, places) = n
<1> DEFINE ulp == Ulp(places)
<1>1. ulp \in Ulps
  BY DEF Ulp, Ulps
<1>2. ToFixed(n, places) = IF n < 0 THEN 0 - RoundUp(0 - n, ulp) ELSE RoundUp(n, ulp)
  BY DEF ToFixed, RoundUp
<1> HIDE DEF ulp
<1>3. n % ulp = 0 => (0 - n) % ulp = 0
  <2>1. n % 1 = 0 => (0 - n) % 1 = 0
    OBVIOUS
  <2>2. n % 10 = 0 => (0 - n) % 10 = 0
    OBVIOUS
  <2>3. n % 100 = 0 => (0 - n) % 100 = 0
    OBVIOUS
  <2> QED BY <1>1, <2>1, <2>2, <2>3 DEF Ulps
<1>4. CASE n < 0
  <2>1. PICK m \in Nat : m = 0 - n
    BY <1>4
  <2> DEFINE r == RoundUp(m, ulp)
  <2>2. r \in Int /\ (0 - r) % ulp = 0 /\ (m % ulp = 0 => r = m)
    BY <1>1, RoundUpFacts, Zenon
  <2>3. ToFixed(n, places) = 0 - r
    BY <1>2, <1>4, <2>1
  <2> HIDE DEF r
  <2> QED BY <1>3, <2>1, <2>2, <2>3 DEF ulp
<1>5. CASE ~ (n < 0)
  <2>1. n \in Nat
    BY <1>5
  <2> DEFINE r == RoundUp(n, ulp)
  <2>2. r \in Int /\ r % ulp = 0 /\ (n % ulp = 0 => r = n)
    BY <1>1, <2>1, RoundUpFacts, Zenon
  <2>3. ToFixed(n, places) = r
    BY <1>2, <1>5
  <2> HIDE DEF r
  <2> QED BY <2>2, <2>3 DEF ulp
<1> QED BY <1>4, <1>5

-----------------------------------------------------------------------------
(* What the buttons write.                                                 *)

(* A tenth more or less, at a tenth's precision or the number's own.       *)
LEMMA TenthStepFacts ==
    ASSUME NEW t \in Entries, NEW dir \in {-1, 1}, NEW next \in StepValue(t, dir * Tenth, FALSE)
    PROVE  /\ t.kind = "number" /\ next.kind = "number" /\ next \in Entries
           /\ next.n = t.n + dir * Tenth /\ next.places >= t.places
           /\ next.n < 0 => dir = 1
<1>1. /\ t.n \in Int /\ t.places \in 0 .. 2 /\ t.n % Ulp(t.places) = 0
  BY EntryFacts
<1> DEFINE by == dir * Tenth
           n  == t.n + by
           p  == IF t.places > 1 THEN t.places ELSE 1
<1>2. by \in {-10, 10} /\ by % 100 # 0
  BY DEF Tenth
<1>3. /\ t.kind = "number" /\ ~ (by < 0 /\ n < 0)
      /\ next = Number(n, p)
  BY <1>2 DEF StepValue
<1>4. n \in Int /\ p \in 0 .. 2 /\ p >= t.places
  BY <1>1, <1>2
<1>5. n % Ulp(p) = 0
  <2>1. t.n % Ulp(p) = 0
    BY <1>1, <1>4, MorePlaces
  <2>2. CASE p = 1
    <3>1. t.n % 10 = 0
      BY <2>1, <2>2 DEF Ulp
    <3>2. (t.n + 10) % 10 = 0 /\ (t.n - 10) % 10 = 0
      BY <1>1, <3>1
    <3>3. n = t.n + 10 \/ n = t.n - 10
      BY <1>1, <1>2
    <3> QED BY <2>2, <3>2, <3>3 DEF Ulp
  <2>3. CASE p = 2
    <3>1. n % 1 = 0
      BY <1>4
    <3> QED BY <2>3, <3>1 DEF Ulp
  <2>4. p = 1 \/ p = 2
    BY <1>1
  <2> QED BY <2>2, <2>3, <2>4
<1>6. /\ next \in Entries /\ next.kind = "number"
      /\ next.n = n /\ next.places = p
  <2> HIDE DEF n, p
  <2> QED BY <1>3, <1>4, <1>5, NumberFacts
<1>7. n < 0 => dir = 1
  BY <1>1, <1>3 DEF Tenth
<1> HIDE DEF p
<1> QED BY <1>3, <1>4, <1>6, <1>7

LEMMA RulerStepFacts ==
    ASSUME NEW t \in Entries, NEW dir \in {-1, 1}, NEW ref \in Int, NEW next \in RulerStep(t, dir, ref)
    PROVE  /\ next \in Entries /\ next.kind = "number"
           /\ State(t) \in {"blank", "in-range", "typed-outside"}
           /\ State(t) = "in-range" => InRange(next.n)
           /\ t # Blank => /\ next.n = t.n + dir * Tenth /\ next.places >= t.places
                           /\ next.n < 0 => dir = 1
<1>1. CASE State(t) = "blank"
  <2> DEFINE n == Tenths(ref + dir * Tenth)
  <2>1. next = Number(n, 1)
    BY <1>1 DEF RulerStep
  <2>2. ref + dir * Tenth \in Int
    BY DEF Tenth
  <2>3. n \in Int /\ n % 10 = 0
    BY <2>2, TenthsFacts
  <2> HIDE DEF n
  <2>4. n % Ulp(1) = 0
    BY <2>3 DEF Ulp
  <2>5. next \in Entries /\ next.kind = "number"
    BY <2>1, <2>3, <2>4, NumberFacts
  <2>6. t = Blank
    BY <1>1, EntryFacts DEF State
  <2> QED BY <1>1, <2>5, <2>6
<1>2. CASE State(t) = "in-range"
  <2>1. next \in StepValue(t, dir * Tenth, FALSE) /\ InRange(next.n)
    BY <1>2 DEF RulerStep
  <2> QED BY <1>2, <2>1, TenthStepFacts
<1>3. CASE State(t) = "typed-outside"
  <2>1. next \in StepValue(t, dir * Tenth, FALSE)
    BY <1>3 DEF RulerStep
  <2> QED BY <1>3, <2>1, TenthStepFacts
<1>4. State(t) \in {"blank", "in-range", "typed-outside"}
  BY DEF RulerStep
<1> QED BY <1>1, <1>2, <1>3, <1>4

(* From a number in the range, the other button leads back.                *)
LEMMA RulerStepsBack ==
    ASSUME NEW t \in Entries, State(t) = "in-range", NEW dir \in {-1, 1},
           NEW next \in Entries, next.kind = "number", InRange(next.n),
           next.n = t.n + dir * Tenth
    PROVE  \E back \in RulerStep(next, 0 - dir, 0) : back.n = t.n
<1>1. t.n \in Int /\ next.n \in Int /\ next.places \in 0 .. 2
  BY EntryFacts
<1>2. InRange(t.n) /\ State(next) = "in-range"
  BY EntryFacts DEF State
<1> DEFINE by == (0 - dir) * Tenth
           p  == IF next.places > 1 THEN next.places ELSE 1
           back == Number(t.n, p)
<1>3. by \in {-10, 10} /\ by % 100 # 0 /\ next.n + by = t.n
  BY <1>1 DEF Tenth
<1>4. ~ (t.n < 0)
  BY <1>1, <1>2 DEF InRange, PsiMin
<1>5. StepValue(next, by, FALSE) = {back}
  BY <1>3, <1>4 DEF StepValue
<1>6. back.n = t.n
  BY DEF Number
<1>7. back \in RulerStep(next, 0 - dir, 0)
  <2>1. RulerStep(next, 0 - dir, 0) = {b \in StepValue(next, by, FALSE) : InRange(b.n)}
    BY <1>2 DEF RulerStep
  <2> HIDE DEF back, by
  <2> QED BY <1>2, <1>5, <1>6, <2>1
<1> QED BY <1>6, <1>7

(* A press of an adjuster's button: dead, or one step at the unit's        *)
(* precision within its limit.                                             *)
LEMMA AdjusterStepFacts ==
    ASSUME NEW t \in Entries, NEW dir \in {-1, 1}, NEW u \in Units, NEW next \in AdjusterStep(t, dir, u)
    PROVE  /\ next \in Entries /\ next.kind = "number"
           /\ 0 - UnitLimit(u) <= next.n /\ next.n <= UnitLimit(u)
           /\ next.places = UnitPlaces(u)
           /\ t.places <= UnitPlaces(u) => next.n = t.n + dir * UnitStep(u)
<1> DEFINE p  == UnitPlaces(u)
           from == IF t = Blank THEN Number(0, 0) ELSE t
           m  == ToFixed(from.n, p)
           at == Number(m, p)
           by == dir * UnitStep(u)
           n  == m + by
<1>1. t.n \in Int /\ t.places \in 0 .. 2 /\ t.n % Ulp(t.places) = 0
  BY EntryFacts
<1>2. from.n = t.n
  BY DEF Number, Blank
<1>3. p \in {0, 1} /\ p \in 0 .. 2
  BY DEF UnitPlaces, Units
<1>4. /\ m \in Int /\ m % Ulp(p) = 0
      /\ t.places <= p => m = t.n
  <2>1. t.places <= p => t.n % Ulp(p) = 0
    <3> HIDE DEF p
    <3> QED BY <1>1, <1>3, MorePlaces
  <2>2. m = ToFixed(t.n, p)
    BY <1>2
  <2> HIDE DEF p, m
  <2> QED BY <1>1, <1>3, <2>1, <2>2, ToFixedFacts
<1>5. /\ at.kind = "number" /\ at.n = m /\ at.places = p
  BY DEF Number
<1>6. /\ next \in StepValue(at, by, TRUE)
      /\ 0 - UnitLimit(u) <= next.n /\ next.n <= UnitLimit(u)
  BY DEF AdjusterStep
<1>7. next = Number(n, p)
  <2>1. IF by % 100 = 0 THEN p >= 0 ELSE p = 1
    BY DEF UnitStep, UnitPlaces, Units
  <2>2. next = Number(at.n + by, IF at.places > (IF by % 100 = 0 THEN 0 ELSE 1)
                                 THEN at.places ELSE IF by % 100 = 0 THEN 0 ELSE 1)
    BY <1>6 DEF StepValue
  <2> HIDE DEF at, by, p, m
  <2>3. CASE by % 100 = 0
    BY <1>3, <1>5, <2>2, <2>3
  <2>4. CASE by % 100 # 0
    BY <1>3, <1>5, <2>1, <2>2, <2>4
  <2> QED BY <2>3, <2>4
<1>8. n \in Int /\ n % Ulp(p) = 0
  <2>1. by \in {-100, 100, -50, 50} /\ (p = 0 => by \in {-100, 100})
    BY DEF UnitStep, UnitPlaces, Units
  <2> HIDE DEF by, p, m
  <2>2. CASE p = 0
    <3>1. m % 100 = 0
      BY <1>4, <2>2 DEF Ulp
    <3>2. (m + 100) % 100 = 0 /\ (m + (-100)) % 100 = 0
      BY <1>4, <3>1
    <3> QED BY <1>4, <2>1, <2>2, <3>2 DEF Ulp
  <2>3. CASE p = 1
    <3>1. m % 10 = 0
      BY <1>4, <2>3 DEF Ulp
    <3>2. /\ (m + 100) % 10 = 0 /\ (m + (-100)) % 10 = 0
          /\ (m + 50) % 10 = 0 /\ (m + (-50)) % 10 = 0
      BY <1>4, <3>1
    <3> QED BY <1>4, <2>1, <2>3, <3>2 DEF Ulp
  <2> QED BY <1>3, <2>2, <2>3
<1>9. next \in Entries /\ next.kind = "number" /\ next.n = n /\ next.places = p
  <2> HIDE DEF n, p
  <2> QED BY <1>3, <1>7, <1>8, NumberFacts
<1> HIDE DEF m, at
<1> QED BY <1>4, <1>6, <1>9

(* Within the limit, the other button leads back.                          *)
LEMMA AdjusterStepsBack ==
    ASSUME NEW t \in Entries, NEW dir \in {-1, 1}, NEW u \in Units, NEW next \in Entries,
           next.kind = "number", next.places = UnitPlaces(u),
           next.n = t.n + dir * UnitStep(u), t.n \in 0 - UnitLimit(u) .. UnitLimit(u)
    PROVE  \E back \in AdjusterStep(next, 0 - dir, u) : back.n = t.n
<1> DEFINE p  == UnitPlaces(u)
           at == Number(ToFixed(next.n, p), p)
           by == (0 - dir) * UnitStep(u)
           step == IF by % 100 = 0 THEN 0 ELSE 1
           back == Number(t.n, IF p > step THEN p ELSE step)
<1>1. next.n \in Int /\ next.n % Ulp(p) = 0 /\ next # Blank /\ t.n \in Int
  BY EntryFacts
<1>2. p \in 0 .. 2
  BY DEF UnitPlaces, Units
<1>3. ToFixed(next.n, p) = next.n
  <2> HIDE DEF p
  <2> QED BY <1>1, <1>2, ToFixedFacts
<1>4. at.kind = "number" /\ at.n = next.n /\ at.places = p
  BY <1>3 DEF Number
<1>5. at.n + by = t.n
  BY <1>1, <1>4 DEF UnitStep, Units
<1>6. StepValue(at, by, TRUE) = {back}
  <2> HIDE DEF at, by, p
  <2> QED BY <1>4, <1>5 DEF StepValue
<1>7. back.n = t.n
  BY DEF Number
<1>8. AdjusterStep(next, 0 - dir, u) =
        {b \in StepValue(at, by, TRUE) : 0 - UnitLimit(u) <= b.n /\ b.n <= UnitLimit(u)}
  BY <1>1 DEF AdjusterStep, Readable
<1>9. 0 - UnitLimit(u) <= t.n /\ t.n <= UnitLimit(u)
  BY <1>1 DEF UnitLimit
<1>10. back \in AdjusterStep(next, 0 - dir, u)
  <2> HIDE DEF back, at, by
  <2> QED BY <1>6, <1>7, <1>8, <1>9
<1> QED BY <1>7, <1>10

LEMMA RereadFacts ==
    ASSUME NEW t \in Entries, NEW u \in Units
    PROVE  Reread(t, u) \in Entries
<1> DEFINE p == UnitPlaces(u)
           m == ToFixed(t.n, p)
<1>1. t.n \in Int /\ p \in 0 .. 2
  BY EntryFacts DEF UnitPlaces, Units
<1>2. Reread(t, u) = IF Readable(t) THEN Number(m, p) ELSE t
  BY DEF Reread
<1>3. m \in Int /\ m % Ulp(p) = 0
  <2> HIDE DEF p
  <2> QED BY <1>1, ToFixedFacts
<1> HIDE DEF m, p
<1> QED BY <1>1, <1>2, <1>3, NumberFacts

-----------------------------------------------------------------------------
(* References.                                                             *)

(* Of the places of a sequence, some set of them has a last one.           *)
LEMMA LastFacts ==
    ASSUME NEW N \in Nat, NEW S \in SUBSET (1 .. N), S # {}
    PROVE  Last(S) \in S
<1> DEFINE less == OpToRel(<, Nat)
           T == {N - i : i \in S}
<1>1. IsWellFoundedOn(less, Nat)
  BY NatLessThanWellFounded, Zenon
<1>2. \A k, m \in Nat : k < m => <<k, m>> \in less
  BY DEF OpToRel
<1>3. T \in SUBSET Nat /\ T # {}
  <2>1. ASSUME NEW i \in S PROVE N - i \in Nat
    OBVIOUS
  <2> QED BY <2>1
<1> HIDE DEF less, T
<1>4. PICK m \in T : \A k \in T : <<k, m>> \notin less
  BY <1>1, <1>3, WFMin
<1>5. ASSUME NEW k \in T PROVE m <= k
  <2>1. k \in Nat /\ m \in Nat
    BY <1>3
  <2>2. ~ (k < m)
    BY <1>2, <1>4, <2>1, Zenon
  <2> QED BY <2>1, <2>2
<1>6. PICK i \in S : m = N - i
  BY <1>4 DEF T
<1>7. \A j \in S : j <= i
  <2> TAKE j \in S
  <2>1. N - j \in T
    BY DEF T
  <2>2. N - i <= N - j
    BY <1>5, <1>6, <2>1
  <2> QED BY <2>2
<1> QED BY <1>7 DEF Last

LEMMA SessionFacts ==
    ASSUME NEW s \in Sessions
    PROVE  /\ s.setup \in Setups /\ s.text \in [Fields -> Entries]
           /\ s.clicks \in Entries /\ s.unit \in Units \cup {Unset}
BY DEF Sessions

LEMMA SetupFacts ==
    ASSUME NEW s \in Setups
    PROVE  s.bike \in Bikes \cup {Unset} /\ s.tires \in Tires \cup {Unset}
BY DEF Setups

LEMMA ReferenceFacts ==
    ASSUME NEW saved \in Seq(Sessions), NEW now, NEW pressures \in [Fields -> Entries], NEW f \in Fields,
           NEW ref \in Reference(saved, now, pressures, f)
    PROVE  ref \in Entries /\ ref.kind = "number" /\ ref # Blank
<1> DEFINE matching == Matching(saved, now)
           historic == IF matching = {} THEN Blank ELSE saved[Last(matching)].text[f]
           source == IF f = "post" /\ ~ Readable(historic) THEN pressures["pre"] ELSE historic
<1>1. historic \in Entries
  <2>1. CASE matching = {}
    BY <2>1, BlankIsEntry
  <2>2. CASE matching # {}
    <3>1. matching \in SUBSET (1 .. Len(saved)) /\ Len(saved) \in Nat
      BY DEF Matching
    <3> HIDE DEF matching
    <3>2. Last(matching) \in 1 .. Len(saved)
      BY <2>2, <3>1, LastFacts
    <3>3. saved[Last(matching)] \in Sessions
      BY <3>2
    <3>4. saved[Last(matching)].text[f] \in Entries
      BY <3>3, SessionFacts
    <3> QED BY <2>2, <3>4
  <2> HIDE DEF matching
  <2> QED BY <2>1, <2>2
<1>2. source \in Entries
  <2> HIDE DEF historic
  <2> QED BY <1>1 DEF Fields
<1>3. ref = Number(ToFixed(source.n, 1), 1)
  BY DEF Reference
<1> HIDE DEF source
<1>4. PICK n \in Int : n = source.n
  BY <1>2, EntryFacts
<1> DEFINE m == ToFixed(n, 1)
<1>5. 1 \in 0 .. 2
  OBVIOUS
<1>6. m \in Int /\ m % Ulp(1) = 0
  BY <1>5, ToFixedFacts, Zenon
<1>7. ref = Number(m, 1)
  BY <1>3, <1>4
<1> HIDE DEF m
<1> QED BY <1>5, <1>6, <1>7, NumberFacts

LEMMA PadStartFacts ==
    ASSUME NEW refs, \A r \in refs : r \in Entries
    PROVE  PadStart(refs) \in Int
<1>1. CASE refs = {}
  BY <1>1 DEF PadStart, PadDefault
<1>2. CASE refs # {}
  <2>1. (CHOOSE r \in refs : TRUE) \in refs
    BY <1>2
  <2> QED BY <1>2, <2>1, EntryFacts DEF PadStart
<1> QED BY <1>1, <1>2

LEMMA RefsFacts ==
    ASSUME FieldTypes, NEW f \in Fields
    PROVE  /\ \A ref \in Refs(f) : ref \in Entries /\ ref.kind = "number" /\ ref # Blank
           /\ PadStart(Refs(f)) \in Int
<1>1. \A ref \in Refs(f) : ref \in Entries /\ ref.kind = "number" /\ ref # Blank
  BY ReferenceFacts DEF Refs, FieldTypes
<1> QED BY <1>1, PadStartFacts

-----------------------------------------------------------------------------
(* The steps keep the invariant.                                           *)

Own(txt, set) == \A f \in Fields : txt[f] # Blank => f \in set

Offers ==
    ~ overtaken =>
        \A f \in Fields : offer[f] # {} => text[f] = Blank /\ offer[f] = Refs(f)

LEMMA TodayParts == TodayIsMeasuredToday <=> Own(text, touched) /\ Offers
BY DEF TodayIsMeasuredToday, Own, Offers

LEMMA TodayPartsNext == TodayIsMeasuredToday' <=> Own(text', touched') /\ Offers'
BY DEF TodayIsMeasuredToday, Own, Offers

(* A rendering leaves every button reading what it would write.            *)
LEMMA RenderedOffers ==
    ASSUME Rendered PROVE Offers'
<1> SUFFICES ASSUME NEW f \in Fields, offer'[f] # {}
             PROVE  text'[f] = Blank /\ offer'[f] = Refs(f)'
  BY DEF Offers
<1>1. offer'[f] = IF (f = "pre" /\ ~ preEditable') \/ text'[f] # Blank THEN {}
                  ELSE Reference(sessions', setup', text', f)
  BY DEF Rendered
<1>2. Refs(f)' = Reference(sessions', setup', text', f)
  BY DEF Refs
<1> QED BY <1>1, <1>2

LEMMA SetPressureKeeps ==
    ASSUME FieldInv, NEW f \in Fields, NEW next \in Entries, SetPressure(f, next), UNCHANGED drag
    PROVE  /\ FieldInv'
           /\ text'[f] = next /\ \A g \in Fields : g # f => text'[g] = text[g]
<1>1. /\ text' = [text EXCEPT ![f] = next] /\ touched' = touched \cup {f}
      /\ UNCHANGED <<clicks, unit, setup, drag, sessions>>
      /\ Rendered
  BY DEF SetPressure
<1>2. text \in [Fields -> Entries] /\ Own(text, touched)
  BY TodayParts DEF FieldInv, FieldTypes
<1>3. /\ text' \in [Fields -> Entries] /\ text'[f] = next
      /\ \A g \in Fields : g # f => text'[g] = text[g]
  BY <1>1, <1>2
<1>4. FieldTypes'
  BY <1>1, <1>3 DEF FieldInv, FieldTypes
<1>5. Own(text', touched')
  BY <1>1, <1>2, <1>3 DEF Own
<1> QED BY <1>1, <1>3, <1>4, <1>5, RenderedOffers, TodayPartsNext DEF FieldInv

LEMMA TypeKeeps ==
    ASSUME FieldInv, NEW f \in Fields, NEW t \in Typed, Type(f, t)
    PROVE  FieldInv'
<1>1. SetPressure(f, t) /\ UNCHANGED drag
  BY DEF Type
<1>2. t \in Entries
  BY FieldAssumption
<1> QED BY <1>1, <1>2, SetPressureKeeps

(* A button writes what the ruler steps to.                                *)
LEMMA StepWrites ==
    ASSUME FieldInv, NEW f \in Fields, NEW dir \in {-1, 1}, Step(f, dir)
    PROVE  /\ FieldInv'
           /\ \A g \in Fields : g # f => text'[g] = text[g]
           /\ ~ Locked(f)
           /\ \E ref \in Int : text'[f] \in RulerStep(text[f], dir, ref)
<1>1. /\ ~ Locked(f) /\ UNCHANGED drag
      /\ \E next \in RulerStep(text[f], dir, PadStart(Refs(f))) : SetPressure(f, next)
  BY DEF Step
<1>2. PICK ref \in Int : ref = PadStart(Refs(f))
  BY RefsFacts DEF FieldInv
<1>3. PICK next \in RulerStep(text[f], dir, ref) : SetPressure(f, next)
  BY <1>1, <1>2
<1>4. PICK t \in Entries : t = text[f]
  BY DEF FieldInv, FieldTypes
<1>5. next \in RulerStep(t, dir, ref)
  BY <1>3, <1>4
<1>6. next \in Entries
  BY <1>5, RulerStepFacts
<1>7. /\ FieldInv' /\ text'[f] = next
      /\ \A g \in Fields : g # f => text'[g] = text[g]
  BY <1>1, <1>3, <1>6, SetPressureKeeps
<1> QED BY <1>1, <1>3, <1>7

(* A key or a drag writes a tenth in the range.                            *)
Snapped(t) == \E n \in Int : n % 10 = 0 /\ InRange(n) /\ t = Number(n, 1)

LEMMA SnappedFacts ==
    ASSUME NEW t, Snapped(t)
    PROVE  t \in Entries /\ t.kind = "number" /\ InRange(t.n) /\ t.n \in Int
<1>1. PICK n \in Int : n % 10 = 0 /\ InRange(n) /\ t = Number(n, 1)
  BY DEF Snapped
<1>2. n % Ulp(1) = 0
  BY <1>1 DEF Ulp
<1> QED BY <1>1, <1>2, NumberFacts

LEMMA SnapIsSnapped ==
    ASSUME NEW n \in Int PROVE Snapped(Number(Snap(n), 1))
BY SnapFacts DEF Snapped, InRange

LEMMA KeyWrites ==
    ASSUME FieldInv, NEW f \in Fields, NEW by \in {-100, -10, 10, 100}, Key(f, by)
    PROVE  /\ FieldInv'
           /\ \A g \in Fields : g # f => text'[g] = text[g]
           /\ ~ Locked(f) /\ Draggable(text[f]) /\ Snapped(text'[f])
<1> DEFINE from == IF text[f] = Blank THEN PadStart(Refs(f)) ELSE text[f].n
           next == Number(Snap(from + by), 1)
<1>1. ~ Locked(f) /\ UNCHANGED drag /\ Draggable(text[f]) /\ SetPressure(f, next)
  BY DEF Key
<1>2. from \in Int
  BY RefsFacts, EntryFacts DEF FieldInv, FieldTypes
<1>3. from + by \in Int
  BY <1>2
<1>4. Snapped(next)
  <2> HIDE DEF from
  <2> QED BY <1>3, SnapIsSnapped
<1> HIDE DEF next
<1>5. next \in Entries
  BY <1>4, SnappedFacts
<1> QED BY <1>1, <1>4, <1>5, SetPressureKeeps

LEMMA DragWrites ==
    ASSUME FieldInv, NEW k \in Notches, DragTo(k)
    PROVE  /\ FieldInv'
           /\ drag.field \in Fields /\ ~ Locked(drag.field) /\ Snapped(text'[drag.field])
           /\ \A g \in Fields : g # drag.field => text'[g] = text[g]
<1> DEFINE f == drag.field
           next == Number(Snap(drag.start + k * Tenth), 1)
<1>1. ~ Locked(f) /\ UNCHANGED drag /\ SetPressure(f, next) /\ drag # NoDrag
  BY DEF DragTo
<1>2. f \in Fields /\ drag.start \in Int
  BY <1>1 DEF FieldInv, FieldTypes
<1>3. drag.start + k * Tenth \in Int
  BY <1>2, FieldAssumption DEF Tenth
<1>4. Snapped(next)
  BY <1>3, SnapIsSnapped
<1> HIDE DEF next, f
<1>5. next \in Entries
  BY <1>4, SnappedFacts
<1>6. /\ FieldInv' /\ text'[f] = next
      /\ \A g \in Fields : g # f => text'[g] = text[g]
  BY <1>1, <1>2, <1>5, SetPressureKeeps
<1> QED BY <1>1, <1>2, <1>4, <1>6 DEF f

LEMMA SameAsKeeps ==
    ASSUME FieldInv, NEW f \in Fields, SameAs(f)
    PROVE  FieldInv'
<1>1. PICK ref \in Refs(f) : SetPressure(f, ref) /\ UNCHANGED drag
  BY DEF SameAs
<1>2. ref \in Entries
  BY <1>1, RefsFacts DEF FieldInv
<1> QED BY <1>1, <1>2, SetPressureKeeps

(* Nothing of the form, the sessions or the buttons moves.                 *)
LEMMA PadKeeps ==
    ASSUME FieldInv, UNCHANGED <<form, sessions, offer, touched, overtaken>>,
           drag' = NoDrag \/ drag' \in [field : Fields, start : Int]
    PROVE  FieldInv'
<1>1. UNCHANGED <<text, clicks, unit, setup, sessions, offer, touched, overtaken>>
  BY DEF form
<1>2. FieldTypes'
  BY <1>1 DEF FieldInv, FieldTypes
<1>3. Own(text', touched')
  BY <1>1, TodayParts DEF FieldInv
<1>4. Offers'
  <2>1. Offers
    BY TodayParts DEF FieldInv
  <2>2. \A f \in Fields : Refs(f)' = Refs(f)
    BY <1>1 DEF Refs
  <2> QED BY <1>1, <2>1, <2>2 DEF Offers
<1> QED BY <1>2, <1>3, <1>4, TodayPartsNext DEF FieldInv

LEMMA GrabKeeps ==
    ASSUME FieldInv, NEW f \in Fields, Grab(f)
    PROVE  FieldInv'
<1> DEFINE start == IF text[f] = Blank THEN PadStart(Refs(f)) ELSE text[f].n
<1>1. /\ drag' = [field |-> f, start |-> start]
      /\ UNCHANGED <<form, sessions, offer, touched, overtaken>>
  BY DEF Grab
<1>2. start \in Int
  BY RefsFacts, EntryFacts DEF FieldInv, FieldTypes
<1> HIDE DEF start
<1>3. drag' \in [field : Fields, start : Int]
  BY <1>1, <1>2
<1> QED BY <1>1, <1>3, PadKeeps

LEMMA ReleaseKeeps ==
    ASSUME FieldInv, Release
    PROVE  FieldInv'
<1>1. drag' = NoDrag /\ UNCHANGED <<form, sessions, offer, touched, overtaken>>
  BY DEF Release
<1> QED BY <1>1, PadKeeps

(* A step that renders, writes no pressure but keeps, empties or copies    *)
(* them, and leaves the rest of the form an entry of its kind.             *)
LEMMA RenderingKeeps ==
    ASSUME FieldInv, Rendered, UNCHANGED drag,
           text' \in [Fields -> Entries], clicks' \in Entries, unit' \in Units \cup {Unset},
           setup' \in Setups, sessions' \in Seq(Sessions), Own(text', touched')
    PROVE  FieldInv'
<1>1. FieldTypes'
  BY DEF FieldInv, FieldTypes
<1> QED BY <1>1, RenderedOffers, TodayPartsNext DEF FieldInv

(* As above, when text and touched stay what they were.                    *)
LEMMA QuietRenderingKeeps ==
    ASSUME FieldInv, Rendered, UNCHANGED <<text, drag, sessions, touched>>,
           clicks' \in Entries, unit' \in Units \cup {Unset}, setup' \in Setups
    PROVE  FieldInv'
<1>1. text' \in [Fields -> Entries] /\ sessions' \in Seq(Sessions)
  BY DEF FieldInv, FieldTypes
<1>2. Own(text', touched')
  BY TodayParts DEF FieldInv
<1> QED BY <1>1, <1>2, RenderingKeeps

LEMMA TypeClicksKeeps ==
    ASSUME FieldInv, NEW t \in TypedClicks, TypeClicks(t)
    PROVE  FieldInv'
<1>1. /\ Rendered /\ UNCHANGED <<text, drag, sessions, touched, unit, setup>>
      /\ clicks' = t
  BY DEF TypeClicks, SetAdjuster
<1>2. t \in Entries /\ unit \in Units \cup {Unset} /\ setup \in Setups
  BY FieldAssumption DEF FieldInv, FieldTypes
<1> QED BY <1>1, <1>2, QuietRenderingKeeps

LEMMA UnitOfFacts ==
    ASSUME NEW u \in Units \cup {Unset} PROVE UnitOf(u) \in Units
BY FieldAssumption DEF UnitOf

LEMMA PressAdjusterWrites ==
    ASSUME FieldInv, NEW dir \in {-1, 1}, PressAdjuster(dir)
    PROVE  /\ FieldInv' /\ UNCHANGED <<text, unit>>
           /\ clicks' \in AdjusterStep(clicks, dir, UnitOf(unit))
<1>1. PICK next \in AdjusterStep(clicks, dir, UnitOf(unit)) : SetAdjuster(next)
  BY DEF PressAdjuster
<1>2. /\ Rendered /\ UNCHANGED <<text, drag, sessions, touched, unit, setup>>
      /\ clicks' = next
  BY <1>1 DEF SetAdjuster
<1>3. clicks \in Entries /\ unit \in Units \cup {Unset} /\ setup \in Setups
  BY DEF FieldInv, FieldTypes
<1>4. next \in Entries
  <2>1. UnitOf(unit) \in Units
    BY <1>3, UnitOfFacts
  <2> QED BY <1>1, <1>3, <2>1, AdjusterStepFacts
<1> QED BY <1>1, <1>2, <1>3, <1>4, QuietRenderingKeeps

LEMMA ChooseUnitKeeps ==
    ASSUME FieldInv, NEW u \in Units, ChooseUnit(u)
    PROVE  FieldInv'
<1>1. /\ Rendered /\ UNCHANGED <<text, drag, sessions, touched, setup>>
      /\ clicks' = Reread(clicks, u) /\ unit' = u
  BY DEF ChooseUnit
<1>2. Reread(clicks, u) \in Entries /\ setup \in Setups
  BY RereadFacts DEF FieldInv, FieldTypes
<1> QED BY <1>1, <1>2, QuietRenderingKeeps

LEMMA EnterSetupKeeps ==
    ASSUME FieldInv, NEW now \in Setups, EnterSetup(now)
    PROVE  FieldInv'
<1>1. /\ Rendered /\ UNCHANGED <<text, drag, sessions, touched, clicks, unit>>
      /\ setup' = now
  BY DEF EnterSetup
<1>2. clicks \in Entries /\ unit \in Units \cup {Unset}
  BY DEF FieldInv, FieldTypes
<1> QED BY <1>1, <1>2, QuietRenderingKeeps

(* What carry-over fills in is an entry, and never a pressure.             *)
LEMMA CarriedFacts ==
    ASSUME FieldTypes, NEW s \in Sessions
    PROVE  /\ Carried(s).text = text /\ Carried(s).clicks \in Entries
           /\ Carried(s).unit \in Units \cup {Unset} /\ Carried(s).tires \in Tires \cup {Unset}
<1>1. /\ Carried(s).text = text
      /\ Carried(s).clicks = IF clicks = Blank THEN s.clicks ELSE clicks
      /\ Carried(s).unit = IF clicks = Blank /\ s.clicks # Blank /\ unit = Unset THEN s.unit ELSE unit
      /\ Carried(s).tires = IF setup.tires = Unset THEN s.setup.tires ELSE setup.tires
  BY DEF Carried
<1>2. /\ clicks \in Entries /\ unit \in Units \cup {Unset} /\ setup \in Setups
  BY DEF FieldTypes
<1>3. /\ s.clicks \in Entries /\ s.unit \in Units \cup {Unset} /\ s.setup \in Setups
  BY SessionFacts
<1>4. setup.tires \in Tires \cup {Unset} /\ s.setup.tires \in Tires \cup {Unset}
  BY <1>2, <1>3, SetupFacts
<1> QED BY <1>1, <1>2, <1>3, <1>4

LEMMA StartSessionKeeps ==
    ASSUME FieldInv, StartSession
    PROVE  FieldInv'
<1> DEFINE filled == IF OfBike = {} THEN NothingCarried ELSE Carried(sessions[Last(OfBike)])
<1>1. /\ text' = filled.text /\ clicks' = filled.clicks /\ unit' = filled.unit
      /\ setup' = [setup EXCEPT !.tires = filled.tires]
      /\ Rendered /\ UNCHANGED <<drag, sessions, touched>>
  BY DEF StartSession
<1>2. /\ clicks \in Entries /\ unit \in Units \cup {Unset} /\ setup \in Setups
      /\ sessions \in Seq(Sessions)
  BY DEF FieldInv, FieldTypes
<1>3. /\ filled.text = text /\ filled.clicks \in Entries
      /\ filled.unit \in Units \cup {Unset} /\ filled.tires \in Tires \cup {Unset}
  <2>1. CASE OfBike = {}
    <3>1. filled = NothingCarried
      BY <2>1
    <3> HIDE DEF filled
    <3> QED BY <1>2, <3>1, SetupFacts DEF NothingCarried
  <2>2. CASE OfBike # {}
    <3>1. OfBike \in SUBSET (1 .. Len(sessions)) /\ Len(sessions) \in Nat
      BY <1>2 DEF OfBike
    <3>2. Last(OfBike) \in 1 .. Len(sessions)
      BY <2>2, <3>1, LastFacts
    <3>3. PICK s \in Sessions : s = sessions[Last(OfBike)]
      BY <1>2, <3>2
    <3>4. filled = Carried(s)
      BY <2>2, <3>3
    <3> HIDE DEF filled
    <3> QED BY <3>4, CarriedFacts DEF FieldInv
  <2> QED BY <2>1, <2>2
<1> HIDE DEF filled
<1>4. setup' \in Setups
  <2> DEFINE tires == filled.tires
  <2>1. setup' = [setup EXCEPT !.tires = tires] /\ tires \in Tires \cup {Unset}
    BY <1>1, <1>3
  <2> HIDE DEF tires
  <2> QED BY <1>2, <2>1 DEF Setups
<1> QED BY <1>1, <1>3, <1>4, QuietRenderingKeeps

(* Moving between the stages leaves the form as it is.                     *)
LEMMA StageKeeps ==
    ASSUME FieldInv, Rendered, UNCHANGED <<form, drag, sessions, touched>>
    PROVE  FieldInv'
<1>1. UNCHANGED <<text, clicks, unit, setup>>
  BY DEF form
<1>2. clicks \in Entries /\ unit \in Units \cup {Unset} /\ setup \in Setups
  BY DEF FieldInv, FieldTypes
<1> QED BY <1>1, <1>2, QuietRenderingKeeps

(* A blank form has no pressure anybody must have set.                     *)
LEMMA BlankIsOwn ==
    ASSUME NEW txt, NEW set, \A f \in Fields : txt[f] = Blank
    PROVE  Own(txt, set)
BY DEF Own

LEMMA SaveAndNextKeeps ==
    ASSUME FieldInv, SaveAndNext
    PROVE  FieldInv'
<1>1. /\ sessions' = Append(sessions, CollectSession)
      /\ text' = [f \in Fields |-> IF f \in Transient THEN Blank ELSE text[f]]
      /\ UNCHANGED <<clicks, unit, setup, drag>> /\ Rendered
  BY DEF SaveAndNext
<1>2. /\ clicks \in Entries /\ unit \in Units \cup {Unset} /\ setup \in Setups
      /\ sessions \in Seq(Sessions) /\ text \in [Fields -> Entries]
  BY DEF FieldInv, FieldTypes
<1>3. CollectSession \in Sessions
  BY <1>2, UnitOfFacts DEF CollectSession, Sessions
<1>4. sessions' \in Seq(Sessions)
  <2> HIDE DEF CollectSession
  <2> QED BY <1>1, <1>2, <1>3
<1>5. text' \in [Fields -> Entries] /\ \A f \in Fields : text'[f] = Blank
  BY <1>1, BlankIsEntry DEF Transient
<1> QED BY <1>1, <1>2, <1>4, <1>5, BlankIsOwn, RenderingKeeps

LEMMA ResetKeeps ==
    ASSUME FieldInv, Reset
    PROVE  FieldInv'
<1>1. /\ text' = [f \in Fields |-> Blank] /\ clicks' = Blank
      /\ setup' = [bike |-> Unset, tires |-> Unset]
      /\ UNCHANGED <<unit, drag, sessions>> /\ Rendered
  BY DEF Reset
<1>2. unit \in Units \cup {Unset} /\ sessions \in Seq(Sessions)
  BY DEF FieldInv, FieldTypes
<1>3. text' \in [Fields -> Entries] /\ \A f \in Fields : text'[f] = Blank
  BY <1>1, BlankIsEntry
<1>4. clicks' \in Entries /\ setup' \in Setups
  BY <1>1, BlankIsEntry DEF Setups
<1> QED BY <1>1, <1>2, <1>3, <1>4, BlankIsOwn, RenderingKeeps

LEMMA CopyToFormKeeps ==
    ASSUME FieldInv, NEW i \in DOMAIN sessions, CopyToForm(i)
    PROVE  FieldInv'
<1>1. /\ text' = sessions[i].text /\ setup' = sessions[i].setup
      /\ clicks' = sessions[i].clicks /\ unit' = UnitOf(sessions[i].unit)
      /\ touched' = Fields /\ UNCHANGED <<drag, sessions>> /\ Rendered
  BY DEF CopyToForm
<1>2. sessions \in Seq(Sessions)
  BY DEF FieldInv, FieldTypes
<1>3. PICK s \in Sessions : s = sessions[i]
  BY <1>2
<1>4. /\ text' \in [Fields -> Entries] /\ clicks' \in Entries
      /\ unit' \in Units \cup {Unset} /\ setup' \in Setups
  BY <1>1, <1>3, SessionFacts, UnitOfFacts
<1>5. Own(text', touched')
  BY <1>1 DEF Own
<1> QED BY <1>1, <1>2, <1>4, <1>5, RenderingKeeps

LEMMA OtherTabSavesKeeps ==
    ASSUME FieldInv, NEW s \in Elsewhere, OtherTabSaves(s)
    PROVE  FieldInv'
<1>1. /\ sessions' = Append(sessions, s) /\ overtaken' = TRUE
      /\ UNCHANGED <<text, clicks, unit, setup, drag, touched>>
  BY DEF OtherTabSaves, form
<1>2. sessions \in Seq(Sessions) /\ s \in Sessions
  BY FieldAssumption DEF FieldInv, FieldTypes
<1>3. sessions' \in Seq(Sessions)
  BY <1>1, <1>2
<1>4. FieldTypes'
  BY <1>1, <1>3 DEF FieldInv, FieldTypes
<1>5. Own(text', touched')
  BY <1>1, TodayParts DEF FieldInv
<1>6. Offers'
  BY <1>1 DEF Offers
<1> QED BY <1>4, <1>5, <1>6, TodayPartsNext DEF FieldInv

-----------------------------------------------------------------------------
(* The theorems.                                                           *)

LEMMA FieldInit ==
    ASSUME Init PROVE FieldInv
<1>1. /\ text = [f \in Fields |-> Blank] /\ clicks = Blank /\ unit = Unset
      /\ setup = [bike |-> Unset, tires |-> Unset]
      /\ drag = NoDrag /\ sessions = Before
      /\ offer = [f \in Fields |-> {}] /\ touched = {}
  BY DEF Init
<1>2. FieldTypes
  BY <1>1, FieldAssumption, BlankIsEntry DEF FieldTypes, Setups
<1>3. Own(text, touched) /\ Offers
  BY <1>1 DEF Own, Offers
<1> QED BY <1>2, <1>3, TodayParts DEF FieldInv

LEMMA FieldStep ==
    ASSUME FieldInv, [Next]_vars PROVE FieldInv'
<1>1. CASE UNCHANGED vars
  <2>1. UNCHANGED <<form, sessions, offer, touched, overtaken, drag>>
    BY <1>1 DEF vars
  <2>2. drag' = NoDrag \/ drag' \in [field : Fields, start : Int]
    BY <2>1 DEF FieldInv, FieldTypes
  <2> QED BY <2>1, <2>2, PadKeeps
<1>2. CASE Press
  <2>1. ASSUME NEW f \in Fields, NEW dir \in {-1, 1}, Step(f, dir) PROVE FieldInv'
    BY <2>1, StepWrites
  <2>2. ASSUME NEW f \in Fields, NEW by \in {-100, -10, 10, 100}, Key(f, by) PROVE FieldInv'
    BY <2>2, KeyWrites
  <2> QED BY <1>2, <2>1, <2>2 DEF Press
<1>3. CASE PadStep
  BY <1>3, GrabKeeps, DragWrites, ReleaseKeeps DEF PadStep
<1>4. CASE AdjusterPress
  BY <1>4, PressAdjusterWrites DEF AdjusterPress
<1>5. CASE EntryStep
  BY <1>5, TypeKeeps, SameAsKeeps, TypeClicksKeeps, ChooseUnitKeeps, EnterSetupKeeps DEF EntryStep
<1>6. CASE SessionStep
  <2>1. CASE BackIn
    BY <2>1, StageKeeps DEF BackIn
  <2>2. CASE CorrectPre
    BY <2>2, StageKeeps DEF CorrectPre
  <2>3. ASSUME NEW s \in Stages, GoTo(s) PROVE FieldInv'
    BY <2>3, StageKeeps DEF GoTo
  <2> QED BY <1>6, <2>1, <2>2, <2>3, StartSessionKeeps, SaveAndNextKeeps, ResetKeeps,
             CopyToFormKeeps, OtherTabSavesKeeps DEF SessionStep, Stages
<1> QED BY <1>1, <1>2, <1>3, <1>4, <1>5, <1>6 DEF Next

(* The invariant of the number fields holds in every reachable state.      *)
THEOREM FieldInvariant == Spec => []FieldInv
<1>1. Init => FieldInv
  BY FieldInit
<1>2. FieldInv /\ [Next]_vars => FieldInv'
  BY FieldStep
<1> QED BY <1>1, <1>2, PTL DEF Spec

(* A pressure in the form is one the rider set or copied since this form   *)
(* began, and "Same as" writes what its button reads (renderTire and every *)
(* path that renders).                                                     *)
THEOREM NoPressureComesUnasked == Spec => []TodayIsMeasuredToday
<1>1. FieldInv => TodayIsMeasuredToday
  BY DEF FieldInv
<1> QED BY <1>1, FieldInvariant, PTL

(* What a gesture does to one pressure.                                    *)
GestureKept(f) ==
    /\ ~ Locked(f)
    /\ State(text'[f]) \in {"in-range", "typed-outside"}
    /\ drag.field # f => State(text[f]) \notin {"words", "unsupported"}
    /\ State(text[f]) = "in-range" => State(text'[f]) = "in-range"
    /\ text[f] # Blank /\ text'[f].n < 0 => text[f].n < text'[f].n

StepKept(f, dir) ==
    /\ text'[f].n = text[f].n + dir * Tenth
    /\ text'[f].places >= text[f].places
    /\ State(text[f]) = "in-range" =>
         \E back \in RulerStep(text'[f], 0 - dir, 0) : back.n = text[f].n

LEMMA SnappedState ==
    ASSUME NEW t, Snapped(t)
    PROVE  State(t) = "in-range" /\ ~ (t.n < 0)
<1>1. t.kind = "number" /\ InRange(t.n) /\ t.n \in Int
  BY SnappedFacts
<1> QED BY <1>1 DEF State, InRange, PsiMin

LEMMA StepKeepsWord ==
    ASSUME FieldInv, NEW f \in Fields, NEW dir \in {-1, 1}, Step(f, dir)
    PROVE  GestureKept(f) /\ (text[f] # Blank => StepKept(f, dir))
<1>1. PICK ref \in Int : text'[f] \in RulerStep(text[f], dir, ref)
  BY StepWrites
<1>2. ~ Locked(f)
  BY StepWrites
<1>3. PICK t \in Entries : t = text[f]
  BY DEF FieldInv, FieldTypes
<1>4. PICK next \in RulerStep(t, dir, ref) : next = text'[f]
  BY <1>1, <1>3
<1>5. /\ next \in Entries /\ next.kind = "number"
      /\ State(t) \in {"blank", "in-range", "typed-outside"}
      /\ State(t) = "in-range" => InRange(next.n)
      /\ t # Blank => /\ next.n = t.n + dir * Tenth /\ next.places >= t.places
                      /\ next.n < 0 => dir = 1
  BY <1>4, RulerStepFacts
<1>6. State(next) \in {"in-range", "typed-outside"} /\ (InRange(next.n) => State(next) = "in-range")
  BY <1>5 DEF State
<1>7. t.n \in Int /\ next.n \in Int
  BY <1>5, EntryFacts
<1>8. t # Blank /\ next.n < 0 => t.n < next.n
  BY <1>5, <1>7 DEF Tenth
<1>9. GestureKept(f)
  BY <1>2, <1>3, <1>4, <1>5, <1>6, <1>8 DEF GestureKept
<1>10. ASSUME t # Blank PROVE StepKept(f, dir)
  <2>1. State(t) = "in-range" => \E back \in RulerStep(next, 0 - dir, 0) : back.n = t.n
    BY <1>5, <1>10, RulerStepsBack
  <2> QED BY <1>3, <1>4, <1>5, <1>10, <2>1 DEF StepKept
<1> QED BY <1>3, <1>9, <1>10

(* No button, key or drag touches a locked pressure or text that is no     *)
(* number, takes a value out of the range or under zero; and a button's    *)
(* step can be taken back (rulerStep, setPressure, psiFromDrag).           *)
THEOREM GesturesKeepTheirs == Spec => GesturesKeepTheirWord
<1> DEFINE Kept(f) ==
        /\ Moved(f) /\ (Press \/ \E k \in Notches : DragTo(k)) => GestureKept(f)
        /\ \A dir \in {-1, 1} : Step(f, dir) /\ text[f] # Blank => StepKept(f, dir)
<1>1. FieldInv /\ [Next]_vars => [\A f \in Fields : Kept(f)]_vars
  <2> SUFFICES ASSUME FieldInv, NEW f \in Fields PROVE Kept(f)
    OBVIOUS
  <2>1. ASSUME Moved(f), Press PROVE GestureKept(f)
    <3>1. ASSUME NEW g \in Fields, NEW dir \in {-1, 1}, Step(g, dir) PROVE GestureKept(f)
      <4>1. g = f
        BY <2>1, <3>1, StepWrites DEF Moved
      <4> QED BY <3>1, <4>1, StepKeepsWord
    <3>2. ASSUME NEW g \in Fields, NEW by \in {-100, -10, 10, 100}, Key(g, by) PROVE GestureKept(f)
      <4>1. g = f
        BY <2>1, <3>2, KeyWrites DEF Moved
      <4>2. ~ Locked(f) /\ Draggable(text[f]) /\ Snapped(text'[f])
        BY <3>2, <4>1, KeyWrites
      <4>3. State(text'[f]) = "in-range" /\ ~ (text'[f].n < 0)
        BY <4>2, SnappedState
      <4>4. State(text[f]) \in {"in-range", "blank"}
        BY <4>2 DEF Draggable
      <4> QED BY <4>2, <4>3, <4>4 DEF GestureKept
    <3> QED BY <2>1, <3>1, <3>2 DEF Press
  <2>2. ASSUME Moved(f), NEW k \in Notches, DragTo(k) PROVE GestureKept(f)
    <3>1. drag.field = f
      BY <2>2, DragWrites DEF Moved
    <3>2. ~ Locked(f) /\ Snapped(text'[f])
      BY <2>2, <3>1, DragWrites
    <3>3. State(text'[f]) = "in-range" /\ ~ (text'[f].n < 0)
      BY <3>2, SnappedState
    <3> QED BY <3>1, <3>2, <3>3 DEF GestureKept
  <2>3. ASSUME NEW dir \in {-1, 1}, Step(f, dir), text[f] # Blank PROVE StepKept(f, dir)
    BY <2>3, StepKeepsWord
  <2> QED BY <2>1, <2>2, <2>3
<1>2. [\A f \in Fields : Kept(f)]_vars =>
      [\A f \in Fields :
        /\ Moved(f) /\ (Press \/ \E k \in Notches : DragTo(k)) =>
            /\ ~ Locked(f)
            /\ State(text'[f]) \in {"in-range", "typed-outside"}
            /\ drag.field # f => State(text[f]) \notin {"words", "unsupported"}
            /\ State(text[f]) = "in-range" => State(text'[f]) = "in-range"
            /\ text[f] # Blank /\ text'[f].n < 0 => text[f].n < text'[f].n
        /\ \A dir \in {-1, 1} :
            Step(f, dir) /\ text[f] # Blank =>
                /\ text'[f].n = text[f].n + dir * Tenth
                /\ text'[f].places >= text[f].places
                /\ State(text[f]) = "in-range" =>
                     \E back \in RulerStep(text'[f], 0 - dir, 0) : back.n = text[f].n
      ]_vars
  BY Zenon DEF GestureKept, StepKept
<1> QED BY <1>1, <1>2, FieldInvariant, PTL DEF Spec, GesturesKeepTheirWord

AdjusterCounted ==
    LET u == UnitOf(unit) IN
    /\ 0 - UnitLimit(u) <= clicks'.n /\ clicks'.n <= UnitLimit(u)
    /\ clicks'.places = UnitPlaces(u)
    /\ clicks.places <= UnitPlaces(u) =>
         clicks'.n - clicks.n \in {UnitStep(u), 0 - UnitStep(u)}
    /\ clicks.places <= UnitPlaces(u) /\ clicks.n \in 0 - UnitLimit(u) .. UnitLimit(u) =>
         \E dir \in {-1, 1} : \E back \in AdjusterStep(clicks', dir, u) : back.n = clicks.n

LEMMA AdjusterPressCounts ==
    ASSUME FieldInv, NEW dir \in {-1, 1}, PressAdjuster(dir)
    PROVE  AdjusterCounted
<1>1. PICK u \in Units : u = UnitOf(unit)
  BY UnitOfFacts DEF FieldInv, FieldTypes
<1>2. PICK t \in Entries : t = clicks
  BY DEF FieldInv, FieldTypes
<1>3. PICK next \in AdjusterStep(t, dir, u) : next = clicks'
  BY <1>1, <1>2, PressAdjusterWrites
<1>4. /\ next \in Entries /\ next.kind = "number"
      /\ 0 - UnitLimit(u) <= next.n /\ next.n <= UnitLimit(u)
      /\ next.places = UnitPlaces(u)
      /\ t.places <= UnitPlaces(u) => next.n = t.n + dir * UnitStep(u)
  BY <1>3, AdjusterStepFacts
<1>5. t.n \in Int /\ next.n \in Int
  BY <1>4, EntryFacts
<1>6. t.places <= UnitPlaces(u) => next.n - t.n \in {UnitStep(u), 0 - UnitStep(u)}
  <2>1. UnitStep(u) \in {50, 100}
    BY DEF UnitStep
  <2> QED BY <1>4, <1>5, <2>1
<1>7. ASSUME t.places <= UnitPlaces(u), t.n \in 0 - UnitLimit(u) .. UnitLimit(u)
      PROVE  \E d \in {-1, 1} : \E back \in AdjusterStep(next, d, u) : back.n = t.n
  <2>1. \E back \in AdjusterStep(next, 0 - dir, u) : back.n = t.n
    BY <1>4, <1>7, AdjusterStepsBack
  <2>2. 0 - dir \in {-1, 1}
    OBVIOUS
  <2> QED BY <2>1, <2>2
<1> QED BY <1>1, <1>2, <1>3, <1>4, <1>6, <1>7 DEF AdjusterCounted

(* The adjuster's buttons count in the unit's own steps, end dead at its   *)
(* limit and undo one another within it (adjusterStep).                    *)
THEOREM AdjustersCount == Spec => AdjusterCounts
<1>1. FieldInv /\ [Next]_vars => [AdjusterPress => AdjusterCounted]_vars
  BY AdjusterPressCounts DEF AdjusterPress
<1> QED BY <1>1, FieldInvariant, PTL DEF Spec, AdjusterCounts, AdjusterCounted
=============================================================================
