-------------------------- MODULE TrackAgentProofs -------------------------
(***************************************************************************)
(* Proofs about TrackAgent, for any number of presses, riders and notes    *)
(* and drafts of any length, and about the Worker that serves its page     *)
(* beside the advisor's.  The deduplications and the filters are loops     *)
(* over a draft's rows; what they return is proved by induction on the     *)
(* rows read so far, from the fact that the natural numbers are well       *)
(* ordered.                                                                *)
(***************************************************************************)
EXTENDS TrackAgentWorker, TireAdvisorProofs, FiniteSetTheorems, WellFoundedInduction, TLAPS

-----------------------------------------------------------------------------
(* Induction.                                                              *)

(* Every nonempty set of natural numbers has a least element.              *)
LEMMA LeastOf ==
    ASSUME NEW S \in SUBSET Nat, S # {}
    PROVE  \E m \in S : \A k \in S : m <= k
<1> DEFINE less == OpToRel(<, Nat)
<1>1. IsWellFoundedOn(less, Nat)
  BY NatLessThanWellFounded, Zenon
<1>2. \A k, m \in Nat : k < m => <<k, m>> \in less
  BY DEF OpToRel
<1> HIDE DEF less
<1>3. PICK m \in S : \A k \in S : <<k, m>> \notin less
  BY <1>1, WFMin
<1>4. ASSUME NEW k \in S PROVE ~ (k < m)
  BY <1>2, <1>3, Zenon
<1> QED BY <1>4

(* A set with 0 and the successor of each of its numbers has them all.     *)
LEMMA Induction ==
    ASSUME NEW S, 0 \in S, \A n \in Nat : n \in S => n + 1 \in S
    PROVE  \A n \in Nat : n \in S
<1> DEFINE T == {n \in Nat : n \notin S}
<1> SUFFICES ASSUME T # {} PROVE FALSE
  OBVIOUS
<1>1. PICK m \in T : \A k \in T : m <= k
  <2> T \in SUBSET Nat
    OBVIOUS
  <2> HIDE DEF T
  <2> QED BY LeastOf
<1>2. m # 0 /\ m - 1 \in Nat
  BY <1>1
<1>3. m - 1 \in S
  BY <1>1, <1>2
<1> QED BY <1>1, <1>2, <1>3

-----------------------------------------------------------------------------
(* The loops are well defined: each is a function of the rows read so far. *)

KeptStep(f, n, rows, places) ==
    IF n = 0 THEN <<>>
    ELSE IF n \in places THEN Append(f[n - 1], rows[n]) ELSE f[n - 1]

LEMMA KeptLoop ==
    ASSUME NEW rows, Len(rows) \in Nat, NEW places
    PROVE  \E f : /\ f = [n \in 0..Len(rows) |-> KeptStep(f, n, rows, places)]
                  /\ Kept(rows, places) = f[Len(rows)]
<1> DEFINE Reads(m) == \E f : f = [n \in 0..m |-> KeptStep(f, n, rows, places)]
           S == {m \in Nat : Reads(m)}
<1>1. Reads(0)
  <2> DEFINE g == [n \in 0..0 |-> <<>>]
  <2>1. g = [n \in 0..0 |-> KeptStep(g, n, rows, places)]
    BY DEF KeptStep
  <2> QED BY <2>1
<1>2. ASSUME NEW m \in Nat, Reads(m) PROVE Reads(m + 1)
  <2>1. PICK f : f = [n \in 0..m |-> KeptStep(f, n, rows, places)]
    BY <1>2
  <2> DEFINE g == [n \in 0..(m + 1) |->
                     IF n = m + 1 THEN KeptStep(f, n, rows, places) ELSE f[n]]
  <2>2. ASSUME NEW n \in 0..(m + 1) PROVE g[n] = KeptStep(g, n, rows, places)
    <3>1. n # 0 => n - 1 \in 0..m /\ g[n - 1] = f[n - 1]
      OBVIOUS
    <3>2. KeptStep(f, n, rows, places) = KeptStep(g, n, rows, places)
      BY <3>1 DEF KeptStep
    <3>3. n # m + 1 => n \in 0..m /\ f[n] = KeptStep(f, n, rows, places)
      BY <2>1
    <3> QED BY <3>2, <3>3
  <2>3. g = [n \in 0..(m + 1) |-> KeptStep(g, n, rows, places)]
    BY <2>2
  <2> QED BY <2>3
<1>3. \A m \in Nat : Reads(m)
  <2>1. 0 \in S /\ \A m \in Nat : m \in S => m + 1 \in S
    BY <1>1, <1>2
  <2> HIDE DEF S
  <2>2. \A m \in Nat : m \in S
    BY <2>1, Induction
  <2> QED BY <2>2 DEF S
<1>4. Reads(Len(rows))
  BY <1>3
<1> QED BY <1>4 DEF Kept, KeptStep

DedupeNotesStep(f, n, notes) == IF n = 0 THEN <<>> ELSE MergeNote(f[n - 1], notes[n])

LEMMA NotesLoop ==
    ASSUME NEW notes, Len(notes) \in Nat
    PROVE  \E f : /\ f = [n \in 0..Len(notes) |-> DedupeNotesStep(f, n, notes)]
                  /\ DedupeNotes(notes) = f[Len(notes)]
<1> DEFINE Reads(m) == \E f : f = [n \in 0..m |-> DedupeNotesStep(f, n, notes)]
           S == {m \in Nat : Reads(m)}
<1>1. Reads(0)
  <2> DEFINE g == [n \in 0..0 |-> <<>>]
  <2>1. g = [n \in 0..0 |-> DedupeNotesStep(g, n, notes)]
    BY DEF DedupeNotesStep
  <2> QED BY <2>1
<1>2. ASSUME NEW m \in Nat, Reads(m) PROVE Reads(m + 1)
  <2>1. PICK f : f = [n \in 0..m |-> DedupeNotesStep(f, n, notes)]
    BY <1>2
  <2> DEFINE g == [n \in 0..(m + 1) |->
                     IF n = m + 1 THEN DedupeNotesStep(f, n, notes) ELSE f[n]]
  <2>2. ASSUME NEW n \in 0..(m + 1) PROVE g[n] = DedupeNotesStep(g, n, notes)
    <3>1. n # 0 => n - 1 \in 0..m /\ g[n - 1] = f[n - 1]
      OBVIOUS
    <3>2. DedupeNotesStep(f, n, notes) = DedupeNotesStep(g, n, notes)
      BY <3>1 DEF DedupeNotesStep
    <3>3. n # m + 1 => n \in 0..m /\ f[n] = DedupeNotesStep(f, n, notes)
      BY <2>1
    <3> QED BY <3>2, <3>3
  <2>3. g = [n \in 0..(m + 1) |-> DedupeNotesStep(g, n, notes)]
    BY <2>2
  <2> QED BY <2>3
<1>3. \A m \in Nat : Reads(m)
  <2>1. 0 \in S /\ \A m \in Nat : m \in S => m + 1 \in S
    BY <1>1, <1>2
  <2> HIDE DEF S
  <2>2. \A m \in Nat : m \in S
    BY <2>1, Induction
  <2> QED BY <2>2 DEF S
<1>4. Reads(Len(notes))
  BY <1>3
<1> QED BY <1>4 DEF DedupeNotes, DedupeNotesStep

DedupeChangesStep(f, n, changes) ==
    IF n = 0 THEN <<>> ELSE MergeSetupChange(f[n - 1], changes[n])

LEMMA ChangesLoop ==
    ASSUME NEW changes, Len(changes) \in Nat
    PROVE  \E f : /\ f = [n \in 0..Len(changes) |-> DedupeChangesStep(f, n, changes)]
                  /\ DedupeSetupChanges(changes) = f[Len(changes)]
<1> DEFINE Reads(m) == \E f : f = [n \in 0..m |-> DedupeChangesStep(f, n, changes)]
           S == {m \in Nat : Reads(m)}
<1>1. Reads(0)
  <2> DEFINE g == [n \in 0..0 |-> <<>>]
  <2>1. g = [n \in 0..0 |-> DedupeChangesStep(g, n, changes)]
    BY DEF DedupeChangesStep
  <2> QED BY <2>1
<1>2. ASSUME NEW m \in Nat, Reads(m) PROVE Reads(m + 1)
  <2>1. PICK f : f = [n \in 0..m |-> DedupeChangesStep(f, n, changes)]
    BY <1>2
  <2> DEFINE g == [n \in 0..(m + 1) |->
                     IF n = m + 1 THEN DedupeChangesStep(f, n, changes) ELSE f[n]]
  <2>2. ASSUME NEW n \in 0..(m + 1) PROVE g[n] = DedupeChangesStep(g, n, changes)
    <3>1. n # 0 => n - 1 \in 0..m /\ g[n - 1] = f[n - 1]
      OBVIOUS
    <3>2. DedupeChangesStep(f, n, changes) = DedupeChangesStep(g, n, changes)
      BY <3>1 DEF DedupeChangesStep
    <3>3. n # m + 1 => n \in 0..m /\ f[n] = DedupeChangesStep(f, n, changes)
      BY <2>1
    <3> QED BY <3>2, <3>3
  <2>3. g = [n \in 0..(m + 1) |-> DedupeChangesStep(g, n, changes)]
    BY <2>2
  <2> QED BY <2>3
<1>3. \A m \in Nat : Reads(m)
  <2>1. 0 \in S /\ \A m \in Nat : m \in S => m + 1 \in S
    BY <1>1, <1>2
  <2> HIDE DEF S
  <2>2. \A m \in Nat : m \in S
    BY <2>1, Induction
  <2> QED BY <2>2 DEF S
<1>4. Reads(Len(changes))
  BY <1>3
<1> QED BY <1>4 DEF DedupeSetupChanges, DedupeChangesStep

CollapseStep(f, n, warnings) ==
    IF n = 0 THEN <<>> ELSE MergeWarning(f[n - 1], warnings[n])

LEMMA WarningsLoop ==
    ASSUME NEW warnings, Len(warnings) \in Nat
    PROVE  \E f : /\ f = [n \in 0..Len(warnings) |-> CollapseStep(f, n, warnings)]
                  /\ CollapseWarnings(warnings) = f[Len(warnings)]
<1> DEFINE Reads(m) == \E f : f = [n \in 0..m |-> CollapseStep(f, n, warnings)]
           S == {m \in Nat : Reads(m)}
<1>1. Reads(0)
  <2> DEFINE g == [n \in 0..0 |-> <<>>]
  <2>1. g = [n \in 0..0 |-> CollapseStep(g, n, warnings)]
    BY DEF CollapseStep
  <2> QED BY <2>1
<1>2. ASSUME NEW m \in Nat, Reads(m) PROVE Reads(m + 1)
  <2>1. PICK f : f = [n \in 0..m |-> CollapseStep(f, n, warnings)]
    BY <1>2
  <2> DEFINE g == [n \in 0..(m + 1) |->
                     IF n = m + 1 THEN CollapseStep(f, n, warnings) ELSE f[n]]
  <2>2. ASSUME NEW n \in 0..(m + 1) PROVE g[n] = CollapseStep(g, n, warnings)
    <3>1. n # 0 => n - 1 \in 0..m /\ g[n - 1] = f[n - 1]
      OBVIOUS
    <3>2. CollapseStep(f, n, warnings) = CollapseStep(g, n, warnings)
      BY <3>1 DEF CollapseStep
    <3>3. n # m + 1 => n \in 0..m /\ f[n] = CollapseStep(f, n, warnings)
      BY <2>1
    <3> QED BY <3>2, <3>3
  <2>3. g = [n \in 0..(m + 1) |-> CollapseStep(g, n, warnings)]
    BY <2>2
  <2> QED BY <2>3
<1>3. \A m \in Nat : Reads(m)
  <2>1. 0 \in S /\ \A m \in Nat : m \in S => m + 1 \in S
    BY <1>1, <1>2
  <2> HIDE DEF S
  <2>2. \A m \in Nat : m \in S
    BY <2>1, Induction
  <2> QED BY <2>2 DEF S
<1>4. Reads(Len(warnings))
  BY <1>3
<1> QED BY <1>4 DEF CollapseWarnings, CollapseStep

-----------------------------------------------------------------------------
(* What the filter keeps.                                                  *)

(* Kept rows are rows, and keeping all of them changes nothing.            *)
LEMMA KeptRows ==
    ASSUME NEW S, NEW rows \in Seq(S), NEW places
    PROVE  /\ Kept(rows, places) \in Seq(S)
           /\ DOMAIN rows \subseteq places => Kept(rows, places) = rows
<1>1. PICK f : /\ f = [n \in 0..Len(rows) |-> KeptStep(f, n, rows, places)]
               /\ Kept(rows, places) = f[Len(rows)]
  BY KeptLoop
<1> DEFINE P(n) == /\ f[n] \in Seq(S)
                   /\ DOMAIN rows \subseteq places =>
                        Len(f[n]) = n /\ \A i \in 1..n : f[n][i] = rows[i]
           T == {n \in Nat : n <= Len(rows) => P(n)}
<1>2. P(0)
  BY <1>1 DEF KeptStep
<1>3. ASSUME NEW n \in Nat, n + 1 <= Len(rows), P(n) PROVE P(n + 1)
  <2>1. n + 1 \in 0..Len(rows) /\ n + 1 # 0 /\ (n + 1) - 1 = n /\ n + 1 \in DOMAIN rows
        /\ rows[n + 1] \in S
    BY <1>3
  <2>2. f[n + 1] = KeptStep(f, n + 1, rows, places)
    BY <1>1, <2>1
  <2>3. f[n + 1] = IF n + 1 \in places THEN Append(f[n], rows[n + 1]) ELSE f[n]
    BY <2>1, <2>2 DEF KeptStep
  <2> QED BY <1>3, <2>1, <2>3
<1>4. \A n \in Nat : n \in T
  <2>1. 0 \in T /\ \A n \in Nat : n \in T => n + 1 \in T
    BY <1>2, <1>3
  <2> HIDE DEF T
  <2> QED BY <2>1, Induction
<1>5. P(Len(rows))
  BY <1>4
<1> QED BY <1>1, <1>5

-----------------------------------------------------------------------------
(* Merging a row.                                                          *)

(* An overlapped row is replaced by what it and the new row become; a row  *)
(* that overlaps none is kept last.                                        *)
LEMMA MergedRows ==
    ASSUME NEW S, NEW kept \in Seq(S), NEW row \in S, NEW preferred,
           DOMAIN preferred \subseteq DOMAIN kept
    PROVE  \/ DOMAIN preferred = {} /\ Merged(kept, row, preferred) = Append(kept, row)
           \/ \E first \in DOMAIN preferred :
                 Merged(kept, row, preferred) = [kept EXCEPT ![first] = preferred[first]]
<1>1. CASE DOMAIN preferred = {}
  BY <1>1 DEF Merged
<1>2. CASE DOMAIN preferred # {}
  <2> DEFINE first == CHOOSE i \in DOMAIN preferred : \A j \in DOMAIN preferred : i <= j
  <2>1. DOMAIN preferred \in SUBSET Nat
    OBVIOUS
  <2>2. \E i \in DOMAIN preferred : \A j \in DOMAIN preferred : i <= j
    BY <1>2, <2>1, LeastOf
  <2>3. first \in DOMAIN preferred
    BY <2>2
  <2>4. Merged(kept, row, preferred) = [kept EXCEPT ![first] = preferred[first]]
    BY <1>2 DEF Merged
  <2> HIDE DEF first
  <2> QED BY <2>3, <2>4
<1> QED BY <1>1, <1>2

(* A note lives on, case and punctuation apart, inside a kept note of its  *)
(* own area.                                                               *)
NoteLives(r, kept) ==
    \E j \in DOMAIN kept :
        /\ Compared(kept[j].area) = Compared(r.area)
        /\ Compared(r.note) \subseteq Compared(kept[j].note)

(* Of two notes that overlap, the one preferred holds both.                *)
LEMMA PreferredNote ==
    ASSUME NEW a \in NoteRow, NEW b \in NoteRow, NotesOverlap(a, b)
    PROVE  LET c == PreferLongerNote(a, b) IN
           /\ c \in NoteRow
           /\ Compared(c.area) = Compared(a.area) /\ Compared(a.area) = Compared(b.area)
           /\ Compared(a.note) \subseteq Compared(c.note)
           /\ Compared(b.note) \subseteq Compared(c.note)
<1> DEFINE x == Compared(a.note)
           y == Compared(b.note)
<1>1. IsFiniteSet(x) /\ IsFiniteSet(y)
  <2>1. x \in SUBSET Words /\ y \in SUBSET Words
    BY DEF NoteRow, Texts, Compared
  <2> QED BY <2>1, PayloadAssumption, FS_Subset
<1>2. Cardinality(x) \in Nat /\ Cardinality(y) \in Nat
  BY <1>1, FS_CardinalityType
<1>3. /\ PreferLongerNote(a, b) = IF Cardinality(y) > Cardinality(x) THEN b ELSE a
      /\ Compared(a.area) = Compared(b.area) /\ (x \subseteq y \/ y \subseteq x)
  BY DEF PreferLongerNote, NotesOverlap
<1>4. CASE x \subseteq y
  <2>1. Cardinality(x) <= Cardinality(y) /\ (Cardinality(x) = Cardinality(y) => x = y)
    BY <1>1, <1>4, FS_Subset
  <2>2. CASE Cardinality(y) > Cardinality(x)
    BY <1>3, <1>4, <2>2
  <2>3. CASE ~ (Cardinality(y) > Cardinality(x))
    <3>1. x = y
      BY <1>2, <2>1, <2>3
    <3> QED BY <1>3, <2>3, <3>1
  <2> QED BY <2>2, <2>3
<1>5. CASE y \subseteq x
  <2>1. Cardinality(y) <= Cardinality(x)
    BY <1>1, <1>5, FS_Subset
  <2>2. ~ (Cardinality(y) > Cardinality(x))
    BY <1>2, <2>1
  <2> QED BY <1>3, <1>5, <2>2
<1> QED BY <1>3, <1>4, <1>5

(* Merging a note loses no note that was kept, nor the one merged.         *)
LEMMA MergedNote ==
    ASSUME NEW kept \in Seq(NoteRow), NEW row \in NoteRow
    PROVE  /\ MergeNote(kept, row) \in Seq(NoteRow)
           /\ \A r \in NoteRow : NoteLives(r, kept) => NoteLives(r, MergeNote(kept, row))
           /\ row.note # Blank => NoteLives(row, MergeNote(kept, row))
<1> DEFINE preferred == [i \in {k \in DOMAIN kept : NotesOverlap(kept[k], row)} |->
                            PreferLongerNote(kept[i], row)]
           next == MergeNote(kept, row)
<1>1. CASE row.note = Blank
  BY <1>1 DEF MergeNote
<1>2. CASE row.note # Blank
  <2>1. next = Merged(kept, row, preferred)
    BY <1>2 DEF MergeNote
  <2>2. /\ DOMAIN preferred \subseteq DOMAIN kept
        /\ \A i \in DOMAIN preferred :
             NotesOverlap(kept[i], row) /\ preferred[i] = PreferLongerNote(kept[i], row)
    OBVIOUS
  <2> HIDE DEF preferred, next
  <2>3. CASE next = Append(kept, row)
    <3>1. /\ next \in Seq(NoteRow) /\ Len(kept) + 1 \in DOMAIN next
          /\ next[Len(kept) + 1] = row
          /\ \A j \in DOMAIN kept : j \in DOMAIN next /\ next[j] = kept[j]
      BY <2>3
    <3>2. NoteLives(row, next)
      BY <3>1 DEF NoteLives
    <3>3. \A r \in NoteRow : NoteLives(r, kept) => NoteLives(r, next)
      BY <3>1 DEF NoteLives
    <3> QED BY <3>1, <3>2, <3>3 DEF next
  <2>4. ASSUME NEW first \in DOMAIN preferred,
               next = [kept EXCEPT ![first] = preferred[first]]
        PROVE  /\ next \in Seq(NoteRow)
               /\ \A r \in NoteRow : NoteLives(r, kept) => NoteLives(r, next)
               /\ NoteLives(row, next)
    <3>1. first \in DOMAIN kept /\ kept[first] \in NoteRow /\ NotesOverlap(kept[first], row)
          /\ preferred[first] = PreferLongerNote(kept[first], row)
      BY <2>2, <2>4
    <3>2. /\ preferred[first] \in NoteRow
          /\ Compared(preferred[first].area) = Compared(kept[first].area)
          /\ Compared(kept[first].area) = Compared(row.area)
          /\ Compared(kept[first].note) \subseteq Compared(preferred[first].note)
          /\ Compared(row.note) \subseteq Compared(preferred[first].note)
      BY <3>1, PreferredNote
    <3>3. /\ next \in Seq(NoteRow) /\ DOMAIN next = DOMAIN kept
          /\ next[first] = preferred[first]
          /\ \A j \in DOMAIN kept : j # first => next[j] = kept[j]
      BY <2>4, <3>1, <3>2
    <3>4. NoteLives(row, next)
      BY <3>1, <3>2, <3>3 DEF NoteLives
    <3>5. \A r \in NoteRow : NoteLives(r, kept) => NoteLives(r, next)
      BY <3>1, <3>2, <3>3 DEF NoteLives
    <3> QED BY <3>3, <3>4, <3>5
  <2>5. \/ next = Append(kept, row)
        \/ \E first \in DOMAIN preferred : next = [kept EXCEPT ![first] = preferred[first]]
    BY <2>1, <2>2, MergedRows
  <2> QED BY <2>3, <2>4, <2>5 DEF next
<1> QED BY <1>1, <1>2

(* No note a draft holds is lost by the deduplication, whatever its order. *)
LEMMA NotesOutliveDedupe ==
    ASSUME NEW notes \in Seq(NoteRow)
    PROVE  /\ DedupeNotes(notes) \in Seq(NoteRow)
           /\ NotesSurvive(notes, DedupeNotes(notes))
<1>1. PICK f : /\ f = [n \in 0..Len(notes) |-> DedupeNotesStep(f, n, notes)]
               /\ DedupeNotes(notes) = f[Len(notes)]
  BY NotesLoop
<1> DEFINE P(n) == /\ f[n] \in Seq(NoteRow)
                   /\ \A i \in 1..n : notes[i].note # Blank => NoteLives(notes[i], f[n])
           T == {n \in Nat : n <= Len(notes) => P(n)}
<1>2. P(0)
  BY <1>1 DEF DedupeNotesStep
<1>3. ASSUME NEW n \in Nat, n + 1 <= Len(notes), P(n) PROVE P(n + 1)
  <2>1. /\ n + 1 \in 0..Len(notes) /\ n + 1 # 0 /\ (n + 1) - 1 = n
        /\ \A i \in 1..(n + 1) : notes[i] \in NoteRow
    BY <1>3
  <2>2. f[n + 1] = DedupeNotesStep(f, n + 1, notes)
    BY <1>1, <2>1
  <2>3. f[n + 1] = MergeNote(f[n], notes[n + 1])
    BY <2>1, <2>2 DEF DedupeNotesStep
  <2>4. notes[n + 1] \in NoteRow /\ f[n] \in Seq(NoteRow)
    BY <1>3, <2>1
  <2>5. /\ f[n + 1] \in Seq(NoteRow)
        /\ \A r \in NoteRow : NoteLives(r, f[n]) => NoteLives(r, f[n + 1])
        /\ notes[n + 1].note # Blank => NoteLives(notes[n + 1], f[n + 1])
    BY <2>3, <2>4, MergedNote
  <2>6. ASSUME NEW i \in 1..(n + 1), notes[i].note # Blank PROVE NoteLives(notes[i], f[n + 1])
    <3>1. CASE i = n + 1
      BY <2>5, <2>6, <3>1
    <3>2. CASE i # n + 1
      <4>1. i \in 1..n
        BY <3>2
      <4>2. NoteLives(notes[i], f[n]) /\ notes[i] \in NoteRow
        BY <1>3, <2>1, <2>6, <4>1
      <4> QED BY <2>5, <4>2
    <3> QED BY <3>1, <3>2
  <2> QED BY <2>5, <2>6
<1>4. \A n \in Nat : n \in T
  <2>1. 0 \in T /\ \A n \in Nat : n \in T => n + 1 \in T
    BY <1>2, <1>3
  <2> HIDE DEF T
  <2> QED BY <2>1, Induction
<1>5. P(Len(notes))
  BY <1>4
<1>6. \A i \in DOMAIN notes : notes[i].note # Blank => NoteLives(notes[i], DedupeNotes(notes))
  BY <1>1, <1>5
<1>7. NotesSurvive(notes, DedupeNotes(notes))
  BY <1>6, Zenon DEF NotesSurvive, NoteLives
<1> QED BY <1>1, <1>5, <1>7

(* A change leaves one of its component that says as much.                 *)
ChangeLives(r, kept) ==
    \E j \in DOMAIN kept :
        /\ Compared(kept[j].component) = Compared(r.component)
        /\ Completeness(kept[j]) >= Completeness(r)

LEMMA CompletenessType ==
    ASSUME NEW a \in ChangeRow
    PROVE  Completeness(a) \in Nat
<1>1. IsFiniteSet(a.change)
  <2>1. a.change \in SUBSET Words
    BY DEF ChangeRow, Texts
  <2> QED BY <2>1, PayloadAssumption, FS_Subset
<1>2. Cardinality(a.change) \in Nat
  BY <1>1, FS_CardinalityType
<1> QED BY <1>2 DEF Completeness, ChangeRow

(* Of two changes that overlap, the one preferred says as much as both.    *)
LEMMA PreferredChange ==
    ASSUME NEW a \in ChangeRow, NEW b \in ChangeRow, SetupChangesOverlap(a, b)
    PROVE  LET c == PreferMoreCompleteSetupChange(a, b) IN
           /\ c \in ChangeRow
           /\ Compared(c.component) = Compared(a.component)
           /\ Compared(a.component) = Compared(b.component)
           /\ Completeness(c) >= Completeness(a) /\ Completeness(c) >= Completeness(b)
<1>1. Completeness(a) \in Nat /\ Completeness(b) \in Nat
  BY CompletenessType
<1> QED BY <1>1 DEF PreferMoreCompleteSetupChange, SetupChangesOverlap

(* Merging a change leaves, for each change kept and for the one merged,   *)
(* one of its component that says as much.                                 *)
LEMMA MergedChange ==
    ASSUME NEW kept \in Seq(ChangeRow), NEW row \in ChangeRow
    PROVE  /\ MergeSetupChange(kept, row) \in Seq(ChangeRow)
           /\ \A r \in ChangeRow :
                ChangeLives(r, kept) => ChangeLives(r, MergeSetupChange(kept, row))
           /\ row.change # Blank => ChangeLives(row, MergeSetupChange(kept, row))
<1> DEFINE preferred == [i \in {k \in DOMAIN kept : SetupChangesOverlap(kept[k], row)} |->
                            PreferMoreCompleteSetupChange(kept[i], row)]
           next == MergeSetupChange(kept, row)
<1>1. CASE row.component = Blank /\ row.change = Blank
  BY <1>1 DEF MergeSetupChange
<1>2. CASE ~ (row.component = Blank /\ row.change = Blank)
  <2>1. next = Merged(kept, row, preferred)
    BY <1>2 DEF MergeSetupChange
  <2>2. /\ DOMAIN preferred \subseteq DOMAIN kept
        /\ \A i \in DOMAIN preferred :
             /\ SetupChangesOverlap(kept[i], row)
             /\ preferred[i] = PreferMoreCompleteSetupChange(kept[i], row)
    OBVIOUS
  <2> HIDE DEF preferred, next
  <2>3. CASE next = Append(kept, row)
    <3>1. /\ next \in Seq(ChangeRow) /\ Len(kept) + 1 \in DOMAIN next
          /\ next[Len(kept) + 1] = row
          /\ \A j \in DOMAIN kept : j \in DOMAIN next /\ next[j] = kept[j]
      BY <2>3
    <3>2. Completeness(row) \in Nat
      BY CompletenessType
    <3>3. ChangeLives(row, next)
      BY <3>1, <3>2 DEF ChangeLives
    <3>4. \A r \in ChangeRow : ChangeLives(r, kept) => ChangeLives(r, next)
      BY <3>1 DEF ChangeLives
    <3> QED BY <3>1, <3>3, <3>4 DEF next
  <2>4. ASSUME NEW first \in DOMAIN preferred,
               next = [kept EXCEPT ![first] = preferred[first]]
        PROVE  /\ next \in Seq(ChangeRow)
               /\ \A r \in ChangeRow : ChangeLives(r, kept) => ChangeLives(r, next)
               /\ ChangeLives(row, next)
    <3>1. first \in DOMAIN kept /\ kept[first] \in ChangeRow
          /\ SetupChangesOverlap(kept[first], row)
          /\ preferred[first] = PreferMoreCompleteSetupChange(kept[first], row)
      BY <2>2, <2>4
    <3>2. /\ preferred[first] \in ChangeRow
          /\ Compared(preferred[first].component) = Compared(kept[first].component)
          /\ Compared(kept[first].component) = Compared(row.component)
          /\ Completeness(preferred[first]) >= Completeness(kept[first])
          /\ Completeness(preferred[first]) >= Completeness(row)
      BY <3>1, PreferredChange
    <3>3. /\ next \in Seq(ChangeRow) /\ DOMAIN next = DOMAIN kept
          /\ next[first] = preferred[first]
          /\ \A j \in DOMAIN kept : j # first => next[j] = kept[j]
      BY <2>4, <3>1, <3>2
    <3>4. ChangeLives(row, next)
      BY <3>1, <3>2, <3>3 DEF ChangeLives
    <3>5. ASSUME NEW r \in ChangeRow, ChangeLives(r, kept) PROVE ChangeLives(r, next)
      <4>1. PICK j \in DOMAIN kept : /\ Compared(kept[j].component) = Compared(r.component)
                                     /\ Completeness(kept[j]) >= Completeness(r)
        BY <3>5 DEF ChangeLives
      <4>2. CASE j # first
        BY <3>3, <4>1, <4>2 DEF ChangeLives
      <4>3. CASE j = first
        <5>1. /\ Completeness(preferred[first]) \in Nat /\ Completeness(kept[first]) \in Nat
              /\ Completeness(r) \in Nat
          BY <3>1, <3>2, CompletenessType
        <5>2. /\ Compared(next[first].component) = Compared(r.component)
              /\ Completeness(next[first]) >= Completeness(r)
          BY <3>2, <3>3, <4>1, <4>3, <5>1
        <5> QED BY <3>1, <3>3, <5>2 DEF ChangeLives
      <4> QED BY <4>2, <4>3
    <3> QED BY <3>3, <3>4, <3>5
  <2>5. \/ next = Append(kept, row)
        \/ \E first \in DOMAIN preferred : next = [kept EXCEPT ![first] = preferred[first]]
    BY <2>1, <2>2, MergedRows
  <2> QED BY <2>3, <2>4, <2>5 DEF next
<1> QED BY <1>1, <1>2

(* No change a draft holds goes unsaid after the deduplication.            *)
LEMMA ChangesOutliveDedupe ==
    ASSUME NEW changes \in Seq(ChangeRow)
    PROVE  /\ DedupeSetupChanges(changes) \in Seq(ChangeRow)
           /\ ChangesSurvive(changes, DedupeSetupChanges(changes))
<1>1. PICK f : /\ f = [n \in 0..Len(changes) |-> DedupeChangesStep(f, n, changes)]
               /\ DedupeSetupChanges(changes) = f[Len(changes)]
  BY ChangesLoop
<1> DEFINE P(n) == /\ f[n] \in Seq(ChangeRow)
                   /\ \A i \in 1..n :
                        changes[i].change # Blank => ChangeLives(changes[i], f[n])
           T == {n \in Nat : n <= Len(changes) => P(n)}
<1>2. P(0)
  BY <1>1 DEF DedupeChangesStep
<1>3. ASSUME NEW n \in Nat, n + 1 <= Len(changes), P(n) PROVE P(n + 1)
  <2>1. /\ n + 1 \in 0..Len(changes) /\ n + 1 # 0 /\ (n + 1) - 1 = n
        /\ \A i \in 1..(n + 1) : changes[i] \in ChangeRow
    BY <1>3
  <2>2. f[n + 1] = DedupeChangesStep(f, n + 1, changes)
    BY <1>1, <2>1
  <2>3. f[n + 1] = MergeSetupChange(f[n], changes[n + 1])
    BY <2>1, <2>2 DEF DedupeChangesStep
  <2>4. changes[n + 1] \in ChangeRow /\ f[n] \in Seq(ChangeRow)
    BY <1>3, <2>1
  <2>5. /\ f[n + 1] \in Seq(ChangeRow)
        /\ \A r \in ChangeRow : ChangeLives(r, f[n]) => ChangeLives(r, f[n + 1])
        /\ changes[n + 1].change # Blank => ChangeLives(changes[n + 1], f[n + 1])
    BY <2>3, <2>4, MergedChange
  <2>6. ASSUME NEW i \in 1..(n + 1), changes[i].change # Blank
        PROVE  ChangeLives(changes[i], f[n + 1])
    <3>1. CASE i = n + 1
      BY <2>5, <2>6, <3>1
    <3>2. CASE i # n + 1
      <4>1. i \in 1..n
        BY <3>2
      <4>2. ChangeLives(changes[i], f[n]) /\ changes[i] \in ChangeRow
        BY <1>3, <2>1, <2>6, <4>1
      <4> QED BY <2>5, <4>2
    <3> QED BY <3>1, <3>2
  <2> QED BY <2>5, <2>6
<1>4. \A n \in Nat : n \in T
  <2>1. 0 \in T /\ \A n \in Nat : n \in T => n + 1 \in T
    BY <1>2, <1>3
  <2> HIDE DEF T
  <2> QED BY <2>1, Induction
<1>5. P(Len(changes))
  BY <1>4
<1>6. \A i \in DOMAIN changes :
         changes[i].change # Blank => ChangeLives(changes[i], DedupeSetupChanges(changes))
  BY <1>1, <1>5
<1>7. ChangesSurvive(changes, DedupeSetupChanges(changes))
  BY <1>6, Zenon DEF ChangesSurvive, ChangeLives
<1> QED BY <1>1, <1>5, <1>7

(* A warning lives on in a kept one that compares alike.                   *)
WarningLives(text, kept) == \E j \in DOMAIN kept : Compared(kept[j]) = Compared(text)

LEMMA MergedWarning ==
    ASSUME NEW kept \in Seq(Texts), NEW text \in Texts
    PROVE  /\ MergeWarning(kept, text) \in Seq(Texts)
           /\ \A t \in Texts : WarningLives(t, kept) => WarningLives(t, MergeWarning(kept, text))
           /\ text # Blank /\ text \notin LowValue => WarningLives(text, MergeWarning(kept, text))
<1>1. CASE \/ text = Blank \/ text \in LowValue
           \/ \E i \in DOMAIN kept : Compared(kept[i]) = Compared(text)
  <2>1. MergeWarning(kept, text) = kept
    BY <1>1 DEF MergeWarning
  <2> QED BY <1>1, <2>1 DEF WarningLives
<1>2. CASE ~ \/ text = Blank \/ text \in LowValue
             \/ \E i \in DOMAIN kept : Compared(kept[i]) = Compared(text)
  <2> DEFINE next == MergeWarning(kept, text)
  <2>1. next = Append(kept, text)
    BY <1>2 DEF MergeWarning
  <2> HIDE DEF next
  <2>2. /\ next \in Seq(Texts) /\ Len(kept) + 1 \in DOMAIN next /\ next[Len(kept) + 1] = text
        /\ \A j \in DOMAIN kept : j \in DOMAIN next /\ next[j] = kept[j]
    BY <2>1
  <2>3. /\ WarningLives(text, next)
        /\ \A t \in Texts : WarningLives(t, kept) => WarningLives(t, next)
    BY <2>2 DEF WarningLives
  <2> QED BY <2>2, <2>3 DEF next
<1> QED BY <1>1, <1>2

(* Collapsing loses no warning but those of low value.                     *)
LEMMA WarningsOutliveCollapse ==
    ASSUME NEW warnings \in Seq(Texts)
    PROVE  /\ CollapseWarnings(warnings) \in Seq(Texts)
           /\ WarningsSurvive(warnings, CollapseWarnings(warnings))
<1>1. PICK f : /\ f = [n \in 0..Len(warnings) |-> CollapseStep(f, n, warnings)]
               /\ CollapseWarnings(warnings) = f[Len(warnings)]
  BY WarningsLoop
<1> DEFINE Counts(i) == warnings[i] # Blank /\ warnings[i] \notin LowValue
           P(n) == /\ f[n] \in Seq(Texts)
                   /\ \A i \in 1..n : Counts(i) => WarningLives(warnings[i], f[n])
           T == {n \in Nat : n <= Len(warnings) => P(n)}
<1>2. P(0)
  BY <1>1 DEF CollapseStep
<1>3. ASSUME NEW n \in Nat, n + 1 <= Len(warnings), P(n) PROVE P(n + 1)
  <2>1. /\ n + 1 \in 0..Len(warnings) /\ n + 1 # 0 /\ (n + 1) - 1 = n
        /\ \A i \in 1..(n + 1) : warnings[i] \in Texts
    BY <1>3
  <2>2. f[n + 1] = CollapseStep(f, n + 1, warnings)
    BY <1>1, <2>1
  <2>3. f[n + 1] = MergeWarning(f[n], warnings[n + 1])
    BY <2>1, <2>2 DEF CollapseStep
  <2>4. warnings[n + 1] \in Texts /\ f[n] \in Seq(Texts)
    BY <1>3, <2>1
  <2>5. /\ f[n + 1] \in Seq(Texts)
        /\ \A t \in Texts : WarningLives(t, f[n]) => WarningLives(t, f[n + 1])
        /\ Counts(n + 1) => WarningLives(warnings[n + 1], f[n + 1])
    BY <2>3, <2>4, MergedWarning
  <2>6. ASSUME NEW i \in 1..(n + 1), Counts(i) PROVE WarningLives(warnings[i], f[n + 1])
    <3>1. CASE i = n + 1
      BY <2>5, <2>6, <3>1
    <3>2. CASE i # n + 1
      <4>1. i \in 1..n
        BY <3>2
      <4>2. WarningLives(warnings[i], f[n]) /\ warnings[i] \in Texts
        BY <1>3, <2>1, <2>6, <4>1
      <4> QED BY <2>5, <4>2
    <3> QED BY <3>1, <3>2
  <2> QED BY <2>5, <2>6
<1>4. \A n \in Nat : n \in T
  <2>1. 0 \in T /\ \A n \in Nat : n \in T => n + 1 \in T
    BY <1>2, <1>3
  <2> HIDE DEF T
  <2> QED BY <2>1, Induction
<1>5. P(Len(warnings))
  BY <1>4
<1>6. \A i \in DOMAIN warnings :
         Counts(i) => WarningLives(warnings[i], CollapseWarnings(warnings))
  BY <1>1, <1>5
<1>7. WarningsSurvive(warnings, CollapseWarnings(warnings))
  BY <1>6, Zenon DEF WarningsSurvive, WarningLives
<1> QED BY <1>1, <1>5, <1>7

-----------------------------------------------------------------------------
(* Drafts, forms and saved rows.                                           *)

LEMMA NormalizedDraft ==
    ASSUME NEW d \in Payloads
    PROVE  /\ Normalized(d) \in Payloads
           /\ NotesSurvive(d.notes, Normalized(d).notes)
           /\ ChangesSurvive(d.setup_changes, Normalized(d).setup_changes)
           /\ WarningsSurvive(d.warnings, Normalized(d).warnings)
<1>1. /\ d.notes \in Seq(NoteRow) /\ d.setup_changes \in Seq(ChangeRow)
      /\ d.warnings \in Seq(Texts)
  BY DEF Payloads
<1>2. /\ DedupeNotes(d.notes) \in Seq(NoteRow)
      /\ DedupeSetupChanges(d.setup_changes) \in Seq(ChangeRow)
      /\ CollapseWarnings(d.warnings) \in Seq(Texts)
  BY <1>1, NotesOutliveDedupe, ChangesOutliveDedupe, WarningsOutliveCollapse
<1>3. /\ Normalized(d).notes = DedupeNotes(d.notes)
      /\ Normalized(d).setup_changes = DedupeSetupChanges(d.setup_changes)
      /\ Normalized(d).warnings = CollapseWarnings(d.warnings)
      /\ Normalized(d) \in Payloads
  BY <1>2 DEF Normalized, Payloads
<1> QED BY <1>1, <1>3, NotesOutliveDedupe, ChangesOutliveDedupe, WarningsOutliveCollapse

LEMMA FirstRow ==
    ASSUME NEW S, NEW rows \in Seq(S), NEW none \in S
    PROVE  FirstOr(rows, none) \in S
BY DEF FirstOr

LEMMA DraftFillsForm ==
    ASSUME NEW d \in Payloads
    PROVE  FormOf(d) \in Forms
<1>1. ASSUME NEW p \in {"front", "rear"} PROVE Hot(d, p) \in Nat
  <2> DEFINE rows == d.tire_pressures
             places == {i \in DOMAIN rows : /\ rows[i].position = p
                                           /\ rows[i].timing = "hot"}
             hot == Kept(rows, places)
  <2>1. rows \in Seq(PressureRow)
    BY DEF Payloads
  <2>2. Hot(d, p) = FirstOr(hot, Pressure(p, "hot", NoPsi)).psi
    BY DEF Hot
  <2> HIDE DEF rows, places
  <2>3. hot \in Seq(PressureRow)
    BY <2>1, KeptRows
  <2> HIDE DEF hot
  <2>4. hot # <<>> => hot[1] \in PressureRow
    BY <2>3
  <2> QED BY <2>2, <2>4 DEF FirstOr, Pressure, PressureRow, NoPsi
<1>2. FirstOr(d.lap_times, NoLap) \in Nat
  BY FirstRow DEF Payloads, NoLap
<1>3. FirstOr(d.setup_changes, Change(Blank, Blank, 0)).change \in Texts
  <2>1. d.setup_changes \in Seq(ChangeRow) /\ Change(Blank, Blank, 0) \in ChangeRow
    BY DEF Payloads, Change, ChangeRow, Blank, Texts
  <2>2. FirstOr(d.setup_changes, Change(Blank, Blank, 0)) \in ChangeRow
    BY <2>1, FirstRow
  <2> QED BY <2>2 DEF ChangeRow
<1>4. FirstOr(d.notes, Note(Blank, Blank)).note \in Texts
  <2>1. d.notes \in Seq(NoteRow) /\ Note(Blank, Blank) \in NoteRow
    BY DEF Payloads, Note, NoteRow, Blank, Texts
  <2>2. FirstOr(d.notes, Note(Blank, Blank)) \in NoteRow
    BY <2>1, FirstRow
  <2> QED BY <2>2 DEF NoteRow
<1>5. d.session_label \in Texts /\ d.warnings \in Seq(Texts)
  BY DEF Payloads
<1> QED BY <1>1, <1>2, <1>3, <1>4, <1>5 DEF FormOf, Forms

LEMMA OneRow ==
    ASSUME NEW S, NEW row \in S, NEW present \in BOOLEAN
    PROVE  /\ OneIf(present, row) \in Seq(S)
           /\ \A i \in 1..Len(OneIf(present, row)) : present /\ OneIf(present, row)[i] = row
<1>1. CASE present
  BY <1>1 DEF OneIf
<1>2. CASE ~ present
  BY <1>2 DEF OneIf
<1> QED BY <1>1, <1>2

(* Deduplicating one row or none changes nothing.                          *)
LEMMA OneNote ==
    ASSUME NEW present \in BOOLEAN, NEW row \in NoteRow, present => row.note # Blank
    PROVE  DedupeNotes(OneIf(present, row)) = OneIf(present, row)
<1> DEFINE notes == OneIf(present, row)
<1>1. notes \in Seq(NoteRow) /\ Len(notes) \in {0, 1}
  BY DEF OneIf
<1>2. PICK f : /\ f = [n \in 0..Len(notes) |-> DedupeNotesStep(f, n, notes)]
               /\ DedupeNotes(notes) = f[Len(notes)]
  BY <1>1, NotesLoop
<1>3. f[0] = <<>>
  BY <1>1, <1>2 DEF DedupeNotesStep
<1>4. CASE ~ present
  BY <1>2, <1>3, <1>4 DEF OneIf
<1>5. CASE present
  <2>1. notes = <<row>> /\ Len(notes) = 1
    BY <1>5 DEF OneIf
  <2>2. f[1] = MergeNote(<<>>, row)
    BY <1>2, <1>3, <2>1 DEF DedupeNotesStep
  <2> DEFINE preferred == [i \in {k \in DOMAIN <<>> : NotesOverlap(<<>>[k], row)} |->
                              PreferLongerNote(<<>>[i], row)]
  <2>3. DOMAIN preferred = {}
    OBVIOUS
  <2>4. MergeNote(<<>>, row) = Merged(<<>>, row, preferred)
    BY <1>5 DEF MergeNote
  <2> HIDE DEF preferred
  <2>5. MergeNote(<<>>, row) = <<row>>
    BY <2>3, <2>4 DEF Merged
  <2> QED BY <1>2, <2>1, <2>2, <2>5
<1> QED BY <1>4, <1>5

LEMMA OneChange ==
    ASSUME NEW present \in BOOLEAN, NEW row \in ChangeRow, present => row.change # Blank
    PROVE  DedupeSetupChanges(OneIf(present, row)) = OneIf(present, row)
<1> DEFINE changes == OneIf(present, row)
<1>1. changes \in Seq(ChangeRow) /\ Len(changes) \in {0, 1}
  BY DEF OneIf
<1>2. PICK f : /\ f = [n \in 0..Len(changes) |-> DedupeChangesStep(f, n, changes)]
               /\ DedupeSetupChanges(changes) = f[Len(changes)]
  BY <1>1, ChangesLoop
<1>3. f[0] = <<>>
  BY <1>1, <1>2 DEF DedupeChangesStep
<1>4. CASE ~ present
  BY <1>2, <1>3, <1>4 DEF OneIf
<1>5. CASE present
  <2>1. changes = <<row>> /\ Len(changes) = 1
    BY <1>5 DEF OneIf
  <2>2. f[1] = MergeSetupChange(<<>>, row)
    BY <1>2, <1>3, <2>1 DEF DedupeChangesStep
  <2> DEFINE preferred == [i \in {k \in DOMAIN <<>> : SetupChangesOverlap(<<>>[k], row)} |->
                              PreferMoreCompleteSetupChange(<<>>[i], row)]
  <2>3. DOMAIN preferred = {}
    OBVIOUS
  <2>4. MergeSetupChange(<<>>, row) = Merged(<<>>, row, preferred)
    BY <1>5 DEF MergeSetupChange
  <2> HIDE DEF preferred
  <2>5. MergeSetupChange(<<>>, row) = <<row>>
    BY <2>3, <2>4 DEF Merged
  <2> QED BY <1>2, <2>1, <2>2, <2>5
<1> QED BY <1>4, <1>5

(* The batch stores every row the review form shows, as it shows it, and   *)
(* every warning that counts.                                              *)
LEMMA RowsAreTheForms ==
    ASSUME NEW form \in Forms
    PROVE  /\ PayloadOf(form) \in Payloads
           /\ RowsOf(PayloadOf(form)) \in Payloads
           /\ StoresForm(RowsOf(PayloadOf(form)), form)
<1> DEFINE p == PayloadOf(form)
           note == Note(Blank, form.riderNote)
           change == Change(Blank, form.setupChange, 0)
<1>1. /\ form.bestLap \in Nat /\ form.frontHot \in Nat /\ form.rearHot \in Nat
      /\ note \in NoteRow /\ change \in ChangeRow
  BY DEF Forms, Note, NoteRow, Change, ChangeRow, Blank, Texts
<1>2. /\ p.lap_times = OneIf(form.bestLap # NoLap, form.bestLap)
      /\ p.tire_pressures =
            OneIf(form.frontHot # NoPsi, Pressure("front", "hot", form.frontHot))
            \o OneIf(form.rearHot # NoPsi, Pressure("rear", "hot", form.rearHot))
      /\ p.setup_changes = OneIf(form.setupChange # Blank, change)
      /\ p.notes = OneIf(form.riderNote # Blank, note)
      /\ p.warnings = Kept(form.warnings, {i \in DOMAIN form.warnings :
                                              form.warnings[i] # Blank})
      /\ p.session_label = form.sessionLabel
      /\ p = [session_label |-> p.session_label, lap_times |-> p.lap_times,
              tire_pressures |-> p.tire_pressures, setup_changes |-> p.setup_changes,
              notes |-> p.notes, warnings |-> p.warnings]
  BY DEF PayloadOf
<1>3. /\ p.lap_times \in Seq(Nat)
      /\ \A i \in DOMAIN p.lap_times : p.lap_times[i] # NoLap
  BY <1>1, <1>2 DEF OneIf
<1>4. /\ p.tire_pressures \in Seq(PressureRow)
      /\ \A i \in DOMAIN p.tire_pressures : p.tire_pressures[i].psi # NoPsi
  <2> DEFINE front == Pressure("front", "hot", form.frontHot)
             rear == Pressure("rear", "hot", form.rearHot)
             ones == OneIf(form.frontHot # NoPsi, front)
             twos == OneIf(form.rearHot # NoPsi, rear)
  <2>1. /\ front \in PressureRow /\ front.psi = form.frontHot
        /\ rear \in PressureRow /\ rear.psi = form.rearHot
    BY <1>1 DEF Pressure, PressureRow
  <2> HIDE DEF front, rear
  <2>2. /\ ones \in Seq(PressureRow) /\ twos \in Seq(PressureRow)
        /\ \A i \in 1..Len(ones) : ones[i].psi # NoPsi
        /\ \A i \in 1..Len(twos) : twos[i].psi # NoPsi
    BY <2>1, OneRow
  <2>3. p.tire_pressures = ones \o twos
    BY <1>2 DEF front, rear
  <2> HIDE DEF ones, twos, p
  <2> QED BY <2>2, <2>3
<1>5. /\ p.setup_changes \in Seq(ChangeRow) /\ p.notes \in Seq(NoteRow)
      /\ p.warnings \in Seq(Texts) /\ p.session_label \in Texts
  <2>1. p.setup_changes \in Seq(ChangeRow) /\ p.notes \in Seq(NoteRow)
    BY <1>1, <1>2 DEF OneIf
  <2>2. form.warnings \in Seq(Texts) /\ form.sessionLabel \in Texts
    BY DEF Forms
  <2> HIDE DEF p
  <2> QED BY <1>2, <2>1, <2>2, KeptRows
<1>6. p \in Payloads
  BY <1>2, <1>3, <1>4, <1>5 DEF Payloads
<1>7. DedupeNotes(p.notes) = p.notes
  BY <1>1, <1>2, OneNote DEF Note
<1>8. DedupeSetupChanges(p.setup_changes) = p.setup_changes
  BY <1>1, <1>2, OneChange DEF Change
<1> HIDE DEF p
<1> DEFINE n == Normalized(p)
           r == RowsOf(p)
<1>9. /\ n \in Payloads
      /\ n.lap_times = p.lap_times /\ n.tire_pressures = p.tire_pressures
      /\ n.setup_changes = p.setup_changes /\ n.notes = p.notes
      /\ WarningsSurvive(p.warnings, n.warnings)
  <2>1. n \in Payloads /\ WarningsSurvive(p.warnings, n.warnings)
    BY <1>6, NormalizedDraft
  <2>2. /\ n.lap_times = p.lap_times /\ n.tire_pressures = p.tire_pressures
        /\ n.setup_changes = p.setup_changes /\ n.notes = p.notes
    BY <1>2, <1>7, <1>8 DEF Normalized
  <2> QED BY <2>1, <2>2
<1>10. Kept(p.lap_times, {i \in DOMAIN p.lap_times : p.lap_times[i] # NoLap}) = p.lap_times
  BY <1>3, KeptRows
<1>11. Kept(p.tire_pressures,
            {i \in DOMAIN p.tire_pressures : p.tire_pressures[i].psi # NoPsi})
         = p.tire_pressures
  BY <1>4, KeptRows
<1>12. r = [n EXCEPT !.session_label = Blank]
  <2>1. r = [n EXCEPT !.session_label = Blank,
                      !.lap_times = Kept(n.lap_times,
                          {i \in DOMAIN n.lap_times : n.lap_times[i] # NoLap}),
                      !.tire_pressures = Kept(n.tire_pressures,
                          {i \in DOMAIN n.tire_pressures : n.tire_pressures[i].psi # NoPsi})]
    BY DEF RowsOf
  <2> HIDE DEF n, r
  <2> QED BY <1>9, <1>10, <1>11, <2>1 DEF Payloads
<1> HIDE DEF n, r
<1>13. /\ r \in Payloads
       /\ r.lap_times = n.lap_times /\ r.tire_pressures = n.tire_pressures
       /\ r.setup_changes = n.setup_changes /\ r.notes = n.notes /\ r.warnings = n.warnings
  BY <1>9, <1>12 DEF Payloads, Blank, Texts
<1>14. StoresForm(r, form)
  BY <1>9, <1>13 DEF StoresForm, p
<1> QED BY <1>6, <1>13, <1>14 DEF p, r

-----------------------------------------------------------------------------
(* The inductive invariant.                                                *)

Ids       == Riders \cup {Anonymous}
Written   == Notes \cup {Empty}
Review    == [source : Written, parsed : Payloads, form : Forms]
Answered  == {"stored", "reading", "read", "missing"}
SaveSteps == Answered \cup {"sent", "refused", "done"}

ParsePress   == [at : {"sent", "asked", "ok", "refused"}, note : Written, as : Identities,
                 draft : Payloads \cup {<<>>}]
SavePress    == [at : SaveSteps, as : Identities, id : Nat, raw : Written,
                 payload : Payloads, form : Forms, source : Written, clear : BOOLEAN]
SavedSession == [user : Ids, raw : Written, rows : Payloads, press : Nat]

AgentTypes ==
    /\ rawNote \in Written /\ review \in Review
    /\ canSave \in BOOLEAN /\ overlapped \in BOOLEAN
    /\ cookies \in Identities
    /\ parses \in Seq(ParsePress \cup {Done})
    /\ saves \in Seq(SavePress)
    /\ sessions \in Seq(SavedSession)

(* What a request for a parse is, was asked about, and brings back.        *)
HeardOne(p) ==
    /\ p.at \in {"asked", "ok"} => p.note \in Notes \ OutOfScope
    /\ p.at = "ok" => \E d \in Heard[p.note] : p.draft = Normalized(d)

HeardInv == \A k \in DOMAIN parses : HeardOne(parses[k])

(* Unless a parse was pressed beside another, what is under way or in the  *)
(* form is of the note that a save would carry.                            *)
NoteInv ==
    /\ canSave => review.source \in Notes \ OutOfScope
    /\ ~ overlapped /\ canSave => review.source = rawNote
    /\ ~ overlapped => \A k \in Parsing : parses[k].note = rawNote

(* A press sends what the form held then; a clear one the note of its      *)
(* rows.                                                                   *)
PressOf(p) == p.payload = PayloadOf(p.form) /\ (p.clear => p.raw = p.source)

PressInv == \A j \in DOMAIN saves : PressOf(saves[j])

(* Each session is of one press, which the Worker has answered; an id the  *)
(* page holds is a session's, and one it has read back its rider's.        *)
SessionOf(s, p) ==
    /\ s.rows = RowsOf(p.payload) /\ s.raw = p.raw
    /\ p.at \in Answered \cup {"done"}
    /\ p.at = "stored" => s.user = p.as.user

SessionsInv ==
    \A i \in DOMAIN sessions :
        /\ sessions[i].press \in DOMAIN saves
        /\ SessionOf(sessions[i], saves[sessions[i].press])
        /\ \A j \in DOMAIN sessions : sessions[j].press = sessions[i].press => j = i

IdsInv ==
    \A j \in DOMAIN saves :
        /\ saves[j].at \in Answered => saves[j].id \in DOMAIN sessions
        /\ saves[j].at = "read" => sessions[saves[j].id].user = saves[j].as.user

ShownInv ==
    /\ saveStatus = "saved" => shown.id # 0
    /\ shown.id # 0 =>
          /\ shown.id \in DOMAIN sessions
          /\ sessions[shown.id].user = shown.user
          /\ shown.rows = sessions[shown.id].rows

AgentInv ==
    AgentTypes /\ HeardInv /\ NoteInv /\ PressInv /\ SessionsInv /\ IdsInv /\ ShownInv

-----------------------------------------------------------------------------
(* Steps of the parses.                                                    *)

(* One request for a parse moves on; while it is under way, its note is    *)
(* the one it was pressed with.                                            *)
LEMMA ParseStep ==
    ASSUME AgentInv, NEW k \in DOMAIN parses, NEW next \in ParsePress \cup {Done},
           parses' = [parses EXCEPT ![k] = next], HeardOne(next),
           next # Done => k \in Parsing /\ next.note = parses[k].note
    PROVE  /\ parses' \in Seq(ParsePress \cup {Done}) /\ DOMAIN parses' = DOMAIN parses
           /\ HeardInv'
           /\ \A i \in Parsing' : i \in Parsing /\ parses'[i].note = parses[i].note
<1>1. /\ parses' \in Seq(ParsePress \cup {Done}) /\ DOMAIN parses' = DOMAIN parses
      /\ parses'[k] = next /\ \A i \in DOMAIN parses : i # k => parses'[i] = parses[i]
  BY DEF AgentInv, AgentTypes
<1>2. ASSUME NEW i \in DOMAIN parses PROVE HeardOne(parses'[i])
  <2>1. HeardOne(parses[i])
    BY DEF AgentInv, HeardInv
  <2> QED BY <1>1, <2>1
<1>3. HeardInv'
  BY <1>1, <1>2 DEF HeardInv
<1>4. ASSUME NEW i \in Parsing' PROVE i \in Parsing /\ parses'[i].note = parses[i].note
  <2>1. i \in DOMAIN parses /\ parses'[i].at \in {"sent", "asked", "ok", "refused"}
    BY <1>1 DEF Parsing
  <2>2. CASE i = k
    <3>1. next # Done
      BY <1>1, <2>1, <2>2 DEF Done
    <3> QED BY <1>1, <2>2, <3>1
  <2>3. CASE i # k
    BY <1>1, <2>1, <2>3 DEF Parsing
  <2> QED BY <2>2, <2>3
<1> QED BY <1>1, <1>3, <1>4

(* What stays as it is when the saves, the sessions and what is displayed  *)
(* as saved do.                                                            *)
LEMMA SavesFrame ==
    ASSUME AgentInv, UNCHANGED <<saves, sessions, shown, saveStatus>>
    PROVE  PressInv' /\ SessionsInv' /\ IdsInv' /\ ShownInv'
<1>1. PressInv'
  BY DEF AgentInv, PressInv
<1>2. SessionsInv'
  BY DEF AgentInv, SessionsInv, SessionOf
<1>3. IdsInv'
  BY DEF AgentInv, IdsInv
<1>4. ShownInv'
  BY DEF AgentInv, ShownInv
<1> QED BY <1>1, <1>2, <1>3, <1>4

LEMMA ParseMovesKeep ==
    ASSUME AgentInv, NEW k \in DOMAIN parses,
           NEW at \in {"asked", "ok", "refused"}, NEW draft \in Payloads \cup {<<>>},
           parses[k].at \in {"sent", "asked"},
           at \in {"asked", "ok"} => parses[k].note \in Notes \ OutOfScope,
           at = "ok" => \E d \in Heard[parses[k].note] : draft = Normalized(d),
           ParseMoves(k, at, draft)
    PROVE  AgentInv'
<1> DEFINE next == [parses[k] EXCEPT !.at = at, !.draft = draft]
<1>1. parses[k] \in ParsePress
  BY DEF AgentInv, AgentTypes, Done
<1>2. /\ next \in ParsePress /\ next.at = at /\ next.note = parses[k].note
      /\ next.draft = draft
  BY <1>1 DEF ParsePress
<1>3. parses' = [parses EXCEPT ![k] = next]
  BY DEF ParseMoves
<1> HIDE DEF next
<1>4. HeardOne(next)
  BY <1>2 DEF HeardOne
<1>5. k \in Parsing
  BY DEF Parsing
<1>6. /\ parses' \in Seq(ParsePress \cup {Done}) /\ HeardInv'
      /\ \A i \in Parsing' : i \in Parsing /\ parses'[i].note = parses[i].note
  BY <1>2, <1>3, <1>4, <1>5, ParseStep
<1>7. /\ UNCHANGED <<rawNote, review, canSave, overlapped, cookies>>
      /\ UNCHANGED <<saves, sessions, shown, saveStatus>>
  BY DEF ParseMoves, pageVars
<1>8. AgentTypes'
  BY <1>6, <1>7 DEF AgentInv, AgentTypes
<1>9. NoteInv'
  BY <1>6, <1>7 DEF AgentInv, NoteInv
<1>10. PressInv' /\ SessionsInv' /\ IdsInv' /\ ShownInv'
  BY <1>7, SavesFrame
<1> QED BY <1>6, <1>8, <1>9, <1>10 DEF AgentInv

LEMMA HandleParseKeeps ==
    ASSUME AgentInv, NEW k \in DOMAIN parses, HandleParse(k)
    PROVE  AgentInv'
<1>1. parses[k].at = "sent"
  BY DEF HandleParse
<1>2. CASE ParseMoves(k, "refused", <<>>)
  BY <1>1, <1>2, ParseMovesKeep
<1>3. CASE InScope(parses[k].note) /\ ParseMoves(k, "asked", <<>>)
  BY <1>1, <1>3, ParseMovesKeep DEF InScope
<1>4. ASSUME InScope(parses[k].note),
             NEW d \in Heard[parses[k].note], ParseMoves(k, "ok", Normalized(d))
      PROVE  AgentInv'
  <2>1. parses[k].note \in Notes \ OutOfScope
    BY <1>4 DEF InScope
  <2>2. d \in Payloads
    BY <1>4, <2>1, TrackAgentAssumption
  <2>3. Normalized(d) \in Payloads
    BY <2>2, NormalizedDraft
  <2> QED BY <1>1, <1>4, <2>1, <2>3, ParseMovesKeep
<1> QED BY <1>2, <1>3, <1>4 DEF HandleParse

LEMMA AiAnswersKeeps ==
    ASSUME AgentInv, NEW k \in DOMAIN parses, AiAnswers(k)
    PROVE  AgentInv'
<1>1. PICK answer \in Answers :
         IF Accepted(parses[k].note, answer)
         THEN \E d \in Heard[answer.raw] : ParseMoves(k, "ok", Normalized(d))
         ELSE ParseMoves(k, "refused", <<>>)
  BY DEF AiAnswers
<1>2. parses[k].at = "asked"
  BY DEF AiAnswers
<1>3. parses[k].note \in Notes \ OutOfScope
  BY <1>2 DEF AgentInv, HeardInv, HeardOne
<1>4. CASE Accepted(parses[k].note, answer)
  <2>1. PICK d \in Heard[parses[k].note] : ParseMoves(k, "ok", Normalized(d))
    BY <1>1, <1>4 DEF Accepted
  <2>2. d \in Payloads
    BY <1>3, <2>1, TrackAgentAssumption
  <2>3. Normalized(d) \in Payloads
    BY <2>2, NormalizedDraft
  <2> QED BY <1>2, <1>3, <2>1, <2>3, ParseMovesKeep
<1>5. CASE ~ Accepted(parses[k].note, answer)
  BY <1>1, <1>2, <1>5, ParseMovesKeep
<1> QED BY <1>4, <1>5

LEMMA AiTimesOutKeeps ==
    ASSUME AgentInv, NEW k \in DOMAIN parses, AiTimesOut(k)
    PROVE  AgentInv'
BY ParseMovesKeep DEF AiTimesOut

(* A request that ends leaves the others as they were.                     *)
LEMMA ParseEnds ==
    ASSUME AgentInv, NEW k \in DOMAIN parses, parses' = [parses EXCEPT ![k] = Done]
    PROVE  /\ parses' \in Seq(ParsePress \cup {Done}) /\ HeardInv'
           /\ \A i \in Parsing' : i \in Parsing /\ parses'[i].note = parses[i].note
<1>1. HeardOne(Done)
  BY DEF HeardOne, Done
<1> QED BY <1>1, ParseStep

LEMMA ParseRepliesKeeps ==
    ASSUME AgentInv, NEW k \in DOMAIN parses, ParseReplies(k)
    PROVE  AgentInv'
<1>1. /\ parses' \in Seq(ParsePress \cup {Done}) /\ HeardInv'
      /\ \A i \in Parsing' : i \in Parsing /\ parses'[i].note = parses[i].note
  BY ParseEnds DEF ParseReplies
<1>2. /\ UNCHANGED <<rawNote, overlapped, cookies>>
      /\ UNCHANGED <<saves, sessions, shown, saveStatus>>
  BY DEF ParseReplies
<1>3. PressInv' /\ SessionsInv' /\ IdsInv' /\ ShownInv'
  BY <1>2, SavesFrame
<1>4. CASE parses[k].at = "ok"
  <2>1. review' = [source |-> parses[k].note, parsed |-> parses[k].draft,
                   form |-> FormOf(parses[k].draft)]
        /\ canSave' = TRUE
    BY <1>4 DEF ParseReplies
  <2>2. parses[k].note \in Notes \ OutOfScope
        /\ \E d \in Heard[parses[k].note] : parses[k].draft = Normalized(d)
    BY <1>4 DEF AgentInv, HeardInv, HeardOne
  <2>3. parses[k].draft \in Payloads
    <3>1. PICK d \in Heard[parses[k].note] : parses[k].draft = Normalized(d)
      BY <2>2
    <3>2. d \in Payloads
      BY <2>2, TrackAgentAssumption
    <3> QED BY <3>1, <3>2, NormalizedDraft
  <2>4. FormOf(parses[k].draft) \in Forms
    BY <2>3, DraftFillsForm
  <2>5. k \in Parsing
    BY <1>4 DEF Parsing
  <2>6. AgentTypes'
    BY <1>1, <1>2, <2>1, <2>2, <2>3, <2>4 DEF AgentInv, AgentTypes, Review, Written
  <2>7. NoteInv'
    BY <1>1, <1>2, <2>1, <2>2, <2>5 DEF AgentInv, NoteInv
  <2> QED BY <1>1, <1>3, <2>6, <2>7 DEF AgentInv
<1>5. CASE parses[k].at # "ok"
  <2>1. UNCHANGED <<review, canSave>>
    BY <1>5 DEF ParseReplies
  <2>2. AgentTypes'
    BY <1>1, <1>2, <2>1 DEF AgentInv, AgentTypes
  <2>3. NoteInv'
    BY <1>1, <1>2, <2>1 DEF AgentInv, NoteInv
  <2> QED BY <1>1, <1>3, <2>2, <2>3 DEF AgentInv
<1> QED BY <1>4, <1>5

LEMMA ParseLostKeeps ==
    ASSUME AgentInv, NEW k \in DOMAIN parses, ParseLost(k)
    PROVE  AgentInv'
<1>1. /\ parses' \in Seq(ParsePress \cup {Done}) /\ HeardInv'
      /\ \A i \in Parsing' : i \in Parsing /\ parses'[i].note = parses[i].note
  BY ParseEnds DEF ParseLost
<1>2. /\ UNCHANGED <<rawNote, review, canSave, overlapped, cookies>>
      /\ UNCHANGED <<saves, sessions, shown, saveStatus>>
  BY DEF ParseLost
<1>3. PressInv' /\ SessionsInv' /\ IdsInv' /\ ShownInv'
  BY <1>2, SavesFrame
<1>4. AgentTypes'
  BY <1>1, <1>2 DEF AgentInv, AgentTypes
<1>5. NoteInv'
  BY <1>1, <1>2 DEF AgentInv, NoteInv
<1> QED BY <1>1, <1>3, <1>4, <1>5 DEF AgentInv

LEMMA ParseNoteKeeps ==
    ASSUME AgentInv, NEW n \in Written, ParseNote(n)
    PROVE  AgentInv'
<1> DEFINE request == ParseRequest(n)
<1>1. /\ request \in ParsePress /\ request.at = "sent" /\ request.note = n
  BY DEF ParseRequest, ParsePress, AgentInv, AgentTypes
<1>2. parses' = Append(parses, request) /\ parses \in Seq(ParsePress \cup {Done})
  BY DEF ParseNote, AgentInv, AgentTypes
<1> HIDE DEF request
<1>3. /\ parses' \in Seq(ParsePress \cup {Done}) /\ DOMAIN parses' = 1..(Len(parses) + 1)
      /\ DOMAIN parses = 1..Len(parses) /\ Len(parses) \in Nat
      /\ parses'[Len(parses) + 1] = request
      /\ \A i \in DOMAIN parses : parses'[i] = parses[i]
  BY <1>1, <1>2
<1>4. /\ UNCHANGED <<review, cookies>> /\ rawNote' = n /\ canSave' = FALSE
      /\ overlapped' = (Parsing # {})
      /\ UNCHANGED <<saves, sessions, shown, saveStatus>>
  BY DEF ParseNote
<1>5. HeardInv'
  <2>1. HeardOne(request)
    BY <1>1 DEF HeardOne
  <2>2. ASSUME NEW i \in DOMAIN parses' PROVE HeardOne(parses'[i])
    <3>1. CASE i \in DOMAIN parses
      <4>1. HeardOne(parses[i])
        BY <3>1 DEF AgentInv, HeardInv
      <4> QED BY <1>3, <3>1, <4>1
    <3>2. CASE i \notin DOMAIN parses
      <4>1. i = Len(parses) + 1
        BY <1>3, <3>2
      <4> QED BY <1>3, <2>1, <4>1
    <3> QED BY <3>1, <3>2
  <2> QED BY <2>2 DEF HeardInv
<1>6. PressInv' /\ SessionsInv' /\ IdsInv' /\ ShownInv'
  BY <1>4, SavesFrame
<1>7. AgentTypes'
  BY <1>3, <1>4 DEF AgentInv, AgentTypes
<1>8. ~ overlapped' => \A i \in Parsing' : parses'[i].note = rawNote'
  <2> SUFFICES ASSUME ~ overlapped', NEW i \in Parsing' PROVE parses'[i].note = n
    BY <1>4
  <2>1. Parsing = {}
    BY <1>4
  <2>2. i \in DOMAIN parses' /\ parses'[i].at \in {"sent", "asked", "ok", "refused"}
    BY DEF Parsing
  <2>3. i \notin DOMAIN parses
    BY <1>3, <2>1, <2>2 DEF Parsing
  <2>4. i = Len(parses) + 1
    BY <1>3, <2>2, <2>3
  <2> QED BY <1>1, <1>3, <2>4
<1>9. NoteInv'
  BY <1>4, <1>8 DEF NoteInv
<1> QED BY <1>5, <1>6, <1>7, <1>9 DEF AgentInv

LEMMA EditReviewKeeps ==
    ASSUME AgentInv, EditReview
    PROVE  AgentInv'
<1>1. PICK form \in Edited(review.form) : review' = [review EXCEPT !.form = form]
  BY DEF EditReview
<1>2. /\ UNCHANGED <<rawNote, canSave, overlapped, cookies, parses>>
      /\ UNCHANGED <<saves, sessions, shown, saveStatus>>
  BY DEF EditReview
<1>3. review \in Review
  BY DEF AgentInv, AgentTypes
<1>4. form \in Forms
  <2>1. PICK text \in Typed : \/ form = [review.form EXCEPT !.riderNote = text]
                             \/ form = [review.form EXCEPT !.warnings = <<text>>]
    BY DEF Edited
  <2>2. text \in Texts /\ <<text>> \in Seq(Texts) /\ review.form \in Forms
    BY <1>3, TrackAgentAssumption DEF Review
  <2> QED BY <2>1, <2>2 DEF Forms
<1>5. review' \in Review /\ review'.source = review.source
  BY <1>1, <1>3, <1>4 DEF Review
<1>6. AgentTypes'
  BY <1>2, <1>5 DEF AgentInv, AgentTypes
<1>7. HeardInv'
  BY <1>2 DEF AgentInv, HeardInv, HeardOne
<1>8. NoteInv'
  BY <1>2, <1>5 DEF AgentInv, NoteInv, Parsing
<1>9. PressInv' /\ SessionsInv' /\ IdsInv' /\ ShownInv'
  BY <1>2, SavesFrame
<1> QED BY <1>6, <1>7, <1>8, <1>9 DEF AgentInv

LEMMA SetCookiesKeep ==
    ASSUME AgentInv, NEW as \in Identities, SetCookies(as)
    PROVE  AgentInv'
<1>1. /\ UNCHANGED <<rawNote, review, canSave, overlapped, parses>> /\ cookies' = as
      /\ UNCHANGED <<saves, sessions, shown, saveStatus>>
  BY DEF SetCookies, pageVars
<1>2. AgentTypes'
  BY <1>1 DEF AgentInv, AgentTypes
<1>3. HeardInv'
  BY <1>1 DEF AgentInv, HeardInv, HeardOne
<1>4. NoteInv'
  BY <1>1 DEF AgentInv, NoteInv, Parsing
<1>5. PressInv' /\ SessionsInv' /\ IdsInv' /\ ShownInv'
  BY <1>1, SavesFrame
<1> QED BY <1>2, <1>3, <1>4, <1>5 DEF AgentInv

LEMMA OpenLinkKeeps ==
    ASSUME AgentInv, OpenLink
    PROVE  AgentInv'
<1>1. cookies \in Identities
  BY DEF AgentInv, AgentTypes
<1>2. PICK rider \in Riders \cup {cookies.user}, token \in {cookies.token, TRUE} :
         SetCookies([user |-> rider, token |-> token])
  BY DEF OpenLink
<1>3. [user |-> rider, token |-> token] \in Identities
  BY <1>1 DEF Identities
<1> QED BY <1>2, <1>3, SetCookiesKeep

LEMMA CookieExpiresKeeps ==
    ASSUME AgentInv, CookieExpires
    PROVE  AgentInv'
<1>1. cookies \in Identities
  BY DEF AgentInv, AgentTypes
<1>2. PICK rider \in {cookies.user, Anonymous}, token \in {cookies.token, FALSE} :
         SetCookies([user |-> rider, token |-> token])
  BY DEF CookieExpires
<1>3. [user |-> rider, token |-> token] \in Identities
  BY <1>1 DEF Identities
<1> QED BY <1>2, <1>3, SetCookiesKeep

-----------------------------------------------------------------------------
(* Steps of the saves.                                                     *)

(* What stays as it is when the parses and the form do.                    *)
LEMMA ParsesFrame ==
    ASSUME AgentInv, UNCHANGED <<rawNote, review, canSave, overlapped, parses>>
    PROVE  HeardInv' /\ NoteInv'
<1>1. HeardInv'
  BY DEF AgentInv, HeardInv, HeardOne
<1>2. NoteInv'
  BY DEF AgentInv, NoteInv, Parsing
<1> QED BY <1>1, <1>2

(* A save the Worker has answered moves on and stores nothing more; one it *)
(* has not has no session, and gets none by ending.                        *)
MovesOn(now, next) ==
    /\ next.raw = now.raw /\ next.payload = now.payload /\ next.form = now.form
    /\ next.source = now.source /\ next.clear = now.clear
    /\ next.at \in {"refused", "done", "reading", "read", "missing"}
    /\ now.at \in Answered \cup {"done"} => next.at # "refused"
    /\ next.at \in Answered => next.id \in DOMAIN sessions
    /\ next.at = "read" => sessions[next.id].user = next.as.user

LEMMA SaveStep ==
    ASSUME AgentInv, NEW j \in DOMAIN saves, NEW next \in SavePress,
           saves' = [saves EXCEPT ![j] = next], UNCHANGED sessions,
           MovesOn(saves[j], next)
    PROVE  /\ saves' \in Seq(SavePress)
           /\ PressInv' /\ SessionsInv' /\ IdsInv'
<1>1. /\ saves' \in Seq(SavePress) /\ DOMAIN saves' = DOMAIN saves
      /\ saves'[j] = next /\ \A i \in DOMAIN saves : i # j => saves'[i] = saves[i]
  BY DEF AgentInv, AgentTypes
<1>2. PressInv'
  <2>1. ASSUME NEW i \in DOMAIN saves PROVE PressOf(saves'[i])
    <3>1. CASE i = j
      BY <1>1, <3>1 DEF AgentInv, PressInv, PressOf, MovesOn
    <3>2. CASE i # j
      BY <1>1, <3>2 DEF AgentInv, PressInv
    <3> QED BY <3>1, <3>2
  <2> QED BY <1>1, <2>1 DEF PressInv
<1>3. SessionsInv'
  <2>1. ASSUME NEW i \in DOMAIN sessions
        PROVE  /\ sessions[i].press \in DOMAIN saves
               /\ SessionOf(sessions[i], saves'[sessions[i].press])
    <3>1. /\ sessions[i].press \in DOMAIN saves
          /\ SessionOf(sessions[i], saves[sessions[i].press])
      BY DEF AgentInv, SessionsInv
    <3>2. CASE sessions[i].press = j
      <4>1. /\ next.at \in Answered \cup {"done"} /\ next.at # "stored"
        BY <3>1, <3>2 DEF MovesOn, SessionOf, Answered
      <4> QED BY <1>1, <3>1, <3>2, <4>1 DEF MovesOn, SessionOf
    <3>3. CASE sessions[i].press # j
      BY <1>1, <3>1, <3>3
    <3> QED BY <3>1, <3>2, <3>3
  <2>2. \A i, k \in DOMAIN sessions : sessions[k].press = sessions[i].press => k = i
    BY DEF AgentInv, SessionsInv
  <2> QED BY <1>1, <2>1, <2>2 DEF SessionsInv
<1>4. IdsInv'
  <2>1. ASSUME NEW i \in DOMAIN saves
        PROVE  /\ saves'[i].at \in Answered => saves'[i].id \in DOMAIN sessions
               /\ saves'[i].at = "read" => sessions[saves'[i].id].user = saves'[i].as.user
    <3>1. CASE i = j
      BY <1>1, <3>1 DEF MovesOn
    <3>2. CASE i # j
      BY <1>1, <3>2 DEF AgentInv, IdsInv
    <3> QED BY <3>1, <3>2
  <2> QED BY <1>1, <2>1 DEF IdsInv
<1> QED BY <1>1, <1>2, <1>3, <1>4

LEMMA SavePressAt ==
    ASSUME AgentInv, NEW j \in DOMAIN saves
    PROVE  /\ saves[j] \in SavePress
           /\ saves[j].at \in SaveSteps /\ saves[j].as \in Identities /\ saves[j].id \in Nat
<1>1. saves[j] \in SavePress
  BY DEF AgentInv, AgentTypes
<1> QED BY <1>1 DEF SavePress

(* The shape every step of a save but the batch has.                       *)
LEMMA SaveStepKeeps ==
    ASSUME AgentInv, NEW j \in DOMAIN saves, NEW next \in SavePress,
           saves' = [saves EXCEPT ![j] = next], UNCHANGED sessions,
           MovesOn(saves[j], next),
           UNCHANGED <<rawNote, review, canSave, overlapped, parses, cookies>>, ShownInv'
    PROVE  AgentInv'
<1>1. saves' \in Seq(SavePress) /\ PressInv' /\ SessionsInv' /\ IdsInv'
  BY SaveStep
<1>2. HeardInv' /\ NoteInv'
  BY ParsesFrame
<1>3. AgentTypes'
  BY <1>1 DEF AgentInv, AgentTypes
<1> QED BY <1>1, <1>2, <1>3 DEF AgentInv

LEMMA FinishedSave ==
    ASSUME AgentInv, NEW j \in DOMAIN saves
    PROVE  /\ Finished(saves[j]) \in SavePress
           /\ MovesOn(saves[j], Finished(saves[j]))
<1>1. saves[j] \in SavePress
  BY SavePressAt
<1>2. /\ Finished(saves[j]) \in SavePress /\ Finished(saves[j]).at = "done"
      /\ Finished(saves[j]).raw = saves[j].raw
      /\ Finished(saves[j]).payload = saves[j].payload
      /\ Finished(saves[j]).form = saves[j].form
      /\ Finished(saves[j]).source = saves[j].source
      /\ Finished(saves[j]).clear = saves[j].clear
  BY <1>1 DEF Finished, Nobody, Identities, SavePress, SaveSteps
<1> QED BY <1>2 DEF MovesOn, Answered

(* A save that moves to another step, its id set.                          *)
LEMMA SaveMoved ==
    ASSUME AgentInv, NEW j \in DOMAIN saves, NEW at \in SaveSteps, NEW id \in Nat,
           SaveMoves(j, at, id)
    PROVE  LET next == [saves[j] EXCEPT !.at = at, !.id = id] IN
           /\ saves' = [saves EXCEPT ![j] = next] /\ next \in SavePress
           /\ next.at = at /\ next.id = id /\ next.as = saves[j].as
           /\ next.raw = saves[j].raw /\ next.payload = saves[j].payload
           /\ next.form = saves[j].form
           /\ next.source = saves[j].source /\ next.clear = saves[j].clear
           /\ UNCHANGED <<rawNote, review, canSave, overlapped, parses, cookies>>
           /\ UNCHANGED <<shown, saveStatus>>
<1>1. saves[j] \in SavePress
  BY SavePressAt
<1> QED BY <1>1 DEF SaveMoves, SavePress, pageVars

LEMMA RefusedKeeps ==
    ASSUME AgentInv, NEW j \in DOMAIN saves, saves[j].at = "sent",
           SaveMoves(j, "refused", 0), UNCHANGED sessions
    PROVE  AgentInv'
<1> DEFINE next == [saves[j] EXCEPT !.at = "refused", !.id = 0]
<1>1. /\ saves' = [saves EXCEPT ![j] = next] /\ next \in SavePress
      /\ next.at = "refused"
      /\ next.raw = saves[j].raw /\ next.payload = saves[j].payload
      /\ next.form = saves[j].form
      /\ next.source = saves[j].source /\ next.clear = saves[j].clear
      /\ UNCHANGED <<rawNote, review, canSave, overlapped, parses, cookies>>
      /\ UNCHANGED <<shown, saveStatus>>
  <2>1. saves[j] \in SavePress
    BY SavePressAt
  <2> QED BY <2>1 DEF SaveMoves, SavePress, SaveSteps, pageVars
<1> HIDE DEF next
<1>2. MovesOn(saves[j], next)
  BY <1>1 DEF MovesOn, Answered
<1>3. ShownInv'
  BY <1>1 DEF AgentInv, ShownInv
<1> QED BY <1>1, <1>2, <1>3, SaveStepKeeps

(* The batch: one more session, of a press that had none.                  *)
LEMMA StoredKeeps ==
    ASSUME AgentInv, NEW j \in DOMAIN saves, saves[j].at = "sent",
           sessions' = Append(sessions, Stored(j)), SaveMoves(j, "stored", Len(sessions'))
    PROVE  AgentInv'
<1> DEFINE next == [saves[j] EXCEPT !.at = "stored", !.id = Len(sessions')]
           s == Stored(j)
<1>1. saves[j] \in SavePress
  BY SavePressAt
<1>2. /\ s.user = saves[j].as.user /\ s.raw = saves[j].raw /\ s.press = j
      /\ s.rows = RowsOf(saves[j].payload) /\ s \in SavedSession
  <2>1. saves[j].payload = PayloadOf(saves[j].form) /\ saves[j].form \in Forms
    BY <1>1 DEF AgentInv, PressInv, PressOf, SavePress
  <2>2. RowsOf(saves[j].payload) \in Payloads
    BY <2>1, RowsAreTheForms
  <2>3. saves[j].as.user \in Ids /\ saves[j].raw \in Written /\ j \in Nat
    BY <1>1 DEF SavePress, Identities, Ids, AgentInv, AgentTypes
  <2> QED BY <2>2, <2>3 DEF Stored, SavedSession
<1> HIDE DEF s
<1>3. /\ sessions' \in Seq(SavedSession) /\ Len(sessions) \in Nat
      /\ DOMAIN sessions = 1..Len(sessions) /\ DOMAIN sessions' = 1..(Len(sessions) + 1)
      /\ Len(sessions') = Len(sessions) + 1 /\ sessions'[Len(sessions) + 1] = s
      /\ \A i \in DOMAIN sessions : sessions'[i] = sessions[i]
  <2>1. sessions \in Seq(SavedSession) /\ sessions' = Append(sessions, s)
    BY DEF AgentInv, AgentTypes, s
  <2> QED BY <1>2, <2>1
<1>4. /\ saves' = [saves EXCEPT ![j] = next] /\ next \in SavePress
      /\ next.at = "stored" /\ next.id = Len(sessions') /\ next.as = saves[j].as
      /\ next.raw = saves[j].raw /\ next.payload = saves[j].payload
      /\ next.form = saves[j].form
      /\ next.source = saves[j].source /\ next.clear = saves[j].clear
      /\ UNCHANGED <<rawNote, review, canSave, overlapped, parses, cookies>>
      /\ UNCHANGED <<shown, saveStatus>>
  <2>1. Len(sessions') \in Nat /\ "stored" \in SaveSteps
    BY <1>3 DEF SaveSteps, Answered
  <2> QED BY <2>1, SaveMoved
<1> HIDE DEF next
<1>5. /\ saves' \in Seq(SavePress) /\ DOMAIN saves' = DOMAIN saves
      /\ saves'[j] = next /\ \A i \in DOMAIN saves : i # j => saves'[i] = saves[i]
  BY <1>4 DEF AgentInv, AgentTypes
<1>6. AgentTypes'
  BY <1>3, <1>4, <1>5 DEF AgentInv, AgentTypes
<1>7. HeardInv' /\ NoteInv'
  BY <1>4, ParsesFrame
<1>8. PressInv'
  <2>1. ASSUME NEW i \in DOMAIN saves PROVE PressOf(saves'[i])
    <3>1. CASE i = j
      BY <1>4, <1>5, <3>1 DEF AgentInv, PressInv, PressOf
    <3>2. CASE i # j
      BY <1>5, <3>2 DEF AgentInv, PressInv
    <3> QED BY <3>1, <3>2
  <2> QED BY <1>5, <2>1 DEF PressInv
<1>9. ASSUME NEW i \in DOMAIN sessions
      PROVE  /\ sessions[i].press \in DOMAIN saves /\ sessions[i].press # j
             /\ SessionOf(sessions[i], saves[sessions[i].press])
             /\ \A k \in DOMAIN sessions : sessions[k].press = sessions[i].press => k = i
  <2>1. /\ sessions[i].press \in DOMAIN saves
        /\ SessionOf(sessions[i], saves[sessions[i].press])
        /\ \A k \in DOMAIN sessions : sessions[k].press = sessions[i].press => k = i
    BY DEF AgentInv, SessionsInv
  <2>2. sessions[i].press # j
    BY <2>1 DEF SessionOf, Answered
  <2> QED BY <2>1, <2>2
<1>10. SessionsInv'
  <2>1. ASSUME NEW i \in DOMAIN sessions'
        PROVE  /\ sessions'[i].press \in DOMAIN saves
               /\ SessionOf(sessions'[i], saves'[sessions'[i].press])
               /\ \A k \in DOMAIN sessions' : sessions'[k].press = sessions'[i].press => k = i
    <3>1. CASE i \in DOMAIN sessions
      <4>1. /\ sessions'[i] = sessions[i] /\ saves'[sessions[i].press] = saves[sessions[i].press]
        BY <1>3, <1>5, <1>9, <3>1
      <4>2. \A k \in DOMAIN sessions' : k \notin DOMAIN sessions => sessions'[k].press = j
        BY <1>2, <1>3
      <4>3. \A k \in DOMAIN sessions' : sessions'[k].press = sessions'[i].press => k = i
        BY <1>3, <1>9, <3>1, <4>1, <4>2
      <4> QED BY <1>9, <3>1, <4>1, <4>3
    <3>2. CASE i \notin DOMAIN sessions
      <4>1. i = Len(sessions) + 1 /\ sessions'[i] = s
        BY <1>3, <3>2
      <4>2. SessionOf(s, saves'[j])
        BY <1>2, <1>4, <1>5 DEF SessionOf, Answered
      <4>3. \A k \in DOMAIN sessions' : sessions'[k].press = j => k = i
        BY <1>3, <1>9, <4>1
      <4> QED BY <1>2, <4>1, <4>2, <4>3
    <3> QED BY <3>1, <3>2
  <2> QED BY <1>5, <2>1 DEF SessionsInv
<1>11. IdsInv'
  <2>1. ASSUME NEW i \in DOMAIN saves
        PROVE  /\ saves'[i].at \in Answered => saves'[i].id \in DOMAIN sessions'
               /\ saves'[i].at = "read" => sessions'[saves'[i].id].user = saves'[i].as.user
    <3>1. CASE i = j
      BY <1>3, <1>4, <1>5, <3>1
    <3>2. CASE i # j
      <4>1. /\ saves[i].at \in Answered => saves[i].id \in DOMAIN sessions
            /\ saves[i].at = "read" => sessions[saves[i].id].user = saves[i].as.user
        BY DEF AgentInv, IdsInv
      <4>2. saves[i].at = "read" => saves[i].at \in Answered
        BY DEF Answered
      <4> QED BY <1>3, <1>5, <3>2, <4>1, <4>2
    <3> QED BY <3>1, <3>2
  <2> QED BY <1>5, <2>1 DEF IdsInv
<1>12. ShownInv'
  BY <1>3, <1>4 DEF AgentInv, ShownInv
<1> QED BY <1>6, <1>7, <1>8, <1>10, <1>11, <1>12 DEF AgentInv

LEMMA HandleSaveKeeps ==
    ASSUME AgentInv, NEW j \in DOMAIN saves, HandleSave(j)
    PROVE  AgentInv'
<1>1. CASE Allowed(saves[j].as) /\ saves[j].raw # Empty
  BY <1>1, StoredKeeps DEF HandleSave
<1>2. CASE ~ (Allowed(saves[j].as) /\ saves[j].raw # Empty)
  BY <1>2, RefusedKeeps DEF HandleSave
<1> QED BY <1>1, <1>2

LEMMA SaveBatchFailsKeeps ==
    ASSUME AgentInv, NEW j \in DOMAIN saves, SaveBatchFails(j)
    PROVE  AgentInv'
BY RefusedKeeps DEF SaveBatchFails

LEMMA SaveReviewedKeeps ==
    ASSUME AgentInv, SaveReviewed
    PROVE  AgentInv'
<1>1. PICK raw \in NotesToSave : saves' = Append(saves, SaveRequest(raw))
  BY DEF SaveReviewed
<1> DEFINE request == SaveRequest(raw)
<1>2. /\ canSave /\ saveStatus' = "saving"
      /\ UNCHANGED <<rawNote, review, canSave, overlapped, parses, cookies, sessions, shown>>
  BY DEF SaveReviewed
<1>3. raw \in Written /\ (rawNote # Empty => raw = rawNote)
  BY DEF NotesToSave, AgentInv, AgentTypes, Written
<1>4. /\ request \in SavePress /\ request.at = "sent"
      /\ request.raw = raw /\ request.source = review.source
      /\ request.clear = (overlapped = FALSE)
      /\ request.payload = PayloadOf(request.form)
  <2>1. review.form \in Forms /\ review.source \in Written /\ overlapped \in BOOLEAN
        /\ cookies \in Identities
    BY DEF AgentInv, AgentTypes, Review
  <2>2. PayloadOf(review.form) \in Payloads
    BY <2>1, RowsAreTheForms
  <2>3. (~ overlapped) \in BOOLEAN /\ (~ overlapped) = (overlapped = FALSE)
    BY <2>1
  <2> QED BY <1>3, <2>1, <2>2, <2>3 DEF SaveRequest, SavePressed, SavePress, SaveSteps
<1> HIDE DEF request
<1>5. PressOf(request)
  <2> SUFFICES ASSUME request.clear PROVE raw = review.source
    BY <1>4 DEF PressOf
  <2>1. ~ overlapped
    BY <1>4
  <2>2. review.source = rawNote /\ review.source \in Notes
    BY <1>2, <2>1 DEF AgentInv, NoteInv
  <2> QED BY <1>3, <2>2, TrackAgentAssumption
<1>6. /\ saves' \in Seq(SavePress) /\ Len(saves) \in Nat
      /\ DOMAIN saves = 1..Len(saves) /\ DOMAIN saves' = 1..(Len(saves) + 1)
      /\ saves'[Len(saves) + 1] = request
      /\ \A i \in DOMAIN saves : saves'[i] = saves[i]
  <2>1. saves \in Seq(SavePress) /\ saves' = Append(saves, request)
    BY <1>1 DEF AgentInv, AgentTypes, request
  <2> QED BY <1>4, <2>1
<1>7. AgentTypes'
  BY <1>2, <1>6 DEF AgentInv, AgentTypes
<1>8. HeardInv' /\ NoteInv'
  BY <1>2, ParsesFrame
<1>9. PressInv'
  <2>1. ASSUME NEW i \in DOMAIN saves' PROVE PressOf(saves'[i])
    <3>1. CASE i \in DOMAIN saves
      BY <1>6, <3>1 DEF AgentInv, PressInv
    <3>2. CASE i \notin DOMAIN saves
      <4>1. saves'[i] = request
        BY <1>6, <3>2
      <4> QED BY <1>5, <4>1
    <3> QED BY <3>1, <3>2
  <2> QED BY <2>1 DEF PressInv
<1>10. SessionsInv'
  <2>1. \A i \in DOMAIN sessions :
           /\ sessions[i].press \in DOMAIN saves
           /\ SessionOf(sessions[i], saves[sessions[i].press])
           /\ \A k \in DOMAIN sessions : sessions[k].press = sessions[i].press => k = i
    BY DEF AgentInv, SessionsInv
  <2>2. DOMAIN saves \subseteq DOMAIN saves'
    BY <1>6
  <2>3. \A i \in DOMAIN sessions :
           /\ sessions[i].press \in DOMAIN saves'
           /\ SessionOf(sessions[i], saves'[sessions[i].press])
    BY <1>6, <2>1, <2>2
  <2> QED BY <1>2, <2>1, <2>3 DEF SessionsInv
<1>11. IdsInv'
  <2>1. ASSUME NEW i \in DOMAIN saves'
        PROVE  /\ saves'[i].at \in Answered => saves'[i].id \in DOMAIN sessions
               /\ saves'[i].at = "read" => sessions[saves'[i].id].user = saves'[i].as.user
    <3>1. CASE i \in DOMAIN saves
      BY <1>6, <3>1 DEF AgentInv, IdsInv
    <3>2. CASE i \notin DOMAIN saves
      <4>1. saves'[i] = request
        BY <1>6, <3>2
      <4> QED BY <1>4, <4>1 DEF Answered
    <3> QED BY <3>1, <3>2
  <2> QED BY <1>2, <2>1 DEF IdsInv
<1>12. ShownInv'
  BY <1>2 DEF AgentInv, ShownInv
<1> QED BY <1>7, <1>8, <1>9, <1>10, <1>11, <1>12 DEF AgentInv

LEMMA SaveRepliesKeeps ==
    ASSUME AgentInv, NEW j \in DOMAIN saves, SaveReplies(j)
    PROVE  AgentInv'
<1>1. UNCHANGED <<rawNote, review, canSave, overlapped, parses, cookies, sessions, shown>>
  BY DEF SaveReplies
<1>2. CASE saves[j].at = "stored"
  <2> DEFINE next == [saves[j] EXCEPT !.at = "reading", !.as = cookies]
  <2>1. saves[j] \in SavePress /\ cookies \in Identities /\ saves[j].id \in DOMAIN sessions
    BY <1>2, SavePressAt DEF AgentInv, AgentTypes, IdsInv, Answered
  <2>2. saves' = [saves EXCEPT ![j] = next] /\ UNCHANGED saveStatus
    BY <1>2 DEF SaveReplies
  <2>3. /\ next \in SavePress /\ next.at = "reading" /\ next.id = saves[j].id
        /\ next.raw = saves[j].raw /\ next.payload = saves[j].payload
        /\ next.form = saves[j].form
        /\ next.source = saves[j].source /\ next.clear = saves[j].clear
    BY <2>1 DEF SavePress, SaveSteps, Answered
  <2> HIDE DEF next
  <2>4. MovesOn(saves[j], next)
    BY <2>1, <2>3 DEF MovesOn
  <2>5. ShownInv'
    BY <1>1, <2>2 DEF AgentInv, ShownInv
  <2> QED BY <1>1, <2>2, <2>3, <2>4, <2>5, SaveStepKeeps
<1>3. CASE saves[j].at # "stored"
  <2>1. saves' = [saves EXCEPT ![j] = Finished(saves[j])] /\ saveStatus' = "error"
    BY <1>3 DEF SaveReplies
  <2>2. ShownInv'
    BY <1>1, <2>1 DEF AgentInv, ShownInv
  <2> QED BY <1>1, <2>1, <2>2, FinishedSave, SaveStepKeeps
<1> QED BY <1>2, <1>3

LEMMA HandleReadBackKeeps ==
    ASSUME AgentInv, NEW j \in DOMAIN saves, HandleReadBack(j)
    PROVE  AgentInv'
<1>1. PICK at \in {"read", "missing"} :
         /\ SaveMoves(j, at, saves[j].id)
         /\ at = "read" => sessions[saves[j].id].user = saves[j].as.user
  BY DEF HandleReadBack, Visible
<1> DEFINE next == [saves[j] EXCEPT !.at = at, !.id = saves[j].id]
<1>2. /\ saves[j].at = "reading" /\ UNCHANGED sessions
  BY DEF HandleReadBack
<1>3. saves[j].id \in Nat /\ saves[j].id \in DOMAIN sessions /\ at \in SaveSteps
  BY <1>2, SavePressAt DEF AgentInv, IdsInv, Answered, SaveSteps
<1>4. /\ saves' = [saves EXCEPT ![j] = next] /\ next \in SavePress
      /\ next.at = at /\ next.id = saves[j].id /\ next.as = saves[j].as
      /\ next.raw = saves[j].raw /\ next.payload = saves[j].payload
      /\ next.form = saves[j].form
      /\ next.source = saves[j].source /\ next.clear = saves[j].clear
      /\ UNCHANGED <<rawNote, review, canSave, overlapped, parses, cookies>>
      /\ UNCHANGED <<shown, saveStatus>>
  BY <1>1, <1>3, SaveMoved
<1> HIDE DEF next
<1>5. MovesOn(saves[j], next)
  BY <1>1, <1>3, <1>4 DEF MovesOn
<1>6. ShownInv'
  BY <1>2, <1>4 DEF AgentInv, ShownInv
<1> QED BY <1>2, <1>4, <1>5, <1>6, SaveStepKeeps

LEMMA ReadRepliesKeeps ==
    ASSUME AgentInv, NEW j \in DOMAIN saves, ReadReplies(j)
    PROVE  AgentInv'
<1>1. /\ saves[j].at \in {"read", "missing"}
      /\ saves' = [saves EXCEPT ![j] = Finished(saves[j])]
      /\ UNCHANGED <<rawNote, review, canSave, overlapped, parses, cookies, sessions>>
  BY DEF ReadReplies
<1>2. ShownInv'
  <2>1. CASE saves[j].at = "read"
    <3>1. /\ shown'.id = saves[j].id /\ shown'.user = saves[j].as.user
          /\ shown'.rows = sessions[saves[j].id].rows
      BY <2>1 DEF ReadReplies
    <3>2. /\ saves[j].id \in DOMAIN sessions /\ sessions[saves[j].id].user = saves[j].as.user
          /\ saves[j].id # 0
      BY <2>1 DEF AgentInv, IdsInv, AgentTypes, Answered
    <3> QED BY <1>1, <3>1, <3>2 DEF ShownInv
  <2>2. CASE saves[j].at # "read"
    <3>1. saveStatus' = "error" /\ UNCHANGED shown
      BY <2>2 DEF ReadReplies
    <3> QED BY <1>1, <3>1 DEF AgentInv, ShownInv
  <2> QED BY <2>1, <2>2
<1> QED BY <1>1, <1>2, FinishedSave, SaveStepKeeps

LEMMA SaveLostKeeps ==
    ASSUME AgentInv, NEW j \in DOMAIN saves, SaveLost(j)
    PROVE  AgentInv'
<1>1. /\ saves' = [saves EXCEPT ![j] = Finished(saves[j])] /\ saveStatus' = "error"
      /\ UNCHANGED <<rawNote, review, canSave, overlapped, parses, cookies, sessions, shown>>
  BY DEF SaveLost
<1>2. ShownInv'
  BY <1>1 DEF AgentInv, ShownInv
<1> QED BY <1>1, <1>2, FinishedSave, SaveStepKeeps

-----------------------------------------------------------------------------
(* The theorems.                                                           *)

LEMMA AgentInit == Init => AgentInv
<1> SUFFICES ASSUME Init PROVE AgentInv
  OBVIOUS
<1>1. cookies \in Identities
  BY DEF Init
<1>2. review \in Review
  <2> DEFINE d == [session_label |-> Blank, lap_times |-> <<>>, tire_pressures |-> <<>>,
                   setup_changes |-> <<>>, notes |-> <<>>, warnings |-> <<>>]
  <2>1. d \in Payloads
    BY DEF Payloads, Blank, Texts
  <2> HIDE DEF d
  <2>2. FormOf(d) \in Forms
    BY <2>1, DraftFillsForm
  <2> QED BY <2>1, <2>2 DEF Init, NoForm, Review, Written, d
<1>3. AgentTypes
  <2>1. parses = <<>> /\ saves = <<>> /\ sessions = <<>>
    BY DEF Init
  <2>2. /\ parses \in Seq(ParsePress \cup {Done}) /\ saves \in Seq(SavePress)
        /\ sessions \in Seq(SavedSession)
    BY <2>1
  <2> QED BY <1>1, <1>2, <2>2 DEF Init, AgentTypes, Written
<1>4. HeardInv /\ PressInv /\ SessionsInv /\ IdsInv /\ ShownInv
  BY DEF Init, HeardInv, PressInv, SessionsInv, IdsInv, ShownInv
<1>5. NoteInv
  BY DEF Init, NoteInv, Parsing
<1> QED BY <1>3, <1>4, <1>5 DEF AgentInv

LEMMA AgentStep == AgentInv /\ [Next]_vars => AgentInv'
<1> SUFFICES ASSUME AgentInv, [Next]_vars PROVE AgentInv'
  OBVIOUS
<1>1. CASE UNCHANGED vars
  <2>1. /\ UNCHANGED <<rawNote, review, canSave, overlapped, parses, cookies>>
        /\ UNCHANGED <<saves, sessions, shown, saveStatus>>
    BY <1>1 DEF vars, pageVars
  <2>2. AgentTypes'
    BY <2>1 DEF AgentInv, AgentTypes
  <2> QED BY <2>1, <2>2, ParsesFrame, SavesFrame DEF AgentInv
<1>2. ASSUME NEW n \in Notes \cup {Empty}, ParseNote(n) PROVE AgentInv'
  BY <1>2, ParseNoteKeeps DEF Written
<1>3. CASE EditReview
  BY <1>3, EditReviewKeeps
<1>4. CASE SaveReviewed
  BY <1>4, SaveReviewedKeeps
<1>5. CASE Server
  BY <1>5, HandleParseKeeps, AiTimesOutKeeps, HandleSaveKeeps, HandleReadBackKeeps DEF Server
<1>6. CASE Replies
  BY <1>6, ParseRepliesKeeps, SaveRepliesKeeps, ReadRepliesKeeps DEF Replies
<1>7. ASSUME NEW k \in DOMAIN parses, AiAnswers(k) \/ ParseLost(k) PROVE AgentInv'
  BY <1>7, AiAnswersKeeps, ParseLostKeeps
<1>8. ASSUME NEW j \in DOMAIN saves, SaveBatchFails(j) \/ SaveLost(j) PROVE AgentInv'
  BY <1>8, SaveBatchFailsKeeps, SaveLostKeeps
<1>9. CASE OpenLink \/ CookieExpires
  BY <1>9, OpenLinkKeeps, CookieExpiresKeeps
<1> QED BY <1>1, <1>2, <1>3, <1>4, <1>5, <1>6, <1>7, <1>8, <1>9 DEF Next

(* The invariant holds in every reachable state, for any number of         *)
(* presses, riders and notes and drafts of any length.                     *)
THEOREM AgentInvariant == Spec => []AgentInv
BY AgentInit, AgentStep, PTL DEF Spec

(* What a press sends is of the form it was pressed on.                    *)
LEMMA SessionStoresForm ==
    ASSUME AgentInv, NEW i \in DOMAIN sessions
    PROVE  /\ StoresForm(sessions[i].rows, saves[sessions[i].press].form)
           /\ saves[sessions[i].press].at \in Answered \cup {"done"}
<1> DEFINE p == saves[sessions[i].press]
<1>1. sessions[i].press \in DOMAIN saves /\ SessionOf(sessions[i], p)
  BY DEF AgentInv, SessionsInv
<1>2. p \in SavePress
  BY <1>1, SavePressAt
<1>3. p.payload = PayloadOf(p.form)
  BY <1>1 DEF AgentInv, PressInv, PressOf
<1> HIDE DEF p
<1>4. p.form \in Forms
  BY <1>2 DEF SavePress
<1>5. StoresForm(RowsOf(p.payload), p.form)
  BY <1>3, <1>4, RowsAreTheForms
<1> QED BY <1>1, <1>5 DEF SessionOf, p

(* What a session holds is what the form showed when its press was made:   *)
(* each row as shown, and each warning but those of low value and repeats; *)
(* not its label.  One press stores one session at most (saveReviewed,     *)
(* POST /track-agent/save).                                                *)
THEOREM SessionsAreAsReviewed == Spec => []StoredAsReviewed
<1>1. ASSUME AgentInv, NEW i \in DOMAIN sessions
      PROVE  LET s == sessions[i]  p == saves[s.press] IN
             /\ StoresForm(s.rows, p.form)
             /\ p.at \in {"stored", "reading", "read", "missing", "done"}
             /\ \A j \in DOMAIN sessions : sessions[j].press = s.press => j = i
  <2>1. \A j \in DOMAIN sessions : sessions[j].press = sessions[i].press => j = i
    BY <1>1 DEF AgentInv, SessionsInv
  <2> QED BY <1>1, <2>1, SessionStoresForm DEF Answered
<1>2. AgentInv => StoredAsReviewed
  BY <1>1 DEF StoredAsReviewed
<1> QED BY <1>2, AgentInvariant, PTL

(* Unless two parses were under way at once, a stored session's raw note   *)
(* is the one its rows were parsed from (parseNote disables Save).         *)
THEOREM RawNoteIsOfItsRows == Spec => []NoteOfRows
<1>1. AgentInv => NoteOfRows
  BY DEF AgentInv, SessionsInv, SessionOf, PressInv, PressOf, NoteOfRows
<1> QED BY <1>1, AgentInvariant, PTL

(* What the page displays as saved was stored for the id it was read back  *)
(* for and is what one press previewed, its label and warnings of low      *)
(* value apart (getTrackAgentSession).                                     *)
THEOREM RidersReadTheirOwn == Spec => []ReadBackIsOwn
<1>1. AgentInv => ReadBackIsOwn
  BY SessionStoresForm DEF AgentInv, ShownInv, ReadBackIsOwn
<1> QED BY <1>1, AgentInvariant, PTL

(* Of what the provider heard the reply still has every note, inside one   *)
(* that compares as holding it, a change of each component at least as     *)
(* long as any, and every warning that counts, however many rows a draft   *)
(* has and in whatever order (dedupeNotes, dedupeSetupChanges,             *)
(* collapseWarnings).  Texts that differ in punctuation alone compare      *)
(* alike.                                                                  *)
THEOREM NothingHeardIsLost == Spec => []HeardSurvives
<1>1. ASSUME AgentInv, NEW k \in DOMAIN parses, parses[k].at = "ok"
      PROVE  \E d \in Heard[parses[k].note] :
                /\ NotesSurvive(d.notes, parses[k].draft.notes)
                /\ ChangesSurvive(d.setup_changes, parses[k].draft.setup_changes)
                /\ WarningsSurvive(d.warnings, parses[k].draft.warnings)
  <2>1. parses[k].note \in Notes \ OutOfScope
        /\ \E d \in Heard[parses[k].note] : parses[k].draft = Normalized(d)
    BY <1>1 DEF AgentInv, HeardInv, HeardOne
  <2>2. PICK d \in Heard[parses[k].note] : parses[k].draft = Normalized(d)
    BY <2>1
  <2>3. d \in Payloads
    BY <2>1, TrackAgentAssumption
  <2>4. /\ NotesSurvive(d.notes, parses[k].draft.notes)
        /\ ChangesSurvive(d.setup_changes, parses[k].draft.setup_changes)
        /\ WarningsSurvive(d.warnings, parses[k].draft.warnings)
    BY <2>2, <2>3, NormalizedDraft
  <2> QED BY <2>4
<1>2. AgentInv => HeardSurvives
  BY <1>1 DEF HeardSurvives
<1> QED BY <1>2, AgentInvariant, PTL

-----------------------------------------------------------------------------
(* Both pages.                                                             *)

(* A step of the Worker is a step of one page, and leaves the other alone. *)
LEMMA EitherPageSteps ==
    ASSUME [WorkerNext]_workerVars
    PROVE  [Next]_vars /\ [AdvisorNext]_advisorVars
BY DEF WorkerNext, workerVars

(* Whichever page is opened, and whatever the other was left at, the       *)
(* Worker implements each of them: no handler of one page touches a state  *)
(* of the other (index.js routes by path and shares only the access check).*)
THEOREM ServesBothPages == WorkerSpec => Spec /\ AdvisorSpec
<1>1. WorkerInit => Init /\ AdvisorInit
  BY DEF WorkerInit
<1>2. [WorkerNext]_workerVars => [Next]_vars /\ [AdvisorNext]_advisorVars
  BY EitherPageSteps
<1> QED BY <1>1, <1>2, PTL DEF WorkerSpec, Spec, AdvisorSpec

(* The four promises above, on a Worker that serves both pages.            *)
THEOREM WorkerKeepsReviews ==
    WorkerSpec => [](StoredAsReviewed /\ NoteOfRows /\ ReadBackIsOwn /\ HeardSurvives)
BY ServesBothPages, SessionsAreAsReviewed, RawNoteIsOfItsRows, RidersReadTheirOwn,
   NothingHeardIsLost, PTL

(* Suggestions are bounded, confidence is earned, and unless two runs were *)
(* under way at once the result is of the latest, on a Worker that serves  *)
(* both pages.                                                             *)
THEOREM WorkerAdvisesSoundly ==
    WorkerSpec => [](AdviceBounded /\ ConfidenceEarned /\ AdviceOfLatestRun)
BY ServesBothPages, SuggestionsBounded, ConfidenceIsEarned, LatestAdvice, PTL
============================================================================
