----------------------------- MODULE LoadOffProofs -----------------------------
(***************************************************************************)
(* The load-off gate, proved for every effort, height and duration.        *)
(*                                                                         *)
(* First the median: it exists, by the least element a finite set of       *)
(* efforts has, and most of the readings hold it where they are.  Then the *)
(* types and the reference (Counted), and on top of them what the gate     *)
(* promises (IInv), which does not depend on what the dip is measured      *)
(* against.                                                                *)
(***************************************************************************)
EXTENDS LoadOff, FiniteSetTheorems, TLAPS

-----------------------------------------------------------------------------
(* Finite sets of integers. *)

\* A strict order on a finite set that is not empty has a first element.
LEMMA FirstExists ==
    ASSUME NEW S, IsFiniteSet(S), S # {}, NEW R,
           \A x \in S : <<x, x>> \notin R,
           \A x, y, z \in S : <<x, y>> \in R /\ <<y, z>> \in R => <<x, z>> \in R
    PROVE  \E m \in S : \A x \in S : <<x, m>> \notin R
<1> DEFINE T == {{y \in S : <<y, x>> \in R} : x \in S}
<1>1. T \subseteq FiniteSubsetsOf(S)
  BY FS_Subset DEF FiniteSubsetsOf
<1>2. T # {}
  <2>1. PICK a \in S : TRUE
    OBVIOUS
  <2>2. {y \in S : <<y, a>> \in R} \in T
    BY <2>1, Zenon
  <2> QED
    BY <2>2
<1>3. IsWellFoundedOn(StrictSubsetOrdering(S), FiniteSubsetsOf(S))
  BY FS_StrictSubsetOrderingWellFounded
<1>4. PICK U \in T : \A V \in T : ~ (<<V, U>> \in StrictSubsetOrdering(S))
  <2> HIDE DEF T
  <2> QED
    BY <1>1, <1>2, <1>3, WFMin
<1>5. PICK m \in S : U = {y \in S : <<y, m>> \in R}
  OBVIOUS
<1>6. ASSUME NEW x \in S, <<x, m>> \in R PROVE FALSE
  <2> DEFINE V == {y \in S : <<y, x>> \in R}
  <2>1. V \in T
    BY <1>6, Zenon
  <2>2. V \subseteq U /\ x \in U /\ x \notin V
    <3> HIDE DEF T
    <3> QED
      BY <1>5, <1>6, Zenon
  <2>3. <<V, U>> \in StrictSubsetOrdering(S)
    <3>1. V \in SUBSET S /\ U \in SUBSET S
      BY <1>5
    <3> HIDE DEF V, T
    <3> QED
      BY <2>2, <3>1 DEF StrictSubsetOrdering
  <2> QED
    BY <1>4, <2>1, <2>3
<1> QED
  BY <1>6

\* A finite set of integers that is not empty has a least and a greatest member.
LEMMA LeastExists ==
    ASSUME NEW S, IsFiniteSet(S), S \subseteq Int, S # {}
    PROVE  \E m \in S : \A x \in S : m <= x
<1> DEFINE R == {p \in Int \X Int : p[1] < p[2]}
<1>1. \A x, y \in S : <<x, y>> \in R <=> x < y
  OBVIOUS
<1>2. \E m \in S : \A x \in S : <<x, m>> \notin R
  <2>1. \A x \in S : <<x, x>> \notin R
    OBVIOUS
  <2>2. \A x, y, z \in S : <<x, y>> \in R /\ <<y, z>> \in R => <<x, z>> \in R
    OBVIOUS
  <2> HIDE DEF R
  <2> QED
    BY <2>1, <2>2, FirstExists
<1> HIDE DEF R
<1>3. PICK m \in S : \A x \in S : ~(x < m)
  BY <1>1, <1>2
<1>4. ASSUME NEW x \in S PROVE m <= x
  BY <1>3
<1> QED
  BY <1>4

LEMMA GreatestExists ==
    ASSUME NEW S, IsFiniteSet(S), S \subseteq Int, S # {}
    PROVE  \E m \in S : \A x \in S : x <= m
<1> DEFINE R == {p \in Int \X Int : p[1] > p[2]}
<1>1. \A x, y \in S : <<x, y>> \in R <=> x > y
  OBVIOUS
<1>2. \E m \in S : \A x \in S : <<x, m>> \notin R
  <2>1. \A x \in S : <<x, x>> \notin R
    OBVIOUS
  <2>2. \A x, y, z \in S : <<x, y>> \in R /\ <<y, z>> \in R => <<x, z>> \in R
    OBVIOUS
  <2> HIDE DEF R
  <2> QED
    BY <2>1, <2>2, FirstExists
<1> HIDE DEF R
<1>3. PICK m \in S : \A x \in S : ~(x > m)
  BY <1>1, <1>2
<1>4. ASSUME NEW x \in S PROVE x <= m
  BY <1>3
<1> QED
  BY <1>4

-----------------------------------------------------------------------------
(* Counting the readings of a window. *)

\* The windows the node can hold.
Windows == [Efforts -> 0..MaxWindow]

\* The readings of some efforts can be counted.
LEMMA ReadingsFinite ==
    ASSUME NEW counts, NEW S, S \subseteq Efforts
    PROVE  IsFiniteSet(Readings(counts, S)) /\ Count(counts, S) \in Nat
<1>1. IsFiniteSet(S)
  BY FS_Subset, EffortAssumption
<1>2. IsFiniteSet(1..MaxWindow)
  BY FS_Interval, DurationAssumption
<1>3. IsFiniteSet(S \X (1..MaxWindow))
  BY <1>1, <1>2, FS_Product
<1>4. IsFiniteSet(Readings(counts, S))
  BY <1>3, FS_Subset DEF Readings
<1> QED
  BY <1>4, FS_CardinalityType DEF Count

\* More efforts have no fewer readings.
LEMMA CountGrows ==
    ASSUME NEW counts, NEW S, NEW T, S \subseteq T, T \subseteq Efforts
    PROVE  Count(counts, S) <= Count(counts, T)
<1>1. Readings(counts, S) \subseteq Readings(counts, T)
  BY DEF Readings
<1> QED
  BY <1>1, ReadingsFinite, FS_Subset DEF Count

\* Efforts that have none in common are counted apart.
LEMMA CountAdds ==
    ASSUME NEW counts, NEW S, NEW T, S \subseteq Efforts, T \subseteq Efforts, S \cap T = {}
    PROVE  Count(counts, S \cup T) = Count(counts, S) + Count(counts, T)
<1>1. /\ Readings(counts, S \cup T) = Readings(counts, S) \cup Readings(counts, T)
      /\ Readings(counts, S) \cap Readings(counts, T) = {}
  BY DEF Readings
<1>2. IsFiniteSet(Readings(counts, S)) /\ IsFiniteSet(Readings(counts, T))
      /\ Count(counts, S) \in Nat /\ Count(counts, T) \in Nat
  BY ReadingsFinite
<1>3. Cardinality(Readings(counts, S) \cap Readings(counts, T)) = 0
  BY <1>1, FS_EmptySet
<1>4. Cardinality(Readings(counts, S) \cup Readings(counts, T))
        = Count(counts, S) + Count(counts, T) - 0
  BY <1>2, <1>3, FS_Union DEF Count
<1>5. Count(counts, S) + Count(counts, T) - 0 = Count(counts, S) + Count(counts, T)
  BY <1>2
<1>6. Count(counts, S \cup T) = Cardinality(Readings(counts, S) \cup Readings(counts, T))
  BY <1>1, Zenon DEF Count
<1> QED
  BY <1>4, <1>5, <1>6, Zenon

\* An effort has as many readings as the window counts of it.
LEMMA CountOfOne ==
    ASSUME NEW counts \in Windows, NEW e \in Efforts
    PROVE  Count(counts, {e}) = counts[e]
<1> DEFINE n == counts[e]
           f == [i \in 1..n |-> <<e, i>>]
<1>1. n \in 0..MaxWindow
  BY DEF Windows
<1>2. Readings(counts, {e}) = {<<e, i>> : i \in 1..n}
  BY <1>1, DurationAssumption DEF Readings
<1>3. f \in Bijection(1..n, Readings(counts, {e}))
  <2>1. f \in [1..n -> Readings(counts, {e})]
    BY <1>2
  <2>2. IsInjective(f)
    BY DEF IsInjective
  <2>3. \A r \in Readings(counts, {e}) : \E i \in 1..n : f[i] = r
    BY <1>2
  <2> HIDE DEF f, n
  <2> QED
    BY <2>1, <2>2, <2>3 DEF Bijection, Injection, Surjection
<1>4. n \in Nat /\ ExistsBijection(1..n, Readings(counts, {e}))
  BY <1>1, <1>3, DurationAssumption DEF ExistsBijection
<1> HIDE DEF n, f
<1>5. Cardinality(Readings(counts, {e})) = n
  BY <1>4, FS_CountingElements
<1> QED
  BY <1>5 DEF Count, n

-----------------------------------------------------------------------------
(* The median. *)

\* A window with a reading has a median: the greatest effort that no more than half of the
\* readings are below.  Were half of them not passed there, the next effort would be one too.
THEOREM MedianExists ==
    ASSUME NEW counts \in Windows, counts # NoReadings
    PROVE  Median(counts) \in Efforts /\ IsMedian(counts, Median(counts))
<1> DEFINE total == Count(counts, Efforts)
           half == Half(counts)
           before(e) == Count(counts, Below(e))
           S == {e \in Efforts : before(e) <= half}
<1>1. PICK a \in Efforts : counts[a] > 0
  BY DurationAssumption DEF NoReadings, Windows
<1>2. /\ total \in Nat /\ half \in Nat /\ 2 * half <= total /\ total <= 2 * half + 1
      /\ \A e \in Efforts : before(e) \in Nat /\ counts[e] \in Nat
  <2>1. total \in Nat
    BY ReadingsFinite
  <2>2. half \in Nat /\ 2 * half <= total /\ total <= 2 * half + 1
    BY <2>1 DEF Half
  <2>3. \A e \in Efforts : before(e) \in Nat
    BY ReadingsFinite DEF Below
  <2>4. \A e \in Efforts : counts[e] \in Nat
    BY DurationAssumption DEF Windows
  <2> QED
    BY <2>1, <2>2, <2>3, <2>4
<1>3. total > 0
  <2>1. Count(counts, {a}) <= total
    BY CountGrows
  <2>2. Count(counts, {a}) > 0
    BY <1>1, CountOfOne
  <2> QED
    BY <1>2, <2>1, <2>2, ReadingsFinite
<1>4. S # {}
  <2>1. PICK l \in Efforts : \A e \in Efforts : l <= e
    BY <1>1, EffortAssumption, LeastExists
  <2>2. Below(l) = {}
    <3>1. \A e \in Efforts : ~(e < l)
      BY <2>1, EffortAssumption
    <3> QED
      BY <3>1, Zenon DEF Below
  <2>3. before(l) = 0
    BY <2>2, FS_EmptySet DEF Count, Readings
  <2> QED
    BY <1>2, <2>3
<1>5. PICK m \in S : \A e \in S : e <= m
  <2>1. IsFiniteSet(S) /\ S \subseteq Int
    BY EffortAssumption, FS_Subset
  <2> HIDE DEF S
  <2> QED
    BY <1>4, <2>1, GreatestExists
<1>6. m \in Efforts /\ before(m) <= half
  BY <1>5
<1>7. half < before(m) + counts[m]
  <2> SUFFICES ASSUME before(m) + counts[m] <= half PROVE FALSE
    BY <1>2, <1>6
  <2>1. Count(counts, Below(m) \cup {m}) = before(m) + counts[m]
    <3>1. Below(m) \subseteq Efforts /\ Below(m) \cap {m} = {}
      BY <1>6, EffortAssumption DEF Below
    <3>2. Count(counts, Below(m) \cup {m}) = before(m) + Count(counts, {m})
      BY <1>6, <3>1, CountAdds
    <3> QED
      BY <1>6, <3>2, CountOfOne
  <2> DEFINE G == {e \in Efforts : e > m}
  <2>2. CASE G = {}
    <3>1. Below(m) \cup {m} = Efforts
      <4>1. \A e \in Efforts : ~(e > m)
        BY <2>2
      <4>2. \A e \in Efforts : e < m \/ e = m
        BY <1>6, <4>1, EffortAssumption
      <4> QED
        BY <1>6, <4>2, Zenon DEF Below
    <3>2. total <= half
      BY <2>1, <3>1
    <3> QED
      BY <1>2, <1>3, <3>2
  <2>3. CASE G # {}
    <3>1. PICK g \in G : \A e \in G : g <= e
      <4>1. IsFiniteSet(G) /\ G \subseteq Int
        BY EffortAssumption, FS_Subset
      <4> HIDE DEF G
      <4> QED
        BY <2>3, <4>1, LeastExists
    <3>2. g \in Efforts /\ g > m /\ \A e \in Efforts : e > m => g <= e
      BY <3>1
    <3>3. Below(g) = Below(m) \cup {m}
      <4>1. \A e \in Efforts : e < g <=> e < m \/ e = m
        BY <1>6, <3>2, EffortAssumption
      <4> QED
        BY <1>6, <4>1, Zenon DEF Below
    <3>4. before(g) <= half
      BY <2>1, <3>3
    <3>5. g <= m
      BY <1>5, <3>2, <3>4
    <3> QED
      BY <1>6, <3>2, <3>5, EffortAssumption
  <2> QED
    BY <2>2, <2>3
<1>8. IsMedian(counts, m)
  BY <1>6, <1>7 DEF IsMedian
<1> QED
  BY <1>6, <1>8 DEF Median

\* It has no other, so that the one nth_element leaves in the middle is the one chosen.
THEOREM MedianIsUnique ==
    ASSUME NEW counts \in Windows, NEW d \in Efforts, NEW e \in Efforts,
           IsMedian(counts, d), IsMedian(counts, e)
    PROVE  d = e
<1>1. ASSUME NEW x \in Efforts, NEW y \in Efforts, IsMedian(counts, x), IsMedian(counts, y),
             x < y
      PROVE  FALSE
  <2>1. Below(x) \cap {x} = {} /\ Below(x) \cup {x} \subseteq Below(y)
        /\ Below(x) \subseteq Efforts /\ Below(y) \subseteq Efforts
    <3>1. ~(x < x) /\ \A z \in Efforts : z < x => z < y
      BY <1>1, EffortAssumption
    <3> QED
      BY <1>1, <3>1, Zenon DEF Below
  <2>2. Count(counts, Below(x) \cup {x}) = Count(counts, Below(x)) + Count(counts, {x})
    BY <2>1, CountAdds
  <2>3. Count(counts, {x}) = counts[x]
    BY CountOfOne
  <2>4. Count(counts, Below(x) \cup {x}) <= Count(counts, Below(y))
    BY <2>1, CountGrows
  <2>5. /\ Count(counts, Below(x)) \in Nat /\ Count(counts, Below(y)) \in Nat
        /\ counts[x] \in Nat /\ Half(counts) \in Nat
    <3>1. Count(counts, Efforts) \in Nat
      BY ReadingsFinite
    <3> QED
      BY <2>1, <3>1, ReadingsFinite, DurationAssumption DEF Half, Windows
  <2> QED
    BY <1>1, <2>2, <2>3, <2>4, <2>5 DEF IsMedian
<1>2. d < e \/ e < d \/ d = e
  BY EffortAssumption
<1> QED
  BY <1>1, <1>2

\* Where more than half of the readings lie, there lies their median.
LEMMA MedianResists ==
    ASSUME NEW counts \in Windows, NEW e \in Efforts, IsMedian(counts, e),
           NEW low \in Efforts, NEW high \in Efforts,
           2 * Count(counts, {x \in Efforts : low <= x /\ x <= high})
             > Count(counts, Efforts)
    PROVE  low <= e /\ e <= high
<1> DEFINE S == {x \in Efforts : low <= x /\ x <= high}
           total == Count(counts, Efforts)
           most == Count(counts, S)
           before == Count(counts, Below(e))
           half == Half(counts)
<1>1. total \in Nat /\ most \in Nat /\ before \in Nat
  BY ReadingsFinite DEF Below
<1>2. counts[e] \in Nat
  BY DurationAssumption DEF Windows
<1>3. half \in Nat /\ 2 * half <= total /\ total <= 2 * half + 1
  BY <1>1 DEF Half
<1>4. before <= half /\ half < before + counts[e] /\ 2 * most > total
  BY DEF IsMedian
<1>5. ASSUME e < low PROVE FALSE
  <2>1. /\ Below(e) \cap {e} = {} /\ (Below(e) \cup {e}) \cap S = {}
        /\ Below(e) \subseteq Efforts
    <3>1. \A x \in Efforts : x < e \/ x = e => ~(low <= x)
      BY <1>5, EffortAssumption
    <3>2. ~(e < e)
      BY EffortAssumption
    <3> QED
      BY <3>1, <3>2, Zenon DEF Below
  <2>2. Count(counts, Below(e) \cup {e}) = before + counts[e]
    <3>1. Count(counts, Below(e) \cup {e}) = before + Count(counts, {e})
      BY <2>1, CountAdds
    <3> QED
      BY <3>1, CountOfOne
  <2>3. Count(counts, (Below(e) \cup {e}) \cup S) = Count(counts, Below(e) \cup {e}) + most
    <3>1. S \subseteq Efforts /\ Below(e) \cup {e} \subseteq Efforts
      BY <2>1
    <3> HIDE DEF S
    <3> QED
      BY <2>1, <3>1, CountAdds
  <2>4. Count(counts, (Below(e) \cup {e}) \cup S) <= total
    <3>1. (Below(e) \cup {e}) \cup S \subseteq Efforts
      BY <2>1
    <3> HIDE DEF S
    <3> QED
      BY <3>1, CountGrows
  <2>5. before + counts[e] + most <= total
    BY <2>2, <2>3, <2>4
  <2> HIDE DEF S, total, most, before, half
  <2> QED
    BY <1>1, <1>2, <1>3, <1>4, <2>5
<1>6. ASSUME high < e PROVE FALSE
  <2>1. S \subseteq Below(e) /\ Below(e) \subseteq Efforts
    <3>1. \A x \in Efforts : x <= high => x < e
      BY <1>6, EffortAssumption
    <3> QED
      BY <3>1, Zenon DEF Below
  <2>2. most <= before
    <3> HIDE DEF S
    <3> QED
      BY <2>1, CountGrows
  <2> HIDE DEF S, total, most, before, half
  <2> QED
    BY <1>1, <1>3, <1>4, <2>2
<1> QED
  BY <1>5, <1>6, EffortAssumption
-----------------------------------------------------------------------------
(* The types, and the reference as the median of the readings it was taken of. *)

\* There is room for the reading a running gate is about to count.
MailFits ==
    gate = "RUNNING" /\ reference = Unset /\ mailbox \in Efforts
        => window[mailbox] < MaxWindow

\* The window is closed once the reference is taken.
ReferenceFollows ==
    reference # Unset => window # NoReadings /\ reference = Median(window)

Counted == TypeOK /\ MailFits /\ ReferenceFollows

LEMMA NoReadingsFit == NoReadings \in Windows
BY DurationAssumption DEF NoReadings, Windows

LEMMA InitCounted == Init => Counted
<1> SUFFICES ASSUME Init PROVE Counted
  OBVIOUS
<1>1. elapsed \in 0..(Timeout + 1) /\ dipAge \in (0..Hold) \cup {Unset}
      /\ loadedAge \in (0..Hold) \cup {Unset}
  BY DurationAssumption DEF Init
<1>2. TypeOK
  BY <1>1, NoReadingsFit DEF Init, TypeOK, Windows
<1>3. MailFits /\ ReferenceFollows
  BY DEF Init, MailFits, ReferenceFollows
<1> QED
  BY <1>2, <1>3 DEF Counted

LEMMA StartCounted == Counted /\ OnStart => Counted'
<1> SUFFICES ASSUME Counted, OnStart PROVE Counted'
  OBVIOUS
<1>1. elapsed' \in 0..(Timeout + 1) /\ dipAge' \in (0..Hold) \cup {Unset}
      /\ loadedAge' \in (0..Hold) \cup {Unset}
  BY DurationAssumption DEF OnStart
<1>2. effort' \in Efforts \cup {Unset} /\ mailbox' = Nothing /\ mailbox' \notin Efforts
  BY MarkAssumption, EffortAssumption DEF OnStart, Counted, TypeOK
<1>3. TypeOK'
  BY <1>1, <1>2, NoReadingsFit DEF OnStart, Counted, TypeOK, Windows
<1>4. MailFits' /\ ReferenceFollows'
  BY <1>2 DEF OnStart, MailFits, ReferenceFollows
<1> QED
  BY <1>3, <1>4 DEF Counted

LEMMA SpinCounts ==
    ASSUME Counted, gate = "RUNNING", Spin
    PROVE  /\ mailbox' = Nothing /\ mailbox' \notin Efforts
           /\ effort' \in Efforts \cup {Unset} /\ window' \in Windows
           /\ ownMail' \in BOOLEAN /\ ownEffort' \in BOOLEAN
           /\ reference # Unset => window' = window
<1>1. mailbox' = Nothing /\ mailbox' \notin Efforts /\ ownMail' = TRUE
  BY MarkAssumption, EffortAssumption DEF Spin
<1>2. ownEffort' \in BOOLEAN
  BY DEF Spin, Counted, TypeOK
<1>3. effort' \in Efforts \cup {Unset} /\ (reference # Unset => window' = window)
  BY DEF Spin, Counted, TypeOK
<1>4. window' \in Windows
  <2>1. CASE mailbox \in Efforts /\ reference = Unset
    <3>1. window[mailbox] + 1 \in 0..MaxWindow
      BY <2>1, DurationAssumption DEF Counted, MailFits, TypeOK
    <3> QED
      BY <2>1, <3>1 DEF Spin, Counted, TypeOK, Windows
  <2>2. CASE ~(mailbox \in Efforts /\ reference = Unset)
    BY <2>2 DEF Spin, Counted, TypeOK, Windows
  <2> QED
    BY <2>1, <2>2
<1> QED
  BY <1>1, <1>2, <1>3, <1>4

LEMMA WatchTypes ==
    ASSUME TypeOK, Watch
    PROVE  lowest' \in Heights /\ touched' \in BOOLEAN
BY DEF TypeOK, Watch, Lower

\* The reading against the reference changes neither the window nor the types.
LEMMA JudgeTypes ==
    ASSUME TypeOK, NEW ref, Judge(ref)
    PROVE  /\ reference' = ref /\ gate' \in {"RUNNING", "SUCCESS", "FAILURE"}
           /\ loadOff' \in BOOLEAN /\ fresh' \in BOOLEAN
           /\ dipAge' \in (0..Hold) \cup {Unset} /\ loadedAge' \in (0..Hold) \cup {Unset}
<1>1. reference' = ref
  BY DEF Judge
<1>2. CASE StillLoaded(ref)
  <2>1. gate' = "RUNNING" /\ UNCHANGED loadOff /\ fresh' = FALSE /\ dipAge' = Unset
        /\ loadedAge' = 0
    BY <1>2 DEF StillLoaded, KeepWaiting
  <2>2. loadOff' \in BOOLEAN /\ fresh' \in BOOLEAN
    BY <2>1 DEF TypeOK
  <2>3. 0 \in 0..Hold
    BY DurationAssumption
  <2> QED
    BY <1>1, <2>1, <2>2, <2>3
<1>3. CASE Dip /\ fresh' = FALSE /\ gate' \in {"RUNNING", "SUCCESS", "FAILURE"}
           /\ loadOff' \in BOOLEAN
  <2>1. 0 \in 0..Hold
    BY DurationAssumption
  <2>2. dipAge' \in (0..Hold) \cup {Unset} /\ loadedAge' \in (0..Hold) \cup {Unset}
    BY <1>3, <2>1 DEF Dip, TypeOK
  <2> QED
    BY <1>1, <1>3, <2>2
<1>4. CASE Dipping(ref)
  BY <1>3, <1>4 DEF Dipping, KeepWaiting, TypeOK
<1>5. CASE Off(ref)
  BY <1>3, <1>5 DEF Off
<1> QED
  BY <1>2, <1>4, <1>5 DEF Judge

LEMMA RunningCounted == Counted /\ OnRunning => Counted'
<1> SUFFICES ASSUME Counted, OnRunning PROVE Counted'
  OBVIOUS
<1>1. /\ gate = "RUNNING" /\ UNCHANGED <<watching, usable, elapsed, tf, above>>
      /\ mailbox' = Nothing /\ mailbox' \notin Efforts
      /\ effort' \in Efforts \cup {Unset} /\ window' \in Windows
      /\ ownMail' \in BOOLEAN /\ ownEffort' \in BOOLEAN
      /\ reference # Unset => window' = window
  BY SpinCounts DEF OnRunning
<1>2. lowest' \in Heights \cup {Unset} /\ touched' \in BOOLEAN
  BY WatchTypes DEF OnRunning, Counted, TypeOK
<1>3. HasFresh \in BOOLEAN
  BY DEF HasFresh, Counted, TypeOK
<1>4. ASSUME NEW ref, Judge(ref),
             ref \in Efforts /\ window' # NoReadings /\ ref = Median(window')
      PROVE  Counted'
  <2>1. /\ reference' = ref /\ gate' \in {"RUNNING", "SUCCESS", "FAILURE"}
        /\ loadOff' \in BOOLEAN /\ fresh' \in BOOLEAN
        /\ dipAge' \in (0..Hold) \cup {Unset} /\ loadedAge' \in (0..Hold) \cup {Unset}
    BY <1>4, JudgeTypes DEF Counted
  <2>2. TypeOK'
    BY <1>1, <1>2, <1>4, <2>1 DEF Counted, TypeOK, Windows
  <2>3. MailFits' /\ ReferenceFollows'
    BY <1>1, <1>4, <2>1 DEF MailFits, ReferenceFollows
  <2> QED
    BY <2>2, <2>3 DEF Counted
<1>5. ASSUME gate' \in {"RUNNING", "FAILURE"}, fresh' \in BOOLEAN,
             UNCHANGED <<loadOff, dipAge, loadedAge>>,
             \/ UNCHANGED reference
             \/ reference' = Median(window') /\ window' # NoReadings
      PROVE  Counted'
  <2>1. reference' \in Efforts \cup {Unset}
    BY <1>1, <1>5, MedianExists DEF Counted, TypeOK
  <2>2. TypeOK'
    BY <1>1, <1>2, <1>5, <2>1 DEF Counted, TypeOK, Windows
  <2>3. MailFits' /\ ReferenceFollows'
    BY <1>1, <1>5 DEF Counted, MailFits, ReferenceFollows
  <2> QED
    BY <2>2, <2>3 DEF Counted
<1>6. CASE reference = Unset /\ window' # NoReadings /\ Judge(Median(window'))
  BY <1>1, <1>4, <1>6, MedianExists
<1>7. CASE reference # Unset /\ Judge(reference)
  <2>1. reference \in Efforts /\ window' # NoReadings /\ reference = Median(window')
    BY <1>1, <1>7 DEF Counted, TypeOK, ReferenceFollows
  <2> QED
    BY <1>4, <1>7, <2>1
<1> QED
  BY <1>3, <1>5, <1>6, <1>7 DEF OnRunning, GiveUp, KeepWaiting

LEMMA EnvironmentCounted == Counted /\ Environment => Counted'
<1> USE DEF Counted, TypeOK, MailFits, ReferenceFollows, readVars, gateVars, histVars, envVars
<1>1. ASSUME Counted, ClockTick PROVE Counted'
  <2>1. /\ UNCHANGED <<gate, loadOff, watching, usable, window, effort, fresh, reference,
                       lowest, ownEffort, touched, mailbox, ownMail, tf, above>>
    BY <1>1 DEF ClockTick
  <2>2. /\ elapsed' \in 0..(Timeout + 1) /\ dipAge' \in (0..Hold) \cup {Unset}
        /\ loadedAge' \in (0..Hold) \cup {Unset}
    BY <1>1, MarkAssumption, DurationAssumption DEF ClockTick, Older
  <2> QED
    BY <1>1, <2>1, <2>2
<1>2. ASSUME Counted, NEW e \in Efforts \cup {Unreadable}, PublishJointState(e)
      PROVE  Counted'
  BY <1>2, MarkAssumption, EffortAssumption DEF PublishJointState
<1>3. ASSUME Counted, NEW h \in Heights, PublishTransform(h) PROVE Counted'
  BY <1>3 DEF PublishTransform
<1>4. ASSUME Counted, TransformFreezes PROVE Counted'
  BY <1>4 DEF TransformFreezes
<1> QED
  BY <1>1, <1>2, <1>3, <1>4 DEF Environment

LEMMA NextCounted == Counted /\ [Next]_vars => Counted'
<1>1. Counted /\ OnHalted => Counted'
  BY DEF OnHalted, Counted, TypeOK, MailFits, ReferenceFollows, readVars, histVars, envVars
<1>2. Counted /\ NextMove => Counted'
  BY DEF NextMove, ClearContact, Counted, TypeOK, MailFits, ReferenceFollows, readVars,
         histVars, envVars
<1>3. Counted /\ UNCHANGED vars => Counted'
  BY DEF Counted, TypeOK, MailFits, ReferenceFollows, vars, readVars, gateVars, histVars,
         envVars
<1> QED
  BY <1>1, <1>2, <1>3, StartCounted, RunningCounted, EnvironmentCounted DEF Next, Node

\* The gate never leaves its types: the window counts no more than it was given, and the
\* reference is one of the efforts that were read (WaitForLoadOff: members).
THEOREM TypeCorrect == Spec => []TypeOK
<1>1. Counted => TypeOK
  BY DEF Counted
<1> QED
  BY InitCounted, NextCounted, <1>1, PTL DEF Spec

\* The reference lies wherever more than half of the readings lie, however far off the
\* rest of them are (WaitForLoadOff::onRunning, nth_element at half the size).
THEOREM ReferenceResists == Spec => []OutliersShiftNoReference
<1>1. Counted => OutliersShiftNoReference
  <2> SUFFICES ASSUME Counted, reference # Unset, NEW low \in Efforts, NEW high \in Efforts,
                      2 * Count(window, {e \in Efforts : low <= e /\ e <= high})
                        > Count(window, Efforts)
               PROVE  low <= reference /\ reference <= high
    BY DEF OutliersShiftNoReference
  <2>1. window \in Windows /\ reference \in Efforts /\ IsMedian(window, reference)
    BY MedianExists DEF Counted, TypeOK, ReferenceFollows, Windows
  <2> QED
    BY <2>1, MedianResists
<1> QED
  BY InitCounted, NextCounted, <1>1, PTL DEF Spec

-----------------------------------------------------------------------------
(* What the gate promises. *)

\* A dip that is under way began after the last reading that carried the load.
DipFollowsLoad ==
    dipAge # Unset /\ loadedAge # Unset => dipAge <= loadedAge

\* What a running gate may read next was published during its descent.
MailIsOwn == gate = "RUNNING" /\ mailbox \in Efforts => ownMail

\* A height within reach has been read if and only if the lowest is one.
LowestTells ==
    gate = "RUNNING" => (touched <=> lowest # Unset /\ InReach(lowest))

IInv ==
    /\ DipFollowsLoad
    /\ MailIsOwn
    /\ LowestTells
    /\ DipWasUnbroken
    /\ ReadsThisDescent
    /\ LoadOffTellsLandingFromContact

LEMMA InitIInv == Init => IInv
BY MarkAssumption, DurationAssumption
   DEF Init, IInv, DipFollowsLoad, MailIsOwn, LowestTells, DipWasUnbroken,
       ReadsThisDescent, LoadOffTellsLandingFromContact

LEMMA StartIInv == TypeOK /\ IInv /\ OnStart => IInv'
BY MarkAssumption, DurationAssumption, EffortAssumption
   DEF OnStart, IInv, DipFollowsLoad, MailIsOwn, LowestTells, DipWasUnbroken,
       ReadsThisDescent, LoadOffTellsLandingFromContact

\* The gate is told to stop, or that the next move begins.
LEMMA IdleIInv == IInv /\ (OnHalted \/ NextMove) => IInv'
BY DEF OnHalted, NextMove, ClearContact, IInv, DipFollowsLoad, MailIsOwn, LowestTells,
       DipWasUnbroken, ReadsThisDescent, LoadOffTellsLandingFromContact, readVars, histVars,
       envVars

LEMMA EnvironmentIInv == TypeOK /\ IInv /\ Environment => IInv'
<1> USE DEF IInv, DipFollowsLoad, MailIsOwn, LowestTells, DipWasUnbroken, InReach,
            ReadsThisDescent, LoadOffTellsLandingFromContact, readVars, gateVars, histVars,
            envVars
<1>1. ASSUME TypeOK, IInv, ClockTick PROVE IInv'
  <2>1. /\ gate = "RUNNING" /\ gate' = gate /\ loadOff' = loadOff /\ ownMail' = ownMail
        /\ ownEffort' = ownEffort /\ touched' = touched /\ lowest' = lowest
        /\ mailbox' = mailbox /\ watching' = watching
    BY <1>1 DEF ClockTick
  <2>2. dipAge' # Unset /\ loadedAge' # Unset => dipAge' <= loadedAge'
    BY <1>1, MarkAssumption, DurationAssumption DEF ClockTick, Older, TypeOK
  <2> QED
    BY <1>1, <2>1, <2>2
<1>2. ASSUME IInv, NEW e \in Efforts \cup {Unreadable}, PublishJointState(e) PROVE IInv'
  BY <1>2, MarkAssumption, EffortAssumption DEF PublishJointState
<1>3. ASSUME IInv, NEW h \in Heights, PublishTransform(h) PROVE IInv'
  BY <1>3 DEF PublishTransform
<1>4. ASSUME IInv, TransformFreezes PROVE IInv'
  BY <1>4 DEF TransformFreezes
<1> QED
  BY <1>1, <1>2, <1>3, <1>4 DEF Environment

-----------------------------------------------------------------------------
(* A tick of a running gate: what it reads, what it watches, what it says. *)

\* What is read is of this descent, and nothing that is not is left to read.
LEMMA SpinIsOwn ==
    ASSUME TypeOK, IInv, gate = "RUNNING", Spin
    PROVE  ownEffort' = TRUE /\ ownMail' = TRUE /\ mailbox' \notin Efforts
BY MarkAssumption, EffortAssumption DEF Spin, IInv, TypeOK, MailIsOwn, ReadsThisDescent

\* The lowest height tells of a landing as the heights before it did, and a watch of none.
LEMMA WatchTells ==
    ASSUME TypeOK, IInv, gate = "RUNNING", Watch
    PROVE  lowest' \in Heights /\ (touched' <=> InReach(lowest'))
<1>1. touched' <=> touched \/ InReach(above)
  BY DEF Watch
<1>2. lowest' = IF lowest = Unset \/ above < lowest THEN above ELSE lowest
  BY DEF Watch, Lower
<1>3. touched <=> lowest # Unset /\ InReach(lowest)
  BY DEF IInv, LowestTells
<1>4. above \in Heights /\ lowest \in Heights \cup {Unset}
  BY DEF TypeOK
<1>5. CASE watching
  BY <1>1, <1>2, <1>3, <1>4, <1>5 DEF InReach
<1>6. CASE ~watching
  BY <1>1, <1>2, <1>3, <1>4, <1>6, MarkAssumption, HeightAssumption DEF InReach
<1> QED
  BY <1>5, <1>6

\* A tick that does not look at the effort.
LEMMA KeepsTheDip ==
    ASSUME IInv, gate = "RUNNING", gate' \in {"RUNNING", "FAILURE"},
           UNCHANGED <<loadOff, dipAge, loadedAge, watching>>,
           ownEffort' = TRUE /\ ownMail' = TRUE /\ mailbox' \notin Efforts,
           \/ UNCHANGED <<lowest, touched>>
           \/ lowest' \in Heights /\ (touched' <=> InReach(lowest'))
    PROVE  IInv'
<1>1. LowestTells'
  BY MarkAssumption, HeightAssumption DEF IInv, LowestTells, InReach
<1>2. DipFollowsLoad' /\ DipWasUnbroken'
  BY DEF IInv, DipFollowsLoad, DipWasUnbroken, LoadOffTellsLandingFromContact
<1>3. MailIsOwn' /\ ReadsThisDescent'
  BY DEF MailIsOwn, ReadsThisDescent
<1>4. LoadOffTellsLandingFromContact'
  BY DEF IInv, LoadOffTellsLandingFromContact
<1> QED
  BY <1>1, <1>2, <1>3, <1>4 DEF IInv

\* A tick that does.
LEMMA JudgeIInv ==
    ASSUME TypeOK, IInv, gate = "RUNNING", NEW ref, Judge(ref), UNCHANGED watching,
           ownEffort' = TRUE /\ ownMail' = TRUE /\ mailbox' \notin Efforts,
           lowest' \in Heights /\ (touched' <=> InReach(lowest'))
    PROVE  IInv'
<1> USE MarkAssumption, HeightAssumption, DurationAssumption
    DEF IInv, DipFollowsLoad, MailIsOwn, LowestTells, DipWasUnbroken, InReach,
        ReadsThisDescent, LoadOffTellsLandingFromContact, TypeOK
<1>1. CASE StillLoaded(ref)
  BY <1>1 DEF StillLoaded, KeepWaiting
<1>2. CASE Dipping(ref)
  BY <1>2 DEF Dipping, Dip, KeepWaiting
<1>3. CASE Off(ref)
  BY <1>3 DEF Off, Dip
<1> QED
  BY <1>1, <1>2, <1>3 DEF Judge

LEMMA RunningIInv == TypeOK /\ IInv /\ OnRunning => IInv'
<1> SUFFICES ASSUME TypeOK, IInv, OnRunning PROVE IInv'
  OBVIOUS
<1>1. /\ gate = "RUNNING" /\ UNCHANGED watching
      /\ ownEffort' = TRUE /\ ownMail' = TRUE /\ mailbox' \notin Efforts
  BY SpinIsOwn DEF OnRunning
<1>2. CASE Watch
  <2>1. lowest' \in Heights /\ (touched' <=> InReach(lowest'))
    BY <1>1, <1>2, WatchTells
  <2>2. ASSUME gate' \in {"RUNNING", "FAILURE"}, UNCHANGED <<loadOff, dipAge, loadedAge>>
        PROVE  IInv'
    BY <1>1, <2>1, <2>2, KeepsTheDip
  <2>3. ASSUME NEW ref, Judge(ref) PROVE IInv'
    BY <1>1, <2>1, <2>3, JudgeIInv
  <2> QED
    BY <1>2, <2>2, <2>3 DEF OnRunning, GiveUp, KeepWaiting
<1>3. CASE UNCHANGED <<lowest, touched>> /\ gate' \in {"RUNNING", "FAILURE"}
           /\ UNCHANGED <<loadOff, dipAge, loadedAge>>
  BY <1>1, <1>3, KeepsTheDip
<1> QED
  BY <1>2, <1>3 DEF OnRunning, GiveUp, KeepWaiting

LEMMA NextIInv == TypeOK /\ IInv /\ [Next]_vars => IInv'
<1>1. ASSUME IInv, UNCHANGED vars PROVE IInv'
  BY <1>1 DEF vars, readVars, gateVars, histVars, envVars, IInv, DipFollowsLoad, InReach,
      MailIsOwn, LowestTells, DipWasUnbroken, ReadsThisDescent,
      LoadOffTellsLandingFromContact
<1> QED
  BY <1>1, StartIInv, RunningIInv, IdleIInv, EnvironmentIInv DEF Next, Node

\* IInv is an invariant on top of the types.
LEMMA Promises == Spec => []IInv
BY InitIInv, NextIInv, TypeCorrect, PTL DEF Spec

-----------------------------------------------------------------------------

\* The load counts as off only after a dip that no loaded reading interrupted, for every
\* hold (WaitForLoadOff::onRunning, dropped_since_).
THEOREM UnbrokenDip == Spec => []DipWasUnbroken
<1>1. IInv => DipWasUnbroken
  BY DEF IInv
<1> QED
  BY Promises, <1>1, PTL

\* A descent is judged by readings of its own alone (the drain of onStart, issue 258).
THEOREM OwnReadings == Spec => []ReadsThisDescent
<1>1. IInv => ReadsThisDescent
  BY DEF IInv
<1> QED
  BY Promises, <1>1, PTL

\* load_off and the gate's answer tell a landing from early contact, whatever the order
\* of heights and readings (lowest_ against max_above_target).
THEOREM LandingToldFromContact == Spec => []LoadOffTellsLandingFromContact
<1>1. IInv => LoadOffTellsLandingFromContact
  BY DEF IInv
<1> QED
  BY Promises, <1>1, PTL
=============================================================================
