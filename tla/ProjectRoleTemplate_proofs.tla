--------------------- MODULE ProjectRoleTemplate_proofs ---------------------
(***************************************************************************)
(* Proofs about the ProjectRoleTemplate controller, for any Projects,      *)
(* specs and subjects and any lag of the informers: extractSubjects makes  *)
(* one list of every set of subjects; types; the two controllers rest only *)
(* with the members collected and the status written; and an entry is      *)
(* neglected, or left behind, only when the controller has read it in the  *)
(* cache while its event was on the way.                                   *)
(***************************************************************************)
EXTENDS ProjectRoleTemplateController, FiniteSetTheorems, WellFoundedInduction, TLAPS

----------------------------------------------------------------------------
(* Lists of subjects. *)

\* Every set of natural numbers has a least element.
LEMMA NatLeast ==
  ASSUME NEW T, T \subseteq Nat, T # {}
  PROVE  \E m \in T : \A k \in T : m <= k
<1>1. IsWellFoundedOn(OpToRel(<, Nat), Nat)
  BY NatLessThanWellFounded
<1>2. PICK m \in T : \A k \in T : ~ (<<k, m>> \in OpToRel(<, Nat))
  BY <1>1, WFMin
<1>3. ASSUME NEW k \in T PROVE m <= k
  <2>1. m \in Nat /\ k \in Nat
    OBVIOUS
  <2>2. ~ (k < m)
    BY <1>2, <2>1 DEF OpToRel
  <2> QED
    BY <2>1, <2>2
<1> QED
  BY <1>3

LEMMA Counting ==
  ASSUME NEW n \in Nat, NEW S \in SUBSET (1..n), NEW T \in SUBSET S
  PROVE  /\ Cardinality(S) \in Nat /\ Cardinality(T) \in Nat /\ Cardinality(S) <= n
         /\ Cardinality(T) <= Cardinality(S)
         /\ Cardinality(T) = Cardinality(S) => T = S
<1>1. IsFiniteSet(1..n) /\ Cardinality(1..n) = n
  BY FS_Interval
<1>2. IsFiniteSet(S) /\ Cardinality(S) <= n
  BY <1>1, FS_Subset
<1>3. /\ IsFiniteSet(T) /\ Cardinality(T) <= Cardinality(S)
      /\ Cardinality(S) = Cardinality(T) => S = T
  BY <1>2, FS_Subset
<1> QED
  BY <1>2, <1>3, FS_CardinalityType

LEMMA SortedList ==
  ASSUME NEW list \in Seq(Nat)
  PROVE  /\ Sorted(list) \in Seq(Nat)
         /\ ToSet(Sorted(list)) = ToSet(list)
         /\ \A i, j \in DOMAIN Sorted(list) : i < j => Sorted(list)[i] <= Sorted(list)[j]
<1> DEFINE n        == Len(list)
           Below(x) == Cardinality({j \in 1..n : list[j] < x})
           UpTo(x)  == Cardinality({j \in 1..n : list[j] <= x})
           At(i, x) == Below(x) < i /\ i <= UpTo(x)
<1>1. n \in Nat /\ DOMAIN list = 1..n /\ \A j \in 1..n : list[j] \in Nat
  OBVIOUS
<1>2. \A x \in Nat : Below(x) \in Nat /\ UpTo(x) \in Nat
  BY <1>1, Counting
<1>3. ASSUME NEW x \in Nat, NEW y \in Nat, x < y PROVE UpTo(x) <= Below(y)
  <2>1. {j \in 1..n : list[j] <= x} \subseteq {j \in 1..n : list[j] < y}
    BY <1>1, <1>3
  <2> QED
    BY <1>1, <2>1, Counting
<1>4. ASSUME NEW k \in 1..n PROVE Below(list[k]) < UpTo(list[k])
  <2>1. {j \in 1..n : list[j] < list[k]} \subseteq {j \in 1..n : list[j] <= list[k]}
    BY <1>1
  <2>2. k \notin {j \in 1..n : list[j] < list[k]} /\ k \in {j \in 1..n : list[j] <= list[k]}
    BY <1>1
  <2>3. Below(list[k]) <= UpTo(list[k]) /\ Below(list[k]) # UpTo(list[k])
    BY <1>1, <2>1, <2>2, Counting
  <2> QED
    BY <1>1, <1>2, <2>3
<1>5. ToSet(list) \subseteq Nat /\ \A x \in ToSet(list) : \E k \in 1..n : x = list[k]
  BY <1>1 DEF ToSet
<1>6. \A x \in ToSet(list) : Below(x) < UpTo(x)
  BY <1>4, <1>5
<1>a. ASSUME NEW x, \A j \in 1..n : ~ (list[j] < x) PROVE Below(x) = 0
  <2>1. {j \in 1..n : list[j] < x} = {}
    BY <1>a
  <2> QED
    BY <2>1, FS_EmptySet
<1>b. ASSUME NEW x, \A j \in 1..n : list[j] <= x PROVE UpTo(x) = n
  <2>1. {j \in 1..n : list[j] <= x} = 1..n
    BY <1>b
  <2>2. Cardinality(1..n) = n
    BY <1>1, FS_Interval
  <2> QED
    BY <2>1, <2>2
<1>c. ASSUME NEW x, NEW y, \A j \in 1..n : list[j] < y <=> list[j] <= x PROVE Below(y) = UpTo(x)
  <2>1. {j \in 1..n : list[j] < y} = {j \in 1..n : list[j] <= x}
    BY <1>c
  <2> QED
    BY <2>1
<1>d. \A x \in ToSet(list) : x \in Nat /\ Below(x) \in Nat /\ UpTo(x) \in Nat
  BY <1>2, <1>5
<1>e. \A j \in 1..n : list[j] \in ToSet(list)
  BY <1>1 DEF ToSet
<1> HIDE DEF n, Below, UpTo
<1>7. ASSUME NEW i \in 1..n PROVE \E x \in ToSet(list) : At(i, x)
  <2>1. ToSet(list) # {} /\ i \in Nat /\ 0 < i /\ i <= n
    BY <1>1, <1>e
  <2>2. PICK least \in ToSet(list) : \A x \in ToSet(list) : least <= x
    BY <1>5, <2>1, NatLeast
  <2>3. Below(least) = 0
    <3>1. \A j \in 1..n : ~ (list[j] < least)
      BY <1>d, <1>e, <2>2
    <3> QED
      BY <3>1, <1>a
  <2> DEFINE few == {i - Below(x) : x \in {y \in ToSet(list) : Below(y) < i}}
  <2>4. few \subseteq Nat /\ few # {}
    <3>1. i - Below(least) \in few
      BY <2>1, <2>3
    <3>2. \A x \in ToSet(list) : Below(x) < i => i - Below(x) \in Nat
      BY <1>d, <2>1
    <3> QED
      BY <3>1, <3>2
  <2>5. PICK m \in few : \A k \in few : m <= k
    BY <2>4, NatLeast
  <2>6. PICK x \in ToSet(list) : Below(x) < i /\ m = i - Below(x)
    OBVIOUS
  <2>7. ASSUME NEW y \in ToSet(list), Below(y) < i PROVE Below(y) <= Below(x)
    <3>1. i - Below(y) \in few
      BY <2>7
    <3>2. Below(x) \in Nat /\ Below(y) \in Nat
      BY <1>d
    <3> HIDE DEF few
    <3> QED
      BY <2>1, <2>5, <2>6, <3>1, <3>2
  <2>8. ASSUME UpTo(x) < i PROVE FALSE
    <3> DEFINE above == {y \in ToSet(list) : x < y}
    <3>1. above # {}
      <4>1. UpTo(x) # n
        BY <1>1, <1>d, <2>1, <2>8
      <4>2. PICK j \in 1..n : ~ (list[j] <= x)
        BY <4>1, <1>b
      <4>3. list[j] \in above
        BY <1>d, <1>e, <4>2
      <4> QED
        BY <4>3
    <3>2. PICK y \in above : \A z \in above : y <= z
      BY <1>5, <3>1, NatLeast
    <3>3. \A j \in 1..n : list[j] < y <=> list[j] <= x
      <4> SUFFICES ASSUME NEW j \in 1..n PROVE list[j] < y <=> list[j] <= x
        OBVIOUS
      <4>1. list[j] \in ToSet(list) /\ list[j] \in Nat /\ x \in Nat /\ y \in Nat /\ x < y
        BY <1>d, <1>e
      <4>2. x < list[j] => y <= list[j]
        BY <3>2, <4>1
      <4> QED
        BY <4>1, <4>2
    <3>4. Below(y) = UpTo(x)
      BY <3>3, <1>c
    <3>5. Below(y) <= Below(x) /\ Below(x) < UpTo(x)
      BY <1>6, <2>7, <2>8, <3>4
    <3> QED
      BY <1>d, <3>4, <3>5
  <2>9. i <= UpTo(x)
    BY <1>d, <2>1, <2>8
  <2> QED
    BY <2>6, <2>9
<1>8. ASSUME NEW i \in 1..n, NEW j \in 1..n, i <= j,
             NEW x \in ToSet(list), NEW y \in ToSet(list), At(i, x), At(j, y)
      PROVE  x <= y
  <2>1. x \in Nat /\ y \in Nat /\ i \in Nat /\ j \in Nat
    BY <1>1, <1>5
  <2>2. ASSUME y < x PROVE FALSE
    BY <1>2, <1>3, <1>8, <2>1, <2>2
  <2> QED
    BY <2>1, <2>2
<1> DEFINE s == [i \in 1..n |-> CHOOSE x \in ToSet(list) : At(i, x)]
<1>9. Sorted(list) = s
  BY <1>1 DEF Sorted, n, Below, UpTo
<1>10. \A i \in 1..n : s[i] \in ToSet(list) /\ At(i, s[i])
  BY <1>7
<1>11. DOMAIN s = 1..n
  OBVIOUS
<1> HIDE DEF s
<1>12. s \in Seq(Nat)
  <2>1. s \in [1..n -> Nat]
    BY <1>5, <1>10 DEF s
  <2> QED
    BY <1>1, <2>1
<1>13. ToSet(s) = ToSet(list)
  <2>1. ToSet(s) \subseteq ToSet(list)
    BY <1>10, <1>11 DEF ToSet
  <2>2. ASSUME NEW x \in ToSet(list) PROVE x \in ToSet(s)
    <3> DEFINE i == UpTo(x)
    <3>1. i \in 1..n /\ At(i, x)
      <4>1. UpTo(x) <= n /\ UpTo(x) \in Nat /\ Below(x) \in Nat /\ Below(x) < UpTo(x)
        BY <1>1, <1>2, <1>5, <1>6, Counting DEF UpTo
      <4> QED
        BY <1>1, <4>1
    <3> HIDE DEF i
    <3>2. s[i] <= x /\ x <= s[i]
      BY <1>1, <1>8, <1>10, <3>1
    <3>3. s[i] = x
      BY <1>5, <1>10, <3>1, <3>2
    <3> QED
      BY <1>11, <3>1, <3>3 DEF ToSet
  <2> QED
    BY <2>1, <2>2
<1>14. \A i, j \in 1..n : i < j => s[i] <= s[j]
  BY <1>1, <1>8, <1>10
<1> QED
  BY <1>9, <1>11, <1>12, <1>13, <1>14

\* The recursion of WithoutRepeats.
Round(list, kept, i) ==
  IF i = 0 THEN <<>>
  ELSE IF i = 1 \/ list[i - 1] # list[i] THEN Append(kept[i - 1], list[i])
  ELSE kept[i - 1]

LEMMA RoundsExist ==
  ASSUME NEW list, NEW n \in Nat
  PROVE  \E kept : kept = [i \in 0..n |-> Round(list, kept, i)]
<1> DEFINE Rounds(f, m) == f = [i \in 0..m |-> Round(list, f, i)]
           none == {m \in 0..n : \A f : ~ Rounds(f, m)}
<1>1. ASSUME none # {} PROVE FALSE
  <2>0. none \subseteq Nat
    OBVIOUS
  <2>1. PICK m \in none : \A k \in none : m <= k
    <3> HIDE DEF none
    <3> QED
      BY <1>1, <2>0, NatLeast
  <2>2. CASE m = 0
    <3> DEFINE f == [i \in 0..0 |-> <<>>]
    <3>1. Rounds(f, 0)
      BY DEF Round
    <3> QED
      BY <2>2, <3>1
  <2>3. CASE m # 0
    <3>1. m - 1 \in 0..n /\ m \in 1..n /\ m - 1 \notin none
      BY <2>1, <2>3
    <3>2. PICK f : Rounds(f, m - 1)
      BY <3>1
    <3> DEFINE g == [i \in 0..m |-> IF i = m THEN Round(list, f, m) ELSE f[i]]
    <3>3. ASSUME NEW i \in 0..m PROVE g[i] = Round(list, g, i)
      <4>1. CASE i = 0
        BY <3>1, <3>2, <4>1 DEF Round
      <4>2. CASE i # 0
        <5>1. i - 1 \in 0..m /\ i - 1 # m /\ g[i - 1] = f[i - 1]
          BY <3>1, <4>2
        <5>2. Round(list, g, i) = Round(list, f, i)
          BY <4>2, <5>1 DEF Round
        <5>3. i # m => f[i] = Round(list, f, i)
          BY <3>1, <3>2
        <5> QED
          BY <5>2, <5>3
      <4> QED
        BY <4>1, <4>2
    <3>4. Rounds(g, m)
      BY <3>3
    <3> QED
      BY <3>4
  <2> QED
    BY <2>2, <2>3
<1>2. n \notin none /\ n \in 0..n
  BY <1>1
<1> QED
  BY <1>2

\* What filteredSubjects is after i rounds of the loop, for a sorted list.
Filtered(list, i, kept) ==
  /\ kept \in Seq(Nat)
  /\ ToSet(kept) = {list[j] : j \in 1..i}
  /\ Increasing(kept)
  /\ i > 0 => Len(kept) > 0 /\ kept[Len(kept)] = list[i]

LEMMA AppendKeeps ==
  ASSUME NEW kept \in Seq(Nat), NEW x \in Nat, Increasing(kept), \A y \in ToSet(kept) : y < x
  PROVE  /\ Append(kept, x) \in Seq(Nat) /\ Increasing(Append(kept, x))
         /\ ToSet(Append(kept, x)) = ToSet(kept) \cup {x}
         /\ Len(Append(kept, x)) > 0 /\ Append(kept, x)[Len(Append(kept, x))] = x
<1> DEFINE new == Append(kept, x)
           n == Len(kept)
<1>1. /\ n \in Nat /\ new \in Seq(Nat) /\ Len(new) = n + 1 /\ new[n + 1] = x
      /\ \A i \in 1..n : new[i] = kept[i]
      /\ DOMAIN kept = 1..n /\ DOMAIN new = 1..(n + 1)
  OBVIOUS
<1> HIDE DEF new, n
<1>2. ToSet(new) = ToSet(kept) \cup {x}
  <2>1. ToSet(new) \subseteq ToSet(kept) \cup {x}
    BY <1>1 DEF ToSet
  <2>2. ToSet(kept) \subseteq ToSet(new)
    BY <1>1 DEF ToSet
  <2>3. x \in ToSet(new)
    BY <1>1 DEF ToSet
  <2> QED
    BY <2>1, <2>2, <2>3
<1>3. Increasing(new)
  <2> SUFFICES ASSUME NEW i \in 1..(n + 1), NEW j \in 1..(n + 1), i < j PROVE new[i] < new[j]
    BY <1>1 DEF Increasing
  <2>1. i \in 1..n /\ new[i] = kept[i] /\ kept[i] \in ToSet(kept)
    BY <1>1 DEF ToSet
  <2>2. CASE j = n + 1
    BY <1>1, <2>1, <2>2
  <2>3. CASE j # n + 1
    BY <1>1, <2>1, <2>3 DEF Increasing
  <2> QED
    BY <2>2, <2>3
<1> QED
  BY <1>1, <1>2, <1>3 DEF new

LEMMA WithoutRepeatsOfSorted ==
  ASSUME NEW list \in Seq(Nat), \A i, j \in DOMAIN list : i < j => list[i] <= list[j]
  PROVE  /\ WithoutRepeats(list) \in Seq(Nat)
         /\ ToSet(WithoutRepeats(list)) = ToSet(list)
         /\ Increasing(WithoutRepeats(list))
<1> DEFINE n    == Len(list)
           kept == CHOOSE kept : kept = [i \in 0..n |-> Round(list, kept, i)]
           wrong == {i \in 0..n : ~ Filtered(list, i, kept[i])}
<1>1. n \in Nat /\ DOMAIN list = 1..n /\ \A j \in 1..n : list[j] \in Nat
  OBVIOUS
<1>2. WithoutRepeats(list) = kept[n]
  BY DEF WithoutRepeats, Round
<1>3. kept = [i \in 0..n |-> Round(list, kept, i)]
  BY <1>1, RoundsExist
<1> HIDE DEF kept, n
<1>4. ASSUME wrong # {} PROVE FALSE
  <2>0. wrong \subseteq Nat
    BY <1>1
  <2>1. PICK m \in wrong : \A k \in wrong : m <= k
    <3> HIDE DEF wrong
    <3> QED
      BY <1>4, <2>0, NatLeast
  <2>2. m \in 0..n /\ ~ Filtered(list, m, kept[m])
    OBVIOUS
  <2>3. CASE m = 0
    <3>1. kept[m] = <<>>
      BY <1>1, <1>3, <2>3 DEF Round
    <3>2. ToSet(<<>>) = {} /\ {list[j] : j \in 1..m} = {} /\ Increasing(<<>>)
      BY <2>3 DEF ToSet, Increasing
    <3> QED
      BY <2>2, <2>3, <3>1, <3>2 DEF Filtered
  <2>4. CASE m # 0
    <3> DEFINE before == kept[m - 1]
    <3>1. m \in 1..n /\ m - 1 \in 0..n /\ m - 1 \notin wrong
      BY <1>1, <2>1, <2>4
    <3>2. Filtered(list, m - 1, before)
      BY <3>1
    <3>3. kept[m] = IF m = 1 \/ list[m - 1] # list[m] THEN Append(before, list[m]) ELSE before
      BY <1>3, <2>4 DEF Round
    <3> HIDE DEF before, wrong
    <3>4. {list[j] : j \in 1..m} = {list[j] : j \in 1..(m - 1)} \cup {list[m]}
      <4>1. 1..m = 1..(m - 1) \cup {m}
        BY <3>1, <1>1
      <4> QED
        BY <4>1
    <3>5. CASE m = 1 \/ list[m - 1] # list[m]
      <4>1. ASSUME NEW y \in ToSet(before) PROVE y < list[m]
        <5>1. PICK j \in 1..(m - 1) : y = list[j]
          BY <3>2 DEF Filtered
        <5>2. j \in 1..n /\ m - 1 \in 1..n /\ m - 1 < m /\ m # 1 /\ (j = m - 1 \/ j < m - 1)
          BY <3>1, <1>1
        <5>3. list[m - 1] <= list[m]
          BY <1>1, <3>1, <5>2
        <5>4. list[j] <= list[m - 1]
          <6>1. CASE j = m - 1
            BY <1>1, <5>2, <6>1
          <6>2. CASE j < m - 1
            BY <1>1, <5>2, <6>2
          <6> QED
            BY <5>2, <6>1, <6>2
        <5> QED
          BY <1>1, <3>1, <3>5, <5>1, <5>2, <5>3, <5>4
      <4>2. Filtered(list, m, Append(before, list[m]))
        <5>1. list[m] \in Nat /\ before \in Seq(Nat) /\ Increasing(before)
          BY <1>1, <3>1, <3>2 DEF Filtered
        <5>2. ToSet(Append(before, list[m])) = {list[j] : j \in 1..m}
          BY <3>2, <3>4, <4>1, <5>1, AppendKeeps DEF Filtered
        <5> QED
          BY <4>1, <5>1, <5>2, AppendKeeps DEF Filtered
      <4> QED
        BY <2>2, <3>3, <3>5, <4>2
    <3>6. CASE ~ (m = 1 \/ list[m - 1] # list[m])
      <4>1. kept[m] = before /\ list[m - 1] = list[m] /\ m - 1 > 0
        BY <3>1, <3>3, <3>6, <1>1
      <4>2. list[m] \in {list[j] : j \in 1..(m - 1)}
        BY <3>1, <4>1, <1>1
      <4>3. Filtered(list, m, before)
        BY <3>2, <3>4, <4>1, <4>2 DEF Filtered
      <4> QED
        BY <2>2, <4>1, <4>3
    <3> QED
      BY <3>5, <3>6
  <2> QED
    BY <2>3, <2>4
<1>5. Filtered(list, n, kept[n])
  BY <1>1, <1>4
<1>6. ToSet(list) = {list[j] : j \in 1..n}
  BY <1>1 DEF ToSet
<1> QED
  BY <1>2, <1>5, <1>6 DEF Filtered

\* Two increasing lists of the same subjects are equal.
LEMMA IncreasingUnique ==
  ASSUME NEW s \in Seq(Nat), NEW t \in Seq(Nat), Increasing(s), Increasing(t),
         ToSet(s) = ToSet(t), Len(s) = Len(t)
  PROVE  s = t
<1> DEFINE n == Len(s)
           differ == {i \in 1..n : s[i] # t[i]}
<1>1. /\ n \in Nat /\ DOMAIN s = 1..n /\ DOMAIN t = 1..n
      /\ \A i \in 1..n : s[i] \in Nat /\ t[i] \in Nat
  OBVIOUS
<1>2. ASSUME differ # {} PROVE FALSE
  <2>0. differ \subseteq Nat
    BY <1>1
  <2>1. PICK m \in differ : \A k \in differ : m <= k
    <3> HIDE DEF differ
    <3> QED
      BY <1>2, <2>0, NatLeast
  <2>2. m \in 1..n /\ s[m] # t[m] /\ \A i \in 1..n : i < m => s[i] = t[i]
    BY <1>1, <2>1
  <2> HIDE DEF differ, n
  <2>3. PICK i \in 1..n : s[i] = t[m]
    BY <1>1, <2>2 DEF ToSet
  <2>4. PICK j \in 1..n : t[j] = s[m]
    BY <1>1, <2>2 DEF ToSet
  <2>5. i > m
    <3>1. i < m => t[i] < t[m]
      BY <1>1, <2>2 DEF Increasing
    <3> QED
      BY <1>1, <2>2, <2>3, <3>1
  <2>6. j > m
    <3>1. j < m => s[j] < s[m]
      BY <1>1, <2>2 DEF Increasing
    <3> QED
      BY <1>1, <2>2, <2>4, <3>1
  <2>7. s[m] < s[i] /\ t[m] < t[j]
    BY <1>1, <2>2, <2>5, <2>6 DEF Increasing
  <2> QED
    BY <1>1, <2>2, <2>3, <2>4, <2>7
<1>3. \A i \in 1..n : s[i] = t[i]
  BY <1>2
<1> QED
  BY <1>1, <1>3

LEMMA IncreasingLength ==
  ASSUME NEW s \in Seq(Nat), Increasing(s)
  PROVE  IsFiniteSet(ToSet(s)) /\ Cardinality(ToSet(s)) = Len(s)
<1>1. Len(s) \in Nat /\ DOMAIN s = 1..Len(s) /\ \A i \in 1..Len(s) : s[i] \in Nat
  OBVIOUS
<1>2. s \in Bijection(1..Len(s), ToSet(s))
  <2>1. s \in [1..Len(s) -> ToSet(s)]
    BY <1>1 DEF ToSet
  <2>2. \A i, j \in 1..Len(s) : s[i] = s[j] => i = j
    BY <1>1 DEF Increasing
  <2>3. \A x \in ToSet(s) : \E i \in 1..Len(s) : s[i] = x
    BY <1>1 DEF ToSet
  <2> QED
    BY <2>1, <2>2, <2>3 DEF Bijection, Injection, Surjection, IsInjective
<1>3. ExistsBijection(1..Len(s), ToSet(s))
  BY <1>2 DEF ExistsBijection
<1> QED
  BY <1>1, <1>3, FS_CountingElements, FS_NatBijection

\* extractSubjects makes of any list the one list that stands for its subjects:
\* the result does not depend on the order or the repetitions of what it is given.
THEOREM ExtractedIsRanked ==
  ASSUME NEW list \in Seq(Nat)
  PROVE  /\ ExtractSubjects(list) = Ranked(ToSet(list))
         /\ ExtractSubjects(list) \in Seq(ToSet(list))
         /\ ToSet(ExtractSubjects(list)) = ToSet(list)
<1> DEFINE t == ExtractSubjects(list)
           S == ToSet(list)
<1>1. t \in Seq(Nat) /\ ToSet(t) = S /\ Increasing(t)
  BY SortedList, WithoutRepeatsOfSorted DEF ExtractSubjects
<1> HIDE DEF t
<1>2. IsFiniteSet(S) /\ Cardinality(S) = Len(t)
  BY <1>1, IncreasingLength
<1> HIDE DEF S
<1>3. t \in [1..Len(t) -> S]
  BY <1>1 DEF ToSet
<1>4. ASSUME NEW u \in [1..Cardinality(S) -> S], ToSet(u) = S, Increasing(u)
      PROVE  u = t
  <2>1. S \subseteq Nat
    BY <1>1 DEF ToSet
  <2>2. Len(t) \in Nat /\ u \in [1..Len(t) -> Nat]
    <3>1. u \in [1..Len(t) -> S]
      BY <1>2, <1>4
    <3>2. \A i \in 1..Len(t) : u[i] \in Nat
      BY <2>1, <3>1
    <3>3. Len(t) \in Nat
      BY <1>1
    <3>4. u = [i \in 1..Len(t) |-> u[i]]
      BY <3>1
    <3> QED
      BY <3>2, <3>3, <3>4
  <2>3. u \in Seq(Nat) /\ Len(u) = Len(t)
    BY <2>2
  <2> QED
    BY <1>1, <1>4, <2>3, IncreasingUnique
<1>5. Ranked(S) = t
  BY <1>1, <1>2, <1>3, <1>4 DEF Ranked
<1> QED
  BY <1>1, <1>3, <1>5 DEF t, S

Joined(lists, flatten, i) == IF i = 1 THEN lists[i] ELSE flatten[i - 1] \o lists[i]

LEMMA JoinsExist ==
  ASSUME NEW lists, NEW n \in Nat
  PROVE  \E flatten : flatten = [i \in 1..n |-> Joined(lists, flatten, i)]
<1> DEFINE Joins(f, m) == f = [i \in 1..m |-> Joined(lists, f, i)]
           none == {m \in 0..n : \A f : ~ Joins(f, m)}
<1>1. ASSUME none # {} PROVE FALSE
  <2>1. none \subseteq Nat
    OBVIOUS
  <2>2. PICK m \in none : \A k \in none : m <= k
    <3> HIDE DEF none
    <3> QED
      BY <1>1, <2>1, NatLeast
  <2>3. CASE m = 0
    <3> DEFINE f == [i \in 1..0 |-> {}]
    <3>1. Joins(f, 0)
      OBVIOUS
    <3> QED
      BY <2>3, <3>1
  <2>4. CASE m # 0
    <3>1. m - 1 \in 0..n /\ m \in 1..n /\ m - 1 \notin none
      BY <2>2, <2>4
    <3>2. PICK f : Joins(f, m - 1)
      BY <3>1
    <3> DEFINE g == [i \in 1..m |-> IF i = m THEN Joined(lists, f, m) ELSE f[i]]
    <3>3. ASSUME NEW i \in 1..m PROVE g[i] = Joined(lists, g, i)
      <4>1. Joined(lists, g, i) = Joined(lists, f, i)
        <5>1. CASE i = 1
          BY <5>1 DEF Joined
        <5>2. CASE i # 1
          <6>1. i - 1 \in 1..m /\ i - 1 # m /\ g[i - 1] = f[i - 1]
            BY <3>1, <5>2
          <6> QED
            BY <5>2, <6>1 DEF Joined
        <5> QED
          BY <5>1, <5>2
      <4>2. i # m => f[i] = Joined(lists, f, i)
        BY <3>1, <3>2
      <4> QED
        BY <4>1, <4>2
    <3>4. Joins(g, m)
      BY <3>3
    <3> QED
      BY <3>4
  <2> QED
    BY <2>3, <2>4
<1>2. n \notin none /\ n \in 0..n
  BY <1>1
<1> QED
  BY <1>2

LEMMA ConcatSet ==
  ASSUME NEW s \in Seq(Nat), NEW t \in Seq(Nat)
  PROVE  s \o t \in Seq(Nat) /\ ToSet(s \o t) = ToSet(s) \cup ToSet(t)
<1> DEFINE m == Len(s)
           n == Len(t)
           u == s \o t
<1>1. /\ m \in Nat /\ n \in Nat /\ u \in Seq(Nat) /\ DOMAIN u = 1..(m + n)
      /\ DOMAIN s = 1..m /\ DOMAIN t = 1..n
      /\ \A i \in 1..m : u[i] = s[i]
      /\ \A i \in 1..(m + n) : i > m => u[i] = t[i - m]
  OBVIOUS
<1> HIDE DEF m, n, u
<1>2. ToSet(u) \subseteq ToSet(s) \cup ToSet(t)
  <2> SUFFICES ASSUME NEW i \in 1..(m + n) PROVE u[i] \in ToSet(s) \cup ToSet(t)
    BY <1>1 DEF ToSet
  <2>1. CASE i \in 1..m
    BY <1>1, <2>1 DEF ToSet
  <2>2. CASE i > m
    <3>1. i - m \in 1..n
      BY <1>1, <2>2
    <3> QED
      BY <1>1, <2>2, <3>1 DEF ToSet
  <2> QED
    BY <1>1, <2>1, <2>2
<1>3. ToSet(s) \subseteq ToSet(u)
  <2> SUFFICES ASSUME NEW i \in 1..m PROVE s[i] \in ToSet(u)
    BY <1>1 DEF ToSet
  <2>1. i \in 1..(m + n)
    BY <1>1
  <2> QED
    BY <1>1, <2>1 DEF ToSet
<1>4. ToSet(t) \subseteq ToSet(u)
  <2> SUFFICES ASSUME NEW i \in 1..n PROVE t[i] \in ToSet(u)
    BY <1>1 DEF ToSet
  <2>1. i + m \in 1..(m + n) /\ i + m > m /\ (i + m) - m = i
    BY <1>1
  <2> QED
    BY <1>1, <2>1 DEF ToSet
<1> QED
  BY <1>1, <1>2, <1>3, <1>4 DEF u

\* The subjects of several lists.
LEMMA Flattened ==
  ASSUME NEW lists, NEW n \in Nat, lists = [i \in 1..n |-> lists[i]],
         \A i \in 1..n : lists[i] \in Seq(Nat)
  PROVE  /\ FlattenSeq(lists) \in Seq(Nat)
         /\ ToSet(FlattenSeq(lists)) = UNION {ToSet(lists[i]) : i \in 1..n}
<1>1. Len(lists) = n
  OBVIOUS
<1>2. CASE n = 0
  <2>1. lists = <<>>
    BY <1>2
  <2>2. FlattenSeq(lists) = <<>>
    BY <1>1, <1>2, <2>1 DEF FlattenSeq
  <2>3. ToSet(<<>>) = {} /\ UNION {ToSet(lists[i]) : i \in 1..n} = {}
    BY <1>2 DEF ToSet
  <2>4. <<>> \in Seq(Nat)
    OBVIOUS
  <2> DEFINE all == UNION {ToSet(lists[i]) : i \in 1..n}
  <2> HIDE DEF all
  <2>5. FlattenSeq(lists) \in Seq(Nat) /\ ToSet(FlattenSeq(lists)) = all
    BY <2>2, <2>3, <2>4 DEF all
  <2> QED
    BY <2>5 DEF all
<1>3. CASE n # 0
  <2> DEFINE f == CHOOSE f : f = [i \in 1..n |-> Joined(lists, f, i)]
             upTo(i) == UNION {ToSet(lists[j]) : j \in 1..i}
             wrong == {i \in 1..n : ~ (f[i] \in Seq(Nat) /\ ToSet(f[i]) = upTo(i))}
  <2>1. FlattenSeq(lists) = f[n]
    BY <1>1, <1>3 DEF FlattenSeq, Joined
  <2>2. f = [i \in 1..n |-> Joined(lists, f, i)]
    BY JoinsExist
  <2> HIDE DEF f
  <2>3. ASSUME wrong # {} PROVE FALSE
    <3>1. wrong \subseteq Nat
      OBVIOUS
    <3>2. PICK m \in wrong : \A k \in wrong : m <= k
      <4> HIDE DEF wrong
      <4> QED
        BY <2>3, <3>1, NatLeast
    <3>3. m \in 1..n /\ ~ (f[m] \in Seq(Nat) /\ ToSet(f[m]) = upTo(m)) /\ f[m] = Joined(lists, f, m)
      BY <2>2
    <3>4. CASE m = 1
      <4>1. upTo(1) = ToSet(lists[1])
        OBVIOUS
      <4>2. f[m] = lists[1] /\ lists[1] \in Seq(Nat)
        BY <3>3, <3>4 DEF Joined
      <4> QED
        BY <3>3, <3>4, <4>1, <4>2
    <3>5. CASE m # 1
      <4>1. m - 1 \in 1..n /\ m - 1 \notin wrong
        <5>1. m - 1 \in 1..n /\ ~ (m <= m - 1)
          BY <3>3, <3>5
        <5> HIDE DEF wrong
        <5> QED
          BY <3>2, <5>1
      <4>2. f[m - 1] \in Seq(Nat) /\ ToSet(f[m - 1]) = upTo(m - 1)
        BY <4>1
      <4>3. f[m] = f[m - 1] \o lists[m] /\ lists[m] \in Seq(Nat)
        BY <3>3, <3>5 DEF Joined
      <4>4. upTo(m) = upTo(m - 1) \cup ToSet(lists[m])
        <5>1. 1..m = 1..(m - 1) \cup {m}
          BY <3>3
        <5> QED
          BY <5>1
      <4>5. f[m] \in Seq(Nat) /\ ToSet(f[m]) = upTo(m)
        <5> HIDE DEF upTo, wrong
        <5> QED
          BY <4>2, <4>3, <4>4, ConcatSet
      <4> QED
        BY <3>3, <4>5
    <3> QED
      BY <3>4, <3>5
  <2>4. n \in 1..n /\ n \notin wrong
    BY <1>3, <2>3
  <2> QED
    BY <2>1, <2>4
<1> QED
  BY <1>2, <1>3

----------------------------------------------------------------------------
(* Types. *)

Table(r) == r = [p \in Projects |-> [k \in Kinds |-> r[p][k]]]
Put(r, p, k, content) == [r EXCEPT ![p][k] = content]

\* The cache has its form, and outside of the loop its variables are empty.
CacheForm == cache = [template |-> cache.template, prj |-> cache.prj]
LoopShape == pc # "reconcile" => todo = {} /\ done = {} /\ at = None
TypeInv == TypeOK /\ CacheForm /\ LoopShape

\* What an entry may be.
Content(k) ==
  IF k = "Role" THEN Rules \cup {None}
  ELSE IF k = "RoleBinding" THEN Seq(Subjects) \cup {None} ELSE SUBSET Invited
TypedTable(r) == Table(r) /\ \A p \in Projects, k \in Kinds : r[p][k] \in Content(k)

LEMMA NamespaceIsFunction ==
  ASSUME NEW n
  PROVE  n \in Namespace <=> n = [k \in Kinds |-> n[k]] /\ \A k \in Kinds : n[k] \in Content(k)
<1>1. ASSUME n \in Namespace
      PROVE  n = [k \in Kinds |-> n[k]] /\ \A k \in Kinds : n[k] \in Content(k)
  BY <1>1 DEF Namespace, Kinds, Owned, Content
<1>2. ASSUME n = [k \in Kinds |-> n[k]], \A k \in Kinds : n[k] \in Content(k)
      PROVE  n \in Namespace
  <2>1. "Role" \in Kinds /\ "RoleBinding" \in Kinds /\ "others" \in Kinds
    BY DEF Kinds, Owned
  <2>2. /\ n["Role"] \in Rules \cup {None} /\ n["RoleBinding"] \in Seq(Subjects) \cup {None}
        /\ n["others"] \in SUBSET Invited
    BY <1>2, <2>1 DEF Content
  <2>3. n = [Role |-> n["Role"], RoleBinding |-> n["RoleBinding"], others |-> n["others"]]
    BY <1>2 DEF Kinds, Owned
  <2> QED
    BY <2>2, <2>3 DEF Namespace
<1> QED
  BY <1>1, <1>2

LEMMA TableTypes == \A r : r \in [Projects -> Namespace] <=> TypedTable(r)
<1> SUFFICES ASSUME NEW r PROVE r \in [Projects -> Namespace] <=> TypedTable(r)
  OBVIOUS
<1>1. ASSUME r \in [Projects -> Namespace] PROVE TypedTable(r)
  <2>1. \A p \in Projects : /\ r[p] = [k \in Kinds |-> r[p][k]]
                            /\ \A k \in Kinds : r[p][k] \in Content(k)
    BY <1>1, NamespaceIsFunction
  <2>2. r = [p \in Projects |-> r[p]]
    BY <1>1
  <2> QED
    BY <2>1, <2>2 DEF TypedTable, Table
<1>2. ASSUME TypedTable(r) PROVE r \in [Projects -> Namespace]
  <2>1. \A p \in Projects : r[p] = [k \in Kinds |-> r[p][k]]
    BY <1>2 DEF TypedTable, Table
  <2>2. \A p \in Projects : r[p] \in Namespace
    BY <1>2, <2>1, NamespaceIsFunction DEF TypedTable
  <2>3. r = [p \in Projects |-> r[p]]
    BY <1>2, <2>1 DEF TypedTable, Table
  <2> QED
    BY <2>2, <2>3
<1> QED
  BY <1>1, <1>2

LEMMA EntryPut ==
  ASSUME NEW r, Table(r), NEW p \in Projects, NEW k \in Kinds, NEW content
  PROVE  /\ Table(Put(r, p, k, content))
         /\ \A q \in Projects, j \in Kinds :
              Put(r, p, k, content)[q][j] = IF q = p /\ j = k THEN content ELSE r[q][j]
  BY DEF Table, Put

LEMMA PutTypes ==
  ASSUME NEW r \in [Projects -> Namespace], NEW p \in Projects, NEW k \in Kinds,
         NEW content \in Content(k)
  PROVE  Put(r, p, k, content) \in [Projects -> Namespace]
<1>1. Table(r) /\ \A q \in Projects, j \in Kinds : r[q][j] \in Content(j)
  BY TableTypes DEF TypedTable
<1>2. TypedTable(Put(r, p, k, content))
  BY <1>1, EntryPut DEF TypedTable
<1> QED
  BY <1>2, TableTypes

LEMMA StoreTypes ==
  ASSUME TypeOK, NEW new \in [Projects -> Namespace], Store(new)
  PROVE  /\ rbac' \in [Projects -> Namespace] /\ seen' \in [Projects -> Namespace]
         /\ outdated' \subseteq Projects \X Kinds /\ projectQueue' \subseteq Projects
<1>1. TypedTable(new) /\ TypedTable(seen)
  BY TableTypes DEF TypeOK
<1>2. TypedTable(seen')
  <2>1. ASSUME NEW p \in Projects, NEW k \in Kinds
        PROVE  seen'[p][k] \in {new[p][k], seen[p][k]}
    BY DEF Store
  <2>2. Table(seen')
    BY DEF Store, Table
  <2> QED
    BY <1>1, <2>1, <2>2 DEF TypedTable
<1>3. rbac' = new /\ outdated' \subseteq Projects \X Kinds /\ projectQueue' \subseteq Projects
  BY DEF Store, TypeOK
<1> QED
  BY <1>2, <1>3, TableTypes

----------------------------------------------------------------------------
LEMMA TemplateTypes ==
  /\ NoTemplate \in Template /\ ~NoTemplate.present /\ ~NoTemplate.finalizer
  /\ \A spec \in Specs, held \in BOOLEAN :
       /\ NewTemplate(spec, held) \in Template
       /\ ~NewTemplate(spec, held).finalizer
<1>1. ASSUME NEW spec \in Specs, NEW held \in BOOLEAN
      PROVE  /\ NewTemplate(spec, held) \in Template
             /\ NewTemplate(spec, held).finalizer = FALSE
  BY DEF NewTemplate, Template
<1>2. (CHOOSE s \in Specs : TRUE) \in Specs
  BY ProjectTemplateAssumption
<1>3. /\ NoTemplate \in Template
      /\ NoTemplate.present = FALSE /\ NoTemplate.finalizer = FALSE
  <2> DEFINE new == NewTemplate(CHOOSE s \in Specs : TRUE, FALSE)
  <2>1. new \in Template /\ new.finalizer = FALSE
    BY <1>1, <1>2
  <2>2. NoTemplate = [new EXCEPT !.present = FALSE]
    BY DEF NoTemplate
  <2> HIDE DEF new
  <2> QED
    BY <2>1, <2>2 DEF Template
<1> QED
  BY <1>1, <1>3

LEMMA ProjectTypes ==
  /\ NoProject \in Project /\ NoProject.phase = "absent"
  /\ \A owners \in OwnerLists, label \in Labels : NewProject(owners, label) \in Project
<1>1. \A owners \in OwnerLists \cup {<<>>}, label \in Labels : NewProject(owners, label) \in Project
  BY DEF NewProject, Project
<1>2. (CHOOSE l \in Labels : TRUE) \in Labels
  BY ProjectTemplateAssumption
<1>3. NoProject \in Project /\ NoProject.phase = "absent"
  <2> DEFINE new == NewProject(<<>>, CHOOSE l \in Labels : TRUE)
  <2>1. new \in Project
    BY <1>1, <1>2
  <2>2. NoProject = [new EXCEPT !.phase = "absent"]
    BY DEF NoProject
  <2> HIDE DEF new
  <2> QED
    BY <2>1, <2>2 DEF Project
<1> QED
  BY <1>1, <1>3

LEMMA SubjectLists ==
  /\ Seq(Subjects) \subseteq Seq(Nat)
  /\ \A list \in Seq(Subjects) : ToSet(list) \subseteq Subjects
<1>1. Subjects \subseteq Nat
  BY ProjectTemplateAssumption
<1>2. ASSUME NEW list \in Seq(Subjects) PROVE list \in Seq(Nat) /\ ToSet(list) \subseteq Subjects
  <2>1. Len(list) \in Nat /\ DOMAIN list = 1..Len(list) /\ \A i \in 1..Len(list) : list[i] \in Subjects
    OBVIOUS
  <2>2. list \in [1..Len(list) -> Nat]
    <3>1. list = [i \in 1..Len(list) |-> list[i]]
      OBVIOUS
    <3> QED
      BY <1>1, <2>1, <3>1
  <2>3. list \in Seq(Nat)
    BY <2>1, <2>2
  <2>4. ToSet(list) \subseteq Subjects
    BY <2>1 DEF ToSet
  <2> QED
    BY <2>3, <2>4
<1> QED
  BY <1>2

\* Whatever subjects are given, extractSubjects returns a list of them.
LEMMA ExtractTypes ==
  ASSUME NEW list \in Seq(Subjects)
  PROVE  /\ ExtractSubjects(list) \in Seq(Subjects)
         /\ ToSet(ExtractSubjects(list)) = ToSet(list)
         /\ ExtractSubjects(list) = Ranked(ToSet(list))
<1>1. list \in Seq(Nat) /\ ToSet(list) \subseteq Subjects
  BY SubjectLists
<1>2. /\ ExtractSubjects(list) \in Seq(ToSet(list))
      /\ ToSet(ExtractSubjects(list)) = ToSet(list)
      /\ ExtractSubjects(list) = Ranked(ToSet(list))
  BY <1>1, ExtractedIsRanked
<1>3. ExtractSubjects(list) \in Seq(Subjects)
  BY <1>1, <1>2
<1> QED
  BY <1>2, <1>3

LEMMA GrantedToTypes ==
  ASSUME NEW t \in Template, NEW project \in Project
  PROVE  GrantedTo(t, project) \in Seq(Subjects)
<1>1. project.owners \in Seq(Subjects) /\ project.members \in Seq(Subjects)
  <2>1. project.owners \in OwnerLists \cup {<<>>} /\ project.members \in Seq(Subjects)
    BY DEF Project
  <2>2. OwnerLists \subseteq Seq(Subjects) /\ <<>> \in Seq(Subjects)
    BY ProjectTemplateAssumption
  <2> QED
    BY <2>1, <2>2
<1> QED
  BY <1>1 DEF GrantedTo

\* What the Project controller finds in a namespace.
BoundIn(entries) == entries.others \cup SetOf(entries.RoleBinding)

LEMMA CollectedSubjects ==
  ASSUME NEW entries \in Namespace, NEW lists \in RoleBindingLists(entries)
  PROVE  FlattenSeq(lists) \in Seq(Subjects) /\ ToSet(FlattenSeq(lists)) = BoundIn(entries)
<1> DEFINE bindings == {<<s, <<s>>>> : s \in entries.others}
                         \cup {<<Name, list>> : list \in {entries.RoleBinding} \ {None}}
           n == Cardinality(bindings)
<1>1. /\ entries.others \subseteq Invited /\ entries.RoleBinding \in Seq(Subjects) \cup {None}
      /\ IsFiniteSet(Invited) /\ Invited \subseteq Subjects /\ Subjects \subseteq Nat
  BY ProjectTemplateAssumption DEF Namespace
<1>2. IsFiniteSet(bindings)
  <2>1. IsFiniteSet(entries.others)
    BY <1>1, FS_Subset
  <2> DEFINE single == {<<s, <<s>>>> : s \in entries.others}
  <2>2. [s \in entries.others |-> <<s, <<s>>>>] \in Surjection(entries.others, single)
    BY DEF Surjection
  <2>3. IsFiniteSet(single)
    BY <2>1, <2>2, FS_Surjection
  <2>4. IsFiniteSet(single \cup {<<Name, entries.RoleBinding>>})
    BY <2>3, FS_AddElement
  <2>5. bindings = single \/ bindings = single \cup {<<Name, entries.RoleBinding>>}
    OBVIOUS
  <2> QED
    BY <2>3, <2>4, <2>5
<1>3. PICK order \in SetToSeqs(bindings) : lists = [i \in DOMAIN order |-> order[i][2]]
  BY DEF RoleBindingLists
<1> HIDE DEF bindings
<1>4. n \in Nat
  BY <1>2, FS_CardinalityType
<1>5. /\ order \in [1..n -> bindings]
      /\ \A i, j \in 1..n : i # j => order[i] # order[j]
  BY <1>3 DEF SetToSeqs
<1>6. \A b \in bindings : \E i \in 1..n : order[i] = b
  <2>1. order \in Injection(1..n, bindings)
    BY <1>5 DEF Injection, IsInjective
  <2>2. IsFiniteSet(1..n) /\ Cardinality(1..n) = n
    BY <1>4, FS_Interval
  <2>3. order \in Surjection(1..n, bindings)
    BY <1>2, <2>1, <2>2, FS_Injection
  <2> QED
    BY <2>3 DEF Surjection
<1> HIDE DEF n
<1>7. \A b \in bindings :
        \/ \E s \in entries.others : b = <<s, <<s>>>>
        \/ entries.RoleBinding # None /\ b = <<Name, entries.RoleBinding>>
  BY DEF bindings
<1>8. DOMAIN lists = 1..n /\ \A i \in 1..n : order[i] \in bindings /\ lists[i] = order[i][2]
  BY <1>3, <1>5
<1>9. \A i \in 1..n : lists[i] \in Seq(Nat) /\ ToSet(lists[i]) \subseteq BoundIn(entries)
  <2> SUFFICES ASSUME NEW i \in 1..n
               PROVE  lists[i] \in Seq(Nat) /\ ToSet(lists[i]) \subseteq BoundIn(entries)
    OBVIOUS
  <2>1. ASSUME NEW s \in entries.others, order[i] = <<s, <<s>>>>
        PROVE  lists[i] \in Seq(Nat) /\ ToSet(lists[i]) \subseteq BoundIn(entries)
    <3>1. lists[i] = <<s>> /\ s \in Nat
      <4>1. order[i][2] = <<s>>
        BY <2>1
      <4>2. s \in Nat
        BY <1>1
      <4> QED
        BY <1>8, <4>1, <4>2
    <3>2. <<s>> \in Seq(Nat) /\ ToSet(<<s>>) = {s}
      BY <3>1 DEF ToSet
    <3> QED
      BY <3>1, <3>2 DEF BoundIn
  <2>2. ASSUME entries.RoleBinding # None, order[i] = <<Name, entries.RoleBinding>>
        PROVE  lists[i] \in Seq(Nat) /\ ToSet(lists[i]) \subseteq BoundIn(entries)
    <3>1. lists[i] = entries.RoleBinding
      BY <1>8, <2>2
    <3> QED
      BY <1>1, <2>2, <3>1, SubjectLists DEF BoundIn, SetOf
  <2> QED
    BY <1>7, <1>8, <2>1, <2>2
<1>10. ASSUME NEW x \in BoundIn(entries) PROVE \E i \in 1..n : x \in ToSet(lists[i])
  <2>1. CASE x \in entries.others
    <3>1. <<x, <<x>>>> \in bindings
      BY <2>1 DEF bindings
    <3>2. PICK i \in 1..n : order[i] = <<x, <<x>>>>
      BY <1>6, <3>1
    <3>3. lists[i] = <<x>>
      BY <1>8, <3>2
    <3>4. x \in ToSet(<<x>>)
      BY DEF ToSet
    <3> QED
      BY <3>3, <3>4
  <2>2. CASE x \in SetOf(entries.RoleBinding)
    <3>1. entries.RoleBinding # None /\ x \in ToSet(entries.RoleBinding)
      BY <2>2 DEF SetOf
    <3>2. <<Name, entries.RoleBinding>> \in bindings
      BY <3>1 DEF bindings
    <3>3. PICK i \in 1..n : order[i] = <<Name, entries.RoleBinding>>
      BY <1>6, <3>2
    <3>4. lists[i] = entries.RoleBinding
      BY <1>8, <3>3
    <3> QED
      BY <3>1, <3>4
  <2> QED
    BY <2>1, <2>2 DEF BoundIn
<1>11. lists = [i \in 1..n |-> lists[i]]
  BY <1>3, <1>8
<1>12. FlattenSeq(lists) \in Seq(Nat) /\ ToSet(FlattenSeq(lists)) = UNION {ToSet(lists[i]) : i \in 1..n}
  <2>1. n \in Nat
    BY <1>4 DEF n
  <2> QED
    BY <1>9, <1>11, <2>1, Flattened
<1>13. UNION {ToSet(lists[i]) : i \in 1..n} = BoundIn(entries)
  BY <1>9, <1>10
<1>14. BoundIn(entries) \subseteq Subjects
  BY <1>1, SubjectLists DEF BoundIn, SetOf
<1>15. FlattenSeq(lists) \in Seq(Subjects)
  BY <1>12, <1>13, <1>14 DEF ToSet
<1> QED
  BY <1>12, <1>13, <1>15

\* A step that leaves the call alone.
LEMMA AsideTyped ==
  ASSUME TypeInv, UNCHANGED <<pc, obj, listed, todo, at, done>>, current' \in BOOLEAN,
         template' \in Template, prj' \in [Projects -> Project],
         rbac' \in [Projects -> Namespace], seen' \in [Projects -> Namespace],
         CacheForm', cache'.template \in Template, cache'.prj \in [Projects -> Project],
         pending' \subseteq {Name} \cup Projects, outdated' \subseteq Projects \X Kinds,
         queued' \in BOOLEAN, projectQueue' \subseteq Projects, calm' \in BOOLEAN
  PROVE  TypeInv'
  BY DEF TypeInv, TypeOK, LoopShape

LEMMA SetProjectTyped ==
  ASSUME TypeInv, NEW p \in Projects, NEW new \in Project, SetProject(p, new)
  PROVE  TypeInv'
<1>1. prj' \in [Projects -> Project] /\ pending' \subseteq {Name} \cup Projects
  BY DEF SetProject, Notify, TypeInv, TypeOK
<1> QED
  BY <1>1, AsideTyped DEF SetProject, TypeInv, TypeOK, CacheForm, queueVars, callVars

LEMMA SetEntryTyped ==
  ASSUME TypeInv, NEW p \in Projects, NEW k \in Kinds, NEW content \in Content(k),
         SetEntry(p, k, content)
  PROVE  TypeInv'
<1>1. Put(rbac, p, k, content) \in [Projects -> Namespace]
  BY PutTypes DEF TypeInv, TypeOK
<1>2. Store(Put(rbac, p, k, content))
  BY DEF SetEntry, Put
<1>3. /\ rbac' \in [Projects -> Namespace] /\ seen' \in [Projects -> Namespace]
      /\ outdated' \subseteq Projects \X Kinds /\ projectQueue' \subseteq Projects
  BY <1>1, <1>2, StoreTypes DEF TypeInv
<1> QED
  BY <1>3, AsideTyped DEF SetEntry, TypeInv, TypeOK, CacheForm, callVars

LEMMA ProjectWritesTyped ==
  ASSUME TypeInv, NEW p \in Projects,
         \/ CreateProject(p) \/ ChangeOwners(p) \/ ChangeLabel(p) \/ DeleteProject(p)
         \/ RemoveProject(p)
  PROVE  TypeInv'
<1>1. prj[p] \in Project
  BY DEF TypeInv, TypeOK
<1>2. CASE CreateProject(p)
  BY <1>2, ProjectTypes, SetProjectTyped DEF CreateProject
<1>3. CASE ChangeOwners(p)
  <2>1. PICK owners \in OwnerLists : SetProject(p, [prj[p] EXCEPT !.owners = owners, !.phase = "unready"])
    BY <1>3 DEF ChangeOwners
  <2>2. [prj[p] EXCEPT !.owners = owners, !.phase = "unready"] \in Project
    BY <1>1 DEF Project
  <2> QED
    BY <2>1, <2>2, SetProjectTyped
<1>4. CASE ChangeLabel(p)
  <2>1. PICK label \in Labels : SetProject(p, [prj[p] EXCEPT !.label = label])
    BY <1>4 DEF ChangeLabel
  <2>2. [prj[p] EXCEPT !.label = label] \in Project
    BY <1>1 DEF Project
  <2> QED
    BY <2>1, <2>2, SetProjectTyped
<1>5. CASE DeleteProject(p)
  <2>1. [prj[p] EXCEPT !.phase = "leaving"] \in Project
    BY <1>1 DEF Project
  <2> QED
    BY <1>5, <2>1, SetProjectTyped DEF DeleteProject
<1>6. CASE RemoveProject(p)
  BY <1>6, ProjectTypes, SetProjectTyped DEF RemoveProject
<1> QED
  BY <1>2, <1>3, <1>4, <1>5, <1>6

LEMMA EntryWritesTyped ==
  ASSUME TypeInv, NEW p \in Projects, PurgeNamespace(p) \/ ChangeRoleBindings(p)
  PROVE  TypeInv'
<1>1. CASE PurgeNamespace(p)
  <2>1. PICK k \in Kinds : SetEntry(p, k, NoEntries[k])
    BY <1>1 DEF PurgeNamespace
  <2>2. NoEntries[k] \in Content(k)
    BY DEF NoEntries, Content, Kinds, Owned
  <2> QED
    BY <2>1, <2>2, SetEntryTyped
<1>2. CASE ChangeRoleBindings(p)
  <2>1. PICK s \in Invited : \/ SetEntry(p, "others", rbac[p].others \cup {s})
                             \/ SetEntry(p, "others", rbac[p].others \ {s})
    BY <1>2 DEF ChangeRoleBindings
  <2>2. "others" \in Kinds /\ Content("others") = SUBSET Invited
    BY DEF Content, Kinds
  <2>3. rbac[p].others \subseteq Invited
    BY DEF TypeInv, TypeOK, Namespace
  <2> QED
    BY <2>1, <2>2, <2>3, SetEntryTyped
<1> QED
  BY <1>1, <1>2

LEMMA CollectMembersTyped == ASSUME TypeInv, NEW p \in Projects, CollectMembers(p) PROVE TypeInv'
<1>1. prj' \in [Projects -> Project]
  <2>1. CASE UNCHANGED prj
    BY <2>1 DEF TypeInv, TypeOK
  <2>2. CASE ~ UNCHANGED prj
    <3>1. PICK lists \in RoleBindingLists(seen[p]) :
            prj' = [prj EXCEPT ![p].members = ExtractSubjects(FlattenSeq(lists)), ![p].phase = "ready"]
      BY <2>2 DEF CollectMembers
    <3> DEFINE members == ExtractSubjects(FlattenSeq(lists))
    <3>2. seen[p] \in Namespace /\ prj[p] \in Project /\ prj \in [Projects -> Project]
      BY DEF TypeInv, TypeOK
    <3>3. members \in Seq(Subjects)
      BY <3>2, CollectedSubjects, ExtractTypes
    <3> HIDE DEF members
    <3>4. [prj[p] EXCEPT !.members = members, !.phase = "ready"] \in Project
      BY <3>2, <3>3 DEF Project
    <3>5. prj' = [prj EXCEPT ![p] = [prj[p] EXCEPT !.members = members, !.phase = "ready"]]
      BY <3>1, <3>2 DEF members
    <3> QED
      BY <3>2, <3>4, <3>5
  <2> QED
    BY <2>1, <2>2
<1>2. pending' \subseteq {Name} \cup Projects
  BY DEF CollectMembers, Notify, TypeInv, TypeOK
<1>3. projectQueue' \subseteq Projects
  BY DEF CollectMembers, TypeInv, TypeOK
<1>4. UNCHANGED <<template, rbac, cache, seen, outdated, queued, callVars, calm>>
  BY DEF CollectMembers
<1> QED
  BY <1>1, <1>2, <1>3, <1>4, AsideTyped DEF TypeInv, TypeOK, CacheForm, callVars

LEMMA InformersTyped ==
  ASSUME TypeInv,
         \/ \E what \in {Name} \cup Projects : Deliver(what)
         \/ \E p \in Projects, k \in Kinds : DeliverRole(p, k)
         \/ Resync
  PROVE  TypeInv'
<1>1. ASSUME NEW what \in {Name} \cup Projects, Deliver(what) PROVE TypeInv'
  <2>1. cache = [template |-> cache.template, prj |-> cache.prj]
    BY DEF TypeInv, CacheForm
  <2>2. \/ cache' = [template |-> template, prj |-> cache.prj]
        \/ what # Name /\ cache' = [template |-> cache.template, prj |-> [cache.prj EXCEPT ![what] = prj[what]]]
    BY <1>1, <2>1 DEF Deliver
  <2>3. CacheForm' /\ cache'.template \in Template /\ cache'.prj \in [Projects -> Project]
    BY <2>2 DEF TypeInv, TypeOK, CacheForm
  <2>4. /\ pending' \subseteq {Name} \cup Projects /\ queued' \in BOOLEAN
        /\ projectQueue' \subseteq Projects
    BY <1>1 DEF Deliver, Requested, TypeInv, TypeOK
  <2>5. UNCHANGED <<template, prj, rbac, seen, outdated, callVars, calm>>
    BY <1>1 DEF Deliver
  <2> QED
    BY <2>3, <2>4, <2>5, AsideTyped DEF TypeInv, TypeOK, callVars
<1>2. ASSUME NEW p \in Projects, NEW k \in Kinds, DeliverRole(p, k) PROVE TypeInv'
  <2>1. rbac[p][k] \in Content(k)
    BY TableTypes DEF TypeInv, TypeOK, TypedTable
  <2>2. seen' \in [Projects -> Namespace]
    BY <1>2, <2>1, PutTypes DEF DeliverRole, Put, TypeInv, TypeOK
  <2>3. projectQueue' \subseteq Projects /\ outdated' \subseteq Projects \X Kinds
    BY <1>2 DEF DeliverRole, TypeInv, TypeOK
  <2>4. UNCHANGED <<template, prj, rbac, cache, pending, queued, callVars, calm>>
    BY <1>2 DEF DeliverRole
  <2> QED
    BY <2>2, <2>3, <2>4, AsideTyped DEF TypeInv, TypeOK, CacheForm, callVars
<1>3. CASE Resync
  <2>1. queued' \in BOOLEAN /\ projectQueue' \subseteq Projects
    BY <1>3 DEF Resync, Present, TypeInv, TypeOK
  <2>2. UNCHANGED <<template, prj, rbac, cacheVars, callVars, calm>>
    BY <1>3 DEF Resync
  <2> QED
    BY <2>1, <2>2, AsideTyped DEF TypeInv, TypeOK, CacheForm, cacheVars, callVars
<1> QED
  BY <1>1, <1>2, <1>3

LEMMA TemplateWritesTyped ==
  ASSUME TypeInv, CreateTemplate \/ UpdateSpec \/ DeleteTemplate \/ ReleaseHold
  PROVE  TypeInv'
<1>1. PICK new \in Template : ChangeTemplate(new)
  <2>1. CASE CreateTemplate
    BY <2>1, TemplateTypes, ProjectTemplateAssumption DEF CreateTemplate
  <2>2. CASE UpdateSpec
    <3>1. PICK spec \in Specs : ChangeTemplate([template EXCEPT !.spec = spec, !.observed = FALSE])
      BY <2>2 DEF UpdateSpec
    <3>2. [template EXCEPT !.spec = spec, !.observed = FALSE] \in Template
      BY DEF TypeInv, TypeOK, Template
    <3> QED
      BY <3>1, <3>2
  <2>3. CASE DeleteTemplate
    <3>1. [template EXCEPT !.deleting = TRUE, !.observed = FALSE] \in Template
      BY DEF TypeInv, TypeOK, Template
    <3> QED
      BY <2>3, <3>1, TemplateTypes DEF DeleteTemplate
  <2>4. CASE ReleaseHold
    <3>1. [template EXCEPT !.held = FALSE] \in Template
      BY DEF TypeInv, TypeOK, Template
    <3> QED
      BY <2>4, <3>1, TemplateTypes DEF ReleaseHold
  <2> QED
    BY <2>1, <2>2, <2>3, <2>4
<1>2. pending' \subseteq {Name} \cup Projects
  BY <1>1 DEF ChangeTemplate, Notify, TypeInv, TypeOK
<1>3. /\ template' = new /\ current' = FALSE
      /\ UNCHANGED <<prj, rbac, cache, seen, outdated, queueVars, pc, obj, listed, todo, at, done, calm>>
  BY <1>1 DEF ChangeTemplate
<1> QED
  BY <1>2, <1>3, AsideTyped DEF TypeInv, TypeOK, CacheForm, queueVars

----------------------------------------------------------------------------
LEMMA ReturnTypes ==
  ASSUME Return
  PROVE  /\ pc' = "idle" /\ obj' \in Template /\ current' = FALSE
         /\ listed' \in [Projects -> Project] /\ todo' = {} /\ at' = None /\ done' = {}
  BY TemplateTypes, ProjectTypes DEF Return, NoProjects

LEMMA ReturnTyped ==
  ASSUME TypeInv, Return, template' \in Template, prj' \in [Projects -> Project],
         rbac' \in [Projects -> Namespace], seen' \in [Projects -> Namespace],
         CacheForm', cache'.template \in Template, cache'.prj \in [Projects -> Project],
         pending' \subseteq {Name} \cup Projects, outdated' \subseteq Projects \X Kinds,
         queued' \in BOOLEAN, projectQueue' \subseteq Projects, calm' \in BOOLEAN
  PROVE  TypeInv'
  BY ReturnTypes DEF TypeInv, TypeOK, LoopShape

\* A call that ends and has changed no more than the template.
LEMMA EndTyped ==
  ASSUME TypeInv, Return, template' \in Template, queued' \in BOOLEAN,
         pending' \subseteq {Name} \cup Projects,
         UNCHANGED <<prj, rbac, cache, seen, outdated, projectQueue, calm>>
  PROVE  TypeInv'
  BY ReturnTyped DEF TypeInv, TypeOK, CacheForm

\* The call goes on and has changed no more than the template.
LEMMA GoesOnTyped ==
  ASSUME TypeInv, template' \in Template, obj' \in Template, current' \in BOOLEAN,
         queued' \in BOOLEAN, pending' \subseteq {Name} \cup Projects,
         UNCHANGED <<prj, rbac, cache, seen, outdated, projectQueue, at, done, calm>>,
         \/ /\ pc' \in {"idle", "updateFinalizer", "updateTerminating", "deleteObjects", "removeFinalizer"}
            /\ pc # "reconcile" /\ UNCHANGED <<todo, listed>>
         \/ pc # "reconcile" /\ ListProjects(obj')
  PROVE  TypeInv'
<1>1. CASE UNCHANGED <<todo, listed>> /\ pc # "reconcile" /\ pc' # "reconcile" /\ pc' \in
        {"idle", "updateFinalizer", "updateTerminating", "deleteObjects", "removeFinalizer"}
  BY <1>1 DEF TypeInv, TypeOK, LoopShape, CacheForm
<1>2. CASE pc # "reconcile" /\ ListProjects(obj')
  <2>1. pc' = "reconcile" /\ todo' \subseteq Projects
    BY <1>2 DEF ListProjects
  <2>2. listed' \in [Projects -> Project]
    BY <1>2, ProjectTypes DEF ListProjects, TypeInv, TypeOK
  <2>3. done' = {} /\ at' = None
    BY <1>2 DEF TypeInv, LoopShape
  <2> QED
    BY <2>1, <2>2, <2>3 DEF TypeInv, TypeOK, LoopShape, CacheForm
<1> QED
  BY <1>1, <1>2

LEMMA StartTyped == ASSUME TypeInv, Start PROVE TypeInv'
<1>1. /\ UNCHANGED <<template, prj, rbac, cacheVars, projectQueue, calm>> /\ queued' = FALSE
      /\ pc = "idle"
  BY DEF Start
<1>2. CASE UNCHANGED callVars
  BY <1>1, <1>2, GoesOnTyped DEF TypeInv, TypeOK, callVars, cacheVars
<1>3. CASE ~ UNCHANGED callVars
  <2>1. /\ obj' = cache.template /\ current' = (Name \notin pending) /\ UNCHANGED <<at, done>>
        /\ \/ ListProjects(cache.template)
           \/ /\ pc' \in {"updateFinalizer", "deleteObjects", "updateTerminating"}
              /\ UNCHANGED <<todo, listed>>
    BY <1>3 DEF Start
  <2> QED
    BY <1>1, <2>1, GoesOnTyped DEF TypeInv, TypeOK, cacheVars
<1> QED
  BY <1>2, <1>3

LEMMA WriteTypes ==
  ASSUME TypeInv, NEW new \in Template, Write(new)
  PROVE  template' \in Template /\ pending' \subseteq {Name} \cup Projects
  BY DEF Write, Notify, TypeInv, TypeOK

LEMMA ConflictTyped ==
  ASSUME TypeInv, Conflict, UNCHANGED <<prj, rbac, cache, seen, outdated, projectQueue, calm>>
  PROVE  TypeInv'
<1>1. Return /\ queued' = TRUE /\ UNCHANGED <<template, pending>>
  BY DEF Conflict, ReturnError
<1> QED
  BY <1>1, EndTyped DEF TypeInv, TypeOK

LEMMA TemplateStepsTyped ==
  ASSUME TypeInv, UpdateFinalizer \/ UpdateStatus \/ UpdateTerminating \/ RemoveFinalizer
  PROVE  TypeInv'
<1>1. UNCHANGED <<prj, rbac, cache, seen, outdated, projectQueue, calm>>
  BY DEF UpdateFinalizer, UpdateStatus, UpdateTerminating, RemoveFinalizer
<1>2. obj \in Template
  BY DEF TypeInv, TypeOK
<1>3. CASE Conflict
  BY <1>1, <1>3, ConflictTyped
<1>4. CASE UpdateFinalizer /\ ~Conflict
  <2> DEFINE new == [obj EXCEPT !.finalizer = TRUE]
  <2>1. new \in Template
    BY <1>2 DEF Template
  <2> HIDE DEF new
  <2>2. /\ Write(new) /\ obj' = template' /\ ListProjects(obj') /\ pc = "updateFinalizer"
        /\ UNCHANGED <<queued, current, at, done>>
    BY <1>4 DEF UpdateFinalizer, new
  <2>3. template' \in Template /\ pending' \subseteq {Name} \cup Projects
    BY <2>1, <2>2, WriteTypes
  <2> QED
    BY <1>1, <2>2, <2>3, GoesOnTyped DEF TypeInv, TypeOK
<1>5. CASE UpdateStatus /\ ~Conflict
  <2> DEFINE observed == obj.observed \/ ~IsReady(obj)
             ready == IF IsReady(obj) THEN obj.ready ELSE "True"
             new == [obj EXCEPT !.targets = done, !.observed = observed, !.ready = ready]
  <2>1. observed \in BOOLEAN /\ ready \in {"Unset", "True", "Terminating"} /\ done \subseteq Projects
    BY <1>2 DEF TypeInv, TypeOK, Template, IsReady
  <2> HIDE DEF observed, ready
  <2>2. new \in Template
    BY <1>2, <2>1 DEF Template
  <2>3. \/ Return /\ UNCHANGED <<template, pending, queued>>
        \/ Write(new) /\ Return /\ UNCHANGED queued
    BY <1>5 DEF UpdateStatus, observed, ready
  <2> HIDE DEF new
  <2>4. template' \in Template /\ pending' \subseteq {Name} \cup Projects
    BY <2>2, <2>3, WriteTypes DEF TypeInv, TypeOK
  <2> QED
    BY <1>1, <2>3, <2>4, EndTyped DEF TypeInv, TypeOK
<1>6. CASE UpdateTerminating /\ ~Conflict
  <2> DEFINE new == [obj EXCEPT !.observed = TRUE, !.ready = "Terminating"]
  <2>1. new \in Template
    BY <1>2 DEF Template
  <2> HIDE DEF new
  <2>2. /\ Write(new) /\ obj' = template' /\ pc = "updateTerminating" /\ pc' = "deleteObjects"
        /\ UNCHANGED <<queued, current, listed, todo, at, done>>
    BY <1>6 DEF UpdateTerminating, new
  <2>3. template' \in Template /\ pending' \subseteq {Name} \cup Projects
    BY <2>1, <2>2, WriteTypes
  <2> QED
    BY <1>1, <2>2, <2>3, GoesOnTyped DEF TypeInv, TypeOK
<1>7. CASE RemoveFinalizer /\ ~Conflict
  <2>1. [obj EXCEPT !.finalizer = FALSE] \in Template
    BY <1>2 DEF Template
  <2>2. PICK new \in Template : Write(new) /\ Return /\ UNCHANGED queued
    BY <1>7, <2>1, TemplateTypes DEF RemoveFinalizer
  <2>3. template' \in Template /\ pending' \subseteq {Name} \cup Projects
    BY <2>2, WriteTypes
  <2> QED
    BY <1>1, <2>2, <2>3, EndTyped DEF TypeInv, TypeOK
<1> QED
  BY <1>3, <1>4, <1>5, <1>6, <1>7

----------------------------------------------------------------------------
\* The call goes on or ends, and has changed entries.
LEMMA EntriesTyped ==
  ASSUME TypeInv, NEW new \in [Projects -> Namespace], Store(new),
         UNCHANGED <<template, prj, cache, pending, calm>>, queued' \in BOOLEAN,
         \/ Return
         \/ /\ UNCHANGED <<obj, current, listed>>
            /\ pc' = "reconcile" => UNCHANGED pc
            /\ pc' \in {"reconcile", "removeFinalizer"}
            /\ todo' \subseteq todo /\ done' \subseteq Projects \ todo' /\ at' \in todo' \cup {None}
            /\ pc' # "reconcile" => pc # "reconcile" /\ UNCHANGED <<todo, done, at>>
  PROVE  TypeInv'
<1>1. /\ rbac' \in [Projects -> Namespace] /\ seen' \in [Projects -> Namespace]
      /\ outdated' \subseteq Projects \X Kinds /\ projectQueue' \subseteq Projects
  BY StoreTypes DEF TypeInv
<1>2. CASE Return
  BY <1>1, <1>2, ReturnTyped DEF TypeInv, TypeOK, CacheForm
<1>3. CASE ~Return
  BY <1>1, <1>3 DEF TypeInv, TypeOK, LoopShape, CacheForm
<1> QED
  BY <1>2, <1>3

LEMMA ReconciledTypes ==
  ASSUME TypeInv, NEW p \in Projects, NEW k \in Kinds, NEW content \in Content(k),
         ReconcileOwned(p, k, content)
  PROVE  \E new \in [Projects -> Namespace] : Store(new)
<1>1. rbac \in [Projects -> Namespace]
  BY DEF TypeInv, TypeOK
<1>2. Put(rbac, p, k, content) \in [Projects -> Namespace]
  BY <1>1, PutTypes
<1>3. Store(rbac) \/ Store(Put(rbac, p, k, content))
  BY DEF ReconcileOwned, Put
<1> QED
  BY <1>1, <1>2, <1>3

LEMMA FailedTyped ==
  ASSUME TypeInv, ReturnError,
         UNCHANGED <<template, prj, rbac, cache, pending, seen, outdated, projectQueue, calm>>
  PROVE  TypeInv'
  BY EndTyped DEF ReturnError, TypeInv, TypeOK

LEMMA ReconcileTyped ==
  ASSUME TypeInv, NEW p \in Projects, ReconcileRole(p) \/ ReconcileRoleBinding(p)
  PROVE  TypeInv'
<1> DEFINE subjects == ExtractSubjects(GrantedTo(obj, listed[p]))
           Failed == ReturnError /\ UNCHANGED <<rbac, seen, outdated, projectQueue>>
           RoleDone == /\ ReconcileOwned(p, "Role", obj.spec.rules) /\ at' = p /\ p \in todo
                       /\ UNCHANGED <<queued, pc, obj, current, listed, todo, done>>
           AllDone == /\ ReconcileOwned(p, "RoleBinding", subjects)
                      /\ at' = None /\ todo' = todo \ {p} /\ done' = done \cup {p}
                      /\ UNCHANGED <<queued, pc, obj, current, listed>>
<1>1. /\ UNCHANGED <<template, prj, cache, pending, calm>> /\ pc = "reconcile"
      /\ Failed \/ RoleDone \/ AllDone
  BY DEF ReconcileRole, ReconcileRoleBinding
<1>2. subjects \in Seq(Subjects)
  BY GrantedToTypes, ExtractTypes DEF TypeInv, TypeOK
<1> HIDE DEF subjects
<1>3. CASE Failed
  BY <1>1, <1>3, FailedTyped
<1>4. CASE RoleDone
  <2>1. obj.spec.rules \in Content("Role") /\ "Role" \in Kinds
    BY ProjectTemplateAssumption DEF TypeInv, TypeOK, Template, Content, Kinds, Owned
  <2>2. PICK new \in [Projects -> Namespace] : Store(new)
    BY <1>4, <2>1, ReconciledTypes
  <2> QED
    BY <1>1, <1>4, <2>2, EntriesTyped DEF TypeInv, TypeOK
<1>5. CASE AllDone
  <2>1. subjects \in Content("RoleBinding") /\ "RoleBinding" \in Kinds
    BY <1>2 DEF Content, Kinds, Owned
  <2>2. PICK new \in [Projects -> Namespace] : Store(new)
    BY <1>5, <2>1, ReconciledTypes
  <2>3. /\ todo' \subseteq todo /\ done' \subseteq Projects \ todo' /\ at' \in todo' \cup {None}
        /\ queued' \in BOOLEAN
    BY <1>5 DEF TypeInv, TypeOK
  <2> QED
    BY <1>1, <1>5, <2>2, <2>3, EntriesTyped
<1> QED
  BY <1>1, <1>3, <1>4, <1>5

LEMMA WithoutTypes ==
  ASSUME TypeInv, NEW deleted, deleted \subseteq Projects \X Owned
  PROVE  Without(deleted) \in [Projects -> Namespace]
<1>1. TypedTable(rbac)
  BY TableTypes DEF TypeInv, TypeOK
<1>2. Table(Without(deleted))
  BY DEF Table, Without
<1>3. ASSUME NEW p \in Projects, NEW k \in Kinds PROVE Without(deleted)[p][k] \in Content(k)
  <2>1. CASE <<p, k>> \in deleted
    <3>1. k \in Owned
      BY <2>1
    <3> QED
      BY <2>1, <3>1 DEF Without, Content, Owned
  <2>2. CASE <<p, k>> \notin deleted
    BY <1>1, <2>2 DEF Without, TypedTable
  <2> QED
    BY <2>1, <2>2
<1> QED
  BY <1>2, <1>3, TableTypes DEF TypedTable

LEMMA DeleteObjectsTyped == ASSUME TypeInv, DeleteObjects PROVE TypeInv'
<1> DEFINE there == {e \in Projects \X Owned : seen[e[1]][e[2]] # None}
<1>1. UNCHANGED <<template, prj, cache, pending, calm>> /\ pc = "deleteObjects"
  BY DEF DeleteObjects
<1>2. PICK deleted \in SUBSET there :
        /\ Store(Without(deleted))
        /\ \/ ReturnError
           \/ pc' = "removeFinalizer" /\ UNCHANGED <<queued, obj, current, listed, todo, at, done>>
           \/ Return /\ UNCHANGED queued
  BY DEF DeleteObjects
<1>3. Without(deleted) \in [Projects -> Namespace]
  BY WithoutTypes
<1>4. queued' \in BOOLEAN
  BY <1>2 DEF ReturnError, TypeInv, TypeOK
<1>5. CASE Return
  BY <1>1, <1>2, <1>3, <1>4, <1>5, EntriesTyped
<1>6. CASE pc' = "removeFinalizer" /\ UNCHANGED <<queued, obj, current, listed, todo, at, done>>
  BY <1>1, <1>2, <1>3, <1>4, <1>6, EntriesTyped DEF TypeInv, TypeOK
<1> QED
  BY <1>2, <1>5, <1>6 DEF ReturnError

LEMMA RestartTyped == ASSUME TypeInv, Restart PROVE TypeInv'
<1>1. CacheForm' /\ cache'.template = template /\ cache'.prj = prj
  BY DEF Restart, CacheForm
<1>2. /\ pending' = {} /\ seen' = rbac /\ outdated' = {} /\ queued' = template.present
      /\ projectQueue' \subseteq Projects /\ Return /\ UNCHANGED <<template, prj, rbac, calm>>
  BY DEF Restart
<1>3. template.present \in BOOLEAN
  BY DEF TypeInv, TypeOK, Template
<1> QED
  BY <1>1, <1>2, <1>3, ReturnTyped DEF TypeInv, TypeOK

LEMMA InitTyped == Init => TypeInv
<1> SUFFICES ASSUME Init PROVE TypeInv
  OBVIOUS
<1>1. NoEntries \in Namespace
  BY DEF NoEntries, Namespace
<1>2. rbac \in [Projects -> Namespace] /\ seen = rbac
  BY <1>1 DEF Init
<1>3. NoProjects \in [Projects -> Project]
  BY ProjectTypes DEF NoProjects
<1>4. CacheForm /\ cache.template = NoTemplate /\ cache.prj = NoProjects
  BY DEF Init, CacheForm
<1> QED
  BY <1>2, <1>3, <1>4, TemplateTypes DEF Init, TypeInv, TypeOK, LoopShape

LEMMA NextTyped == ASSUME TypeInv, [Next]_vars PROVE TypeInv'
<1>1. CASE Start
  BY <1>1, StartTyped
<1>2. CASE Continue
  BY <1>2, TemplateStepsTyped, ReconcileTyped, DeleteObjectsTyped DEF Continue
<1>3. CASE ReleaseHold \/ CreateTemplate \/ UpdateSpec \/ DeleteTemplate
  BY <1>3, TemplateWritesTyped
<1>4. CASE Resync \/ \E what \in {Name} \cup Projects : Deliver(what)
  BY <1>4, InformersTyped
<1>5. ASSUME NEW p \in Projects, NEW k \in Kinds, DeliverRole(p, k) PROVE TypeInv'
  BY <1>5, InformersTyped
<1>6. ASSUME NEW p \in Projects,
             \/ CollectMembers(p) \/ PurgeNamespace(p) \/ RemoveProject(p)
             \/ CreateProject(p) \/ ChangeOwners(p) \/ ChangeLabel(p) \/ DeleteProject(p)
             \/ ChangeRoleBindings(p)
      PROVE  TypeInv'
  BY <1>6, CollectMembersTyped, ProjectWritesTyped, EntryWritesTyped
<1>7. CASE FailCall
  BY <1>7, FailedTyped DEF FailCall, cacheVars
<1>8. CASE Restart
  BY <1>8, RestartTyped
<1>9. CASE BecomeCalm \/ UNCHANGED vars
  <2>1. /\ UNCHANGED <<template, prj, rbac, cacheVars, queueVars, callVars>>
        /\ calm' \in BOOLEAN
    BY <1>9 DEF BecomeCalm, vars, TypeInv, TypeOK
  <2> QED
    BY <2>1, AsideTyped DEF TypeInv, TypeOK, CacheForm, cacheVars, queueVars, callVars
<1> QED
  BY <1>1, <1>2, <1>3, <1>4, <1>5, <1>6, <1>7, <1>8, <1>9 DEF Next, System, Environment

\* Every reachable state is well typed: extractSubjects and the collection of the
\* members yield lists of subjects, and no Project is reconciled and still to do.
THEOREM TypeCorrect == Spec => []TypeOK
<1>1. TypeInv => TypeOK
  BY DEF TypeInv
<1> QED
  BY <1>1, InitTyped, NextTyped, PTL DEF Spec

----------------------------------------------------------------------------
(* The inductive invariant. *)

\* A template with the finalizer that nobody has deleted.
Live(t) == t.present /\ ~t.deleting /\ t.finalizer
\* One that handleDeletion is called for.
Leaving(t) == t.present /\ t.deleting

Typed ==
  /\ template \in Template /\ obj \in Template
  /\ cache \in [template : Template, prj : {cache.prj}]
  /\ done \subseteq Projects
  /\ Table(rbac)

\* A copy is outdated unless it equals the stored template.
CopiesKnown ==
  /\ current => obj = template
  /\ Name \notin pending => cache.template = template

\* What the cache says of the finalizer still tells something of the present:
\* only this controller adds or removes it.
CacheTells ==
  /\ Live(cache.template) => template.present /\ template.finalizer
  /\ Leaving(cache.template) => ~Live(template)

\* What the step at which the call stands says about its copy and the rest.
CallTells ==
  /\ pc = "updateFinalizer" /\ current =>
       obj.present /\ ~obj.deleting /\ ~Leaving(cache.template)
  /\ pc = "reconcile" => template.present /\ template.finalizer
  /\ pc \in {"updateTerminating", "deleteObjects", "removeFinalizer"} =>
       ~Live(template) /\ ~Live(cache.template)

Inv == Typed /\ CopiesKnown /\ CacheTells /\ CallTells

----------------------------------------------------------------------------
(* Steps that neither change the template nor move the call.               *)

LEMMA Aside ==
  ASSUME Inv, UNCHANGED <<template, pc, obj, current, done>>, Table(rbac'),
         cache'.template = cache.template,
         cache' \in [template : Template, prj : {cache'.prj}],
         Name \in pending => Name \in pending'
  PROVE  Inv'
<1>1. Typed' /\ CopiesKnown' /\ CacheTells'
  BY DEF Inv, Typed, CopiesKnown, CacheTells, Live, Leaving, Table
<1>2. CallTells'
  BY DEF Inv, CallTells, Live, Leaving
<1> QED
  BY <1>1, <1>2 DEF Inv

LEMMA SameTable == ASSUME Inv, UNCHANGED rbac PROVE Table(rbac')
  BY DEF Inv, Typed

\* The cache keeps all but the Projects.
LEMMA CacheTyped ==
  ASSUME Inv, UNCHANGED cache
  PROVE  cache'.template = cache.template /\ cache' \in [template : Template, prj : {cache'.prj}]
  BY DEF Inv, Typed

LEMMA SetProjectKeeps == ASSUME Inv, NEW p \in Projects, NEW new, SetProject(p, new) PROVE Inv'
<1>1. UNCHANGED <<rbac, seen, cache, template, pc, obj, current, done>>
  BY DEF SetProject, callVars
<1>2. Name \in pending => Name \in pending'
  BY DEF SetProject, Notify
<1> QED
  BY <1>1, <1>2, SameTable, CacheTyped, Aside

LEMMA SetEntryKeeps ==
  ASSUME Inv, NEW p \in Projects, NEW k \in Kinds, NEW content, SetEntry(p, k, content)
  PROVE  Inv'
<1>1. rbac' = Put(rbac, p, k, content) /\ UNCHANGED <<cache, template, pending, pc, obj, current, done>>
  BY DEF SetEntry, Store, callVars, Put
<1>2. Table(rbac')
  BY <1>1, EntryPut DEF Inv, Typed
<1> QED
  BY <1>1, <1>2, CacheTyped, Aside

LEMMA NamespaceKeeps ==
  ASSUME Inv, NEW p \in Projects, PurgeNamespace(p) \/ RemoveProject(p)
  PROVE  Inv'
  BY SetEntryKeeps, SetProjectKeeps DEF PurgeNamespace, RemoveProject

LEMMA UsersOfProjectsKeep ==
  ASSUME Inv, NEW p \in Projects,
         \/ CreateProject(p) \/ ChangeOwners(p) \/ ChangeLabel(p) \/ DeleteProject(p)
         \/ ChangeRoleBindings(p)
  PROVE  Inv'
<1>1. CASE CreateProject(p) \/ ChangeOwners(p) \/ ChangeLabel(p) \/ DeleteProject(p)
  BY <1>1, SetProjectKeeps DEF CreateProject, ChangeOwners, ChangeLabel, DeleteProject
<1>2. CASE ChangeRoleBindings(p)
  <2>1. PICK content : SetEntry(p, "others", content)
    BY <1>2 DEF ChangeRoleBindings
  <2>2. "others" \in Kinds
    BY DEF Kinds
  <2> QED
    BY <2>1, <2>2, SetEntryKeeps
<1> QED
  BY <1>1, <1>2

LEMMA CollectMembersKeeps == ASSUME Inv, NEW p \in Projects, CollectMembers(p) PROVE Inv'
<1>1. UNCHANGED <<rbac, seen, cache, template, pc, obj, current, done>>
  BY DEF CollectMembers, callVars
<1>2. pending' = pending \/ Notify(p)
  BY DEF CollectMembers
<1>3. Name \in pending => Name \in pending'
  BY <1>2 DEF Notify
<1> QED
  BY <1>1, <1>3, SameTable, CacheTyped, Aside

LEMMA DeliverRoleKeeps ==
  ASSUME Inv, NEW p \in Projects, NEW k \in Kinds, DeliverRole(p, k)
  PROVE  Inv'
<1>1. UNCHANGED <<rbac, cache, pending, template, pc, obj, current, done>>
  BY DEF DeliverRole, callVars
<1> QED
  BY <1>1, SameTable, CacheTyped, Aside

----------------------------------------------------------------------------
(* Steps that change the template, and the informers.                      *)

LEMMA ChangeTemplateKeeps ==
  ASSUME Inv, NEW new \in Template, ChangeTemplate(new),
         Live(new) => Live(template),
         template.present /\ template.finalizer => new.present /\ new.finalizer
  PROVE  Inv'
<1>1. /\ template' = new /\ ~current' /\ Name \in pending'
      /\ UNCHANGED <<rbac, cache, seen, pc, obj, done>>
  BY DEF ChangeTemplate, Notify
<1>2. Typed' /\ CopiesKnown'
  BY <1>1, CacheTyped DEF Inv, Typed, CopiesKnown, Table
<1>3. CacheTells' /\ CallTells'
  BY <1>1 DEF Inv, CacheTells, CallTells, Live, Leaving
<1> QED
  BY <1>2, <1>3 DEF Inv

\* Users change nothing that makes the template live, or takes the finalizer.
LEMMA UsersOfTemplate ==
  ASSUME Inv, CreateTemplate \/ UpdateSpec \/ DeleteTemplate \/ ReleaseHold
  PROVE  \E new \in Template :
           /\ ChangeTemplate(new)
           /\ Live(new) => Live(template)
           /\ template.present /\ template.finalizer => new.present /\ new.finalizer
<1> USE TemplateTypes
<1>1. template \in Template
  BY DEF Inv, Typed
<1>2. CASE CreateTemplate
  <2>1. PICK spec \in Specs, held \in BOOLEAN : ChangeTemplate(NewTemplate(spec, held))
    BY <1>2, ProjectTemplateAssumption DEF CreateTemplate
  <2> QED
    BY <1>2, <2>1 DEF CreateTemplate, Live
<1>3. CASE UpdateSpec
  <2>1. PICK spec \in Specs : ChangeTemplate([template EXCEPT !.spec = spec, !.observed = FALSE])
    BY <1>3 DEF UpdateSpec
  <2> DEFINE new == [template EXCEPT !.spec = spec, !.observed = FALSE]
  <2>2. /\ new \in Template /\ new.present = template.present
        /\ new.deleting = template.deleting /\ new.finalizer = template.finalizer
    BY <1>1 DEF Template
  <2> HIDE DEF new
  <2> QED
    BY <2>1, <2>2 DEF new, Live
<1>4. CASE DeleteTemplate
  <2> DEFINE new == [template EXCEPT !.deleting = TRUE, !.observed = FALSE]
  <2>1. /\ new \in Template /\ new.present = template.present
        /\ new.deleting = TRUE /\ new.finalizer = template.finalizer
    BY <1>1 DEF Template
  <2>2. \/ ChangeTemplate(new)
        \/ ~template.finalizer /\ ChangeTemplate(NoTemplate)
    BY <1>4 DEF DeleteTemplate
  <2> HIDE DEF new
  <2> QED
    BY <2>1, <2>2 DEF Live
<1>5. CASE ReleaseHold
  <2> DEFINE new == [template EXCEPT !.held = FALSE]
  <2>1. /\ new \in Template /\ new.present = template.present
        /\ new.deleting = template.deleting /\ new.finalizer = template.finalizer
    BY <1>1 DEF Template
  <2>2. \/ ChangeTemplate(new)
        \/ ~template.finalizer /\ ChangeTemplate(NoTemplate)
    BY <1>5 DEF ReleaseHold
  <2> HIDE DEF new
  <2> QED
    BY <2>1, <2>2 DEF Live
<1> QED
  BY <1>2, <1>3, <1>4, <1>5

LEMMA UsersOfTemplateKeep ==
  ASSUME Inv, CreateTemplate \/ UpdateSpec \/ DeleteTemplate \/ ReleaseHold
  PROVE  Inv'
  BY UsersOfTemplate, ChangeTemplateKeeps

LEMMA DeliverKeeps ==
  ASSUME Inv, NEW what \in {Name} \cup Projects, Deliver(what)
  PROVE  Inv'
<1>1. UNCHANGED <<template, rbac, seen, pc, obj, current, done>> /\ pending' = pending \ {what}
  BY DEF Deliver, callVars
<1>2. cache = [template |-> cache.template, prj |-> cache.prj]
  BY DEF Inv, Typed
<1>3. CASE what = Name
  <2>1. cache' = [template |-> template, prj |-> cache.prj]
    BY <1>2, <1>3 DEF Deliver
  <2>2. cache'.template = template /\ cache' \in [template : Template, prj : {cache'.prj}]
    BY <2>1 DEF Inv, Typed
  <2>3. Typed' /\ CopiesKnown'
    BY <1>1, <2>2 DEF Inv, Typed, CopiesKnown, Table
  <2>4. CacheTells' /\ CallTells'
    BY <1>1, <2>2
    DEF Inv, CopiesKnown, CacheTells, CallTells, Live, Leaving
  <2> QED
    BY <2>3, <2>4 DEF Inv
<1>4. CASE what # Name
  <2>1. cache' = [template |-> cache.template, prj |-> [cache.prj EXCEPT ![what] = prj[what]]]
    BY <1>2, <1>4 DEF Deliver
  <2>2. /\ cache'.template = cache.template
        /\ cache' \in [template : Template, prj : {cache'.prj}]
    BY <2>1 DEF Inv, Typed
  <2> QED
    BY <1>1, <1>4, <2>2, SameTable, Aside
<1> QED
  BY <1>3, <1>4

----------------------------------------------------------------------------
(* The steps of the call. *)

\* A call that ends, whatever the reason.
LEMMA ReturnKeeps ==
  ASSUME Inv, Return, UNCHANGED <<template, cache, pending, rbac, seen>>
  PROVE  Inv'
<1>1. pc' = "idle" /\ obj' \in Template /\ ~current' /\ done' \subseteq Projects
  BY TemplateTypes DEF Return
<1>2. Typed' /\ CopiesKnown'
  BY <1>1, CacheTyped DEF Inv, Typed, CopiesKnown, Table
<1>3. CacheTells' /\ CallTells'
  BY <1>1 DEF Inv, CacheTells, CallTells, Live, Leaving
<1> QED
  BY <1>2, <1>3 DEF Inv

LEMMA ConflictKeeps == ASSUME Inv, Conflict, UNCHANGED <<cache, rbac, seen>> PROVE Inv'
  BY ReturnKeeps DEF Conflict, ReturnError

LEMMA StartKeeps == ASSUME Inv, Start PROVE Inv'
<1>1. UNCHANGED <<template, cache, pending, rbac, seen, done>>
  BY DEF Start, cacheVars, callVars
<1>2. CASE UNCHANGED callVars
  BY <1>1, <1>2, SameTable, CacheTyped, Aside DEF callVars
<1>3. CASE ~UNCHANGED callVars
  <2> DEFINE t == cache.template
  <2>1. /\ t.present /\ obj' = t /\ current' = (Name \notin pending)
        /\ \/ ~t.deleting /\ t.finalizer /\ pc' = "reconcile"
           \/ ~t.deleting /\ ~t.finalizer /\ pc' = "updateFinalizer"
           \/ t.deleting /\ pc' \in {"deleteObjects", "updateTerminating"}
    BY <1>3 DEF Start, ListProjects
  <2>2. Typed' /\ CopiesKnown'
    BY <1>1, <2>1, CacheTyped DEF Inv, Typed, CopiesKnown, Table
  <2>3. CacheTells' /\ CallTells'
    BY <1>1, <2>1 DEF Inv, CacheTells, CallTells, Live, Leaving
  <2> QED
    BY <2>2, <2>3 DEF Inv
<1> QED
  BY <1>2, <1>3

LEMMA UpdateFinalizerKeeps == ASSUME Inv, UpdateFinalizer PROVE Inv'
<1>1. UNCHANGED <<cache, rbac, seen>> /\ pc = "updateFinalizer"
  BY DEF UpdateFinalizer
<1>2. CASE Conflict
  BY <1>1, <1>2, ConflictKeeps
<1>3. CASE ~Conflict
  <2> DEFINE new == [obj EXCEPT !.finalizer = TRUE]
  <2>1. /\ Write(new) /\ obj' = template' /\ pc' = "reconcile"
        /\ UNCHANGED <<current, done>>
    BY <1>3 DEF UpdateFinalizer, ListProjects
  <2>2. /\ new \in Template /\ new.present = obj.present
        /\ new.deleting = obj.deleting /\ new.finalizer = TRUE
    BY DEF Inv, Typed, Template
  <2> HIDE DEF new
  <2>3. current /\ obj.present /\ ~obj.deleting /\ ~Leaving(cache.template)
    BY <1>1, <2>1 DEF Write, Inv, CallTells
  <2>4. template' = new /\ obj' = new /\ Name \in pending'
    BY <2>1 DEF Write, Notify
  <2>5. Typed' /\ CopiesKnown'
    BY <1>1, <2>1, <2>2, <2>4, CacheTyped DEF Inv, Typed, CopiesKnown, Table
  <2>6. CacheTells' /\ CallTells'
    BY <1>1, <2>1, <2>2, <2>3, <2>4
    DEF CacheTells, CallTells, Live, Leaving
  <2> QED
    BY <2>5, <2>6 DEF Inv
<1> QED
  BY <1>2, <1>3

\* The status, and the end of the call.
LEMMA UpdateStatusKeeps == ASSUME Inv, UpdateStatus PROVE Inv'
<1>1. UNCHANGED <<cache, rbac, seen>>
  BY DEF UpdateStatus
<1>2. CASE Return /\ UNCHANGED <<template, pending>>
  BY <1>1, <1>2, ReturnKeeps
<1>3. CASE Conflict
  BY <1>1, <1>3, ConflictKeeps
<1>4. CASE ~Conflict /\ ~(Return /\ UNCHANGED <<template, pending>>)
  <2> DEFINE observed == obj.observed \/ ~IsReady(obj)
             ready    == IF IsReady(obj) THEN obj.ready ELSE "True"
             new      == [obj EXCEPT !.targets = done, !.observed = observed, !.ready = ready]
  <2>1. Write(new) /\ Return
    BY <1>4 DEF UpdateStatus
  <2>2. obj \in Template /\ done \in SUBSET Projects
    BY DEF Inv, Typed
  <2>3. observed \in BOOLEAN /\ ready \in {"Unset", "True", "Terminating"}
    BY <2>2 DEF Template
  <2> HIDE DEF observed, ready
  <2>4. /\ new \in Template /\ new.present = obj.present
        /\ new.deleting = obj.deleting /\ new.finalizer = obj.finalizer
    BY <2>2, <2>3 DEF Template
  <2> HIDE DEF new
  <2>5. obj = template /\ template' = new /\ Name \in pending'
    BY <2>1 DEF Write, Notify, Inv, CopiesKnown
  <2>6. pc' = "idle" /\ obj' \in Template /\ ~current' /\ done' \subseteq Projects
    BY <2>1, TemplateTypes DEF Return
  <2>7. Typed' /\ CopiesKnown'
    BY <1>1, <2>4, <2>5, <2>6, CacheTyped DEF Inv, Typed, CopiesKnown, Table
  <2>8. CacheTells' /\ CallTells'
    BY <1>1, <2>4, <2>5, <2>6
    DEF Inv, CacheTells, CallTells, Live, Leaving
  <2> QED
    BY <2>7, <2>8 DEF Inv
<1> QED
  BY <1>2, <1>3, <1>4

LEMMA UpdateTerminatingKeeps == ASSUME Inv, UpdateTerminating PROVE Inv'
<1>1. UNCHANGED <<cache, rbac, seen>> /\ pc = "updateTerminating"
  BY DEF UpdateTerminating
<1>2. CASE Conflict
  BY <1>1, <1>2, ConflictKeeps
<1>3. CASE ~Conflict
  <2> DEFINE new == [obj EXCEPT !.observed = TRUE, !.ready = "Terminating"]
  <2>1. Write(new) /\ obj' = template' /\ pc' = "deleteObjects" /\ UNCHANGED <<current, done>>
    BY <1>3 DEF UpdateTerminating
  <2>2. /\ new \in Template /\ new.present = obj.present
        /\ new.deleting = obj.deleting /\ new.finalizer = obj.finalizer
    BY DEF Inv, Typed, Template
  <2> HIDE DEF new
  <2>3. obj = template /\ template' = new /\ Name \in pending'
    BY <2>1 DEF Write, Notify, Inv, CopiesKnown
  <2>4. Typed' /\ CopiesKnown'
    BY <1>1, <2>1, <2>2, <2>3, CacheTyped DEF Inv, Typed, CopiesKnown, Table
  <2>5. CacheTells' /\ CallTells'
    BY <1>1, <2>1, <2>2, <2>3
    DEF Inv, CacheTells, CallTells, Live, Leaving
  <2> QED
    BY <2>4, <2>5 DEF Inv
<1> QED
  BY <1>2, <1>3

\* When the finalizer goes the cache shows a template that is being deleted, if
\* any: no call will make entries for it.
LEMMA RemoveFinalizerKeeps == ASSUME Inv, RemoveFinalizer PROVE Inv'
<1>1. UNCHANGED <<cache, rbac, seen>> /\ pc = "removeFinalizer"
  BY DEF RemoveFinalizer
<1>2. CASE Conflict
  BY <1>1, <1>2, ConflictKeeps
<1>3. CASE ~Conflict
  <2> DEFINE released == [obj EXCEPT !.finalizer = FALSE]
  <2>1. released \in Template /\ released.finalizer = FALSE
    BY DEF Inv, Typed, Template
  <2> HIDE DEF released
  <2>2. PICK new \in Template : ~new.finalizer /\ Write(new) /\ Return
    BY <1>3, <2>1, TemplateTypes DEF RemoveFinalizer, released
  <2>3. template' = new /\ Name \in pending'
    BY <2>2 DEF Write, Notify
  <2>4. pc' = "idle" /\ obj' \in Template /\ ~current' /\ done' \subseteq Projects
    BY <2>2, TemplateTypes DEF Return
  <2>5. ~Live(cache.template)
    BY <1>1 DEF Inv, CallTells
  <2>6. Typed' /\ CopiesKnown'
    BY <1>1, <2>3, <2>4, CacheTyped DEF Inv, Typed, CopiesKnown, Table
  <2>7. CacheTells' /\ CallTells'
    BY <1>1, <2>2, <2>3, <2>4, <2>5 DEF CacheTells, CallTells, Live, Leaving
  <2> QED
    BY <2>6, <2>7 DEF Inv
<1> QED
  BY <1>2, <1>3

----------------------------------------------------------------------------
(* The steps of the call that make and remove entries.                     *)

\* A template that is reconciled is present and has the finalizer.
LEMMA MakingKeeps ==
  ASSUME Inv, UNCHANGED <<template, cache, pending, pc, obj, current>>,
         done' \subseteq Projects, NEW new, Table(new), Store(new)
  PROVE  Inv'
<1>1. Table(rbac')
  BY DEF Store
<1>2. Typed' /\ CopiesKnown' /\ CacheTells'
  BY <1>1, CacheTyped DEF Inv, Typed, CopiesKnown, CacheTells, Live, Leaving, Table
<1>3. CallTells'
  BY DEF Inv, CallTells, Live, Leaving
<1> QED
  BY <1>2, <1>3 DEF Inv

LEMMA ReconcileOwnedStores ==
  ASSUME Inv, NEW p \in Projects, NEW k \in Owned, NEW content, ReconcileOwned(p, k, content)
  PROVE  \E new : Table(new) /\ Store(new)
<1>1. Table(rbac) /\ k \in Kinds
  BY DEF Inv, Typed, Kinds
<1>2. Table(Put(rbac, p, k, content))
  BY <1>1, EntryPut
<1>3. Store(rbac) \/ Store(Put(rbac, p, k, content))
  BY DEF ReconcileOwned, Put
<1> QED
  BY <1>1, <1>2, <1>3

LEMMA ReconcileRoleKeeps ==
  ASSUME Inv, NEW p \in Projects, ReconcileRole(p)
  PROVE  Inv'
<1>1. pc = "reconcile" /\ UNCHANGED <<template, cache, pending>>
  BY DEF ReconcileRole
<1>2. CASE ReconcileOwned(p, "Role", obj.spec.rules) /\ UNCHANGED <<pc, obj, current, done>>
  <2>1. PICK new : Table(new) /\ Store(new)
    BY <1>2, ReconcileOwnedStores DEF Owned
  <2>2. done' \subseteq Projects
    BY <1>2 DEF Inv, Typed
  <2> QED
    BY <1>1, <1>2, <2>1, <2>2, MakingKeeps
<1>3. CASE ReturnError /\ UNCHANGED <<rbac, seen>>
  BY <1>1, <1>3, ReturnKeeps DEF ReturnError
<1> QED
  BY <1>2, <1>3 DEF ReconcileRole

LEMMA ReconcileRoleBindingKeeps ==
  ASSUME Inv, NEW p \in Projects, ReconcileRoleBinding(p)
  PROVE  Inv'
<1>1. pc = "reconcile" /\ UNCHANGED <<template, cache, pending>>
  BY DEF ReconcileRoleBinding
<1> DEFINE subjects == ExtractSubjects(GrantedTo(obj, listed[p]))
<1>2. \/ /\ ReconcileOwned(p, "RoleBinding", subjects)
         /\ done' = done \cup {p} /\ UNCHANGED <<pc, obj, current>>
      \/ ReturnError /\ UNCHANGED <<rbac, seen>>
  BY DEF ReconcileRoleBinding
<1> HIDE DEF subjects
<1>3. CASE /\ ReconcileOwned(p, "RoleBinding", subjects)
           /\ done' = done \cup {p} /\ UNCHANGED <<pc, obj, current>>
  <2>1. PICK new : Table(new) /\ Store(new)
    BY <1>3, ReconcileOwnedStores DEF Owned
  <2>2. done' \subseteq Projects
    BY <1>3 DEF Inv, Typed
  <2> QED
    BY <1>1, <1>3, <2>1, <2>2, MakingKeeps
<1>4. CASE ReturnError /\ UNCHANGED <<rbac, seen>>
  BY <1>1, <1>4, ReturnKeeps DEF ReturnError
<1> QED
  BY <1>2, <1>3, <1>4

LEMMA DeleteObjectsKeeps == ASSUME Inv, DeleteObjects PROVE Inv'
<1>1. pc = "deleteObjects" /\ UNCHANGED <<template, cache, pending>>
  BY DEF DeleteObjects
<1>2. PICK deleted : /\ rbac' = Without(deleted)
                     /\ \/ Return
                        \/ pc' = "removeFinalizer" /\ UNCHANGED <<obj, current, done>>
  BY DEF DeleteObjects, ReturnError, Store
<1>3. Table(rbac')
  BY <1>2 DEF Without, Table
<1>4. obj' \in Template /\ (current' => current /\ obj' = obj) /\ done' \subseteq Projects
  BY <1>2, TemplateTypes DEF Return, Inv, Typed
<1>5. Typed' /\ CopiesKnown' /\ CacheTells'
  BY <1>1, <1>3, <1>4, CacheTyped DEF Inv, Typed, CopiesKnown, CacheTells, Live, Leaving, Table
<1>6. pc' \in {"idle", "removeFinalizer"}
  BY <1>2 DEF Return
<1>7. CallTells'
  BY <1>1, <1>6 DEF Inv, CallTells, Live, Leaving
<1> QED
  BY <1>5, <1>7 DEF Inv

LEMMA RestartKeeps == ASSUME Inv, Restart PROVE Inv'
<1>1. /\ UNCHANGED <<template, rbac>> /\ seen' = rbac
      /\ cache' = [template |-> template, prj |-> prj]
  BY DEF Restart
<1>2. pc' = "idle" /\ obj' \in Template /\ ~current' /\ done' \subseteq Projects
  BY TemplateTypes DEF Restart, Return
<1>3. cache'.template = template /\ cache' \in [template : Template, prj : {cache'.prj}]
  BY <1>1 DEF Inv, Typed
<1>4. Typed' /\ CopiesKnown'
  BY <1>1, <1>2, <1>3 DEF Inv, Typed, CopiesKnown, Table
<1>5. CacheTells' /\ CallTells'
  BY <1>1, <1>2, <1>3 DEF Inv, CacheTells, CallTells, Live, Leaving
<1> QED
  BY <1>4, <1>5 DEF Inv

----------------------------------------------------------------------------
LEMMA InitInv == Init => Inv
<1> SUFFICES ASSUME Init PROVE Inv
  OBVIOUS
<1>2. NoEntries = [k \in Kinds |-> NoEntries[k]]
  BY DEF NoEntries, Kinds, Owned
<1>3. Table(rbac)
  BY <1>2 DEF Init, Table
<1>4. /\ template = NoTemplate /\ obj = NoTemplate /\ cache.template = NoTemplate
      /\ cache \in [template : Template, prj : {cache.prj}]
      /\ ~current /\ done = {} /\ pc = "idle"
  BY TemplateTypes DEF Init
<1>5. Typed /\ CopiesKnown
  BY <1>3, <1>4, TemplateTypes DEF Typed, CopiesKnown
<1>6. CacheTells /\ CallTells
  BY <1>3, <1>4, TemplateTypes DEF CacheTells, CallTells, Live, Leaving
<1> QED
  BY <1>5, <1>6 DEF Inv

\* A stuttering step, and steps that touch only queues.
LEMMA ApartKeeps == ASSUME Inv, Resync \/ BecomeCalm \/ UNCHANGED vars PROVE Inv'
<1>1. UNCHANGED <<template, rbac, seen, cache, pending, pc, obj, current, done>>
  BY DEF Resync, BecomeCalm, vars, cacheVars, callVars
<1> QED
  BY <1>1, SameTable, CacheTyped, Aside

LEMMA NextInv == ASSUME Inv, [Next]_vars PROVE Inv'
<1>1. CASE Start
  BY <1>1, StartKeeps
<1>2. CASE Continue
  BY <1>2, UpdateFinalizerKeeps, UpdateStatusKeeps, ReconcileRoleKeeps, ReconcileRoleBindingKeeps,
     UpdateTerminatingKeeps, DeleteObjectsKeeps, RemoveFinalizerKeeps DEF Continue
<1>3. CASE ReleaseHold \/ CreateTemplate \/ UpdateSpec \/ DeleteTemplate
  BY <1>3, UsersOfTemplateKeep
<1>4. CASE \E what \in {Name} \cup Projects : Deliver(what)
  BY <1>4, DeliverKeeps
<1>5. ASSUME NEW p \in Projects, CollectMembers(p) \/ PurgeNamespace(p) \/ RemoveProject(p)
      PROVE  Inv'
  BY <1>5, CollectMembersKeeps, NamespaceKeeps
<1>6. ASSUME NEW p \in Projects, NEW k \in Kinds, DeliverRole(p, k)
      PROVE  Inv'
  BY <1>6, DeliverRoleKeeps
<1>7. ASSUME NEW p \in Projects,
             \/ CreateProject(p) \/ ChangeOwners(p) \/ ChangeLabel(p) \/ DeleteProject(p)
             \/ ChangeRoleBindings(p)
      PROVE  Inv'
  BY <1>7, UsersOfProjectsKeep
<1>8. CASE FailCall
  BY <1>8, ReturnKeeps DEF FailCall, ReturnError, cacheVars
<1>9. CASE Restart
  BY <1>9, RestartKeeps
<1>10. CASE Resync \/ BecomeCalm \/ UNCHANGED vars
  BY <1>10, ApartKeeps
<1> QED
  BY <1>1, <1>2, <1>3, <1>4, <1>5, <1>6, <1>7, <1>8, <1>9, <1>10 DEF Next, System, Environment

----------------------------------------------------------------------------
(* What the two controllers know and have done. *)

\* What has not changed since it was shown is shown as it is.
Shown ==
  /\ \A p \in Projects, k \in Kinds : <<p, k>> \notin outdated => seen[p][k] = rbac[p][k]
  /\ \A p \in Projects : p \notin pending => cache.prj[p] = prj[p]

\* A Project that is not to be looked at has the members that the RoleBindings
\* show.
Collected ==
  \A p \in Projects : IsPresent(p) /\ p \notin pending /\ p \notin projectQueue =>
    prj[p].phase = "ready" /\ prj[p].members = Ranked(BoundIn(seen[p]))

\* Nothing tells that the template has to be worked for (again).
Fresh == ~queued /\ Name \notin pending

Selected == {p \in Projects : IsSelected(template, cache.prj[p])}

\* A call that will not be followed by another works for the stored template and
\* the selected Projects.
CallWorks ==
  pc # "idle" /\ Fresh =>
    /\ obj = template /\ obj.present
    /\ pc = "reconcile" =>
         /\ ~obj.deleting /\ done \cup todo = Selected
         /\ \A p \in todo : listed[p] = cache.prj[p]
    /\ pc \in {"updateTerminating", "deleteObjects"} => obj.deleting
    /\ pc = "deleteObjects" => obj.ready = "Terminating"

\* Without a call to come, its work is reported.
WorkDone ==
  pc = "idle" /\ Fresh /\ template.present =>
    IF template.deleting THEN template.ready = "Terminating"
    ELSE IsReady(template) /\ template.targets = Selected

----------------------------------------------------------------------------
(* Projects, entries, and what is shown of them. *)

Quiet ==
  /\ UNCHANGED <<prj, rbac, seen, outdated>> /\ cache'.prj = cache.prj
  /\ pending' \cap Projects = pending \cap Projects
  /\ projectQueue \subseteq projectQueue'

DataStep ==
  \/ \E p \in Projects : \E new : SetProject(p, new)
  \/ \E new : Table(new) /\ Store(new) /\ UNCHANGED <<prj, cache, pending>>
  \/ \E p \in Projects : CollectMembers(p)
  \/ \E what \in {Name} \cup Projects : Deliver(what)
  \/ \E p \in Projects, k \in Kinds : DeliverRole(p, k)
  \/ Restart
  \/ Quiet

LEMMA WriteQuiet ==
  ASSUME (\E new : Write(new)) \/ UNCHANGED pending,
         UNCHANGED <<prj, rbac, cache, seen, outdated, projectQueue>>
  PROVE  Quiet
<1>1. pending' \cap Projects = pending \cap Projects
  BY ProjectTemplateAssumption DEF Write, Notify
<1> QED
  BY <1>1 DEF Quiet

LEMMA DataSteps == ASSUME Inv, [Next]_vars PROVE DataStep
<1>1. CASE Start \/ Resync \/ FailCall \/ BecomeCalm \/ UNCHANGED vars
  <2>1. UNCHANGED <<prj, rbac, seen, outdated, cache, pending>> /\ projectQueue \subseteq projectQueue'
    BY <1>1 DEF Start, Resync, FailCall, BecomeCalm, vars, cacheVars, queueVars
  <2> QED
    BY <2>1 DEF DataStep, Quiet
<1>2. CASE UpdateFinalizer \/ UpdateStatus \/ UpdateTerminating \/ RemoveFinalizer
  <2>1. UNCHANGED <<prj, rbac, cache, seen, outdated, projectQueue>>
    BY <1>2 DEF UpdateFinalizer, UpdateStatus, UpdateTerminating, RemoveFinalizer
  <2>2. (\E new : Write(new)) \/ UNCHANGED pending
    BY <1>2 DEF UpdateFinalizer, UpdateStatus, UpdateTerminating, RemoveFinalizer, Conflict
  <2> QED
    BY <2>1, <2>2, WriteQuiet DEF DataStep
<1>3. ASSUME NEW p \in Projects, ReconcileRole(p) \/ ReconcileRoleBinding(p) PROVE DataStep
  <2>1. UNCHANGED <<prj, cache, pending>>
    BY <1>3 DEF ReconcileRole, ReconcileRoleBinding
  <2>2. \/ UNCHANGED <<rbac, seen, outdated, projectQueue>>
        \/ \E k \in Owned : \E content : ReconcileOwned(p, k, content)
    BY <1>3 DEF ReconcileRole, ReconcileRoleBinding, Owned
  <2>3. CASE UNCHANGED <<rbac, seen, outdated, projectQueue>>
    BY <2>1, <2>3, WriteQuiet DEF DataStep
  <2>4. CASE \E k \in Owned : \E content : ReconcileOwned(p, k, content)
    BY <2>1, <2>4, ReconcileOwnedStores DEF DataStep
  <2> QED
    BY <2>2, <2>3, <2>4
<1>4. CASE DeleteObjects
  <2>1. \E deleted : Store(Without(deleted))
    BY <1>4 DEF DeleteObjects
  <2>2. \A deleted : Table(Without(deleted))
    BY DEF Without, Table
  <2> QED
    BY <1>4, <2>1, <2>2 DEF DataStep, DeleteObjects
<1>5. CASE ReleaseHold \/ CreateTemplate \/ UpdateSpec \/ DeleteTemplate
  <2>1. PICK new : ChangeTemplate(new)
    BY <1>5 DEF ReleaseHold, CreateTemplate, UpdateSpec, DeleteTemplate
  <2>2. /\ UNCHANGED <<prj, rbac, cache, seen, outdated, queueVars>>
        /\ pending' = pending \cup {Name}
    BY <2>1 DEF ChangeTemplate, Notify
  <2>3. pending' \cap Projects = pending \cap Projects
    BY <2>2, ProjectTemplateAssumption
  <2> QED
    BY <2>2, <2>3 DEF DataStep, Quiet, queueVars
<1>6. ASSUME NEW p \in Projects,
             \/ CreateProject(p) \/ ChangeOwners(p) \/ ChangeLabel(p) \/ DeleteProject(p)
             \/ RemoveProject(p)
      PROVE  DataStep
  <2>1. \E new : SetProject(p, new)
    BY <1>6 DEF CreateProject, ChangeOwners, ChangeLabel, DeleteProject, RemoveProject
  <2> QED
    BY <2>1 DEF DataStep
<1>7. ASSUME NEW p \in Projects, PurgeNamespace(p) \/ ChangeRoleBindings(p) PROVE DataStep
  <2>1. PICK k \in Kinds : \E new : SetEntry(p, k, new)
    BY <1>7 DEF PurgeNamespace, ChangeRoleBindings, Kinds
  <2> PICK content : SetEntry(p, k, content)
    BY <2>1
  <2>2. Table(Put(rbac, p, k, content))
    BY EntryPut DEF Inv, Typed
  <2>3. Store(Put(rbac, p, k, content)) /\ UNCHANGED <<prj, cache, pending>>
    BY DEF SetEntry, Put
  <2> QED
    BY <2>2, <2>3 DEF DataStep
<1>8. CASE \/ \E p \in Projects : CollectMembers(p)
           \/ \E what \in {Name} \cup Projects : Deliver(what)
           \/ \E p \in Projects, k \in Kinds : DeliverRole(p, k)
           \/ Restart
  BY <1>8 DEF DataStep
<1> QED
  BY <1>1, <1>2, <1>3, <1>4, <1>5, <1>6, <1>7, <1>8
  DEF Next, System, Environment, Continue

\* What a Store does to one entry.
LEMMA StoreEntry ==
  ASSUME NEW new, Table(new), Store(new), NEW p \in Projects, NEW k \in Kinds
  PROVE  /\ rbac'[p][k] = new[p][k]
         /\ <<p, k>> \in outdated => <<p, k>> \in outdated'
         /\ \/ /\ new[p][k] # rbac[p][k] /\ k \notin Lagging
               /\ seen'[p][k] = new[p][k]
               /\ k # "Role" => p \in projectQueue'
            \/ /\ new[p][k] # rbac[p][k] /\ k \in Lagging
               /\ <<p, k>> \in outdated' /\ seen'[p][k] = seen[p][k]
            \/ new[p][k] = rbac[p][k] /\ seen'[p][k] = seen[p][k]
<1> DEFINE changed == {e \in Projects \X Kinds : new[e[1]][e[2]] # rbac[e[1]][e[2]]}
           shown == {e \in changed : e[2] \notin Lagging}
<1>1. /\ rbac' = new /\ outdated' = outdated \cup (changed \ shown)
      /\ seen'[p][k] = IF <<p, k>> \in shown THEN new[p][k] ELSE seen[p][k]
      /\ projectQueue' = projectQueue \cup {e[1] : e \in {c \in shown : c[2] # "Role"}}
  BY DEF Store
<1>2. <<p, k>> \in changed <=> new[p][k] # rbac[p][k]
  OBVIOUS
<1>3. <<p, k>> \in shown <=> <<p, k>> \in changed /\ k \notin Lagging
  OBVIOUS
<1> HIDE DEF changed, shown
<1>4. <<p, k>> \in shown /\ k # "Role" => p \in projectQueue'
  BY <1>1
<1> QED
  BY <1>1, <1>2, <1>3, <1>4

LEMMA ShownKept == ASSUME TypeInv, Shown, DataStep PROVE Shown'
<1>1. ASSUME NEW p \in Projects, NEW new, SetProject(p, new) PROVE Shown'
  <2>1. /\ UNCHANGED <<rbac, cache, seen, outdated>> /\ pending' = pending \cup {p}
        /\ \A q \in Projects : q # p => prj'[q] = prj[q]
    BY <1>1 DEF SetProject, Notify, TypeInv, TypeOK
  <2> QED
    BY <2>1 DEF Shown
<1>2. ASSUME NEW new, Table(new), Store(new), UNCHANGED <<prj, cache, pending>> PROVE Shown'
  <2>1. ASSUME NEW p \in Projects, NEW k \in Kinds, <<p, k>> \notin outdated'
        PROVE  seen'[p][k] = rbac'[p][k]
    BY <1>2, <2>1, StoreEntry DEF Shown
  <2> QED
    BY <1>2, <2>1 DEF Shown
<1>3. ASSUME NEW p \in Projects, CollectMembers(p) PROVE Shown'
  <2>1. UNCHANGED <<rbac, cache, seen, outdated>>
    BY <1>3 DEF CollectMembers
  <2>2. \/ UNCHANGED <<prj, pending>>
        \/ pending' = pending \cup {p} /\ \A q \in Projects : q # p => prj'[q] = prj[q]
    BY <1>3 DEF CollectMembers, Notify, TypeInv, TypeOK
  <2> QED
    BY <2>1, <2>2 DEF Shown
<1>4. ASSUME NEW what \in {Name} \cup Projects, Deliver(what) PROVE Shown'
  <2>1. UNCHANGED <<prj, rbac, seen, outdated>> /\ pending' = pending \ {what}
    BY <1>4 DEF Deliver
  <2>2. /\ cache = [template |-> cache.template, prj |-> cache.prj]
        /\ cache.prj = [p \in Projects |-> cache.prj[p]]
    BY DEF TypeInv, TypeOK, CacheForm
  <2>3. \A p \in Projects : cache'.prj[p] = IF p = what THEN prj[p] ELSE cache.prj[p]
    BY <1>4, <2>2, ProjectTemplateAssumption DEF Deliver
  <2> QED
    BY <2>1, <2>3 DEF Shown
<1>5. ASSUME NEW p \in Projects, NEW k \in Kinds, DeliverRole(p, k) PROVE Shown'
  <2>1. /\ UNCHANGED <<prj, rbac, cache, pending>> /\ outdated' = outdated \ {<<p, k>>}
        /\ seen' = Put(seen, p, k, rbac[p][k])
    BY <1>5 DEF DeliverRole, Put
  <2>2. \A q \in Projects, j \in Kinds :
          seen'[q][j] = IF q = p /\ j = k THEN rbac[p][k] ELSE seen[q][j]
    BY <2>1, EntryPut, TableTypes DEF TypeInv, TypeOK, TypedTable
  <2> QED
    BY <2>1, <2>2 DEF Shown
<1>6. CASE Restart
  BY <1>6 DEF Restart, Shown
<1>7. CASE Quiet
  BY <1>7 DEF Quiet, Shown
<1> QED
  BY <1>1, <1>2, <1>3, <1>4, <1>5, <1>6, <1>7 DEF DataStep

LEMMA BoundInSame ==
  ASSUME NEW m, NEW n, m["others"] = n["others"], m["RoleBinding"] = n["RoleBinding"]
  PROVE  BoundIn(m) = BoundIn(n)
  BY DEF BoundIn

LEMMA CollectedKept == ASSUME TypeInv, Collected, DataStep PROVE Collected'
<1> "others" \in Kinds /\ "RoleBinding" \in Kinds
  BY DEF Kinds, Owned
<1>1. ASSUME NEW p \in Projects, NEW new, SetProject(p, new) PROVE Collected'
  <2>1. /\ UNCHANGED <<seen, projectQueue>> /\ pending' = pending \cup {p}
        /\ \A q \in Projects : q # p => prj'[q] = prj[q]
    BY <1>1 DEF SetProject, Notify, queueVars, TypeInv, TypeOK
  <2> QED
    BY <2>1 DEF Collected, IsPresent
<1>2. ASSUME NEW new, Table(new), Store(new), UNCHANGED <<prj, cache, pending>> PROVE Collected'
  <2>1. ASSUME NEW p \in Projects, p \notin projectQueue'
        PROVE  BoundIn(seen'[p]) = BoundIn(seen[p]) /\ p \notin projectQueue
    <3>1. seen'[p]["others"] = seen[p]["others"] /\ seen'[p]["RoleBinding"] = seen[p]["RoleBinding"]
      BY <1>2, <2>1, StoreEntry
    <3>2. projectQueue \subseteq projectQueue'
      BY <1>2 DEF Store
    <3> QED
      BY <2>1, <3>1, <3>2, BoundInSame
  <2> QED
    BY <1>2, <2>1 DEF Collected, IsPresent
<1>3. ASSUME NEW p \in Projects, CollectMembers(p) PROVE Collected'
  <2>1. /\ UNCHANGED seen /\ projectQueue' = projectQueue \ {p} /\ pending \subseteq pending'
        /\ \A q \in Projects : q # p => prj'[q] = prj[q]
    BY <1>3 DEF CollectMembers, Notify, TypeInv, TypeOK
  <2>2. ASSUME prj'[p].phase \in {"unready", "ready"}
        PROVE  prj'[p].phase = "ready" /\ prj'[p].members = Ranked(BoundIn(seen[p]))
    <3>1. PICK lists \in RoleBindingLists(seen[p]) :
            prj' = [prj EXCEPT ![p].members = ExtractSubjects(FlattenSeq(lists)), ![p].phase = "ready"]
      BY <1>3, <2>2 DEF CollectMembers
    <3> DEFINE members == ExtractSubjects(FlattenSeq(lists))
    <3>2. seen[p] \in Namespace /\ prj[p] \in Project /\ prj \in [Projects -> Project]
      BY DEF TypeInv, TypeOK
    <3>3. members = Ranked(BoundIn(seen[p]))
      BY <3>2, CollectedSubjects, ExtractTypes
    <3> HIDE DEF members
    <3>4. prj'[p] = [prj[p] EXCEPT !.members = members, !.phase = "ready"]
      BY <3>1, <3>2 DEF members
    <3>5. prj'[p].phase = "ready" /\ prj'[p].members = members
      BY <3>2, <3>4 DEF Project
    <3> QED
      BY <3>3, <3>5
  <2> QED
    BY <2>1, <2>2 DEF Collected, IsPresent
<1>4. ASSUME NEW what \in {Name} \cup Projects, Deliver(what) PROVE Collected'
  BY <1>4 DEF Deliver, Collected, IsPresent
<1>5. ASSUME NEW p \in Projects, NEW k \in Kinds, DeliverRole(p, k) PROVE Collected'
  <2>1. /\ UNCHANGED <<prj, pending>> /\ seen' = Put(seen, p, k, rbac[p][k])
        /\ projectQueue' = IF k = "Role" THEN projectQueue ELSE projectQueue \cup {p}
    BY <1>5 DEF DeliverRole, Put
  <2>2. \A q \in Projects, j \in Kinds :
          seen'[q][j] = IF q = p /\ j = k THEN rbac[p][k] ELSE seen[q][j]
    BY <2>1, EntryPut, TableTypes DEF TypeInv, TypeOK, TypedTable
  <2>3. \A q \in Projects : q \notin projectQueue' =>
          q \notin projectQueue /\ BoundIn(seen'[q]) = BoundIn(seen[q])
    BY <2>1, <2>2, BoundInSame
  <2> QED
    BY <2>1, <2>3 DEF Collected, IsPresent
<1>6. CASE Restart
  <2>1. projectQueue' = {p \in Projects : prj'[p].phase # "absent"}
    BY <1>6 DEF Restart
  <2> QED
    BY <2>1 DEF Collected, IsPresent
<1>7. CASE Quiet
  BY <1>7 DEF Quiet, Collected, IsPresent
<1> QED
  BY <1>1, <1>2, <1>3, <1>4, <1>5, <1>6, <1>7 DEF DataStep

----------------------------------------------------------------------------
(* The work of the calls. *)

\* While an event or a call is to come, nothing is said.
LEMMA NotFresh == ASSUME queued' \/ Name \in pending' PROVE CallWorks' /\ WorkDone'
  BY DEF CallWorks, WorkDone, Fresh

LEMMA Fails == ASSUME ReturnError PROVE CallWorks' /\ WorkDone'
  BY NotFresh DEF ReturnError

LEMMA Writes == ASSUME NEW new, Write(new) PROVE CallWorks' /\ WorkDone'
  BY NotFresh DEF Write, Notify

\* Steps of others.
LEMMA WorkKept ==
  ASSUME CallWorks, WorkDone, UNCHANGED <<template, pc, obj, listed, todo, done>>,
         cache'.prj = cache.prj, queued => queued', pending \subseteq pending'
  PROVE  CallWorks' /\ WorkDone'
<1>1. (Fresh' => Fresh) /\ Selected' = Selected
  BY DEF Fresh, Selected
<1> QED
  BY <1>1 DEF CallWorks, WorkDone

LEMMA OthersWork ==
  ASSUME CallWorks, WorkDone,
         \/ \E p \in Projects : \E new : SetProject(p, new)
         \/ \E p \in Projects : \E k \in Kinds : \E content : SetEntry(p, k, content)
         \/ \E p \in Projects : CollectMembers(p)
         \/ \E p \in Projects, k \in Kinds : DeliverRole(p, k)
         \/ Resync \/ BecomeCalm \/ UNCHANGED vars
  PROVE  CallWorks' /\ WorkDone'
<1> DEFINE Apart == /\ UNCHANGED <<template, cache, pc, obj, listed, todo, done>>
                    /\ (queued => queued') /\ pending \subseteq pending'
<1>1. Apart
  <2>1. ASSUME NEW p \in Projects, NEW new, SetProject(p, new) PROVE Apart
    BY <2>1 DEF SetProject, Notify, queueVars, callVars
  <2>2. ASSUME NEW p \in Projects, CollectMembers(p) PROVE Apart
    BY <2>2 DEF CollectMembers, Notify, callVars
  <2>3. ASSUME NEW p \in Projects, NEW k \in Kinds, DeliverRole(p, k) PROVE Apart
    BY <2>3 DEF DeliverRole, callVars
  <2>4. CASE Resync
    <3>1. queued => queued'
      BY <2>4, Zenon DEF Resync
    <3> QED
      BY <2>4, <3>1 DEF Resync, cacheVars, callVars
  <2>5. CASE BecomeCalm \/ UNCHANGED vars
    BY <2>5 DEF BecomeCalm, vars, cacheVars, queueVars, callVars
  <2>6. ASSUME NEW p \in Projects, NEW k \in Kinds, NEW content, SetEntry(p, k, content) PROVE Apart
    BY <2>6 DEF SetEntry, callVars
  <2> HIDE DEF Apart
  <2> QED
    BY <2>1, <2>2, <2>3, <2>4, <2>5, <2>6
<1> QED
  BY <1>1, WorkKept

\* An event of a Project queues the template, when there is one to be queued.
LEMMA DeliverWork ==
  ASSUME CopiesKnown, CallWorks, NEW what \in {Name} \cup Projects, Deliver(what)
  PROVE  CallWorks' /\ WorkDone'
<1>1. CASE queued'
  BY <1>1, NotFresh
<1>2. CASE ~queued'
  <2>1. ~queued /\ what # Name /\ ~cache.template.present /\ UNCHANGED <<template, pc>>
    BY <1>2 DEF Deliver, Requested, callVars
  <2>2. Name \notin pending' => Name \notin pending
    BY <2>1 DEF Deliver
  <2>3. Fresh' => Fresh /\ ~template.present
    BY <2>1, <2>2 DEF Fresh, CopiesKnown
  <2>4. Fresh' => pc = "idle"
    BY <2>3 DEF CallWorks
  <2> QED
    BY <2>1, <2>3, <2>4 DEF CallWorks, WorkDone
<1> QED
  BY <1>1, <1>2

LEMMA StartWork == ASSUME TypeInv, CopiesKnown, Start PROVE CallWorks' /\ WorkDone'
<1> DEFINE t == cache.template
<1>1. pc = "idle" /\ UNCHANGED <<template, pending, cache, rbac>>
  BY DEF Start, cacheVars
<1>2. Fresh' => t = template
  BY <1>1 DEF Fresh, CopiesKnown
<1>3. \/ ~t.present /\ pc' = "idle"
      \/ t.present /\ ~t.deleting /\ obj' = t /\ ListProjects(t) /\ UNCHANGED <<at, done>>
      \/ t.present /\ obj' = t /\ pc' = "updateFinalizer"
      \/ /\ t.present /\ obj' = t /\ t.deleting
         /\ pc' = IF t.ready = "Terminating" THEN "deleteObjects" ELSE "updateTerminating"
  BY <1>1 DEF Start, callVars
<1>4. CASE ~t.present /\ pc' = "idle"
  BY <1>1, <1>2, <1>4 DEF CallWorks, WorkDone
<1>5. CASE t.present /\ ~t.deleting /\ obj' = t /\ ListProjects(t) /\ UNCHANGED <<at, done>>
  <2>1. done' = {} /\ at' = None /\ pc' = "reconcile"
    BY <1>1, <1>5 DEF ListProjects, TypeInv, LoopShape
  <2>2. Fresh' => todo' = Selected'
    BY <1>1, <1>2, <1>5 DEF ListProjects, Selected
  <2>3. todo' \subseteq Projects /\ \A p \in todo' : listed'[p] = cache'.prj[p]
    BY <1>1, <1>5 DEF ListProjects
  <2> QED
    BY <1>1, <1>2, <1>5, <2>1, <2>2, <2>3 DEF CallWorks, WorkDone
<1>6. CASE t.present /\ obj' = t /\ pc' = "updateFinalizer"
  BY <1>1, <1>2, <1>6 DEF CallWorks, WorkDone
<1>7. CASE /\ t.present /\ obj' = t /\ t.deleting
           /\ pc' = IF t.ready = "Terminating" THEN "deleteObjects" ELSE "updateTerminating"
  BY <1>1, <1>2, <1>7 DEF CallWorks, WorkDone
<1> QED
  BY <1>3, <1>4, <1>5, <1>6, <1>7

----------------------------------------------------------------------------
(* The work of the steps of the call. *)

LEMMA TemplateWork ==
  ASSUME CallWorks, UpdateFinalizer \/ UpdateTerminating \/ RemoveFinalizer
  PROVE  CallWorks' /\ WorkDone'
<1>1. ReturnError \/ \E new : Write(new)
  BY DEF UpdateFinalizer, UpdateTerminating, RemoveFinalizer, Conflict
<1> QED
  BY <1>1, Fails, Writes

LEMMA UpdateStatusWork ==
  ASSUME CallWorks, UpdateStatus
  PROVE  CallWorks' /\ WorkDone'
<1>1. \/ ReturnError \/ \E new : Write(new)
      \/ obj.targets = done /\ IsReady(obj) /\ Return /\ UNCHANGED <<template, pending, queued>>
  BY DEF UpdateStatus, Conflict
<1>2. CASE ReturnError \/ \E new : Write(new)
  BY <1>2, Fails, Writes
<1>3. CASE obj.targets = done /\ IsReady(obj) /\ Return /\ UNCHANGED <<template, pending, queued>>
  <2>1. pc = "reconcile" /\ todo = {} /\ UNCHANGED cache /\ pc' = "idle"
    BY <1>3 DEF UpdateStatus, Return
  <2>2. Fresh' => Fresh
    BY <1>3 DEF Fresh
  <2>3. Selected' = Selected
    BY <1>3, <2>1 DEF Selected
  <2>4. Fresh' => ~template.deleting /\ IsReady(template) /\ template.targets = Selected
    BY <1>3, <2>1, <2>2 DEF CallWorks
  <2> QED
    BY <1>3, <2>1, <2>3, <2>4 DEF CallWorks, WorkDone
<1> QED
  BY <1>1, <1>2, <1>3

LEMMA ReconcileWork ==
  ASSUME TypeInv, CallWorks, NEW p \in Projects, ReconcileRole(p) \/ ReconcileRoleBinding(p)
  PROVE  CallWorks' /\ WorkDone'
<1>1. pc = "reconcile" /\ UNCHANGED <<template, cache, pending>>
  BY DEF ReconcileRole, ReconcileRoleBinding
<1>2. ReturnError \/ /\ UNCHANGED <<queued, pc, obj, listed>>
                     /\ \/ UNCHANGED <<todo, done>>
                        \/ p \in todo /\ todo' = todo \ {p} /\ done' = done \cup {p}
  <2>1. at = p => p \in todo
    BY ProjectTemplateAssumption DEF TypeInv, TypeOK
  <2> QED
    BY <2>1 DEF ReconcileRole, ReconcileRoleBinding
<1>3. CASE ReturnError
  BY <1>3, Fails
<1>4. CASE /\ UNCHANGED <<queued, pc, obj, listed>>
           /\ \/ UNCHANGED <<todo, done>>
              \/ p \in todo /\ todo' = todo \ {p} /\ done' = done \cup {p}
  <2>1. (Fresh' => Fresh) /\ Selected' = Selected
    BY <1>1, <1>4 DEF Fresh, Selected
  <2>2. todo' \subseteq todo /\ done' \cup todo' = done \cup todo
    BY <1>4
  <2> QED
    BY <1>1, <1>4, <2>1, <2>2 DEF CallWorks, WorkDone
<1> QED
  BY <1>2, <1>3, <1>4

LEMMA DeleteObjectsWork == ASSUME CallWorks, DeleteObjects PROVE CallWorks' /\ WorkDone'
<1>1. pc = "deleteObjects" /\ UNCHANGED <<template, cache, pending>>
  BY DEF DeleteObjects
<1>2. \/ ReturnError
      \/ pc' = "removeFinalizer" /\ UNCHANGED <<queued, obj>>
      \/ pc' = "idle" /\ UNCHANGED queued
  BY DEF DeleteObjects, Return
<1>3. CASE ReturnError
  BY <1>3, Fails
<1>4. CASE UNCHANGED queued
  <2>1. Fresh' => Fresh
    BY <1>1, <1>4 DEF Fresh
  <2> QED
    BY <1>1, <1>2, <1>3, <2>1 DEF CallWorks, WorkDone
<1> QED
  BY <1>2, <1>3, <1>4

LEMMA RestartWork == ASSUME Restart PROVE CallWorks' /\ WorkDone'
<1>1. queued' = template'.present /\ pc' = "idle"
  BY DEF Restart, Return
<1> QED
  BY <1>1 DEF CallWorks, WorkDone, Fresh

LEMMA NextWork ==
  ASSUME TypeInv, Inv, CallWorks, WorkDone, [Next]_vars
  PROVE  CallWorks' /\ WorkDone'
<1> CopiesKnown
  BY DEF Inv
<1>1. CASE Start \/ Restart
  BY <1>1, StartWork, RestartWork
<1>2. CASE Continue
  BY <1>2, TemplateWork, UpdateStatusWork, ReconcileWork, DeleteObjectsWork DEF Continue
<1>3. CASE ReleaseHold \/ CreateTemplate \/ UpdateSpec \/ DeleteTemplate
  <2>1. PICK new : ChangeTemplate(new)
    BY <1>3 DEF ReleaseHold, CreateTemplate, UpdateSpec, DeleteTemplate
  <2> QED
    BY <2>1, NotFresh DEF ChangeTemplate, Notify
<1>4. CASE \E what \in {Name} \cup Projects : Deliver(what)
  BY <1>4, DeliverWork
<1>5. CASE \/ \E p \in Projects : \E new : SetProject(p, new)
           \/ \E p \in Projects : CollectMembers(p)
           \/ \E p \in Projects, k \in Kinds : DeliverRole(p, k)
           \/ Resync \/ BecomeCalm \/ UNCHANGED vars
  BY <1>5, OthersWork
<1>6. ASSUME NEW p \in Projects, PurgeNamespace(p) \/ ChangeRoleBindings(p)
      PROVE  CallWorks' /\ WorkDone'
  <2>1. \E k \in Kinds : \E content : SetEntry(p, k, content)
    BY <1>6 DEF PurgeNamespace, ChangeRoleBindings, Kinds
  <2> QED
    BY <2>1, OthersWork
<1>7. CASE FailCall
  BY <1>7, Fails DEF FailCall
<1>8. ASSUME NEW p \in Projects,
             \/ CreateProject(p) \/ ChangeOwners(p) \/ ChangeLabel(p) \/ DeleteProject(p)
             \/ RemoveProject(p)
      PROVE  CallWorks' /\ WorkDone'
  <2>1. \E new : SetProject(p, new)
    BY <1>8 DEF CreateProject, ChangeOwners, ChangeLabel, DeleteProject, RemoveProject
  <2> QED
    BY <1>5, <2>1
<1> QED
  BY <1>1, <1>2, <1>3, <1>4, <1>5, <1>6, <1>7, <1>8 DEF Next, System, Environment

----------------------------------------------------------------------------
(* The two controllers at rest. *)

RestInv == TypeInv /\ Inv /\ Shown /\ Collected /\ CallWorks /\ WorkDone

LEMMA InitRest == Init => RestInv
<1> SUFFICES ASSUME Init PROVE RestInv
  OBVIOUS
<1>1. TypeInv /\ Inv
  BY InitTyped, InitInv
<1>2. Shown
  BY DEF Init, Shown
<1>3. Collected
  <2>1. \A p \in Projects : prj[p].phase = "absent"
    BY ProjectTypes DEF Init, NoProjects
  <2> QED
    BY <2>1 DEF Collected, IsPresent
<1>4. CallWorks /\ WorkDone
  BY TemplateTypes DEF Init, CallWorks, WorkDone
<1> QED
  BY <1>1, <1>2, <1>3, <1>4 DEF RestInv

LEMMA NextRest ==
  ASSUME RestInv, [Next]_vars
  PROVE  RestInv'
<1>1. TypeInv' /\ Inv'
  BY NextTyped, NextInv DEF RestInv
<1>2. DataStep
  BY DataSteps DEF RestInv
<1>3. Shown' /\ Collected'
  BY <1>2, ShownKept, CollectedKept DEF RestInv
<1>4. CallWorks' /\ WorkDone'
  BY NextWork DEF RestInv
<1> QED
  BY <1>1, <1>3, <1>4 DEF RestInv

\* The subjects that the code puts together are those the template is meant for.
LEMMA GrantedSubjects ==
  ASSUME TypeOK, NEW p \in Projects
  PROVE  /\ GrantedTo(template, prj[p]) \in Seq(Subjects)
         /\ ToSet(GrantedTo(template, prj[p])) = Grantees(p)
<1> DEFINE owners  == prj[p].owners
           members == prj[p].members
           binds   == template.spec.binds
<1>1. GrantedTo(template, prj[p]) \in Seq(Subjects)
  BY GrantedToTypes DEF TypeOK
<1>2. owners \in Seq(Subjects) /\ members \in Seq(Subjects)
  <2>1. owners \in OwnerLists \cup {<<>>} /\ members \in Seq(Subjects)
    BY DEF TypeOK, Project
  <2>2. OwnerLists \subseteq Seq(Subjects) /\ <<>> \in Seq(Subjects)
    BY ProjectTemplateAssumption
  <2> QED
    BY <2>1, <2>2
<1>3. binds \subseteq {"Owners", "Everyone"}
  BY ProjectTemplateAssumption DEF TypeOK, Template, Bindings
<1>4. SetOf(owners) = ToSet(owners) /\ SetOf(members) = ToSet(members)
  BY <1>2, ProjectTemplateAssumption DEF SetOf
<1>5. ToSet(owners \o members) = ToSet(owners) \cup ToSet(members)
  BY <1>2, SubjectLists, ConcatSet
<1>6. ToSet(<<>>) = {}
  BY DEF ToSet
<1>7. /\ GrantedTo(template, prj[p]) = IF "Everyone" \in binds THEN owners \o members
                                       ELSE IF "Owners" \in binds THEN owners ELSE <<>>
      /\ Grantees(p) = (IF binds # {} THEN SetOf(owners) ELSE {})
                         \cup (IF "Everyone" \in binds THEN SetOf(members) ELSE {})
  BY DEF GrantedTo, HasBinding, Grantees
<1> HIDE DEF owners, members, binds
<1>8. CASE "Everyone" \in binds
  <2>1. binds # {}
    BY <1>8
  <2> QED
    BY <1>1, <1>4, <1>5, <1>7, <1>8, <2>1
<1>9. CASE "Everyone" \notin binds /\ "Owners" \in binds
  <2>1. binds # {}
    BY <1>9
  <2> QED
    BY <1>1, <1>4, <1>7, <1>9, <2>1
<1>10. CASE "Everyone" \notin binds /\ "Owners" \notin binds
  <2>1. binds = {}
    BY <1>3, <1>10
  <2> QED
    BY <1>1, <1>6, <1>7, <1>10, <2>1
<1> QED
  BY <1>8, <1>9, <1>10

LEMMA AtRest == ASSUME RestInv PROVE RestsOnlyWhenReported
<1> SUFFICES ASSUME Quiescent PROVE RestsOnlyWhenReported
  BY DEF RestsOnlyWhenReported
<1> USE DEF RestInv
<1>1. /\ pending = {} /\ outdated = {} /\ projectQueue = {} /\ pc = "idle" /\ Fresh
  BY DEF Quiescent, Fresh
<1>2. \A p \in Projects : cache.prj[p] = prj[p]
  BY <1>1 DEF Shown
<1>3. MembersCollected
  <2> SUFFICES ASSUME NEW p \in Projects, prj[p].phase \in {"unready", "ready"}
               PROVE  /\ prj[p].phase = "ready"
                      /\ prj[p].members = Ranked(rbac[p].others \cup SetOf(rbac[p].RoleBinding))
    BY DEF MembersCollected
  <2>1. prj[p].phase = "ready" /\ prj[p].members = Ranked(BoundIn(seen[p]))
    BY <1>1 DEF Collected, IsPresent
  <2>2. seen[p]["others"] = rbac[p]["others"] /\ seen[p]["RoleBinding"] = rbac[p]["RoleBinding"]
    BY <1>1 DEF Shown, Kinds, Owned
  <2>3. BoundIn(seen[p]) = BoundIn(rbac[p])
    BY <2>2, BoundInSame
  <2> QED
    BY <2>1, <2>3 DEF BoundIn
<1>4. Selected = Chosen
  BY <1>2 DEF Selected, IsSelected, Chosen
<1>5. template.present => IF template.deleting THEN template.ready = "Terminating"
                          ELSE IsReady(template) /\ template.targets = Chosen
  BY <1>1, <1>4 DEF WorkDone
<1> QED
  BY <1>3, <1>5 DEF RestsOnlyWhenReported

\* The controller of the templates and that of the Projects, each of which works on
\* what the other has made, rest only with the members collected from the
\* RoleBindings as they are, and with a status of the template that names the
\* selected Projects, or Terminating.
THEOREM RestsReported == Spec => []RestsOnlyWhenReported
<1>1. Init => RestInv
  BY InitRest
<1>2. RestInv /\ [Next]_vars => RestInv'
  BY NextRest
<1>3. RestInv => RestsOnlyWhenReported
  BY AtRest
<1> QED
  BY <1>1, <1>2, <1>3, PTL DEF Spec

----------------------------------------------------------------------------
(* What is left of a template. *)

\* Entries stay or go, and whoever makes the template lose the finalizer, or lets
\* the call come to where it takes it away, is none of these steps.
LEMMA NoneLeft ==
  ASSUME NEW p \in Projects, NEW k \in Owned, rbac'[p][k] \in {rbac[p][k], None},
         template.present /\ template.finalizer => template'.present /\ template'.finalizer,
         pc' = "removeFinalizer" => pc = "removeFinalizer",
         Left(p, k)'
  PROVE  Left(p, k)
  BY DEF Left

LEMMA EntryRemoved ==
  ASSUME TypeInv, NEW p \in Projects, NEW k \in Owned, NEW q \in Projects,
         PurgeNamespace(q) \/ ChangeRoleBindings(q)
  PROVE  \/ rbac'[p][k] = rbac[p][k]
         \/ rbac'[p][k] = None /\ prj[p].phase = "leaving"
<1> DEFINE Sets(j, content) ==
             /\ rbac' = Put(rbac, q, j, content)
             /\ j = "others" \/ (content = NoEntries[j] /\ prj[q].phase = "leaving")
<1>1. PICK j \in Kinds : \E content : Sets(j, content)
  BY DEF PurgeNamespace, ChangeRoleBindings, SetEntry, Store, Put, Kinds
<1>2. PICK content : Sets(j, content)
  BY <1>1
<1>3. rbac'[p][k] = IF p = q /\ k = j THEN content ELSE rbac[p][k]
  <2>1. Table(rbac) /\ k \in Kinds
    BY TableTypes DEF TypeInv, TypeOK, TypedTable, Kinds
  <2> QED
    BY <1>2, <2>1, EntryPut
<1>4. k = j => content = None /\ prj[q].phase = "leaving"
  BY <1>2 DEF Owned, NoEntries
<1> QED
  BY <1>3, <1>4

LEMMA DeletionLeaves ==
  ASSUME TypeInv, Shown, NEW p \in Projects, NEW k \in Owned, DeleteObjects,
         Left(p, k)', ~Left(p, k)
  PROVE  <<p, k>> \in outdated
<1> DEFINE there == {e \in Projects \X Owned : seen[e[1]][e[2]] # None}
<1>1. pc = "deleteObjects" /\ UNCHANGED template
  BY DEF DeleteObjects
<1>2. PICK deleted \in SUBSET there :
        /\ rbac' = Without(deleted)
        /\ pc' = "removeFinalizer" => there = {}
  BY DEF DeleteObjects, CleanedUp, Store, ReturnError, Return
<1>3. rbac'[p][k] \in {rbac[p][k], None}
  BY <1>2 DEF Without, Kinds
<1>4. pc' = "removeFinalizer" /\ rbac[p][k] # None
  BY <1>1, <1>3 DEF Left
<1>5. seen[p][k] = None
  <2> SUFFICES ASSUME seen[p][k] # None PROVE FALSE
    OBVIOUS
  <2>1. <<p, k>> \in there
    OBVIOUS
  <2> QED
    BY <1>2, <1>4, <2>1
<1> QED
  BY <1>4, <1>5 DEF Shown, Kinds

\* The steps of the call that write the template, apart from RemoveFinalizer, do
\* not take the finalizer.
LEMMA FinalizerKept ==
  ASSUME Inv, UpdateFinalizer \/ UpdateStatus \/ UpdateTerminating,
         template.present, template.finalizer
  PROVE  template'.present /\ template'.finalizer
<1>1. current => obj = template
  BY DEF Inv, CopiesKnown
<1>2. obj \in Template /\ template \in Template
  BY DEF Inv, Typed
<1>3. CASE UpdateFinalizer
  <2>1. UNCHANGED template \/ (current /\ template' = [obj EXCEPT !.finalizer = TRUE])
    BY <1>3 DEF UpdateFinalizer, Write, Conflict
  <2> QED
    BY <1>1, <1>2, <2>1 DEF Template
<1>4. CASE UpdateStatus
  <2> DEFINE new == [obj EXCEPT !.targets = done,
                                !.observed = obj.observed \/ ~IsReady(obj),
                                !.ready = IF IsReady(obj) THEN obj.ready ELSE "True"]
  <2>1. UNCHANGED template \/ (current /\ template' = new)
    BY <1>4 DEF UpdateStatus, Write, Conflict
  <2> QED
    BY <1>1, <1>2, <2>1 DEF Template
<1>5. CASE UpdateTerminating
  <2>1. \/ UNCHANGED template
        \/ current /\ template' = [obj EXCEPT !.observed = TRUE, !.ready = "Terminating"]
    BY <1>5 DEF UpdateTerminating, Write, Conflict
  <2> QED
    BY <1>1, <1>2, <2>1 DEF Template
<1> QED
  BY <1>3, <1>4, <1>5

LEMMA LeavesOnlyOutdated ==
  ASSUME RestInv, [Next]_vars, NEW p \in Projects, NEW k \in Owned, Left(p, k)', ~Left(p, k)
  PROVE  <<p, k>> \in outdated /\ DeleteObjects
<1> USE DEF RestInv
<1> DEFINE Harmless == /\ rbac'[p][k] \in {rbac[p][k], None}
                       /\ template.present /\ template.finalizer
                            => template'.present /\ template'.finalizer
                       /\ pc' = "removeFinalizer" => pc = "removeFinalizer"
<1>a. ~Harmless
  BY NoneLeft
<1>1. ASSUME UNCHANGED <<template, rbac>>, pc' = "removeFinalizer" => pc = "removeFinalizer"
      PROVE  FALSE
  BY <1>a, <1>1
<1>2. ASSUME Start PROVE FALSE
  <2>1. UNCHANGED <<template, rbac>> /\ pc' # "removeFinalizer"
    BY <1>2 DEF Start, callVars, ListProjects
  <2> QED
    BY <1>1, <2>1
<1>3. ASSUME UpdateFinalizer \/ UpdateStatus \/ UpdateTerminating PROVE FALSE
  <2>1. UNCHANGED rbac /\ pc' # "removeFinalizer"
    BY <1>3 DEF UpdateFinalizer, UpdateStatus, UpdateTerminating, ListProjects, Conflict,
                ReturnError, Return
  <2> QED
    BY <1>3, <1>a, <2>1, FinalizerKept
<1>4. ASSUME NEW q \in Projects, ReconcileRole(q) \/ ReconcileRoleBinding(q) PROVE FALSE
  <2>1. pc = "reconcile" /\ UNCHANGED template /\ pc' \in {"idle", "reconcile"}
    BY <1>4 DEF ReconcileRole, ReconcileRoleBinding, ReturnError, Return
  <2> QED
    BY <2>1 DEF Left, Inv, CallTells
<1>5. ASSUME RemoveFinalizer PROVE FALSE
  BY <1>5 DEF RemoveFinalizer, Left
<1>6. CASE DeleteObjects
  BY <1>6, DeletionLeaves
<1>7. ASSUME ReleaseHold \/ CreateTemplate \/ UpdateSpec \/ DeleteTemplate PROVE FALSE
  <2>1. PICK new \in Template :
          /\ ChangeTemplate(new)
          /\ template.present /\ template.finalizer => new.present /\ new.finalizer
    BY <1>7, UsersOfTemplate
  <2> QED
    BY <1>a, <2>1 DEF ChangeTemplate
<1>8. ASSUME NEW q \in Projects, PurgeNamespace(q) \/ ChangeRoleBindings(q) PROVE FALSE
  <2>1. UNCHANGED <<template, pc>>
    BY <1>8 DEF PurgeNamespace, ChangeRoleBindings, SetEntry, callVars
  <2> QED
    BY <1>8, <1>a, <2>1, EntryRemoved
<1>9. ASSUME NEW q \in Projects,
             \/ CreateProject(q) \/ ChangeOwners(q) \/ ChangeLabel(q) \/ DeleteProject(q)
             \/ RemoveProject(q)
      PROVE  FALSE
  <2>1. \E new : SetProject(q, new)
    BY <1>9 DEF CreateProject, ChangeOwners, ChangeLabel, DeleteProject, RemoveProject
  <2> QED
    BY <1>1, <2>1 DEF SetProject, callVars
<1>10. ASSUME \/ \E q \in Projects : CollectMembers(q)
              \/ \E q \in Projects, j \in Kinds : DeliverRole(q, j)
              \/ \E what \in {Name} \cup Projects : Deliver(what)
       PROVE  FALSE
  BY <1>1, <1>10 DEF CollectMembers, DeliverRole, Deliver, callVars
<1>11. ASSUME Resync \/ BecomeCalm \/ UNCHANGED vars PROVE FALSE
  BY <1>1, <1>11 DEF Resync, BecomeCalm, vars, callVars
<1>12. ASSUME FailCall \/ Restart PROVE FALSE
  <2>1. UNCHANGED <<template, rbac>> /\ pc' = "idle"
    BY <1>12 DEF FailCall, Restart, ReturnError, Return
  <2> QED
    BY <1>1, <2>1
<1> QED
  BY <1>2, <1>3, <1>4, <1>5, <1>6, <1>7, <1>8, <1>9, <1>10, <1>11, <1>12
  DEF Next, System, Environment, Continue

\* Whatever users change and whichever calls fail, a Role or RoleBinding comes to be
\* left behind, with no finalizer to wait for it, only when handleDeletion has
\* listed the cache while the event of the entry was on the way.
THEOREM LeftOnlyOutdated == Spec => OnlyOutdatedIsLeft
<1>1. Init => RestInv
  BY InitRest
<1>2. RestInv /\ [Next]_vars => RestInv'
  BY NextRest
<1>3. RestInv /\ [Next]_vars =>
        [\A p \in Projects, k \in Owned : Left(p, k)' /\ ~Left(p, k)
           => <<p, k>> \in outdated /\ DeleteObjects]_vars
  BY LeavesOnlyOutdated
<1> QED
  BY <1>1, <1>2, <1>3, PTL DEF Spec, OnlyOutdatedIsLeft

----------------------------------------------------------------------------
(* Whom the controller neglects. *)

\* A step that keeps the template and the call, and at most takes away an entry
\* from a Project that is not ready, neglects nothing new.
LEMMA NeglectKept ==
  ASSUME NEW p \in Projects, NEW k \in Owned,
         UNCHANGED <<template, pc, at, done>>, queued => queued', pending \subseteq pending',
         p \in pending' \/ prj'[p] = prj[p],
         rbac'[p][k] = rbac[p][k] \/ (rbac'[p][k] = None /\ prj[p].phase # "ready"),
         Neglected(p, k)'
  PROVE  Neglected(p, k)
<1>1. Settled(p, k) /\ prj'[p] = prj[p] /\ template.present
  BY DEF Neglected, Settled
<1>2. (p \in Chosen' <=> p \in Chosen) /\ Grantees(p)' = Grantees(p)
  BY <1>1 DEF Chosen, Grantees
<1>3. CASE rbac'[p][k] = rbac[p][k]
  BY <1>1, <1>2, <1>3 DEF Neglected, AsWanted
<1>4. CASE rbac'[p][k] = None /\ prj[p].phase # "ready"
  <2>1. p \notin Chosen
    BY <1>4 DEF Chosen
  <2> QED
    BY <1>2, <1>4, <2>1 DEF Neglected, AsWanted
<1> QED
  BY <1>3, <1>4

\* What ReconcileOwnedObjects makes of an entry that the cache shows as it is.
LEMMA ReconciledEntry ==
  ASSUME TypeInv, Shown, NEW p \in Projects, NEW k \in Owned, NEW content,
         ReconcileOwned(p, k, content)
  PROVE  /\ \A q \in Projects, j \in Kinds : q # p \/ j # k => rbac'[q][j] = rbac[q][j]
         /\ <<p, k>> \notin outdated => rbac'[p][k] = content
<1>1. Table(rbac) /\ k \in Kinds
  BY TableTypes DEF TypeInv, TypeOK, TypedTable, Kinds
<1>2. CASE seen[p][k] = content
  <2>1. rbac' = rbac
    BY <1>2 DEF ReconcileOwned, InPlace, Store
  <2> QED
    BY <1>1, <1>2, <2>1 DEF Shown
<1>3. CASE seen[p][k] # content
  <2>1. rbac' = Put(rbac, p, k, content)
    BY <1>3 DEF ReconcileOwned, InPlace, Store, Put
  <2> QED
    BY <1>1, <2>1, EntryPut
<1> QED
  BY <1>2, <1>3

LEMMA StartNeglects ==
  ASSUME RestInv, NEW p \in Projects, NEW k \in Owned, Start, Neglected(p, k)'
  PROVE  FALSE
<1> USE DEF RestInv
<1>1. UNCHANGED <<template, pending>> /\ pc = "idle"
  BY DEF Start, cacheVars
<1>2. cache.template.present
  BY <1>1 DEF Neglected, Settled, Inv, CopiesKnown
<1>3. pc' # "idle" /\ UNCHANGED <<at, done>>
  BY <1>2 DEF Start, ListProjects
<1>4. done = {} /\ at = None /\ p # None
  BY <1>1, ProjectTemplateAssumption DEF TypeInv, LoopShape
<1> QED
  BY <1>3, <1>4 DEF Neglected, Settled

LEMMA StatusNeglects ==
  ASSUME RestInv, NEW p \in Projects, NEW k \in Owned, UpdateStatus, Neglected(p, k)'
  PROVE  Neglected(p, k)
<1> USE DEF RestInv
<1>1. ~queued' /\ Name \notin pending'
  BY DEF Neglected, Settled
<1>2. /\ pc = "reconcile" /\ todo = {} /\ IsReady(obj)
      /\ UNCHANGED <<template, pending, queued, prj, rbac, cache>>
  BY <1>1 DEF UpdateStatus, Write, Notify, Conflict, ReturnError
<1>3. Fresh /\ p \notin pending
  BY <1>2 DEF Neglected, Settled, Fresh
<1>4. obj = template /\ ~template.deleting /\ done = Selected /\ cache.prj[p] = prj[p]
  BY <1>2, <1>3 DEF CallWorks, Shown
<1>5. AsWanted(p, k)' <=> AsWanted(p, k)
  BY <1>2 DEF AsWanted, Chosen, Grantees
<1>6. p \in Chosen
  BY <1>4, <1>5 DEF Neglected, AsWanted
<1>7. p \in done
  BY <1>4, <1>6 DEF Selected, IsSelected, Chosen
<1> QED
  BY <1>2, <1>3, <1>5, <1>7 DEF Neglected, Settled, Fresh

LEMMA RoleNeglects ==
  ASSUME RestInv, NEW p \in Projects, NEW k \in Owned, NEW q \in Projects, ReconcileRole(q),
         Neglected(p, k)', ~Neglected(p, k)
  PROVE  q = p /\ <<p, k>> \in outdated
<1> USE DEF RestInv
<1>1. ~queued'
  BY DEF Neglected, Settled
<1>2. /\ pc = "reconcile" /\ at = None /\ q \in todo /\ q # None
      /\ ReconcileOwned(q, "Role", obj.spec.rules) /\ at' = q
      /\ UNCHANGED <<template, prj, cache, pending, queued, pc, done>>
  BY <1>1, ProjectTemplateAssumption DEF ReconcileRole, ReturnError
<1>3. q \notin done
  BY <1>2 DEF TypeInv, TypeOK
<1>4. Fresh /\ obj = template /\ ~template.deleting
  BY <1>2 DEF Neglected, Settled, Fresh, CallWorks
<1>5. k \in Kinds /\ "Role" \in Owned
  BY DEF Kinds, Owned
<1>6. /\ q # p \/ k # "Role" => rbac'[p][k] = rbac[p][k]
      /\ <<q, "Role">> \notin outdated => rbac'[q]["Role"] = obj.spec.rules
  BY <1>2, <1>5, ReconciledEntry
<1>7. q = p /\ k = "Role"
  <2> SUFFICES ASSUME q # p \/ k # "Role" PROVE FALSE
    OBVIOUS
  <2>1. p \in done
    BY <1>2 DEF Neglected, Settled
  <2>2. Settled(p, k)
    BY <1>2, <2>1 DEF Neglected, Settled
  <2>3. AsWanted(p, k)' <=> AsWanted(p, k)
    BY <1>2, <1>6 DEF AsWanted, Chosen, Grantees
  <2> QED
    BY <1>2, <2>2, <2>3 DEF Neglected
<1>8. rbac'[p][k] # obj.spec.rules
  BY <1>2, <1>4, <1>7 DEF Neglected, AsWanted
<1> QED
  BY <1>6, <1>7, <1>8

LEMMA RoleBindingNeglects ==
  ASSUME RestInv, NEW p \in Projects, NEW k \in Owned, NEW q \in Projects,
         ReconcileRoleBinding(q), Neglected(p, k)', ~Neglected(p, k)
  PROVE  q = p /\ <<p, k>> \in outdated
<1> USE DEF RestInv
<1> DEFINE subjects == ExtractSubjects(GrantedTo(obj, listed[q]))
<1>1. ~queued' /\ Name \notin pending' /\ p \notin pending'
  BY DEF Neglected, Settled
<1>2. /\ pc = "reconcile" /\ at = q /\ q # None
      /\ ReconcileOwned(q, "RoleBinding", subjects) /\ done' = done \cup {q} /\ at' = None
      /\ UNCHANGED <<template, prj, cache, pending, queued, pc>>
  BY <1>1, ProjectTemplateAssumption DEF ReconcileRoleBinding, ReturnError
<1>3. q \in todo
  BY <1>2 DEF TypeInv, TypeOK
<1>4. Fresh /\ obj = template /\ ~template.deleting /\ listed[q] = cache.prj[q]
  BY <1>1, <1>2, <1>3 DEF Fresh, CallWorks
<1>5. k \in Kinds /\ "RoleBinding" \in Owned
  BY DEF Kinds, Owned
<1>6. /\ q # p \/ k # "RoleBinding" => rbac'[p][k] = rbac[p][k]
      /\ <<q, "RoleBinding">> \notin outdated => rbac'[q]["RoleBinding"] = subjects
  BY <1>2, <1>5, ReconciledEntry
<1>7. q = p /\ k = "RoleBinding"
  <2> SUFFICES ASSUME q # p \/ k # "RoleBinding" PROVE FALSE
    OBVIOUS
  <2>1. pc' # "idle" /\ at' = None /\ p # None /\ done' = done \cup {q}
    BY <1>2, ProjectTemplateAssumption
  <2>4. p \in done \cup {q}
    BY <2>1 DEF Neglected, Settled
  <2>5. p \in done \/ (at = p /\ k = "Role")
    BY <1>2, <2>4 DEF Owned
  <2>2. Settled(p, k)
    BY <1>1, <1>2, <2>5 DEF Settled
  <2>3. AsWanted(p, k)' <=> AsWanted(p, k)
    BY <1>2, <1>6 DEF AsWanted, Chosen, Grantees
  <2> QED
    BY <1>2, <2>2, <2>3 DEF Neglected
<1>8. rbac'[p][k] # Ranked(Grantees(p))
  <2>1. Grantees(p)' = Grantees(p)
    BY <1>2 DEF Grantees
  <2> QED
    BY <1>2, <1>4, <1>7, <2>1 DEF Neglected, AsWanted
<1>9. subjects = Ranked(Grantees(p))
  <2>1. listed[p] = prj[p]
    BY <1>1, <1>2, <1>4, <1>7 DEF Shown
  <2>2. ExtractSubjects(GrantedTo(template, prj[p])) = Ranked(Grantees(p))
    BY GrantedSubjects, ExtractTypes DEF TypeInv
  <2> QED
    BY <1>4, <1>7, <2>1, <2>2
<1> HIDE DEF subjects
<1> QED
  BY <1>6, <1>7, <1>8, <1>9

LEMMA DeletionNeglects ==
  ASSUME RestInv, NEW p \in Projects, NEW k \in Owned, DeleteObjects, Neglected(p, k)'
  PROVE  <<p, k>> \in outdated
<1> USE DEF RestInv
<1> DEFINE there == {e \in Projects \X Owned : seen[e[1]][e[2]] # None}
<1>1. pc = "deleteObjects" /\ UNCHANGED <<template, pending>> /\ ~queued' /\ Name \notin pending'
  BY DEF DeleteObjects, Neglected, Settled
<1>2. done = {} /\ at = None /\ p # None
  BY <1>1, ProjectTemplateAssumption DEF TypeInv, LoopShape
<1>3. pc' # "removeFinalizer" \/ ~UNCHANGED <<at, done>>
  BY <1>2 DEF Neglected, Settled
<1>4. rbac' = Without(there) /\ UNCHANGED queued
  BY <1>1, <1>3 DEF DeleteObjects, ReturnError, Store
<1>5. template.deleting
  BY <1>1, <1>4 DEF CallWorks, Fresh
<1>6. Without(there)[p][k] # None
  BY <1>1, <1>4, <1>5 DEF Neglected, AsWanted
<1>7. <<p, k>> \notin there /\ rbac[p][k] # None
  BY <1>6 DEF Without, Kinds
<1>8. seen[p][k] = None
  BY <1>7
<1> QED
  BY <1>7, <1>8 DEF Shown, Kinds

LEMMA NeglectsOnlyOutdated ==
  ASSUME RestInv, [Next]_vars, NEW p \in Projects, NEW k \in Owned,
         Neglected(p, k)', ~Neglected(p, k)
  PROVE  /\ <<p, k>> \in outdated
         /\ ReconcileRole(p) \/ ReconcileRoleBinding(p) \/ DeleteObjects
<1> USE DEF RestInv
<1>a. ~queued' /\ Name \notin pending' /\ p \notin pending'
  BY DEF Neglected, Settled
<1>b. ASSUME UNCHANGED <<template, pc, at, done>>, queued => queued', pending \subseteq pending',
             p \in pending' \/ prj'[p] = prj[p],
             rbac'[p][k] = rbac[p][k] \/ (rbac'[p][k] = None /\ prj[p].phase # "ready")
      PROVE  FALSE
  BY <1>b, NeglectKept
<1>1. ASSUME Start \/ UpdateStatus PROVE FALSE
  BY <1>1, StartNeglects, StatusNeglects
<1>2. ASSUME UpdateFinalizer \/ UpdateTerminating \/ RemoveFinalizer PROVE FALSE
  BY <1>2, <1>a
  DEF UpdateFinalizer, UpdateTerminating, RemoveFinalizer, Write, Notify, Conflict, ReturnError
<1>3. ASSUME NEW q \in Projects, ReconcileRole(q)
      PROVE  <<p, k>> \in outdated /\ ReconcileRole(p)
  BY <1>3, RoleNeglects
<1>4. ASSUME NEW q \in Projects, ReconcileRoleBinding(q)
      PROVE  <<p, k>> \in outdated /\ ReconcileRoleBinding(p)
  BY <1>4, RoleBindingNeglects
<1>5. CASE DeleteObjects
  BY <1>5, DeletionNeglects
<1>6. ASSUME ReleaseHold \/ CreateTemplate \/ UpdateSpec \/ DeleteTemplate PROVE FALSE
  <2>1. PICK new : ChangeTemplate(new)
    BY <1>6 DEF ReleaseHold, CreateTemplate, UpdateSpec, DeleteTemplate
  <2> QED
    BY <1>a, <2>1 DEF ChangeTemplate, Notify
<1>7. ASSUME NEW what \in {Name} \cup Projects, Deliver(what) PROVE FALSE
  <2>1. what # Name /\ ~cache.template.present /\ UNCHANGED template
    BY <1>7, <1>a DEF Deliver, Requested
  <2>2. Name \notin pending
    BY <1>7, <1>a, <2>1 DEF Deliver
  <2> QED
    BY <2>1, <2>2 DEF Inv, CopiesKnown, Neglected
<1>8. ASSUME NEW q \in Projects, PurgeNamespace(q) \/ ChangeRoleBindings(q) PROVE FALSE
  <2>1. UNCHANGED <<template, prj, pending, queued, pc, at, done>>
    BY <1>8 DEF PurgeNamespace, ChangeRoleBindings, SetEntry, callVars
  <2>2. \/ rbac'[p][k] = rbac[p][k]
        \/ rbac'[p][k] = None /\ prj[p].phase # "ready"
    BY <1>8, EntryRemoved
  <2> QED
    BY <1>b, <2>1, <2>2
<1>9. ASSUME NEW q \in Projects, CollectMembers(q) \/ \E new : SetProject(q, new) PROVE FALSE
  <2>1. UNCHANGED <<template, rbac, queued, pc, at, done>>
    BY <1>9 DEF CollectMembers, SetProject, queueVars, callVars
  <2>2. \/ UNCHANGED <<prj, pending>>
        \/ pending' = pending \cup {q} /\ \A r \in Projects : r # q => prj'[r] = prj[r]
    BY <1>9 DEF CollectMembers, SetProject, Notify, TypeInv, TypeOK
  <2> QED
    BY <1>b, <2>1, <2>2
<1>10. ASSUME NEW q \in Projects,
              \/ CreateProject(q) \/ ChangeOwners(q) \/ ChangeLabel(q) \/ DeleteProject(q)
              \/ RemoveProject(q)
       PROVE  FALSE
  <2>1. \E new : SetProject(q, new)
    BY <1>10 DEF CreateProject, ChangeOwners, ChangeLabel, DeleteProject, RemoveProject
  <2> QED
    BY <1>9, <2>1
<1>11. ASSUME \/ \E q \in Projects, j \in Kinds : DeliverRole(q, j)
              \/ Resync \/ BecomeCalm \/ UNCHANGED vars
       PROVE  FALSE
  <2>1. UNCHANGED <<template, prj, rbac, pending, pc, at, done>>
    BY <1>11 DEF DeliverRole, Resync, BecomeCalm, vars, cacheVars, callVars
  <2>2. queued => queued'
    <3>1. CASE Resync
      BY <3>1, Zenon DEF Resync
    <3> QED
      BY <1>11, <3>1 DEF DeliverRole, BecomeCalm, vars, queueVars
  <2> QED
    BY <1>b, <2>1, <2>2
<1>12. ASSUME FailCall PROVE FALSE
  BY <1>12, <1>a DEF FailCall, ReturnError
<1>13. ASSUME Restart PROVE FALSE
  BY <1>13, <1>a DEF Restart, Neglected
<1> QED
  BY <1>1, <1>2, <1>3, <1>4, <1>5, <1>6, <1>7, <1>8, <1>9, <1>10, <1>11, <1>12, <1>13
  DEF Next, System, Environment, Continue

\* With any lag, any failures and any changes by users and by the other controller,
\* the controller comes to be done with a Role or RoleBinding that is not as it
\* should be only when it has compared it, or listed it for removal, while the
\* event of that entry was on the way.
THEOREM NeglectedOnlyOutdated == Spec => OnlyOutdatedIsNeglected
<1>1. Init => RestInv
  BY InitRest
<1>2. RestInv /\ [Next]_vars => RestInv'
  BY NextRest
<1>3. RestInv /\ [Next]_vars =>
        [\A p \in Projects, k \in Owned : Neglected(p, k)' /\ ~Neglected(p, k)
           => /\ <<p, k>> \in outdated
              /\ ReconcileRole(p) \/ ReconcileRoleBinding(p) \/ DeleteObjects]_vars
  BY NeglectsOnlyOutdated
<1> QED
  BY <1>1, <1>2, <1>3, PTL DEF Spec, OnlyOutdatedIsNeglected

=============================================================================
