-------------------------- MODULE ClassGroupsProofs --------------------------
(***************************************************************************)
(* The groups of class names, for all names and all variants: whatever     *)
(* order the names come in, every name is in the group of its variants,    *)
(* and the groups and the names in them are in one order.                  *)
(***************************************************************************)
EXTENDS ClassGroups, Lemmas, SequenceTheorems, FiniteSetTheorems

\* Where two strings differ first, if that is what makes the first one less.
Differ(a, b, k) ==
    /\ k \in 1..(Len(a) + 1) /\ k <= Len(b)
    /\ \A j \in 1..(k - 1) : a[j] = b[j]
    /\ k <= Len(a) => a[k] < b[k]

\* cmp.Compare goes by the first difference.
LEMMA LessIsDiffer ==
    ASSUME NEW a \in Strings, NEW b \in Strings
    PROVE  Less(a, b) <=> \E k \in 1..(Len(a) + 1) : Differ(a, b, k)
<1>1. Len(a) \in Nat /\ Len(b) \in Nat
  BY DEF Strings
<1>2. \A k \in Nat : k <= Len(a) /\ k <= Len(b) =>
         (SubSeq(a, 1, k) = SubSeq(b, 1, k) <=> \A j \in 1..k : a[j] = b[j])
  <2>1. SUFFICES ASSUME NEW k \in Nat, k <= Len(a), k <= Len(b)
                 PROVE  SubSeq(a, 1, k) = SubSeq(b, 1, k) <=> \A j \in 1..k : a[j] = b[j]
    OBVIOUS
  <2>2. /\ SubSeq(a, 1, k) = [j \in 1..k |-> a[j]]
        /\ SubSeq(b, 1, k) = [j \in 1..k |-> b[j]]
    <3>1. \A s : SubSeq(s, 1, k) = [j \in 1..k |-> s[j]]
      BY <1>1, <2>1 DEF Strings
    <3> QED  BY <3>1
  <2> QED  BY <2>2
<1>3. IsStrictPrefix(a, b) <=> Differ(a, b, Len(a) + 1)
  <2>1. IsPrefix(a, b) <=> Len(a) <= Len(b) /\ \A j \in 1..Len(a) : a[j] = b[j]
    BY <1>1, <1>2 DEF IsPrefix
  <2>2. ASSUME Len(a) <= Len(b), \A j \in 1..Len(a) : a[j] = b[j], Len(a) = Len(b)
        PROVE  a = b
    BY <2>2, SeqEqual DEF Strings
  <2>3. a = b => Len(a) = Len(b)
    OBVIOUS
  <2> QED  BY <1>1, <2>1, <2>2, <2>3 DEF IsStrictPrefix, Differ
<1>4. Min({Len(a), Len(b)}) \in Nat /\ Min({Len(a), Len(b)}) <= Len(a) /\ Min({Len(a), Len(b)}) <= Len(b)
      /\ (Min({Len(a), Len(b)}) = Len(a) \/ Min({Len(a), Len(b)}) = Len(b))
  BY <1>1 DEF Min
<1>5. ASSUME NEW k \in 1..Min({Len(a), Len(b)})
      PROVE  a[k] < b[k] /\ SubSeq(a, 1, k - 1) = SubSeq(b, 1, k - 1) <=> Differ(a, b, k)
  BY <1>1, <1>2, <1>4, <1>5 DEF Differ
<1>6. ASSUME NEW k \in 1..(Len(a) + 1), Differ(a, b, k)
      PROVE  k = Len(a) + 1 \/ k \in 1..Min({Len(a), Len(b)})
  BY <1>1, <1>4, <1>6 DEF Differ
<1>7. Len(a) + 1 \in 1..(Len(a) + 1) /\ \A k \in 1..Min({Len(a), Len(b)}) : k \in 1..(Len(a) + 1)
  BY <1>1, <1>4
<1> QED  BY <1>3, <1>5, <1>6, <1>7 DEF Less

\* The characters of a string are numbers.
LEMMA CharactersAreNumbers ==
    ASSUME Char \subseteq Int, NEW a \in Strings
    PROVE  Len(a) \in Nat /\ \A k \in 1..Len(a) : a[k] \in Int
<1>1. \A k \in 1..Len(a) : a[k] \in Char
  BY DEF Strings
<1>2. \A k \in 1..Len(a) : a[k] \in Int
  BY <1>1, Zenon
<1>3. Len(a) \in Nat
  BY DEF Strings
<1> QED  BY <1>2, <1>3

\* Strings are strictly and totally ordered.
LEMMA LessIsStrict ==
    ASSUME Char \subseteq Int, NEW a \in Strings
    PROVE  ~Less(a, a)
<1>1. \A k \in 1..Len(a) : a[k] \in Int
  BY CharactersAreNumbers
<1> QED  BY <1>1, LessIsDiffer DEF Differ, Strings

LEMMA LessIsTotal ==
    ASSUME Char \subseteq Int, NEW a \in Strings, NEW b \in Strings, a # b
    PROVE  Less(a, b) \/ Less(b, a)
<1> DEFINE D == {k \in 1..(Len(a) + 1) : k <= Len(a) /\ k <= Len(b) => a[k] # b[k]}
<1>1. Len(a) \in Nat /\ Len(b) \in Nat
  BY DEF Strings
<1>2. /\ \A k \in 1..Len(a) : a[k] \in Int
      /\ \A k \in 1..Len(b) : b[k] \in Int
  BY CharactersAreNumbers
<1>3. PICK k \in D : \A j \in D : k <= j
  <2>1. D \in SUBSET Nat /\ Len(a) + 1 \in D
    BY <1>1
  <2> QED  BY <2>1, LeastExists
<1>4. k \in 1..(Len(a) + 1) /\ \A j \in 1..(k - 1) : j <= Len(a) /\ j <= Len(b) /\ a[j] = b[j]
  <2>1. k \in 1..(Len(a) + 1)
    OBVIOUS
  <2>2. \A j \in 1..(k - 1) : j \in 1..(Len(a) + 1) /\ j \notin D
    BY <1>1, <1>3, <2>1
  <2> QED  BY <1>1, <2>1, <2>2
<1>5. k <= Len(a) /\ k <= Len(b) => a[k] # b[k]
  OBVIOUS
<1>6. k \in Nat /\ k \in 1..(Len(b) + 1)
  BY <1>1, <1>4
<1> HIDE DEF D
<1>7. CASE k <= Len(a) /\ k <= Len(b)
  <2>1. a[k] < b[k] \/ b[k] < a[k]
    BY <1>2, <1>4, <1>5, <1>6, <1>7
  <2>2. Differ(a, b, k) \/ Differ(b, a, k)
    BY <1>4, <1>6, <1>7, <2>1 DEF Differ
  <2> QED  BY <1>4, <1>6, <2>2, LessIsDiffer
<1>8. CASE k > Len(a) /\ k <= Len(b)
  <2>1. Differ(a, b, k)
    BY <1>1, <1>4, <1>6, <1>8 DEF Differ
  <2> QED  BY <1>4, <2>1, LessIsDiffer
<1>9. CASE k <= Len(a) /\ k > Len(b)
  <2>1. Differ(b, a, k)
    BY <1>1, <1>4, <1>6, <1>9 DEF Differ
  <2> QED  BY <1>6, <2>1, LessIsDiffer
<1>10. CASE k > Len(a) /\ k > Len(b)
  <2>1. Len(a) = k - 1 /\ Len(b) = k - 1
    BY <1>1, <1>4, <1>6, <1>10
  <2>2. a = b
    BY <1>4, <2>1, SeqEqual DEF Strings
  <2> QED  BY <2>2
<1> QED  BY <1>1, <1>6, <1>7, <1>8, <1>9, <1>10

LEMMA LessIsTransitive ==
    ASSUME Char \subseteq Int, NEW a \in Strings, NEW b \in Strings, NEW c \in Strings,
           Less(a, b), Less(b, c)
    PROVE  Less(a, c)
<1>1. Len(a) \in Nat /\ Len(b) \in Nat /\ Len(c) \in Nat
  BY DEF Strings
<1>2. /\ \A k \in 1..Len(a) : a[k] \in Int
      /\ \A k \in 1..Len(b) : b[k] \in Int
      /\ \A k \in 1..Len(c) : c[k] \in Int
  BY CharactersAreNumbers
<1>3. PICK k \in 1..(Len(a) + 1) : Differ(a, b, k)
  BY LessIsDiffer
<1>4. PICK l \in 1..(Len(b) + 1) : Differ(b, c, l)
  BY LessIsDiffer
<1>5. CASE k <= l
  <2>1. k \in 1..(Len(a) + 1) /\ k <= Len(c)
    BY <1>1, <1>4, <1>5 DEF Differ
  <2>2. ASSUME NEW j \in 1..(k - 1) PROVE a[j] = c[j]
    BY <1>1, <1>3, <1>4, <1>5 DEF Differ
  <2>3. ASSUME k <= Len(a) PROVE a[k] < c[k]
    <3>1. a[k] < b[k] /\ k \in 1..Len(a) /\ k \in 1..Len(b) /\ k \in 1..Len(c)
      BY <1>1, <1>3, <2>1, <2>3 DEF Differ
    <3>2. b[k] = c[k] \/ b[k] < c[k]
      BY <1>1, <1>4, <1>5, <3>1 DEF Differ
    <3> QED  BY <1>2, <3>1, <3>2
  <2>4. Differ(a, c, k)
    BY <2>1, <2>2, <2>3 DEF Differ
  <2> QED  BY <2>1, <2>4, LessIsDiffer
<1>6. CASE l < k
  <2>1. l \in 1..(Len(a) + 1) /\ l <= Len(c) /\ l <= Len(b) /\ l <= Len(a)
    BY <1>1, <1>3, <1>4, <1>6 DEF Differ
  <2>2. ASSUME NEW j \in 1..(l - 1) PROVE a[j] = c[j]
    BY <1>1, <1>3, <1>4, <1>6 DEF Differ
  <2>3. a[l] = b[l] /\ b[l] < c[l]
    BY <1>1, <1>3, <1>4, <1>6, <2>1 DEF Differ
  <2>4. Differ(a, c, l)
    BY <2>1, <2>2, <2>3 DEF Differ
  <2> QED  BY <2>1, <2>4, LessIsDiffer
<1> QED  BY <1>1, <1>5, <1>6

\* The separators of a prefix can be counted.
LEMMA CountType ==
    ASSUME NEW p \in Strings
    PROVE  Count(p) \in Nat
<1>1. Len(p) \in Nat
  BY DEF Strings
<1>2. IsFiniteSet(1..Len(p)) /\ {k \in 1..Len(p) : p[k] = Sep} \in SUBSET (1..Len(p))
  BY <1>1, FS_Interval
<1>3. IsFiniteSet({k \in 1..Len(p) : p[k] = Sep})
  BY <1>2, FS_Subset
<1> QED  BY <1>3, FS_CardinalityType DEF Count

\* So the prefixes are strictly and totally ordered.
LEMMA BeforeIsOrder ==
    ASSUME Char \subseteq Int
    PROVE  /\ \A p \in Strings : ~Before(p, p)
           /\ \A p, q \in Strings : p # q => Before(p, q) \/ Before(q, p)
           /\ \A p, q, r \in Strings : Before(p, q) /\ Before(q, r) => Before(p, r)
           /\ \A p, q, r \in Strings : Before(p, q) /\ ~Before(r, q) => Before(p, r)
<1>1. \A p \in Strings : Count(p) \in Nat
  BY CountType
<1>2. \A p \in Strings : ~Before(p, p)
  BY <1>1, LessIsStrict DEF Before
<1>3. \A p, q \in Strings : p # q => Before(p, q) \/ Before(q, p)
  <2>1. SUFFICES ASSUME NEW p \in Strings, NEW q \in Strings, p # q
                 PROVE  Before(p, q) \/ Before(q, p)
    OBVIOUS
  <2>2. Less(p, q) \/ Less(q, p)
    BY <2>1, LessIsTotal
  <2> QED  BY <1>1, <2>2 DEF Before
<1>4. \A p, q, r \in Strings : Before(p, q) /\ Before(q, r) => Before(p, r)
  <2>1. SUFFICES ASSUME NEW p \in Strings, NEW q \in Strings, NEW r \in Strings,
                        Before(p, q), Before(q, r)
                 PROVE  Before(p, r)
    OBVIOUS
  <2>2. Less(p, q) /\ Less(q, r) => Less(p, r)
    BY LessIsTransitive
  <2> QED  BY <1>1, <2>1, <2>2 DEF Before
<1>5. \A p, q, r \in Strings : Before(p, q) /\ ~Before(r, q) => Before(p, r)
  <2>1. SUFFICES ASSUME NEW p \in Strings, NEW q \in Strings, NEW r \in Strings,
                        Before(p, q), ~Before(r, q)
                 PROVE  Before(p, r)
    OBVIOUS
  <2>2. r = q \/ Before(q, r)
    BY <1>3, <2>1
  <2> QED  BY <1>4, <2>1, <2>2
<1> QED  BY <1>2, <1>3, <1>4, <1>5
-----------------------------------------------------------------------------
\* The groups are records of a prefix and names.
Group == [prefix : Strings, names : Seq(names)]

\* How the binary search goes on: a step of it, given the rest.
SearchStep(prefix, r, between) ==
    LET middle == (r[1] + r[2]) \div 2
    IN IF r[1] >= r[2] THEN r[1]
       ELSE IF Before(groups[middle].prefix, prefix) THEN between[<<middle + 1, r[2]>>]
       ELSE between[<<r[1], middle>>]

\* All groups in front of the place that is found are before the prefix and those
\* behind it are not.
LEMMA SearchFinds ==
    ASSUME Char \subseteq Int, groups \in Seq(Group), NEW prefix \in Strings,
           \A g, h \in 1..Len(groups) : g < h => Before(groups[g].prefix, groups[h].prefix)
    PROVE  /\ Search(prefix) \in 1..(Len(groups) + 1)
           /\ \A g \in 1..Len(groups) :
                 Before(groups[g].prefix, prefix) <=> g < Search(prefix)
<1> DEFINE n == Len(groups)
           places == 1..(n + 1)
           D == places \X places
           rank == [r \in D |-> IF r[1] <= r[2] THEN r[2] - r[1] ELSE 0]
           B == [r \in D |-> [f \in [Below(r, D, rank) -> places] |-> SearchStep(prefix, r, f)]]
           Middle(r) == (r[1] + r[2]) \div 2
           IsBetween(f) == f = [r \in D |-> SearchStep(prefix, r, f)]
<1>1. n \in Nat /\ \A g \in 1..n : groups[g].prefix \in Strings
  <2>1. n \in Nat /\ \A g \in 1..n : groups[g] \in Group
    OBVIOUS
  <2> QED  BY <2>1 DEF Group
<1>2. rank \in [D -> 0..n]
  BY <1>1
<1>3. ASSUME NEW r \in D, r[1] < r[2]
      PROVE  /\ Middle(r) \in 1..n /\ r[1] <= Middle(r) /\ Middle(r) < r[2]
             /\ <<Middle(r) + 1, r[2]>> \in Below(r, D, rank)
             /\ <<r[1], Middle(r)>> \in Below(r, D, rank)
  <2> DEFINE middle == (r[1] + r[2]) \div 2
  <2>1. r[1] \in 1..(n + 1) /\ r[2] \in 1..(n + 1) /\ r = <<r[1], r[2]>>
    OBVIOUS
  <2>2. middle \in 1..n /\ r[1] <= middle /\ middle < r[2]
    BY <1>1, <1>3, <2>1
  <2> HIDE DEF middle, Middle
  <2>3. <<middle + 1, r[2]>> \in D /\ <<r[1], middle>> \in D
    BY <1>1, <2>1, <2>2
  <2>4. rank[r] = r[2] - r[1]
    BY <1>3
  <2>5. rank[<<middle + 1, r[2]>>] = r[2] - (middle + 1) /\ rank[<<r[1], middle>>] = middle - r[1]
    BY <1>1, <2>1, <2>2, <2>3
  <2>6. r[2] - (middle + 1) < r[2] - r[1] /\ middle - r[1] < r[2] - r[1]
    BY <1>1, <2>1, <2>2
  <2> HIDE DEF rank, D
  <2> QED  BY <2>2, <2>3, <2>4, <2>5, <2>6 DEF Below, middle, Middle
<1> HIDE DEF rank
<1>4. ASSUME NEW r \in D, NEW f \in [Below(r, D, rank) -> places]
      PROVE  B[r][f] \in places
  <2>1. B[r][f] = SearchStep(prefix, r, f)
    OBVIOUS
  <2>2. CASE r[1] >= r[2]
    BY <2>1, <2>2 DEF SearchStep
  <2>3. CASE ~(r[1] >= r[2])
    <3>1. r[1] < r[2]
      BY <1>1, <2>3
    <3>2. f[<<Middle(r) + 1, r[2]>>] \in places /\ f[<<r[1], Middle(r)>>] \in places
      <4> HIDE DEF Middle, D, places
      <4> QED  BY <1>3, <3>1
    <3>3. SearchStep(prefix, r, f) \in {f[<<Middle(r) + 1, r[2]>>], f[<<r[1], Middle(r)>>]}
      BY <2>3 DEF SearchStep
    <3> HIDE DEF B, D, places, Middle
    <3> QED  BY <2>1, <3>2, <3>3
  <2> QED  BY <2>2, <2>3
<1>5. PICK f : Recurses(f, D, places, rank, B)
  <2> HIDE DEF D, places, B
  <2> QED  BY <1>1, <1>2, <1>4, RecursiveFunctionExists
<1>6. IsBetween(f)
  <2>1. f \in [D -> places]
    BY <1>5 DEF Recurses
  <2>2. ASSUME NEW r \in D PROVE f[r] = SearchStep(prefix, r, f)
    <3> DEFINE h == [y \in Below(r, D, rank) |-> f[y]]
    <3>1. f[r] = B[r][h]
      BY <1>5 DEF Recurses
    <3>2. h \in [Below(r, D, rank) -> places]
      BY <2>1 DEF Below
    <3>3. B[r][h] = SearchStep(prefix, r, h)
      <4> HIDE DEF h
      <4> QED  BY <3>2
    <3>4. SearchStep(prefix, r, h) = SearchStep(prefix, r, f)
      <4>1. CASE r[1] >= r[2]
        BY <4>1 DEF SearchStep
      <4>2. CASE ~(r[1] >= r[2])
        <5>1. r[1] < r[2]
          BY <1>1, <4>2
        <5>2. \A y \in Below(r, D, rank) : h[y] = f[y]
          OBVIOUS
        <5> HIDE DEF h, D
        <5> QED  BY <1>3, <5>1, <5>2 DEF SearchStep
      <4> QED  BY <4>1, <4>2
    <3> QED  BY <3>1, <3>3, <3>4
  <2> HIDE DEF D, places
  <2> QED  BY <2>1, <2>2
<1> DEFINE between == CHOOSE g : IsBetween(g)
<1>7. IsBetween(between)
  BY <1>6
<1>8. Search(prefix) = between[<<1, n + 1>>]
  BY DEF Search, SearchStep
<1> HIDE DEF between
\* Whatever is in front of the range is before, whatever is behind it is not.
<1> DEFINE Right(r) == (\A g \in 1..n : g < r[1] => Before(groups[g].prefix, prefix))
                         /\ (\A g \in 1..n : g >= r[2] => ~Before(groups[g].prefix, prefix))
                         /\ r[1] <= r[2]
           S == {r \in D : Right(r) => /\ between[r] \in places
                                       /\ \A g \in 1..n : Before(groups[g].prefix, prefix) <=> g < between[r]}
<1>9. ASSUME NEW g \in 1..n, NEW h \in 1..n, g <= h, Before(groups[h].prefix, prefix)
      PROVE  Before(groups[g].prefix, prefix)
  <2>1. g = h \/ g < h
    BY <1>1, <1>9
  <2>2. CASE g < h
    BY <1>1, <1>9, <2>2, BeforeIsOrder
  <2> QED  BY <1>9, <2>1, <2>2
<1>10. ASSUME NEW r \in D, \A y \in D : rank[y] < rank[r] => y \in S, Right(r)
       PROVE  /\ between[r] \in places
              /\ \A g \in 1..n : Before(groups[g].prefix, prefix) <=> g < between[r]
  <2>0. r[1] \in 1..(n + 1) /\ r[2] \in 1..(n + 1)
    OBVIOUS
  <2>1. between[r] = SearchStep(prefix, r, between)
    BY <1>7
  <2>2. CASE r[1] >= r[2]
    <3>1. r[1] = r[2] /\ between[r] = r[1]
      BY <1>1, <1>10, <2>0, <2>1, <2>2 DEF SearchStep
    <3>2. \A g \in 1..n : g < r[1] \/ g >= r[1]
      BY <1>1, <2>0
    <3>3. \A g \in 1..n : g >= r[1] => ~(g < r[1])
      BY <1>1, <2>0
    <3> QED  BY <1>10, <2>0, <3>1, <3>2, <3>3
  <2>3. CASE ~(r[1] >= r[2])
    <3> DEFINE middle == (r[1] + r[2]) \div 2
    <3>1. /\ middle \in 1..n /\ r[1] <= middle /\ middle < r[2]
          /\ <<middle + 1, r[2]>> \in Below(r, D, rank)
          /\ <<r[1], middle>> \in Below(r, D, rank)
      <4>1. r[1] < r[2]
        BY <1>1, <2>0, <2>3
      <4> HIDE DEF D
      <4> QED  BY <1>3, <4>1
    <3>2. between[r] = IF Before(groups[middle].prefix, prefix) THEN between[<<middle + 1, r[2]>>]
                       ELSE between[<<r[1], middle>>]
      BY <2>1, <2>3 DEF SearchStep
    <3>3. <<middle + 1, r[2]>> \in S /\ <<r[1], middle>> \in S
      <4> HIDE DEF S, D, middle
      <4> QED  BY <1>10, <3>1 DEF Below
    <3> HIDE DEF middle
    <3>4. CASE Before(groups[middle].prefix, prefix)
      <4> DEFINE q == <<middle + 1, r[2]>>
      <4>1. q[1] = middle + 1 /\ q[2] = r[2]
        OBVIOUS
      <4>2. \A g \in 1..n : g < middle + 1 => Before(groups[g].prefix, prefix)
        <5>1. \A g \in 1..n : g < middle + 1 => g <= middle
          BY <1>1, <3>1
        <5> QED  BY <1>9, <3>1, <3>4, <5>1
      <4>3. middle + 1 <= r[2]
        BY <1>1, <2>0, <3>1
      <4>4. Right(q)
        BY <1>10, <4>1, <4>2, <4>3
      <4>5. between[r] = between[q] /\ q \in S
        BY <3>2, <3>3, <3>4
      <4> HIDE DEF q, Right
      <4> QED  BY <4>4, <4>5
    <3>5. CASE ~Before(groups[middle].prefix, prefix)
      <4> DEFINE q == <<r[1], middle>>
      <4>1. q[1] = r[1] /\ q[2] = middle
        OBVIOUS
      <4>2. \A g \in 1..n : g >= middle => ~Before(groups[g].prefix, prefix)
        <5>1. \A g \in 1..n : g >= middle => middle <= g
          BY <1>1, <3>1
        <5> QED  BY <1>9, <3>1, <3>5, <5>1
      <4>4. Right(q)
        BY <1>10, <3>1, <4>1, <4>2
      <4>5. between[r] = between[q] /\ q \in S
        BY <3>2, <3>3, <3>5
      <4> HIDE DEF q, Right
      <4> QED  BY <4>4, <4>5
    <3> QED  BY <3>4, <3>5
  <2> QED  BY <2>2, <2>3
<1>11. D \subseteq S
  <2>1. \A r \in D : (\A y \in D : rank[y] < rank[r] => y \in S) => r \in S
    <3> HIDE DEF Right, D, places, n
    <3> QED  BY <1>10
  <2>2. rank \in [D -> Nat]
    BY <1>1, <1>2
  <2> HIDE DEF S, D
  <2> QED  BY <2>1, <2>2, RankInduction
<1>12. <<1, n + 1>> \in D /\ Right(<<1, n + 1>>)
  BY <1>1
<1> HIDE DEF Right, D
<1> QED  BY <1>8, <1>11, <1>12
-----------------------------------------------------------------------------
\* strings.Index finds the first separator, if there is one.
LEMMA IndexFinds ==
    ASSUME NEW name \in Strings, NEW k \in Nat \ {0}
    PROVE  LET n == Index(name, k)
           IN \/ n = 0 /\ \A j \in k..Len(name) : name[j] # Sep
              \/ n \in k..Len(name) /\ name[n] = Sep /\ \A j \in k..(n - 1) : name[j] # Sep
<1> DEFINE at == {j \in k..Len(name) : name[j] = Sep}
           n == Index(name, k)
<1>1. Len(name) \in Nat
  BY DEF Strings
<1>2. n = IF at = {} THEN 0 ELSE Min(at)
  BY DEF Index
<1>3. CASE at = {}
  BY <1>2, <1>3
<1>4. CASE at # {}
  <2>1. \E x \in at : \A y \in at : x <= y
    <3>1. at \in SUBSET Nat
      BY <1>1
    <3> QED  BY <1>4, <3>1, LeastExists
  <2>2. Min(at) \in at /\ \A y \in at : Min(at) <= y
    BY <2>1 DEF Min
  <2>3. n = Min(at)
    BY <1>2, <1>4
  <2>4. n \in k..Len(name) /\ name[n] = Sep /\ \A y \in at : n <= y
    BY <2>2, <2>3
  <2>5. \A j \in k..(n - 1) : j \in k..Len(name) /\ ~(n <= j)
    BY <1>1, <2>4
  <2> QED  BY <2>4, <2>5
<1> QED  BY <1>3, <1>4

\* How the two loops over variants go on: a step of each, given the rest.
PrefixStep(name, k, from) ==
    LET n == Index(name, k + 1)
    IN IF n = 0 \/ SubSeq(name, k + 1, n - 1) \notin variants THEN k ELSE from[n]

VariantsStep(prefix, k, from) ==
    LET n == Index(prefix, k + 1)
        v == SubSeq(prefix, k + 1, n - 1)
    IN IF n = 0 \/ v \notin variants THEN <<>> ELSE <<v>> \o from[n]

\* The loops are what their steps make of them.
PrefixLoop(name, from) == from = [k \in 0..Len(name) |-> PrefixStep(name, k, from)]

VariantsLoop(prefix, from) == from = [k \in 0..Len(prefix) |-> VariantsStep(prefix, k, from)]

\* A rank for the places in a name: the number of characters behind them.
LEMMA IndexGoesOn ==
    ASSUME NEW name \in Strings, NEW k \in 0..Len(name), Index(name, k + 1) # 0
    PROVE  Index(name, k + 1) \in (k + 1)..Len(name)
<1>1. Len(name) \in Nat /\ k + 1 \in Nat \ {0}
  BY DEF Strings
<1> QED  BY <1>1, IndexFinds

LEMMA PrefixLoopExists ==
    ASSUME NEW name \in Strings
    PROVE  \E f : PrefixLoop(name, f)
<1> DEFINE D == 0..Len(name)
           rank == [k \in D |-> Len(name) - k]
           B == [k \in D |-> [f \in [Below(k, D, rank) -> D] |-> PrefixStep(name, k, f)]]
<1>1. Len(name) \in Nat /\ rank \in [D -> 0..Len(name)]
  BY DEF Strings
<1>2. \A k \in D : Index(name, k + 1) # 0 => Index(name, k + 1) \in Below(k, D, rank)
  <2>1. SUFFICES ASSUME NEW k \in D, Index(name, k + 1) # 0
                 PROVE  Index(name, k + 1) \in Below(k, D, rank)
    OBVIOUS
  <2>2. PICK n : n = Index(name, k + 1)
    OBVIOUS
  <2>3. n \in (k + 1)..Len(name)
    BY <2>1, <2>2, IndexGoesOn
  <2>4. n \in D /\ rank[n] < rank[k]
    BY <1>1, <2>3
  <2> QED  BY <2>2, <2>4 DEF Below
<1> HIDE DEF rank
<1>3. ASSUME NEW k \in D, NEW f \in [Below(k, D, rank) -> D]
      PROVE  B[k][f] \in D
  <2>1. B[k][f] = PrefixStep(name, k, f)
    OBVIOUS
  <2> HIDE DEF B, D
  <2> QED  BY <1>2, <2>1 DEF PrefixStep
<1>4. PICK f : Recurses(f, D, D, rank, B)
  <2> HIDE DEF D, B
  <2> QED  BY <1>1, <1>3, RecursiveFunctionExists DEF D
<1>5. ASSUME NEW k \in D PROVE f[k] = PrefixStep(name, k, f)
  <2> DEFINE h == [y \in Below(k, D, rank) |-> f[y]]
  <2>1. f[k] = B[k][h] /\ h \in [Below(k, D, rank) -> D]
    BY <1>4 DEF Recurses, Below
  <2>2. B[k][h] = PrefixStep(name, k, h)
    <3> HIDE DEF h
    <3> QED  BY <2>1
  <2>3. \A y \in Below(k, D, rank) : h[y] = f[y]
    OBVIOUS
  <2> HIDE DEF h, D
  <2> QED  BY <1>2, <2>1, <2>2, <2>3 DEF PrefixStep
<1>6. f \in [D -> D]
  BY <1>4 DEF Recurses
<1>7. PrefixLoop(name, f)
  BY <1>5, <1>6 DEF PrefixLoop
<1> QED  BY <1>7

LEMMA VariantsLoopExists ==
    ASSUME NEW prefix \in Strings
    PROVE  \E f \in [0..Len(prefix) -> Seq(variants)] : VariantsLoop(prefix, f)
<1> DEFINE D == 0..Len(prefix)
           T == Seq(variants)
           rank == [k \in D |-> Len(prefix) - k]
           B == [k \in D |-> [f \in [Below(k, D, rank) -> T] |-> VariantsStep(prefix, k, f)]]
<1>1. Len(prefix) \in Nat /\ rank \in [D -> 0..Len(prefix)]
  BY DEF Strings
<1>2. \A k \in D : Index(prefix, k + 1) # 0 => Index(prefix, k + 1) \in Below(k, D, rank)
  <2>1. SUFFICES ASSUME NEW k \in D, Index(prefix, k + 1) # 0
                 PROVE  Index(prefix, k + 1) \in Below(k, D, rank)
    OBVIOUS
  <2>2. PICK n : n = Index(prefix, k + 1)
    OBVIOUS
  <2>3. n \in (k + 1)..Len(prefix)
    BY <2>1, <2>2, IndexGoesOn
  <2>4. n \in D /\ rank[n] < rank[k]
    BY <1>1, <2>3
  <2> QED  BY <2>2, <2>4 DEF Below
<1> HIDE DEF rank
<1>3. ASSUME NEW k \in D, NEW f \in [Below(k, D, rank) -> T]
      PROVE  B[k][f] \in T
  <2>1. B[k][f] = VariantsStep(prefix, k, f)
    OBVIOUS
  <2>2. \A v \in variants : \A t \in T : <<v>> \o t \in T
    OBVIOUS
  <2>3. <<>> \in T
    OBVIOUS
  <2> HIDE DEF B, D, T
  <2> QED  BY <1>2, <2>1, <2>2, <2>3 DEF VariantsStep
<1>4. PICK f : Recurses(f, D, T, rank, B)
  <2> HIDE DEF D, B, T
  <2> QED  BY <1>1, <1>3, RecursiveFunctionExists DEF D
<1>5. ASSUME NEW k \in D PROVE f[k] = VariantsStep(prefix, k, f)
  <2> DEFINE h == [y \in Below(k, D, rank) |-> f[y]]
  <2>1. f[k] = B[k][h] /\ h \in [Below(k, D, rank) -> T]
    BY <1>4 DEF Recurses, Below
  <2>2. B[k][h] = VariantsStep(prefix, k, h)
    <3> HIDE DEF h
    <3> QED  BY <2>1
  <2>3. \A y \in Below(k, D, rank) : h[y] = f[y]
    OBVIOUS
  <2> HIDE DEF h, D
  <2> QED  BY <1>2, <2>1, <2>2, <2>3 DEF VariantsStep
<1>6. f \in [D -> T]
  BY <1>4 DEF Recurses
<1>7. VariantsLoop(prefix, f)
  BY <1>5, <1>6 DEF VariantsLoop
<1> QED  BY <1>6, <1>7

\* variantPrefixLength: the loop stops in the name.
LEMMA PrefixLoopStops ==
    ASSUME NEW name \in Strings, NEW f, PrefixLoop(name, f), NEW k \in 0..Len(name)
    PROVE  f[k] \in k..Len(name)
<1> DEFINE D == 0..Len(name)
           rank == [j \in D |-> Len(name) - j]
           S == {j \in D : f[j] \in j..Len(name)}
<1>1. Len(name) \in Nat /\ rank \in [D -> Nat]
  BY DEF Strings
<1>2. ASSUME NEW j \in D, \A l \in D : rank[l] < rank[j] => l \in S
      PROVE  j \in S
  <2>1. f[j] = PrefixStep(name, j, f)
    BY DEF PrefixLoop
  <2>2. CASE f[j] = j
    BY <1>1, <2>2
  <2>3. CASE f[j] # j
    <3>1. PICK n : n = Index(name, j + 1)
      OBVIOUS
    <3>2. n # 0 /\ f[j] = f[n]
      BY <2>1, <2>3, <3>1 DEF PrefixStep
    <3>3. n \in (j + 1)..Len(name)
      BY <3>1, <3>2, IndexGoesOn
    <3>4. n \in D /\ rank[n] < rank[j]
      BY <1>1, <3>3
    <3>5. f[n] \in n..Len(name)
      BY <1>2, <3>4
    <3> QED  BY <1>1, <3>2, <3>3, <3>5
  <2> QED  BY <2>2, <2>3
<1>3. D \subseteq S
  <2> HIDE DEF D, rank, S
  <2> QED  BY <1>1, <1>2, RankInduction
<1> QED  BY <1>3

LEMMA PrefixLengthType ==
    ASSUME NEW name \in Strings
    PROVE  /\ VariantPrefixLength(name) \in 0..Len(name)
           /\ VariantPrefix(name) \in Strings
           /\ Len(VariantPrefix(name)) = VariantPrefixLength(name)
           /\ \A k \in 1..VariantPrefixLength(name) : VariantPrefix(name)[k] = name[k]
<1> DEFINE f == CHOOSE g : PrefixLoop(name, g)
<1>1. PrefixLoop(name, f)
  BY PrefixLoopExists
<1>2. VariantPrefixLength(name) = f[0]
  BY DEF VariantPrefixLength, PrefixLoop, PrefixStep
<1>3. Len(name) \in Nat
  BY DEF Strings
<1> HIDE DEF f
<1>4. VariantPrefixLength(name) \in 0..Len(name)
  BY <1>1, <1>2, <1>3, PrefixLoopStops
<1> DEFINE n == VariantPrefixLength(name)
<1> HIDE DEF n
<1>5. n \in 0..Len(name)
  BY <1>4 DEF n
<1>6. SubSeq(name, 1, n) \in Seq(Char) /\ Len(SubSeq(name, 1, n)) = n
      /\ \A k \in 1..n : SubSeq(name, 1, n)[k] = name[k]
  BY <1>3, <1>5, SubSeqProperties DEF Strings
<1> QED  BY <1>4, <1>6 DEF VariantPrefix, Strings, n

\* variantsIn finds variants.
LEMMA VariantsType ==
    ASSUME NEW prefix \in Strings
    PROVE  VariantsIn(prefix) \in Seq(variants)
<1> DEFINE N == Len(prefix)
           D == 0..N
           rank == [k \in D |-> N - k]
           w == CHOOSE g : VariantsLoop(prefix, g)
           S == {k \in D : w[k] \in Seq(variants)}
<1>1. VariantsLoop(prefix, w) /\ VariantsIn(prefix) = w[0]
  BY VariantsLoopExists DEF VariantsIn, VariantsLoop, VariantsStep
<1>2. N \in Nat /\ rank \in [D -> Nat] /\ 0 \in D
  BY DEF Strings
<1> HIDE DEF w
<1>3. ASSUME NEW k \in D, \A l \in D : rank[l] < rank[k] => l \in S
      PROVE  k \in S
  <2>1. w[k] = VariantsStep(prefix, k, w)
    BY <1>1, <1>3 DEF VariantsLoop
  <2>2. PICK n : n = Index(prefix, k + 1)
    OBVIOUS
  <2>3. n # 0 => n \in D /\ rank[n] < rank[k]
    <3>1. n # 0 => n \in (k + 1)..N
      BY <1>2, <2>2, IndexGoesOn
    <3> QED  BY <1>2, <3>1
  <2>4. n # 0 => w[n] \in Seq(variants)
    BY <1>3, <2>3
  <2>5. \A v \in variants, t \in Seq(variants) : <<v>> \o t \in Seq(variants)
    OBVIOUS
  <2>6. w[k] \in Seq(variants)
    <3> HIDE DEF D
    <3> QED  BY <2>1, <2>2, <2>4, <2>5 DEF VariantsStep
  <2> QED  BY <1>3, <2>6
<1>4. D \subseteq S
  <2> HIDE DEF D, rank, S
  <2> QED  BY <1>2, <1>3, RankInduction
<1> QED  BY <1>1, <1>2, <1>4

\* variantsIn finds in the prefix of a name as many variants as there are separators,
\* by which the groups are compared.
LEMMA VariantsAreCounted ==
    ASSUME NEW name \in Strings
    PROVE  Len(VariantsIn(VariantPrefix(name))) = Count(VariantPrefix(name))
<1> DEFINE p == VariantPrefix(name)
           e == VariantPrefixLength(name)
           f == CHOOSE g : PrefixLoop(name, g)
           w == CHOOSE g : VariantsLoop(p, g)
           Seps(k) == {j \in (k + 1)..e : p[j] = Sep}
<1>1. /\ Len(name) \in Nat /\ e \in 0..Len(name) /\ p \in Strings /\ Len(p) = e
      /\ \A k \in 1..e : p[k] = name[k]
  BY PrefixLengthType DEF Strings
<1>2. PrefixLoop(name, f) /\ e = f[0]
  BY PrefixLoopExists DEF VariantPrefixLength, PrefixLoop, PrefixStep
<1>3. VariantsLoop(p, w) /\ VariantsIn(p) = w[0]
  BY <1>1, VariantsLoopExists DEF VariantsIn, VariantsLoop, VariantsStep
<1> HIDE DEF p, e, f, w
<1>4. \A k \in 0..e : IsFiniteSet(Seps(k)) /\ Cardinality(Seps(k)) \in Nat
  <2>1. SUFFICES ASSUME NEW k \in 0..e PROVE IsFiniteSet(Seps(k)) /\ Cardinality(Seps(k)) \in Nat
    OBVIOUS
  <2>2. IsFiniteSet((k + 1)..e) /\ Seps(k) \in SUBSET ((k + 1)..e)
    <3>1. k + 1 \in Int /\ e \in Int
      BY <1>1
    <3> QED  BY <3>1, FS_Interval
  <2> HIDE DEF Seps
  <2> QED  BY <2>2, FS_Subset, FS_CardinalityType
<1> DEFINE D == 0..e
           rank == [k \in D |-> e - k]
           Good(k) == w[k] \in Seq(variants) /\ Len(w[k]) = Cardinality(Seps(k))
           S == {k \in D : f[k] = e => Good(k)}
<1>5. ASSUME NEW k \in D, \A l \in D : rank[l] < rank[k] => l \in S, f[k] = e
      PROVE  Good(k)
  <2>1. f[k] = PrefixStep(name, k, f) /\ w[k] = VariantsStep(p, k, w)
    <3>1. k \in 0..Len(name) /\ k \in 0..Len(p)
      BY <1>1
    <3>2. f[k] = PrefixStep(name, k, f)
      BY <1>2, <3>1 DEF PrefixLoop
    <3>3. w[k] = VariantsStep(p, k, w)
      BY <1>3, <3>1 DEF VariantsLoop
    <3> QED  BY <3>2, <3>3
  <2>2. CASE k = e
    <3>1. \A j \in (k + 1)..Len(p) : FALSE
      BY <1>1, <2>2
    <3>2. Index(p, k + 1) = 0
      <4>1. k + 1 \in Nat \ {0}
        BY <1>1
      <4> QED  BY <1>1, <3>1, <4>1, IndexFinds
    <3>3. w[k] = <<>>
      BY <2>1, <3>2 DEF VariantsStep
    <3>4. Seps(k) = {}
      BY <1>1, <2>2
    <3>5. Cardinality(Seps(k)) = 0
      <4> HIDE DEF Seps
      <4> QED  BY <3>4, FS_EmptySet
    <3>6. <<>> \in Seq(variants) /\ Len(<<>>) = 0
      OBVIOUS
    <3> HIDE DEF Seps
    <3> QED  BY <3>3, <3>5, <3>6
  <2>3. CASE k # e
    <3>1. PICK n : n = Index(name, k + 1)
      OBVIOUS
    <3>2. n # 0 /\ SubSeq(name, k + 1, n - 1) \in variants /\ f[n] = e
      BY <1>5, <2>1, <2>3, <3>1 DEF PrefixStep
    <3>3. k \in Nat /\ k + 1 \in Nat \ {0} /\ k \in 0..Len(name)
      BY <1>1
    <3>4. n \in (k + 1)..Len(name) /\ name[n] = Sep /\ \A j \in (k + 1)..(n - 1) : name[j] # Sep
      BY <3>1, <3>2, <3>3, IndexFinds
    <3>5. n \in (k + 1)..e
      <4>1. f[n] \in n..Len(name)
        BY <1>1, <1>2, <3>3, <3>4, PrefixLoopStops
      <4> QED  BY <1>1, <3>2, <3>3, <3>4, <4>1
    <3>6. Index(p, k + 1) = n
      <4>1. PICK m : m = Index(p, k + 1)
        OBVIOUS
      <4>2. \/ m = 0 /\ \A j \in (k + 1)..e : p[j] # Sep
            \/ m \in (k + 1)..e /\ p[m] = Sep /\ \A j \in (k + 1)..(m - 1) : p[j] # Sep
        BY <1>1, <3>3, <4>1, IndexFinds
      <4>3. p[n] = Sep /\ \A j \in (k + 1)..(n - 1) : p[j] # Sep
        BY <1>1, <3>3, <3>4, <3>5
      <4>4. m \in (k + 1)..e /\ p[m] = Sep /\ \A j \in (k + 1)..(m - 1) : p[j] # Sep
        BY <3>5, <4>2, <4>3
      <4>5. ~(m < n) /\ ~(n < m)
        BY <3>3, <3>5, <4>3, <4>4
      <4> QED  BY <3>3, <3>5, <4>1, <4>4, <4>5
    <3>7. SubSeq(p, k + 1, n - 1) = SubSeq(name, k + 1, n - 1)
      <4>1. \A s : SubSeq(s, k + 1, n - 1) = [j \in 1..(1 + (n - 1) - (k + 1)) |-> s[j + (k + 1) - 1]]
        BY <3>3, <3>5
      <4>2. \A j \in 1..(1 + (n - 1) - (k + 1)) : p[j + (k + 1) - 1] = name[j + (k + 1) - 1]
        BY <1>1, <3>3, <3>5
      <4> QED  BY <4>1, <4>2
    <3>8. PICK v \in variants : w[k] = <<v>> \o w[n]
      BY <2>1, <3>2, <3>6, <3>7 DEF VariantsStep
    <3>9. n \in D /\ rank[n] < rank[k]
      BY <1>1, <3>3, <3>5
    <3>10. Good(n)
      <4> HIDE DEF D, rank, Good
      <4> QED  BY <1>5, <3>2, <3>9
    <3>11. w[k] \in Seq(variants) /\ Len(w[k]) = Len(w[n]) + 1
      BY <3>8, <3>10
    <3>12. Seps(k) = Seps(n) \cup {n} /\ n \notin Seps(n)
      <4>1. p[n] = Sep /\ \A j \in (k + 1)..(n - 1) : p[j] # Sep
        BY <1>1, <3>3, <3>4, <3>5
      <4> QED  BY <1>1, <3>3, <3>5, <4>1
    <3>13. Cardinality(Seps(k)) = Cardinality(Seps(n)) + 1
      <4>1. IsFiniteSet(Seps(n))
        BY <1>4, <3>9
      <4> HIDE DEF Seps
      <4> QED  BY <3>12, <4>1, FS_AddElement
    <3> QED  BY <3>10, <3>11, <3>13
  <2> QED  BY <2>2, <2>3
<1>6. D \subseteq S
  <2>1. \A k \in D : (\A l \in D : rank[l] < rank[k] => l \in S) => k \in S
    <3> HIDE DEF Good, D, rank
    <3> QED  BY <1>5
  <2>2. rank \in [D -> Nat]
    BY <1>1
  <2> HIDE DEF D, rank, S
  <2> QED  BY <2>1, <2>2, RankInduction
<1>7. Good(0)
  <2>1. 0 \in D
    BY <1>1
  <2> HIDE DEF D, Good
  <2> QED  BY <1>2, <1>6, <2>1
<1>8. Seps(0) = {j \in 1..Len(p) : p[j] = Sep}
  BY <1>1
<1> QED  BY <1>3, <1>7, <1>8 DEF Count, p
-----------------------------------------------------------------------------
\* slices.Sort: strings that are finitely many can be listed in order,
LEMMA AscendingExists ==
    ASSUME Char \subseteq Int, NEW some \in SUBSET Strings, IsFiniteSet(some)
    PROVE  \E list \in [1..Cardinality(some) -> some] : IsAscending(list)
<1> DEFINE n == Cardinality(some)
           Lower(x) == {y \in some : Less(y, x)}
           rank == [x \in some |-> Cardinality(Lower(x)) + 1]
<1>1. n \in Nat
  BY FS_CardinalityType
<1>2. \A x \in some : IsFiniteSet(Lower(x)) /\ Cardinality(Lower(x)) \in Nat
  <2>1. \A x \in some : Lower(x) \in SUBSET some
    OBVIOUS
  <2> HIDE DEF Lower
  <2> QED  BY <2>1, FS_Subset, FS_CardinalityType
<1>3. ASSUME NEW x \in some PROVE rank[x] \in 1..n
  <2>1. Lower(x) \in SUBSET some /\ x \notin Lower(x)
    BY LessIsStrict
  <2> HIDE DEF Lower
  <2>2. Cardinality(Lower(x)) <= n /\ (n = Cardinality(Lower(x)) => some = Lower(x))
    BY <2>1, FS_Subset
  <2>3. Cardinality(Lower(x)) # n
    BY <2>1, <2>2
  <2>4. rank[x] = Cardinality(Lower(x)) + 1
    OBVIOUS
  <2> HIDE DEF rank, n
  <2> QED  BY <1>1, <1>2, <2>2, <2>3, <2>4
<1>4. ASSUME NEW x \in some, NEW y \in some, Less(x, y) PROVE rank[x] < rank[y]
  <2>1. Lower(x) \cup {x} \in SUBSET Lower(y) /\ x \notin Lower(x)
    <3>1. \A z \in some : Less(z, x) => Less(z, y)
      BY <1>4, LessIsTransitive
    <3> QED  BY <1>4, <3>1, LessIsStrict
  <2> HIDE DEF Lower
  <2>2. Cardinality(Lower(x) \cup {x}) = Cardinality(Lower(x)) + 1
    BY <1>2, <2>1, FS_AddElement
  <2>3. Cardinality(Lower(x) \cup {x}) <= Cardinality(Lower(y))
    BY <1>2, <2>1, FS_Subset
  <2>4. rank[x] = Cardinality(Lower(x)) + 1 /\ rank[y] = Cardinality(Lower(y)) + 1
    OBVIOUS
  <2> HIDE DEF rank
  <2> QED  BY <1>2, <2>2, <2>3, <2>4
<1>5. \A x, y \in some : rank[x] = rank[y] => x = y
  <2>1. SUFFICES ASSUME NEW x \in some, NEW y \in some, x # y PROVE rank[x] # rank[y]
    OBVIOUS
  <2>2. Less(x, y) \/ Less(y, x)
    BY <2>1, LessIsTotal
  <2>3. rank[x] < rank[y] \/ rank[y] < rank[x]
    BY <1>4, <2>2
  <2>4. rank[x] \in Nat /\ rank[y] \in Nat
    BY <1>1, <1>3
  <2> HIDE DEF rank
  <2> QED  BY <2>3, <2>4
<1>6. rank \in Injection(some, 1..n)
  <2>1. rank \in [some -> 1..n]
    BY <1>3
  <2> HIDE DEF rank, n
  <2> QED  BY <1>5, <2>1 DEF Injection, IsInjective
<1>7. rank \in Surjection(some, 1..n)
  <2>1. IsFiniteSet(1..n) /\ Cardinality(1..n) = n
    <3>1. Cardinality(1..n) = IF 1 > n THEN 0 ELSE n - 1 + 1
      BY <1>1, FS_Interval
    <3> QED  BY <1>1, <3>1, FS_Interval
  <2> HIDE DEF rank
  <2> QED  BY <1>6, <2>1, FS_Injection
<1> HIDE DEF rank, n
<1>8. \A k \in 1..n : \E x \in some : rank[x] = k
  BY <1>7 DEF Surjection
<1> DEFINE list == [k \in 1..n |-> CHOOSE x \in some : rank[x] = k]
<1>9. \A k \in 1..n : list[k] \in some /\ rank[list[k]] = k
  BY <1>8
<1>10. list \in [1..n -> some] /\ Len(list) = n
  BY <1>1, <1>9
<1> HIDE DEF list
<1>11. ASSUME NEW i \in 1..n, NEW j \in 1..n, i < j PROVE Less(list[i], list[j])
  <2>1. list[i] # list[j]
    BY <1>9, <1>11
  <2>2. ~Less(list[j], list[i])
    <3>1. ~(rank[list[j]] < rank[list[i]])
      BY <1>1, <1>9, <1>11
    <3> QED  BY <1>4, <1>9, <3>1
  <2> QED  BY <1>9, <2>1, <2>2, LessIsTotal
<1>12. IsAscending(list)
  BY <1>10, <1>11 DEF IsAscending
<1> QED  BY <1>10, <1>12 DEF n

\* and no string is left out.
LEMMA AscendingIsAll ==
    ASSUME Char \subseteq Int, NEW some \in SUBSET Strings, IsFiniteSet(some),
           NEW list \in [1..Cardinality(some) -> some], IsAscending(list)
    PROVE  list \in Seq(some) /\ ToSet(list) = some
<1> DEFINE n == Cardinality(some)
<1>1. n \in Nat
  BY FS_CardinalityType
<1>2. list \in Seq(some) /\ Len(list) = n /\ DOMAIN list = 1..n
  BY <1>1
<1> HIDE DEF n
<1>3. list \in Injection(1..n, some)
  <2>1. \A i, j \in 1..n : i # j => Less(list[i], list[j]) \/ Less(list[j], list[i])
    BY <1>1, <1>2 DEF IsAscending
  <2>2. \A i, j \in 1..n : list[i] = list[j] => i = j
    BY <1>2, <2>1, LessIsStrict
  <2>3. list \in [1..n -> some]
    BY DEF n
  <2> QED  BY <1>2, <2>2, <2>3 DEF Injection, IsInjective
<1>4. Cardinality(1..n) = n
  <2>1. Cardinality(1..n) = IF 1 > n THEN 0 ELSE n - 1 + 1
    BY <1>1, FS_Interval
  <2> QED  BY <1>1, <2>1
<1>5. list \in Surjection(1..n, some)
  BY <1>3, <1>4, FS_Injection DEF n
<1>6. ToSet(list) = some
  BY <1>2, <1>5 DEF Surjection, ToSet
<1> QED  BY <1>2, <1>6

\* What is in a list is finite.
LEMMA ToSetIsFinite ==
    ASSUME NEW U, NEW list \in Seq(U)
    PROVE  IsFiniteSet(ToSet(list)) /\ ToSet(list) \subseteq U
<1>1. Len(list) \in Nat /\ DOMAIN list = 1..Len(list) /\ list \in [1..Len(list) -> U]
  OBVIOUS
<1>2. IsFiniteSet(1..Len(list))
  BY <1>1, FS_Interval
<1>3. list \in Surjection(1..Len(list), ToSet(list))
  BY <1>1 DEF Surjection, ToSet
<1> QED  BY <1>1, <1>2, <1>3, FS_Surjection DEF ToSet

\* slices.Insert.
LEMMA InsertAtType ==
    ASSUME NEW U, NEW s \in Seq(U), NEW k \in 1..(Len(s) + 1), NEW e \in U
    PROVE  LET t == InsertAt(s, k, e)
           IN /\ t \in Seq(U) /\ Len(t) = Len(s) + 1
              /\ t[k] = e
              /\ \A j \in 1..(k - 1) : t[j] = s[j]
              /\ \A j \in k..Len(s) : t[j + 1] = s[j]
<1> DEFINE n == Len(s)
           front == SubSeq(s, 1, k - 1)
           back == SubSeq(s, k, n)
<1>1. n \in Nat /\ k \in Nat
  OBVIOUS
<1>2. front \in Seq(U) /\ Len(front) = k - 1 /\ \A j \in 1..(k - 1) : front[j] = s[j]
  BY <1>1, SubSeqProperties
<1>3. back \in Seq(U) /\ Len(back) = n - k + 1 /\ \A j \in 1..(n - k + 1) : back[j] = s[k + j - 1]
  BY <1>1, SubSeqProperties
<1> HIDE DEF front, back
<1>4. front \o <<e>> \in Seq(U) /\ Len(front \o <<e>>) = k
      /\ (\A j \in 1..(k - 1) : (front \o <<e>>)[j] = s[j]) /\ (front \o <<e>>)[k] = e
  BY <1>1, <1>2
<1> DEFINE h == front \o <<e>>
<1>5. InsertAt(s, k, e) = h \o back
  BY DEF InsertAt, front, back
<1> HIDE DEF h
<1>6. h \in Seq(U) /\ Len(h) = k /\ (\A j \in 1..(k - 1) : h[j] = s[j]) /\ h[k] = e
  BY <1>4 DEF h
<1>7. h \o back \in Seq(U) /\ Len(h \o back) = Len(h) + Len(back)
      /\ \A j \in 1..(Len(h) + Len(back)) :
            (h \o back)[j] = IF j <= Len(h) THEN h[j] ELSE back[j - Len(h)]
  BY <1>3, <1>6, ConcatProperties
<1> DEFINE t == h \o back
<1> HIDE DEF t
<1>8. t \in Seq(U) /\ Len(t) = n + 1
      /\ \A j \in 1..(n + 1) : t[j] = IF j <= k THEN h[j] ELSE back[j - k]
  <2>1. Len(h) + Len(back) = n + 1
    BY <1>1, <1>3, <1>6
  <2> QED  BY <1>6, <1>7, <2>1 DEF t
<1>9. t[k] = e
  BY <1>1, <1>6, <1>8
<1>10. \A j \in 1..(k - 1) : t[j] = s[j]
  BY <1>1, <1>6, <1>8
<1>11. ASSUME NEW j \in k..n PROVE t[j + 1] = s[j]
  <2>1. j + 1 \in 1..(n + 1) /\ ~(j + 1 <= k) /\ (j + 1) - k \in 1..(n - k + 1)
    BY <1>1
  <2>2. t[j + 1] = back[(j + 1) - k]
    BY <1>8, <2>1
  <2>3. back[(j + 1) - k] = s[k + ((j + 1) - k) - 1]
    BY <1>3, <2>1
  <2>4. k + ((j + 1) - k) - 1 = j
    BY <1>1
  <2> QED  BY <2>2, <2>3, <2>4
<1> QED  BY <1>5, <1>8, <1>9, <1>10, <1>11 DEF t
-----------------------------------------------------------------------------
\* The groups are in order, with no two of the same prefix.
GroupsAscend ==
    \A g, h \in 1..Len(groups) : g < h => Before(groups[g].prefix, groups[h].prefix)

\* A group has the names that begin with its prefix, and every name has a group.
NamesAreGrouped ==
    /\ \A g \in 1..Len(groups) :
          /\ groups[g].names # <<>>
          /\ \A name : name \in ToSet(groups[g].names) <=>
                          name \in seen /\ VariantPrefix(name) = groups[g].prefix
    /\ \A name \in seen : \E g \in 1..Len(groups) : groups[g].prefix = VariantPrefix(name)

\* The inductive invariant.
IInv ==
    /\ seen \subseteq names /\ groups \in Seq(Group) /\ sorted \in 0..Len(groups)
    /\ seen # names => sorted = 0
    /\ GroupsAscend /\ NamesAreGrouped
    /\ \A g \in 1..sorted : IsAscending(groups[g].names)

\* The names are strings, the characters of which are in order.
Assumptions == Char \subseteq Int /\ names \subseteq Strings

\* Before the first name there are no groups.
LEMMA InitIsGrouped ==
    ASSUME Init
    PROVE  IInv
<1>1. seen = {} /\ groups = <<>> /\ sorted = 0 /\ Len(groups) = 0
  BY DEF Init
<1>2. groups \in Seq(Group) /\ seen \subseteq names /\ sorted \in 0..Len(groups)
  BY <1>1
<1>3. GroupsAscend /\ NamesAreGrouped
  BY <1>1 DEF GroupsAscend, NamesAreGrouped
<1> QED  BY <1>1, <1>2, <1>3 DEF IInv

\* A name goes to its group, which the search has found,
LEMMA AddToGroup ==
    ASSUME Assumptions, IInv, NEW name, AddName(name),
           IsAt(Search(VariantPrefix(name)), VariantPrefix(name))
    PROVE  IInv'
<1> DEFINE p == VariantPrefix(name)
<1>1. Char \subseteq Int /\ name \in Strings /\ name \in names /\ name \notin seen
  BY DEF Assumptions, AddName
<1>2. p \in Strings
  BY <1>1, PrefixLengthType
<1>3. /\ Len(groups) \in Nat /\ Search(p) \in 1..(Len(groups) + 1) /\ Search(p) <= Len(groups)
      /\ groups[Search(p)].prefix = p
  BY <1>1, <1>2, SearchFinds DEF IInv, GroupsAscend, IsAt
<1>4. PICK k \in 1..Len(groups) : k = Search(p)
  BY <1>3
<1>5. PICK old \in Seq(names) : old = groups[k].names
  <2>1. groups[k] \in Group
    BY DEF IInv
  <2> QED  BY <2>1 DEF Group
<1> DEFINE new == Append(old, name)
<1>6. new \in Seq(names) /\ new # <<>> /\ \A x : x \in ToSet(new) <=> x \in ToSet(old) \/ x = name
  <2>1. /\ new \in Seq(names) /\ Len(new) = Len(old) + 1 /\ Len(old) \in Nat
        /\ \A j \in 1..Len(old) : new[j] = old[j]
        /\ new[Len(old) + 1] = name
    BY <1>1, AppendProperties
  <2> HIDE DEF new
  <2>2. DOMAIN new = 1..(Len(old) + 1) /\ DOMAIN old = 1..Len(old)
    BY <2>1
  <2>3. \A j \in 1..(Len(old) + 1) : j \in 1..Len(old) \/ j = Len(old) + 1
    BY <2>1
  <2>4. \A j \in 1..Len(old) : j \in 1..(Len(old) + 1)
    BY <2>1
  <2>5. Len(old) + 1 \in 1..(Len(old) + 1)
    BY <2>1
  <2>6. new # <<>>
    BY <2>1
  <2> QED  BY <2>1, <2>2, <2>3, <2>4, <2>5, <2>6 DEF ToSet
<1>7. /\ groups' = [groups EXCEPT ![k].names = new] /\ seen' = seen \cup {name}
      /\ UNCHANGED <<names, variants, sorted>>
  BY <1>4, <1>5 DEF AddName
<1> HIDE DEF new
<1>8. /\ Len(groups') = Len(groups) /\ groups'[k] = [groups[k] EXCEPT !.names = new]
      /\ \A g \in 1..Len(groups) : g # k => groups'[g] = groups[g]
  BY <1>3, <1>7 DEF IInv
<1>9. groups[k] \in Group /\ groups'[k] \in Group
  <2>1. groups[k] \in Group
    BY DEF IInv
  <2> QED  BY <1>6, <1>8, <2>1 DEF Group
<1>10. groups' \in Seq(Group) /\ Group' = Group
  <2>1. groups' \in Seq(Group)
    BY <1>3, <1>7, <1>9, ExceptSeq, <1>8 DEF IInv
  <2> QED  BY <1>7, <2>1 DEF Group
<1>11. groups'[k].names = new /\ \A g \in 1..Len(groups) : groups'[g].prefix = groups[g].prefix
  <2>1. groups'[k].names = new /\ groups'[k].prefix = groups[k].prefix
    BY <1>8, <1>9 DEF Group
  <2> QED  BY <1>8, <2>1
<1>12. \A q : VariantPrefix(q)' = VariantPrefix(q)
  BY <1>7 DEF VariantPrefix, VariantPrefixLength, Index
<1>13. GroupsAscend'
  BY <1>8, <1>11 DEF IInv, GroupsAscend
<1>14. NamesAreGrouped'
  <2>1. ASSUME NEW g \in 1..Len(groups)
        PROVE  /\ groups'[g].names # <<>>
               /\ \A x : x \in ToSet(groups'[g].names) <=>
                            x \in seen' /\ VariantPrefix(x) = groups[g].prefix
    <3>1. \A x : x \in ToSet(groups[g].names) <=> x \in seen /\ VariantPrefix(x) = groups[g].prefix
      BY DEF IInv, NamesAreGrouped
    <3>2. groups[g].names # <<>>
      BY DEF IInv, NamesAreGrouped
    <3>3. CASE g = k
      BY <1>3, <1>4, <1>5, <1>6, <1>7, <1>11, <3>1, <3>3
    <3>4. CASE g # k
      <4>1. groups[g].prefix # p
        <5>1. Before(groups[g].prefix, groups[k].prefix) \/ Before(groups[k].prefix, groups[g].prefix)
          <6>1. g < k \/ k < g
            BY <1>3, <3>4
          <6> QED  BY <6>1 DEF IInv, GroupsAscend
        <5> QED  BY <1>1, <1>2, <1>3, <1>4, <5>1, BeforeIsOrder
      <4> QED  BY <1>7, <1>8, <3>1, <3>2, <3>4, <4>1
    <3> QED  BY <3>3, <3>4
  <2>2. ASSUME NEW x \in seen' PROVE \E g \in 1..Len(groups) : groups[g].prefix = VariantPrefix(x)
    <3>1. CASE x = name
      BY <1>3, <1>4, <3>1
    <3>2. CASE x \in seen
      BY <3>2 DEF IInv, NamesAreGrouped
    <3> QED  BY <1>7, <2>2, <3>1, <3>2
  <2>3. \A g \in 1..Len(groups) : groups'[g].prefix = groups[g].prefix
    BY <1>11
  <2> QED  BY <1>8, <1>12, <2>1, <2>2, <2>3 DEF NamesAreGrouped
<1>15. sorted' = 0 /\ seen' \subseteq names'
  BY <1>1, <1>7 DEF IInv
<1>16. sorted' \in 0..Len(groups') /\ \A g \in 1..sorted' : FALSE
  BY <1>3, <1>8, <1>15
<1> QED  BY <1>10, <1>13, <1>14, <1>15, <1>16 DEF IInv

\* or to a new one, which goes where the search ends.
LEMMA AddNewGroup ==
    ASSUME Assumptions, IInv, NEW name, AddName(name),
           ~IsAt(Search(VariantPrefix(name)), VariantPrefix(name))
    PROVE  IInv'
<1> DEFINE p == VariantPrefix(name)
           e == [prefix |-> p, names |-> <<name>>]
<1>1. Char \subseteq Int /\ name \in Strings /\ name \in names /\ name \notin seen
  BY DEF Assumptions, AddName
<1>2. p \in Strings
  BY <1>1, PrefixLengthType
<1>3. /\ Len(groups) \in Nat /\ Search(p) \in 1..(Len(groups) + 1)
      /\ \A g \in 1..Len(groups) : Before(groups[g].prefix, p) <=> g < Search(p)
  BY <1>1, <1>2, SearchFinds DEF IInv, GroupsAscend
<1>4. PICK k \in 1..(Len(groups) + 1) : k = Search(p)
  BY <1>3
<1>5. ~(k <= Len(groups) /\ groups[k].prefix = p)
  BY <1>4 DEF IsAt
<1>6. groups \in Seq(Group) /\ \A g \in 1..Len(groups) : groups[g].prefix \in Strings
  <2>1. groups \in Seq(Group) /\ \A g \in 1..Len(groups) : groups[g] \in Group
    BY DEF IInv
  <2> QED  BY <2>1 DEF Group
<1>7. e \in Group /\ e.prefix = p /\ e.names = <<name>>
  BY <1>1, <1>2 DEF Group
<1>8. /\ groups' = InsertAt(groups, k, e) /\ seen' = seen \cup {name}
      /\ UNCHANGED <<names, variants, sorted>>
  BY <1>4 DEF AddName
<1>9. /\ groups' \in Seq(Group) /\ Len(groups') = Len(groups) + 1
      /\ groups'[k] = e
      /\ \A j \in 1..(k - 1) : groups'[j] = groups[j]
      /\ \A j \in k..Len(groups) : groups'[j + 1] = groups[j]
  <2> HIDE DEF e
  <2>1. PICK U : U = Group
    OBVIOUS
  <2>2. PICK s : s = groups
    OBVIOUS
  <2>3. PICK x : x = e
    OBVIOUS
  <2>4. s \in Seq(U) /\ k \in 1..(Len(s) + 1) /\ x \in U
    BY <1>6, <1>7, <2>1, <2>2, <2>3
  <2>5. LET t == InsertAt(s, k, x)
        IN /\ t \in Seq(U) /\ Len(t) = Len(s) + 1 /\ t[k] = x
           /\ \A j \in 1..(k - 1) : t[j] = s[j]
           /\ \A j \in k..Len(s) : t[j + 1] = s[j]
    BY <2>4, InsertAtType
  <2>6. groups' = InsertAt(s, k, x)
    BY <1>8, <2>2, <2>3
  <2> QED  BY <2>1, <2>2, <2>3, <2>5, <2>6
<1> HIDE DEF e
\* Where the groups are now.
<1> DEFINE at(g) == IF g < k THEN g ELSE g + 1
<1>10. \A g \in 1..Len(groups) :
          at(g) \in 1..(Len(groups) + 1) /\ at(g) # k /\ groups'[at(g)] = groups[g]
  <2>1. SUFFICES ASSUME NEW g \in 1..Len(groups)
                 PROVE  at(g) \in 1..(Len(groups) + 1) /\ at(g) # k /\ groups'[at(g)] = groups[g]
    OBVIOUS
  <2>2. CASE g < k
    BY <1>3, <1>9, <2>2
  <2>3. CASE ~(g < k)
    <3>1. g \in k..Len(groups) /\ g + 1 # k /\ g + 1 \in 1..(Len(groups) + 1)
      BY <1>3, <2>3
    <3> QED  BY <1>9, <2>3, <3>1
  <2> QED  BY <2>2, <2>3
<1>11. \A h \in 1..(Len(groups) + 1) : h = k \/ \E g \in 1..Len(groups) : h = at(g)
  <2>1. SUFFICES ASSUME NEW h \in 1..(Len(groups) + 1), h # k
                 PROVE  \E g \in 1..Len(groups) : h = at(g)
    OBVIOUS
  <2>2. CASE h < k
    <3>1. h \in 1..Len(groups) /\ h = at(h)
      BY <1>3, <2>2
    <3> QED  BY <3>1
  <2>3. CASE h > k
    <3>1. h - 1 \in 1..Len(groups) /\ h = at(h - 1)
      BY <1>3, <2>3
    <3> QED  BY <3>1
  <2> QED  BY <1>3, <2>1, <2>2, <2>3
<1>12. \A g, h \in 1..Len(groups) : at(g) < at(h) => g < h
  BY <1>3
<1>13. \A g \in 1..Len(groups) : (at(g) < k <=> g < k) /\ (k < at(g) <=> ~(g < k))
  BY <1>3
<1> HIDE DEF at
\* p is the prefix of no group.
<1>14. \A g \in 1..Len(groups) : /\ g < k => Before(groups[g].prefix, p)
                                 /\ ~(g < k) => Before(p, groups[g].prefix)
                                 /\ groups[g].prefix # p
  <2>1. SUFFICES ASSUME NEW g \in 1..Len(groups)
                 PROVE  /\ g < k => Before(groups[g].prefix, p)
                        /\ ~(g < k) => Before(p, groups[g].prefix)
                        /\ groups[g].prefix # p
    OBVIOUS
  <2>2. CASE g < k
    <3>1. Before(groups[g].prefix, p)
      BY <1>3, <1>4, <2>2
    <3> QED  BY <1>1, <1>2, <1>6, <2>2, <3>1, BeforeIsOrder
  <2>3. CASE ~(g < k)
    <3>1. k \in 1..Len(groups) /\ ~Before(groups[k].prefix, p) /\ groups[k].prefix # p
      BY <1>3, <1>4, <1>5, <2>3
    <3>2. Before(p, groups[k].prefix)
      BY <1>1, <1>2, <1>6, <3>1, BeforeIsOrder
    <3>3. g = k \/ Before(groups[k].prefix, groups[g].prefix)
      <4>1. g = k \/ k < g
        BY <1>3, <2>3
      <4> QED  BY <3>1, <4>1 DEF IInv, GroupsAscend
    <3>4. Before(p, groups[g].prefix)
      BY <1>1, <1>2, <1>6, <3>1, <3>2, <3>3, BeforeIsOrder
    <3> QED  BY <1>1, <1>2, <1>6, <2>3, <3>4, BeforeIsOrder
  <2> QED  BY <2>2, <2>3
<1>15. GroupsAscend'
  <2>1. SUFFICES ASSUME NEW g \in 1..(Len(groups) + 1), NEW h \in 1..(Len(groups) + 1), g < h
                 PROVE  Before(groups'[g].prefix, groups'[h].prefix)
    BY <1>9 DEF GroupsAscend
  <2>2. CASE g = k
    <3>1. PICK j \in 1..Len(groups) : h = at(j)
      BY <1>3, <1>11, <2>1, <2>2
    <3> QED  BY <1>7, <1>9, <1>10, <1>13, <1>14, <2>1, <2>2, <3>1
  <2>3. CASE h = k
    <3>1. PICK j \in 1..Len(groups) : g = at(j)
      BY <1>3, <1>11, <2>1, <2>3
    <3> QED  BY <1>7, <1>9, <1>10, <1>13, <1>14, <2>1, <2>3, <3>1
  <2>4. CASE g # k /\ h # k
    <3>1. PICK i, j \in 1..Len(groups) : g = at(i) /\ h = at(j)
      BY <1>11, <2>4
    <3>2. i < j
      BY <1>12, <2>1, <3>1
    <3>3. groups'[g] = groups[i] /\ groups'[h] = groups[j]
      BY <1>10, <3>1
    <3> QED  BY <3>2, <3>3 DEF IInv, GroupsAscend
  <2> QED  BY <2>2, <2>3, <2>4
<1>16. \A q : VariantPrefix(q)' = VariantPrefix(q)
  BY <1>8 DEF VariantPrefix, VariantPrefixLength, Index
<1>17. NamesAreGrouped'
  <2>1. ASSUME NEW h \in 1..(Len(groups) + 1)
        PROVE  /\ groups'[h].names # <<>>
               /\ \A x : x \in ToSet(groups'[h].names) <=>
                            x \in seen' /\ VariantPrefix(x) = groups'[h].prefix
    <3>1. CASE h = k
      <4>1. \A x : x \in ToSet(<<name>>) <=> x = name
        BY DEF ToSet
      <4>2. \A x \in seen : VariantPrefix(x) # p
        BY <1>14 DEF IInv, NamesAreGrouped
      <4>3. <<name>> # <<>>
        OBVIOUS
      <4> QED  BY <1>7, <1>8, <1>9, <3>1, <4>1, <4>2, <4>3
    <3>2. CASE h # k
      <4>1. PICK g \in 1..Len(groups) : h = at(g)
        BY <1>11, <3>2
      <4>2. groups'[h] = groups[g] /\ groups[g].prefix # p
        BY <1>10, <1>14, <4>1
      <4>3. /\ groups[g].names # <<>>
            /\ \A x : x \in ToSet(groups[g].names) <=> x \in seen /\ VariantPrefix(x) = groups[g].prefix
        BY DEF IInv, NamesAreGrouped
      <4> QED  BY <1>8, <4>2, <4>3
    <3> QED  BY <3>1, <3>2
  <2>2. ASSUME NEW x \in seen'
        PROVE  \E h \in 1..(Len(groups) + 1) : groups'[h].prefix = VariantPrefix(x)
    <3>1. CASE x = name
      BY <1>7, <1>9, <3>1
    <3>2. CASE x \in seen
      <4>1. PICK g \in 1..Len(groups) : groups[g].prefix = VariantPrefix(x)
        BY <3>2 DEF IInv, NamesAreGrouped
      <4> QED  BY <1>10, <4>1
    <3> QED  BY <1>8, <2>2, <3>1, <3>2
  <2> QED  BY <1>9, <1>16, <2>1, <2>2 DEF NamesAreGrouped
<1>18. groups' \in Seq(Group)'
  BY <1>8, <1>9 DEF Group
<1>19. sorted' = 0 /\ seen' \subseteq names'
  BY <1>1, <1>8 DEF IInv
<1>20. sorted' \in 0..Len(groups') /\ \A g \in 1..sorted' : FALSE
  BY <1>3, <1>9, <1>19
<1> QED  BY <1>15, <1>17, <1>18, <1>19, <1>20 DEF IInv

\* When all names have come, the groups are sorted one after the other.
LEMMA SortGroupInv ==
    ASSUME Assumptions, IInv, SortGroup
    PROVE  IInv'
<1>1. /\ seen = names /\ sorted \in Nat /\ sorted < Len(groups) /\ Len(groups) \in Nat
      /\ groups \in Seq(Group)
  BY DEF IInv, SortGroup
<1>2. PICK k \in 1..Len(groups) : k = sorted + 1
  BY <1>1
<1>3. /\ groups' = [groups EXCEPT ![k] = Sorted(groups[k])] /\ sorted' = k
      /\ UNCHANGED <<names, variants, seen>>
  BY <1>1, <1>2 DEF SortGroup
<1>4. PICK some : some = ToSet(groups[k].names)
  OBVIOUS
<1>5. groups[k] \in Group /\ groups[k].names \in Seq(names)
  <2>1. groups[k] \in Group
    BY <1>1
  <2> QED  BY <2>1 DEF Group
<1>6. IsFiniteSet(some) /\ some \subseteq names /\ some \in SUBSET Strings /\ Char \subseteq Int
  BY <1>4, <1>5, ToSetIsFinite DEF Assumptions
<1>7. PICK list : list = CHOOSE l \in [1..Cardinality(some) -> some] : IsAscending(l)
  OBVIOUS
<1>8. list \in [1..Cardinality(some) -> some] /\ IsAscending(list)
  BY <1>6, <1>7, AscendingExists
<1>9. list \in Seq(some) /\ ToSet(list) = some
  BY <1>6, <1>8, AscendingIsAll
<1>10. Sorted(groups[k]) = [groups[k] EXCEPT !.names = list]
  BY <1>4, <1>7 DEF Sorted
<1>11. /\ Len(groups') = Len(groups) /\ groups'[k] = [groups[k] EXCEPT !.names = list]
       /\ \A g \in 1..Len(groups) : g # k => groups'[g] = groups[g]
  BY <1>1, <1>3, <1>10
<1>12. list \in Seq(names)
  BY <1>6, <1>9, SeqMonotonic
<1>13. groups'[k] \in Group /\ groups'[k].names = list
       /\ \A g \in 1..Len(groups) : groups'[g].prefix = groups[g].prefix
  <2>1. groups'[k] \in Group /\ groups'[k].names = list /\ groups'[k].prefix = groups[k].prefix
    BY <1>5, <1>11, <1>12 DEF Group
  <2> QED  BY <1>11, <2>1
<1>14. groups' \in Seq(Group)'
  <2>1. groups' = [groups EXCEPT ![k] = groups'[k]]
    BY <1>3, <1>10, <1>11
  <2>2. groups' \in Seq(Group)
    BY <1>1, <1>13, <2>1, ExceptSeq
  <2> QED  BY <1>3, <2>2 DEF Group
<1>15. GroupsAscend'
  BY <1>11, <1>13 DEF IInv, GroupsAscend
<1>16. \A q : VariantPrefix(q)' = VariantPrefix(q)
  BY <1>3 DEF VariantPrefix, VariantPrefixLength, Index
<1>17. NamesAreGrouped'
  <2>1. ASSUME NEW g \in 1..Len(groups)
        PROVE  /\ groups'[g].names # <<>>
               /\ \A x : x \in ToSet(groups'[g].names) <=>
                            x \in seen /\ VariantPrefix(x) = groups[g].prefix
    <3>1. /\ groups[g].names # <<>>
          /\ \A x : x \in ToSet(groups[g].names) <=> x \in seen /\ VariantPrefix(x) = groups[g].prefix
      BY DEF IInv, NamesAreGrouped
    <3>2. CASE g = k
      <4>1. list # <<>>
        <5>1. ToSet(<<>>) = {}
          BY DEF ToSet
        <5>2. some # {}
          <6>1. Len(groups[k].names) \in Nat /\ Len(groups[k].names) # 0
            BY <1>5, <3>1, <3>2
          <6>2. 1 \in DOMAIN groups[k].names
            BY <1>5, <6>1
          <6> QED  BY <1>4, <6>2 DEF ToSet
        <5> QED  BY <1>9, <5>1, <5>2
      <4> QED  BY <1>4, <1>9, <1>13, <3>1, <3>2, <4>1
    <3>3. CASE g # k
      BY <1>11, <3>1, <3>3
    <3> QED  BY <3>2, <3>3
  <2> QED  BY <1>3, <1>11, <1>13, <1>16, <2>1 DEF IInv, NamesAreGrouped
<1>18. \A g \in 1..sorted' : IsAscending(groups'[g].names)
  <2>1. SUFFICES ASSUME NEW g \in 1..k PROVE IsAscending(groups'[g].names)
    BY <1>3
  <2>2. CASE g = k
    BY <1>8, <1>13, <2>2
  <2>3. CASE g # k
    <3>1. g \in 1..sorted /\ g \in 1..Len(groups)
      BY <1>1, <1>2, <2>3
    <3> QED  BY <1>11, <2>3, <3>1 DEF IInv
  <2> QED  BY <2>2, <2>3
<1>19. sorted' \in 0..Len(groups') /\ seen' = names' /\ seen' \subseteq names'
  BY <1>1, <1>3, <1>11
<1> QED  BY <1>14, <1>15, <1>17, <1>18, <1>19 DEF IInv

LEMMA NextIsGrouped ==
    ASSUME Assumptions, IInv, Next
    PROVE  IInv'
BY AddToGroup, AddNewGroup, SortGroupInv DEF Next
-----------------------------------------------------------------------------
\* The types are right,
LEMMA GroupTypes ==
    ASSUME IInv
    PROVE  TypeOK
BY DEF IInv, TypeOK, Group

\* and at the end there is one list of groups, whatever the order of the names.
LEMMA GroupsAreInOrder ==
    ASSUME Assumptions, IInv
    PROVE  OrderDoesNotMatter
<1>1. SUFFICES ASSUME Done
               PROVE  /\ {groups[g].prefix : g \in 1..Len(groups)} = {VariantPrefix(name) : name \in names}
                      /\ \A g, h \in 1..Len(groups) :
                            g < h => IsLessSpecific(groups[g].prefix, groups[h].prefix)
                      /\ \A g \in 1..Len(groups) :
                            /\ ToSet(groups[g].names) =
                                  {name \in names : VariantPrefix(name) = groups[g].prefix}
                            /\ IsAscending(groups[g].names)
  BY DEF OrderDoesNotMatter
<1>2. seen = names /\ sorted = Len(groups) /\ Len(groups) \in Nat
  BY <1>1 DEF IInv, Done
<1>3. \A g \in 1..Len(groups) : \E name \in names : VariantPrefix(name) = groups[g].prefix
  <2>1. SUFFICES ASSUME NEW g \in 1..Len(groups)
                 PROVE  \E name \in names : VariantPrefix(name) = groups[g].prefix
    OBVIOUS
  <2>2. groups[g].names \in Seq(names) /\ groups[g].names # <<>>
    <3>1. groups[g] \in Group
      BY DEF IInv
    <3> QED  BY <3>1 DEF Group, IInv, NamesAreGrouped
  <2>3. 1 \in DOMAIN groups[g].names
    <3>1. Len(groups[g].names) \in Nat /\ Len(groups[g].names) # 0
      BY <2>2
    <3> QED  BY <2>2, <3>1
  <2>4. groups[g].names[1] \in ToSet(groups[g].names)
    BY <2>3 DEF ToSet
  <2> QED  BY <1>2, <2>4 DEF IInv, NamesAreGrouped
<1>4. {groups[g].prefix : g \in 1..Len(groups)} = {VariantPrefix(name) : name \in names}
  BY <1>2, <1>3 DEF IInv, NamesAreGrouped
<1>5. \A g \in 1..Len(groups) : Len(VariantsIn(groups[g].prefix)) = Count(groups[g].prefix)
  BY <1>3, VariantsAreCounted DEF Assumptions
<1>6. \A g, h \in 1..Len(groups) : g < h => IsLessSpecific(groups[g].prefix, groups[h].prefix)
  BY <1>5 DEF IInv, GroupsAscend, Before, IsLessSpecific
<1>7. \A g \in 1..Len(groups) :
         /\ ToSet(groups[g].names) = {name \in names : VariantPrefix(name) = groups[g].prefix}
         /\ IsAscending(groups[g].names)
  BY <1>2 DEF IInv, NamesAreGrouped
<1> QED  BY <1>4, <1>6, <1>7
=============================================================================
