---------------------------- MODULE ProcessProofs ----------------------------
(***************************************************************************)
(* Process, for all inputs: which files are read and which class names are *)
(* found in them, in what order the groups come, what becomes of the rules *)
(* of a layer, and that the search for variables and the output do what    *)
(* ThemeVars says.  ClassGroupsProofs is about one stage by itself; here   *)
(* it is given the input that the stages before it leave.                  *)
(***************************************************************************)
EXTENDS Process, Lemmas, SequenceTheorems

GP == INSTANCE ClassGroupsProofs WITH
         Char <- Code, Sep <- Colon, names <- foundMap, variants <- DOMAIN variants

\* The stages are those that the proofs are about.
LEMMA SameGroups ==
    /\ G!Init <=> GP!Init
    /\ G!Next <=> GP!Next
    /\ G!Done <=> GP!Done
    /\ G!TypeOK <=> GP!TypeOK
    /\ G!OrderDoesNotMatter <=> GP!OrderDoesNotMatter
<1>1. G!Init <=> GP!Init
  BY DEF G!Init, GP!Init
<1>2. \A name : G!AddName(name) <=> GP!AddName(name)
  <2>1. \A name : G!VariantPrefix(name) = GP!VariantPrefix(name)
    BY DEF G!VariantPrefix, GP!VariantPrefix, G!VariantPrefixLength, GP!VariantPrefixLength,
           G!Index, GP!Index, G!Min, GP!Min
  <2>2. \A p, q : G!Less(p, q) <=> GP!Less(p, q)
    BY DEF G!Less, GP!Less, G!IsStrictPrefix, GP!IsStrictPrefix, G!IsPrefix, GP!IsPrefix,
           G!Min, GP!Min
  <2>3. \A p : G!Count(p) = GP!Count(p)
    BY DEF G!Count, GP!Count, G!Cardinality, GP!Cardinality
  <2>4. \A p, q : G!Before(p, q) <=> GP!Before(p, q)
    BY <2>2, <2>3 DEF G!Before, GP!Before
  <2>5. \A p : G!Search(p) = GP!Search(p)
    BY <2>4 DEF G!Search, GP!Search
  <2>6. \A i, p : G!IsAt(i, p) <=> GP!IsAt(i, p)
    BY DEF G!IsAt, GP!IsAt
  <2> QED
    BY <2>1, <2>5, <2>6 DEF G!AddName, GP!AddName, G!InsertAt, GP!InsertAt
<1>3. G!SortGroup <=> GP!SortGroup
  BY DEF G!SortGroup, GP!SortGroup, G!Sorted, GP!Sorted, G!IsAscending, GP!IsAscending,
         G!Less, GP!Less, G!IsStrictPrefix, GP!IsStrictPrefix, G!IsPrefix, GP!IsPrefix,
         G!Min, GP!Min, G!ToSet, GP!ToSet, G!Cardinality, GP!Cardinality
<1>4. G!Next <=> GP!Next
  BY <1>2, <1>3 DEF G!Next, GP!Next
<1>5. G!Done <=> GP!Done
  BY DEF G!Done, GP!Done
<1>6. G!TypeOK <=> GP!TypeOK
  BY DEF G!TypeOK, GP!TypeOK, G!Strings, GP!Strings
<1>7. G!OrderDoesNotMatter <=> GP!OrderDoesNotMatter
  BY DEF G!OrderDoesNotMatter, GP!OrderDoesNotMatter, G!Done, GP!Done, G!VariantPrefix,
         GP!VariantPrefix, G!VariantPrefixLength, GP!VariantPrefixLength, G!VariantsIn,
         GP!VariantsIn, G!Index, GP!Index, G!IsLessSpecific, GP!IsLessSpecific,
         G!IsAscending, GP!IsAscending, G!Less, GP!Less, G!IsStrictPrefix,
         GP!IsStrictPrefix, G!IsPrefix, GP!IsPrefix, G!Min, GP!Min, G!ToSet, GP!ToSet
<1> QED  BY <1>1, <1>4, <1>5, <1>6, <1>7

-----------------------------------------------------------------------------
\* The input, which no step changes.
InputInv ==
    /\ tree \in Seq(S!Entry) /\ S!IsForest(tree)
    /\ classes \subseteq Word
    /\ layers \in Seq(Layers) /\ layers # <<>>

\* What is known of the entries the walk has passed, the one that is scanned included.
IsPassed(k) == k < at \/ (k = at /\ pc = "scan")

FilesAreRead ==
    /\ Utilities # {} =>
          ToSet(read) = {k \in 1..Len(tree) : IsPassed(k) /\ tree[k].kind = "file" /\ S!IsVisible(k)}
    /\ \A k, l \in 1..Len(read) : k < l => read[k] < read[l]
    /\ \A k \in 1..Len(read) : IsPassed(read[k])

\* The walk is never inside of a hidden directory.
ParentsAreVisible ==
    at <= Len(tree) => \A j \in S!Parents(at) : tree[j].depth = 0 \/ ~tree[j].hidden

\* A word of a file that is a class name and is not found, for a good reason.
IsMissed(f, k) ==
    tree[f].words[k] \in classes \ foundMap =>
        /\ k = 1 /\ ~tree[f].leading
        /\ \E j \in 2..Len(tree[f].words) : tree[f].words[j] \in classes

\* The data is what comes after the first o words of the file, up to which nothing
\* else is overlooked.
IsSearched(f, o) ==
    /\ Len(data.words) = Len(tree[f].words) - o
    /\ \A k \in 1..Len(data.words) : data.words[k] = tree[f].words[o + k]
    /\ data.leading = (o > 0 \/ tree[f].leading)
    /\ \A k \in 1..o : IsMissed(f, k)

NothingElseIsMissed ==
    \A f \in ToSet(read) :
        (pc = "scan" /\ f = at) \/ \A k \in 1..Len(tree[f].words) : IsMissed(f, k)

\* The inductive invariant of the scan.
ScanInv ==
    /\ S!TypeOK
    /\ pc \in {"read", "scan"} =>
          at <= Len(tree) /\ ~S!IsSkipped /\ S!entry.kind \in {"file", "torn"}
    /\ pc = "scan" =>
          S!entry.kind = "file" /\ \E o \in 0..Len(tree[at].words) : IsSearched(at, o)
    /\ pc = "done" /\ Utilities # {} => at > Len(tree)
    /\ open = IF pc = "read" THEN {at} ELSE {}
    /\ FilesAreRead /\ ParentsAreVisible /\ NothingElseIsMissed

LEMMA InitIsScanned ==
    ASSUME InputInv, S!Init
    PROVE  ScanInv
<1>1. /\ pc \in {"walk", "done"} /\ pc = IF Utilities # {} THEN "walk" ELSE "done"
      /\ at = 1 /\ open = {} /\ data = S!NoData /\ foundMap = {} /\ read = <<>>
  BY DEF S!Init
<1>2. Len(tree) \in Nat
  BY DEF InputInv
<1>3. ToSet(read) = {} /\ Len(read) = 0 /\ read \in Seq(1..Len(tree))
  BY <1>1 DEF ToSet
<1>4. data.leading \in BOOLEAN /\ data.words \in Seq(Word)
  BY <1>1 DEF S!NoData
<1>5. S!TypeOK
  BY <1>1, <1>2, <1>3, <1>4 DEF S!TypeOK
<1>6. FilesAreRead
  <2>1. \A k \in 1..Len(tree) : ~(k < at)
    BY <1>1, <1>2
  <2>2. \A k \in 1..Len(tree) : ~IsPassed(k)
    BY <1>1, <2>1 DEF IsPassed
  <2>3. {k \in 1..Len(tree) : IsPassed(k) /\ tree[k].kind = "file" /\ S!IsVisible(k)} = {}
    BY <2>2
  <2> QED  BY <1>3, <2>3 DEF FilesAreRead
<1>7. ParentsAreVisible
  BY <1>1 DEF ParentsAreVisible, S!Parents
<1>8. NothingElseIsMissed
  BY <1>3 DEF NothingElseIsMissed
<1> QED  BY <1>1, <1>5, <1>6, <1>7, <1>8 DEF ScanInv

LEMMA DepthsAreNumbers ==
    ASSUME InputInv
    PROVE  Len(tree) \in Nat /\ \A k \in 1..Len(tree) : tree[k] \in S!Entry /\ tree[k].depth \in Nat
<1>1. Len(tree) \in Nat /\ \A k \in 1..Len(tree) : tree[k] \in S!Entry
  BY DEF InputInv
<1> QED  BY <1>1 DEF S!Entry

\* The entry behind a hidden directory: what is between is in it.
LEMMA AfterDirFinds ==
    ASSUME InputInv, at \in 1..Len(tree)
    PROVE  /\ S!AfterDir \in (at + 1)..(Len(tree) + 1)
           /\ S!AfterDir <= Len(tree) => tree[S!AfterDir].depth <= S!entry.depth
           /\ \A k \in (at + 1)..(S!AfterDir - 1) : tree[k].depth > S!entry.depth
<1> DEFINE n == Len(tree)
           ends == {j \in (at + 1)..(n + 1) : j <= n => tree[j].depth <= S!entry.depth}
           Is(j) == /\ j <= n => tree[j].depth <= S!entry.depth
                    /\ \A k \in (at + 1)..(j - 1) : tree[k].depth > S!entry.depth
<1>1. n \in Nat
  BY DepthsAreNumbers
<1>2. \A k \in 1..n : tree[k].depth \in Nat
  BY DepthsAreNumbers
<1>3. S!entry.depth \in Nat
  BY <1>2 DEF S!entry
<1> DEFINE d == S!entry.depth
<1> HIDE DEF d, n
<1>4. ends \in SUBSET Nat /\ n + 1 \in ends
  BY <1>1 DEF n
<1>5. PICK j \in ends : \A y \in ends : j <= y
  <2> HIDE DEF ends
  <2> QED  BY <1>4, LeastExists
<1>6. j \in (at + 1)..(n + 1) /\ (j <= n => tree[j].depth <= d)
  BY <1>5 DEF d
<1>7. ASSUME NEW k \in (at + 1)..(j - 1) PROVE tree[k].depth > d
  <2>1. k \in (at + 1)..(n + 1) /\ k <= n /\ k < j /\ k \in 1..n
    BY <1>1, <1>6
  <2>2. k \notin ends
    BY <1>1, <1>4, <1>5, <2>1
  <2>3. ~(tree[k].depth <= d)
    BY <2>1, <2>2 DEF d
  <2> QED  BY <1>2, <1>3, <2>1, <2>3 DEF n, d
<1>8. \E x \in (at + 1)..(n + 1) : Is(x)
  BY <1>6, <1>7 DEF d
<1>9. S!AfterDir = CHOOSE x \in (at + 1)..(n + 1) : Is(x)
  BY DEF S!AfterDir, n
<1> HIDE DEF Is
<1>10. S!AfterDir \in (at + 1)..(n + 1) /\ Is(S!AfterDir)
  BY <1>8, <1>9
<1> QED  BY <1>10 DEF Is, n

\* What is in a tree does not change.
LEMMA TreeStays ==
    ASSUME tree' = tree
    PROVE  /\ \A k : S!IsVisible(k)' <=> S!IsVisible(k)
           /\ \A k : S!Parents(k)' = S!Parents(k)
BY DEF S!IsVisible, S!Parents

LEMMA UtilitiesStay ==
    ASSUME layers' = layers
    PROVE  Utilities' = Utilities
BY DEF Utilities

\* No file is read, and the walk passes none that should be.
LEMMA StillRead ==
    ASSUME FilesAreRead, UNCHANGED <<inputs, read>>, read \in Seq(1..Len(tree)),
           \A k \in 1..Len(tree) : IsPassed(k) => IsPassed(k)',
           \A k \in 1..Len(tree) :
              IsPassed(k)' /\ tree[k].kind = "file" /\ S!IsVisible(k) => IsPassed(k)
    PROVE  FilesAreRead'
<1>1. UNCHANGED <<tree, layers, read>>
  BY DEF inputs
<1>2. /\ \A k : S!IsVisible(k)' <=> S!IsVisible(k)
      /\ Utilities' = Utilities
  BY <1>1, TreeStays, UtilitiesStay
<1>3. {k \in 1..Len(tree) : IsPassed(k) /\ tree[k].kind = "file" /\ S!IsVisible(k)}
         = {k \in 1..Len(tree') : IsPassed(k)' /\ tree'[k].kind = "file" /\ S!IsVisible(k)'}
  BY <1>1, <1>2
<1>4. Utilities' # {} =>
         ToSet(read)' = {k \in 1..Len(tree') : IsPassed(k)' /\ tree'[k].kind = "file" /\ S!IsVisible(k)'}
  BY <1>1, <1>2, <1>3 DEF FilesAreRead, ToSet
<1>5. \A k \in 1..Len(read) : IsPassed(read[k])'
  BY <1>1 DEF FilesAreRead
<1>6. \A k \in 1..Len(read') : IsPassed(read[k])'
  BY <1>1, <1>5
<1> QED  BY <1>1, <1>4, <1>6 DEF FilesAreRead

\* What has been found stays found.
LEMMA StillMissed ==
    ASSUME UNCHANGED inputs, foundMap \subseteq foundMap', NEW f, NEW k, IsMissed(f, k)
    PROVE  IsMissed(f, k)'
BY DEF inputs, IsMissed

\* From an entry to the next one: it is in the same directories, or in one that is
\* not hidden.
LEMMA NextIsVisible ==
    ASSUME InputInv, at \in 1..Len(tree), ParentsAreVisible, tree' = tree, at' = at + 1,
           S!entry.kind = "dir" => ~S!IsSkipped
    PROVE  ParentsAreVisible'
<1>1. SUFFICES ASSUME at + 1 <= Len(tree), NEW j \in S!Parents(at + 1)
               PROVE  tree[j].depth = 0 \/ ~tree[j].hidden
  BY TreeStays DEF ParentsAreVisible
<1>2. j \in 1..at /\ \A k \in (j + 1)..(at + 1) : tree[k].depth > tree[j].depth
  BY <1>1 DEF S!Parents
<1>3. Len(tree) \in Nat /\ \A k \in 1..Len(tree) : tree[k].depth \in Nat
  BY DepthsAreNumbers
<1>4. CASE j = at
  <2>1. tree[at + 1].depth > tree[at].depth
    BY <1>2, <1>3, <1>4
  <2>2. tree[at + 1].depth <= tree[at].depth + IF tree[at].kind = "dir" THEN 1 ELSE 0
    <3>1. at + 1 \in 1..Len(tree) /\ at + 1 # 1 /\ (at + 1) - 1 = at
      BY <1>1, <1>3
    <3> QED  BY <3>1 DEF InputInv, S!IsForest
  <2>3. tree[at].depth \in Nat /\ tree[at + 1].depth \in Nat
    BY <1>1, <1>3
  <2>4. tree[at].kind = "dir"
    BY <2>1, <2>2, <2>3
  <2>5. ~(tree[at].depth > 0 /\ tree[at].hidden)
    BY <2>4 DEF S!entry, S!IsSkipped
  <2> QED  BY <1>4, <2>3, <2>5
<1>5. CASE j # at
  <2>1. j \in 1..(at - 1) /\ \A k \in (j + 1)..at : tree[k].depth > tree[j].depth
    BY <1>2, <1>5
  <2>2. j \in S!Parents(at)
    BY <2>1 DEF S!Parents
  <2> QED  BY <1>3, <2>2 DEF ParentsAreVisible
<1> QED  BY <1>4, <1>5

\* The next entry is behind a hidden directory: nothing in it is visible, and nothing
\* behind it is in it.
LEMMA SkipDirInv ==
    ASSUME InputInv, ScanInv, UNCHANGED inputs, S!SkipDir
    PROVE  ScanInv'
<1>1. /\ at \in 1..Len(tree) /\ Len(tree) \in Nat /\ pc = "walk" /\ at' = S!AfterDir
      /\ S!IsSkipped /\ S!entry.kind = "dir"
  BY DEF S!SkipDir, S!Walking, ScanInv, S!TypeOK, InputInv
<1>2. UNCHANGED <<tree, layers, classes, pc, open, data, foundMap, read>>
  BY DEF S!SkipDir, inputs
<1> DEFINE n == S!AfterDir
<1>3. /\ n \in (at + 1)..(Len(tree) + 1)
      /\ n <= Len(tree) => tree[n].depth <= S!entry.depth
      /\ \A k \in (at + 1)..(n - 1) : tree[k].depth > S!entry.depth
  BY <1>1, AfterDirFinds
<1> HIDE DEF n
<1>4. \A k \in 1..Len(tree) : tree[k].depth \in Nat
  BY DepthsAreNumbers
<1>5. S!TypeOK'
  BY <1>1, <1>2, <1>3 DEF ScanInv, S!TypeOK, n
<1>6. FilesAreRead'
  <2>1. ASSUME NEW k \in 1..Len(tree), ~(k < at), k < n, tree[k].kind = "file"
        PROVE  ~S!IsVisible(k)
    <3>1. k # at
      BY <1>1, <2>1 DEF S!entry
    <3>2. k \in (at + 1)..(n - 1) /\ \A l \in (at + 1)..k : l \in (at + 1)..(n - 1)
      BY <1>1, <1>3, <2>1, <3>1
    <3>3. at \in 1..(k - 1) /\ \A l \in (at + 1)..k : tree[l].depth > tree[at].depth
      BY <1>1, <1>3, <3>2 DEF S!entry
    <3>4. at \in S!Parents(k)
      BY <3>3 DEF S!Parents
    <3>5. tree[at].depth # 0 /\ tree[at].hidden
      BY <1>1, <1>4 DEF S!IsSkipped, S!entry
    <3> QED  BY <3>4, <3>5 DEF S!IsVisible
  <2>2. \A k \in 1..Len(tree) : (IsPassed(k) <=> k < at) /\ (IsPassed(k)' <=> k < n)
    BY <1>1, <1>2 DEF IsPassed, n
  <2>3. \A k \in 1..Len(tree) : IsPassed(k) => IsPassed(k)'
    BY <1>1, <1>3, <2>2
  <2>4. \A k \in 1..Len(tree) : IsPassed(k)' /\ tree[k].kind = "file" /\ S!IsVisible(k) => IsPassed(k)
    BY <2>1, <2>2
  <2>5. FilesAreRead /\ read \in Seq(1..Len(tree)) /\ UNCHANGED <<inputs, read>>
    BY <1>2 DEF ScanInv, S!TypeOK
  <2> QED  BY <2>3, <2>4, <2>5, StillRead
<1>7. ParentsAreVisible'
  <2>1. SUFFICES ASSUME n <= Len(tree), NEW j \in S!Parents(n)
                 PROVE  tree[j].depth = 0 \/ ~tree[j].hidden
    BY <1>1, <1>2, TreeStays DEF ParentsAreVisible, n
  <2>2. j \in 1..(n - 1) /\ \A k \in (j + 1)..n : tree[k].depth > tree[j].depth
    BY <2>1 DEF S!Parents
  <2>3. tree[n].depth > tree[j].depth /\ tree[n].depth <= tree[at].depth
    BY <1>1, <1>3, <2>1, <2>2 DEF S!entry
  <2>4. tree[n].depth \in Nat /\ tree[j].depth \in Nat /\ tree[at].depth \in Nat
    BY <1>1, <1>3, <1>4, <2>1, <2>2
  <2>5. ~(j \in (at + 1)..(n - 1)) /\ j # at
    BY <1>3, <2>3, <2>4 DEF S!entry
  <2>6. j \in 1..(at - 1) /\ \A k \in (j + 1)..at : tree[k].depth > tree[j].depth
    BY <1>1, <1>3, <2>2, <2>5
  <2>7. j \in S!Parents(at)
    BY <2>6 DEF S!Parents
  <2> QED  BY <1>1, <2>7 DEF ScanInv, ParentsAreVisible
<1>8. NothingElseIsMissed'
  BY <1>1, <1>2 DEF ScanInv, NothingElseIsMissed, IsMissed
<1>9. (pc = "done" /\ Utilities # {} => at > Len(tree))'
  BY <1>1, <1>2
<1>10. (open = IF pc = "read" THEN {at} ELSE {})'
  BY <1>1, <1>2 DEF ScanInv
<1> QED  BY <1>1, <1>2, <1>5, <1>6, <1>7, <1>8, <1>9, <1>10 DEF ScanInv

\* Directories that are not hidden, and what is no file to read.
LEMMA PassOverInv ==
    ASSUME InputInv, ScanInv, UNCHANGED inputs, S!PassOver
    PROVE  ScanInv'
<1>1. /\ at \in 1..Len(tree) /\ Len(tree) \in Nat /\ pc = "walk" /\ at' = at + 1
      /\ \/ S!IsSkipped /\ S!entry.kind # "dir"
         \/ ~S!IsSkipped /\ S!entry.kind \in {"dir", "lost", "locked"}
  BY DepthsAreNumbers DEF S!PassOver, S!Walking, ScanInv, S!TypeOK
<1>2. UNCHANGED <<tree, layers, classes, pc, open, data, foundMap, read>>
  BY DEF S!PassOver, inputs
<1>3. S!TypeOK'
  BY <1>1, <1>2 DEF ScanInv, S!TypeOK
<1>4. FilesAreRead'
  <2>1. tree[at].kind = "file" => ~S!IsVisible(at)
    BY <1>1, DepthsAreNumbers DEF S!IsVisible, S!IsSkipped, S!entry
  <2>2. \A k \in 1..Len(tree) : (IsPassed(k) <=> k < at) /\ (IsPassed(k)' <=> k < at \/ k = at)
    BY <1>1, <1>2 DEF IsPassed
  <2>3. /\ \A k \in 1..Len(tree) : IsPassed(k) => IsPassed(k)'
        /\ \A k \in 1..Len(tree) :
              IsPassed(k)' /\ tree[k].kind = "file" /\ S!IsVisible(k) => IsPassed(k)
    BY <2>1, <2>2
  <2>4. FilesAreRead /\ read \in Seq(1..Len(tree)) /\ UNCHANGED <<inputs, read>>
    BY <1>2 DEF ScanInv, S!TypeOK
  <2> QED  BY <2>3, <2>4, StillRead
<1>5. ParentsAreVisible'
  BY <1>1, <1>2, NextIsVisible DEF ScanInv
<1>6. NothingElseIsMissed'
  BY <1>1, <1>2 DEF ScanInv, NothingElseIsMissed, IsMissed
<1>7. (open = IF pc = "read" THEN {at} ELSE {})'
  BY <1>1, <1>2 DEF ScanInv
<1> QED  BY <1>1, <1>2, <1>3, <1>4, <1>5, <1>6, <1>7 DEF ScanInv

LEMMA OpenFileInv ==
    ASSUME InputInv, ScanInv, UNCHANGED inputs, S!OpenFile
    PROVE  ScanInv'
<1>1. /\ at \in 1..Len(tree) /\ Len(tree) \in Nat /\ pc = "walk" /\ pc' = "read"
      /\ ~S!IsSkipped /\ S!entry.kind \in {"file", "torn"}
      /\ open = {} /\ open' = open \cup {at}
  BY DepthsAreNumbers DEF S!OpenFile, S!Walking, ScanInv, S!TypeOK
<1>2. UNCHANGED <<tree, layers, classes, at, data, foundMap, read>>
  BY DEF S!OpenFile, inputs
<1>3. S!TypeOK' /\ (~S!IsSkipped)' /\ S!entry' = S!entry
  BY <1>1, <1>2 DEF ScanInv, S!TypeOK, S!IsSkipped, S!entry
<1>4. FilesAreRead'
  <2>1. \A k : IsPassed(k)' <=> IsPassed(k)
    BY <1>1, <1>2 DEF IsPassed
  <2>2. FilesAreRead /\ read \in Seq(1..Len(tree)) /\ UNCHANGED <<inputs, read>>
    BY <1>2 DEF ScanInv, S!TypeOK
  <2> QED  BY <2>1, <2>2, StillRead
<1>5. ParentsAreVisible'
  BY <1>1, <1>2, TreeStays DEF ScanInv, ParentsAreVisible
<1>6. NothingElseIsMissed'
  BY <1>1, <1>2 DEF ScanInv, NothingElseIsMissed, IsMissed
<1>7. (open = IF pc = "read" THEN {at} ELSE {})'
  BY <1>1, <1>2
<1> QED  BY <1>1, <1>2, <1>3, <1>4, <1>5, <1>6, <1>7 DEF ScanInv

\* The file is visible, and all that were read come before it.
LEMMA ReadFileInv ==
    ASSUME InputInv, ScanInv, UNCHANGED inputs, S!ReadFile
    PROVE  ScanInv'
<1>1. /\ at \in 1..Len(tree) /\ Len(tree) \in Nat /\ pc = "read" /\ open = {at}
      /\ ~S!IsSkipped /\ S!entry.kind \in {"file", "torn"} /\ open' = {}
  BY DepthsAreNumbers DEF S!ReadFile, ScanInv, S!TypeOK
<1>2. UNCHANGED <<tree, layers, classes, at, foundMap>>
  BY DEF S!ReadFile, inputs
<1>3. (~S!IsSkipped)' /\ S!entry' = S!entry
  BY <1>1, <1>2 DEF S!IsSkipped, S!entry
<1>4. ParentsAreVisible'
  BY <1>2, TreeStays DEF ScanInv, ParentsAreVisible
<1>5. FilesAreRead /\ read \in Seq(1..Len(tree)) /\ NothingElseIsMissed
  BY DEF ScanInv, S!TypeOK
<1>6. CASE S!entry.kind = "torn"
  <2>1. pc' = "failed" /\ UNCHANGED <<data, read>>
    BY <1>6 DEF S!ReadFile
  <2>2. S!TypeOK'
    BY <1>1, <1>2, <2>1 DEF ScanInv, S!TypeOK
  <2>3. \A k : IsPassed(k)' <=> IsPassed(k)
    BY <1>1, <1>2, <2>1 DEF IsPassed
  <2>4. FilesAreRead'
    BY <1>5, <2>1, <2>3, StillRead
  <2>5. NothingElseIsMissed'
    BY <1>1, <1>2, <1>5, <2>1 DEF NothingElseIsMissed, IsMissed
  <2> QED  BY <1>1, <1>4, <2>1, <2>2, <2>4, <2>5 DEF ScanInv
<1>7. CASE S!entry.kind # "torn"
  <2>1. /\ pc' = "scan" /\ read' = Append(read, at)
        /\ data' = [leading |-> S!entry.leading, words |-> S!entry.words]
    BY <1>7 DEF S!ReadFile
  <2>2. /\ S!entry.kind = "file" /\ tree[at] \in S!Entry
        /\ tree[at].leading \in BOOLEAN /\ tree[at].words \in Seq(Word)
    <3>1. tree[at] \in S!Entry
      BY <1>1, DepthsAreNumbers
    <3> QED  BY <1>1, <1>7, <3>1 DEF S!Entry
  <2>3. /\ read' \in Seq(1..Len(tree)) /\ Len(read') = Len(read) + 1 /\ Len(read) \in Nat
        /\ read'[Len(read) + 1] = at /\ \A k \in 1..Len(read) : read'[k] = read[k]
    BY <1>1, <1>5, <2>1
  <2>4. data'.leading = tree[at].leading /\ data'.words = tree[at].words
    BY <2>1 DEF S!entry
  <2>5. S!TypeOK'
    BY <1>1, <1>2, <2>1, <2>2, <2>3, <2>4 DEF ScanInv, S!TypeOK
  <2>6. /\ S!IsVisible(at)
        /\ \A k \in 1..Len(tree) : (IsPassed(k) <=> k < at) /\ (IsPassed(k)' <=> k < at \/ k = at)
    <3>1. tree[at].depth = 0 \/ ~tree[at].hidden
      BY <1>1, DepthsAreNumbers DEF S!IsSkipped, S!entry
    <3>2. S!IsVisible(at)
      BY <1>1, <3>1 DEF ScanInv, ParentsAreVisible, S!IsVisible
    <3> QED  BY <1>1, <1>2, <2>1, <3>2 DEF IsPassed
  <2>7. ToSet(read)' = ToSet(read) \cup {at}
    <3>1. DOMAIN read = 1..Len(read) /\ DOMAIN read' = 1..(Len(read) + 1)
      BY <1>5, <2>3
    <3> QED  BY <2>3, <3>1 DEF ToSet
  <2>8. FilesAreRead'
    <3>1. \A k \in 1..Len(read) : IsPassed(read[k]) /\ read[k] \in 1..Len(tree)
      BY <1>5 DEF FilesAreRead
    <3>2. \A k \in 1..Len(read) : read[k] < at
      BY <2>6, <3>1
    <3>3. \A k, l \in 1..Len(read') : k < l => read'[k] < read'[l]
      <4>1. \A k, l \in 1..Len(read) : k < l => read[k] < read[l]
        BY <1>5 DEF FilesAreRead
      <4>2. SUFFICES ASSUME NEW k \in 1..Len(read'), NEW l \in 1..Len(read'), k < l
                     PROVE  read'[k] < read'[l]
        OBVIOUS
      <4>3. k \in 1..Len(read) /\ (l \in 1..Len(read) \/ l = Len(read) + 1)
        BY <2>3, <4>2
      <4>4. CASE l = Len(read) + 1
        BY <2>3, <3>2, <4>3, <4>4
      <4>5. CASE l \in 1..Len(read)
        BY <2>3, <4>1, <4>2, <4>3, <4>5
      <4> QED  BY <4>3, <4>4, <4>5
    <3>4. \A k \in 1..Len(read') : IsPassed(read[k])'
      <4>1. SUFFICES ASSUME NEW k \in 1..Len(read') PROVE IsPassed(read[k])'
        OBVIOUS
      <4>2. read'[k] < at \/ read'[k] = at
        BY <2>3, <3>2, <4>1
      <4> QED  BY <1>2, <2>1, <4>2 DEF IsPassed
    <3>5. Utilities # {} =>
             ToSet(read)' = {k \in 1..Len(tree) : IsPassed(k)' /\ tree[k].kind = "file" /\ S!IsVisible(k)}
      <4>1. Utilities # {} =>
               ToSet(read) = {k \in 1..Len(tree) : IsPassed(k) /\ tree[k].kind = "file" /\ S!IsVisible(k)}
        BY <1>5 DEF FilesAreRead
      <4>2. tree[at].kind = "file"
        BY <2>2 DEF S!entry
      <4> QED  BY <1>1, <2>6, <2>7, <4>1, <4>2
    <3>6. Utilities' = Utilities /\ \A k : S!IsVisible(k)' <=> S!IsVisible(k)
      BY <1>2, TreeStays, UtilitiesStay
    <3> QED  BY <1>2, <3>3, <3>4, <3>5, <3>6 DEF FilesAreRead
  <2>9. IsSearched(at, 0)'
    <3>1. Len(tree[at].words) \in Nat
      BY <2>2
    <3>2. /\ Len(data'.words) = Len(tree'[at'].words) - 0
          /\ \A k \in 1..Len(data'.words) : data'.words[k] = tree'[at'].words[0 + k]
      BY <1>2, <2>4, <3>1
    <3>3. data'.leading = (0 > 0 \/ tree'[at'].leading)
      BY <1>2, <2>2, <2>4
    <3> QED  BY <3>2, <3>3 DEF IsSearched
  <2>10. (\E o \in 0..Len(tree[at].words) : IsSearched(at, o))'
    <3>1. 0 \in 0..Len(tree'[at'].words)
      BY <1>2, <2>2
    <3> QED  BY <2>9, <3>1
  <2>11. NothingElseIsMissed'
    BY <1>1, <1>2, <1>5, <2>1, <2>7 DEF NothingElseIsMissed, IsMissed
  <2> QED  BY <1>1, <1>2, <1>3, <1>4, <2>1, <2>2, <2>5, <2>8, <2>10, <2>11 DEF ScanInv
<1> QED  BY <1>6, <1>7

\* What a match leaves behind is found, or it is the first word of the file and a later
\* one is preferred.
LEMMA MatchClassInv ==
    ASSUME InputInv, ScanInv, UNCHANGED inputs, S!MatchClass
    PROVE  ScanInv'
<1> DEFINE f == at
           words == tree[at].words
<1>0. PICK m : m = S!FirstMatch
  OBVIOUS
<1>1. /\ at \in 1..Len(tree) /\ Len(tree) \in Nat /\ pc = "scan" /\ open = {}
      /\ ~S!IsSkipped /\ S!entry.kind = "file" /\ S!Candidates # {}
      /\ foundMap' = foundMap \cup {data.words[m]} /\ data' = S!Rest
  BY <1>0, DepthsAreNumbers DEF S!MatchClass, ScanInv, S!TypeOK
<1>2. UNCHANGED <<tree, layers, classes, pc, at, open, read>>
  BY DEF S!MatchClass, inputs
<1>3. /\ data.leading \in BOOLEAN /\ data.words \in Seq(Word) /\ Len(data.words) \in Nat
      /\ words \in Seq(Word) /\ Len(words) \in Nat /\ tree[at].leading \in BOOLEAN
  <2>1. tree[at] \in S!Entry
    BY <1>1, DepthsAreNumbers
  <2> QED  BY <2>1 DEF S!Entry, ScanInv, S!TypeOK
<1>4. PICK o \in 0..Len(words) : IsSearched(at, o)
  BY <1>1 DEF ScanInv
<1>5. /\ m \in S!Candidates
      /\ S!AfterSeparator = {} => m = 1 /\ ~data.leading
      /\ \A k \in S!Candidates : k < m => k = 1 /\ ~data.leading
  <2>1. S!Candidates \in SUBSET Nat /\ S!AfterSeparator \in SUBSET Nat
    BY <1>3 DEF S!Candidates, S!AfterSeparator
  <2>2. S!Candidates \subseteq 1..Len(data.words)
        /\ S!AfterSeparator = {k \in S!Candidates : k > 1 \/ data.leading}
    BY DEF S!Candidates, S!AfterSeparator
  <2>3. \A Q \in SUBSET Nat : Q # {} => S!Min(Q) \in Q /\ \A y \in Q : S!Min(Q) <= y
    <3>1. SUFFICES ASSUME NEW Q \in SUBSET Nat, Q # {}
                   PROVE  S!Min(Q) \in Q /\ \A y \in Q : S!Min(Q) <= y
      OBVIOUS
    <3>2. \E x \in Q : \A y \in Q : x <= y
      BY <3>1, LeastExists
    <3> QED  BY <3>2 DEF S!Min
  <2>4. CASE S!AfterSeparator = {}
    <3>1. m = S!Min(S!Candidates)
      BY <1>0, <2>4 DEF S!FirstMatch
    <3>2. m \in S!Candidates /\ \A y \in S!Candidates : m <= y
      BY <1>1, <2>1, <2>3, <3>1
    <3>3. \A k \in S!Candidates : k = 1 /\ ~data.leading
      BY <1>3, <2>2, <2>4
    <3> QED  BY <3>2, <3>3
  <2>5. CASE S!AfterSeparator # {}
    <3>1. m = S!Min(S!AfterSeparator)
      BY <1>0, <2>5 DEF S!FirstMatch
    <3>2. m \in S!AfterSeparator /\ \A y \in S!AfterSeparator : m <= y
      BY <2>1, <2>3, <2>5, <3>1
    <3>3. \A k \in S!Candidates : k < m => k = 1 /\ ~data.leading
      BY <1>3, <2>1, <2>2, <3>2
    <3> QED  BY <2>2, <2>5, <3>2, <3>3
  <2> QED  BY <2>4, <2>5
<1>6. m \in 1..Len(data.words) /\ data.words[m] \in classes
  BY <1>5 DEF S!Candidates
<1>7. /\ data'.leading = TRUE /\ data'.words \in Seq(Word)
      /\ Len(data'.words) = Len(data.words) - m
      /\ \A k \in 1..Len(data'.words) : data'.words[k] = data.words[m + k]
  <2>1. data'.leading = TRUE /\ data'.words = SubSeq(data.words, m + 1, Len(data.words))
    BY <1>0, <1>1 DEF S!Rest
  <2> QED  BY <1>3, <1>6, <2>1, SubSeqProperties
<1>8. S!TypeOK'
  BY <1>1, <1>2, <1>6, <1>7 DEF ScanInv, S!TypeOK
<1>9. IsSearched(at, o + m)'
  <2>1. /\ Len(data.words) = Len(words) - o /\ data.leading = (o > 0 \/ tree[f].leading)
        /\ \A k \in 1..Len(data.words) : data.words[k] = words[o + k]
        /\ \A k \in 1..o : IsMissed(f, k)
    BY <1>4 DEF IsSearched
  <2>2. ASSUME NEW k \in 1..(o + m) PROVE IsMissed(f, k)'
    <3>1. CASE k <= o
      <4>1. IsMissed(f, k)
        BY <2>1, <2>2, <3>1
      <4> QED  BY <1>1, <1>2, <4>1 DEF IsMissed
    <3>2. CASE k = o + m
      <4>1. words[k] \in foundMap'
        BY <1>1, <1>6, <2>1, <3>2
      <4> QED  BY <1>2, <4>1 DEF IsMissed
    <3>3. CASE k > o /\ k < o + m
      <4>1. SUFFICES ASSUME words[k] \in classes
                     PROVE  /\ k = 1 /\ ~tree[f].leading
                            /\ \E j \in 2..Len(words) : words[j] \in classes
        BY <1>2 DEF IsMissed
      <4>2. k - o \in 1..Len(data.words) /\ k - o < m /\ data.words[k - o] = words[k]
        <5>1. k - o \in 1..Len(data.words) /\ k - o < m /\ o + (k - o) = k
          BY <1>3, <1>6, <2>2, <3>3
        <5> QED  BY <2>1, <5>1
      <4>3. k - o \in S!Candidates
        BY <4>1, <4>2 DEF S!Candidates
      <4>4. k - o = 1 /\ ~data.leading
        BY <1>5, <4>2, <4>3
      <4>5. o = 0 /\ ~tree[f].leading
        <5>1. ~(o > 0 \/ tree[f].leading)
          BY <2>1, <4>4, Zenon
        <5> QED  BY <1>3, <1>4, <5>1
      <4>6. m \in 2..Len(words) /\ words[m] \in classes
        BY <1>3, <1>6, <2>1, <3>3, <4>5, <4>4
      <4> QED  BY <4>4, <4>5, <4>6
    <3> QED  BY <1>4, <1>6, <2>2, <3>1, <3>2, <3>3
  <2>3. Len(data'.words) = Len(words) - (o + m) /\ o + m > 0
    BY <1>3, <1>6, <1>7, <2>1
  <2>4. \A k \in 1..Len(data'.words) : data'.words[k] = words[(o + m) + k]
    <3>1. SUFFICES ASSUME NEW k \in 1..Len(data'.words)
                   PROVE  data'.words[k] = words[(o + m) + k]
      OBVIOUS
    <3>2. m + k \in 1..Len(data.words) /\ o + (m + k) = (o + m) + k
      BY <1>3, <1>6, <1>7
    <3> QED  BY <1>7, <2>1, <3>2
  <2> QED  BY <1>2, <1>7, <2>2, <2>3, <2>4 DEF IsSearched
<1>10. (\E n \in 0..Len(tree[at].words) : IsSearched(at, n))'
  <2>1. o + m \in 0..Len(words)
    <3>1. Len(data.words) = Len(words) - o
      BY <1>4 DEF IsSearched
    <3> QED  BY <1>3, <1>6, <3>1
  <2> QED  BY <1>2, <1>9, <2>1
<1>11. FilesAreRead' /\ ParentsAreVisible'
  <2>1. \A k : IsPassed(k)' <=> IsPassed(k)
    BY <1>2 DEF IsPassed
  <2>2. FilesAreRead /\ read \in Seq(1..Len(tree)) /\ UNCHANGED <<inputs, read>>
    BY <1>2 DEF ScanInv, S!TypeOK
  <2>3. ParentsAreVisible'
    BY <1>2, TreeStays DEF ScanInv, ParentsAreVisible
  <2> QED  BY <2>1, <2>2, <2>3, StillRead
<1>12. NothingElseIsMissed'
  BY <1>1, <1>2 DEF ScanInv, NothingElseIsMissed, IsMissed
<1>13. (~S!IsSkipped)' /\ S!entry' = S!entry
  BY <1>1, <1>2 DEF S!IsSkipped, S!entry
<1> QED  BY <1>1, <1>2, <1>8, <1>10, <1>11, <1>12, <1>13 DEF ScanInv

\* At the end of a file no class name is left.
LEMMA EndFileInv ==
    ASSUME InputInv, ScanInv, UNCHANGED inputs, S!EndFile
    PROVE  ScanInv'
<1>1. /\ at \in 1..Len(tree) /\ Len(tree) \in Nat /\ pc = "scan" /\ open = {}
      /\ S!entry.kind = "file" /\ S!Candidates = {}
      /\ pc' = "walk" /\ at' = at + 1 /\ data' = S!NoData
  BY DepthsAreNumbers DEF S!EndFile, ScanInv, S!TypeOK
<1>2. UNCHANGED <<tree, layers, classes, open, foundMap, read>>
  BY DEF S!EndFile, inputs
<1>3. data'.leading \in BOOLEAN /\ data'.words \in Seq(Word)
  BY <1>1 DEF S!NoData
<1>4. S!TypeOK'
  BY <1>1, <1>2, <1>3 DEF ScanInv, S!TypeOK
<1>5. FilesAreRead'
  <2>1. \A k \in 1..Len(tree) : IsPassed(k)' <=> IsPassed(k)
    BY <1>1, <1>2 DEF IsPassed
  <2>2. FilesAreRead /\ read \in Seq(1..Len(tree)) /\ UNCHANGED <<inputs, read>>
    BY <1>2 DEF ScanInv, S!TypeOK
  <2> QED  BY <2>1, <2>2, StillRead
<1>6. ParentsAreVisible'
  BY <1>1, <1>2, NextIsVisible DEF ScanInv
<1>7. NothingElseIsMissed'
  <2>1. SUFFICES ASSUME NEW f \in ToSet(read), NEW k \in 1..Len(tree[f].words)
                 PROVE  IsMissed(f, k)
    BY <1>1, <1>2 DEF NothingElseIsMissed, IsMissed
  <2>2. CASE f # at
    BY <2>2 DEF ScanInv, NothingElseIsMissed
  <2>3. CASE f = at
    <3>1. PICK o \in 0..Len(tree[at].words) : IsSearched(at, o)
      BY <1>1 DEF ScanInv
    <3>2. Len(tree[at].words) \in Nat
      <4>1. tree[at] \in S!Entry
        BY <1>1, DepthsAreNumbers
      <4> QED  BY <4>1 DEF S!Entry
    <3>3. CASE k <= o
      BY <2>3, <3>1, <3>2, <3>3 DEF IsSearched
    <3>4. CASE k > o
      <4>1. k - o \in 1..Len(data.words) /\ o + (k - o) = k
        BY <2>3, <3>1, <3>2, <3>4 DEF IsSearched
      <4>2. data.words[k - o] = tree[at].words[k] /\ data.words[k - o] \notin classes
        BY <1>1, <3>1, <4>1 DEF IsSearched, S!Candidates
      <4> QED  BY <2>3, <4>2 DEF IsMissed
    <3> QED  BY <2>3, <3>2, <3>3, <3>4
  <2> QED  BY <2>2, <2>3
<1> QED  BY <1>1, <1>2, <1>4, <1>5, <1>6, <1>7 DEF ScanInv

LEMMA EndWalkInv ==
    ASSUME InputInv, ScanInv, UNCHANGED inputs, S!EndWalk
    PROVE  ScanInv'
<1>1. pc = "walk" /\ at > Len(tree) /\ pc' = "done" /\ open = {}
  BY DEF S!EndWalk, ScanInv
<1>2. UNCHANGED <<tree, layers, classes, at, open, data, foundMap, read>>
  BY DEF S!EndWalk, inputs
<1>3. S!TypeOK'
  BY <1>1, <1>2 DEF ScanInv, S!TypeOK
<1>4. FilesAreRead'
  <2>1. \A k : IsPassed(k)' <=> IsPassed(k)
    BY <1>1, <1>2 DEF IsPassed
  <2>2. FilesAreRead /\ read \in Seq(1..Len(tree)) /\ UNCHANGED <<inputs, read>>
    BY <1>2 DEF ScanInv, S!TypeOK
  <2> QED  BY <2>1, <2>2, StillRead
<1>5. ParentsAreVisible'
  BY <1>2, TreeStays DEF ScanInv, ParentsAreVisible
<1>6. NothingElseIsMissed'
  BY <1>1, <1>2 DEF ScanInv, NothingElseIsMissed, IsMissed
<1> QED  BY <1>1, <1>2, <1>3, <1>4, <1>5, <1>6 DEF ScanInv

LEMMA NextIsScanned ==
    ASSUME InputInv, ScanInv, UNCHANGED inputs, S!Next
    PROVE  ScanInv'
BY SkipDirInv, PassOverInv, OpenFileInv, ReadFileInv, MatchClassInv, EndFileInv, EndWalkInv
   DEF S!Next

\* The files read are the visible ones, and no class name in them is overlooked but the
\* first word of one.
LEMMA ScanProperties ==
    ASSUME InputInv, ScanInv
    PROVE  VisibleFilesAreRead /\ OnlyFirstIsMissed
<1>1. Len(tree) \in Nat
  BY DepthsAreNumbers
<1>2. S!ToSet(read) = ToSet(read)
  BY DEF S!ToSet, ToSet
<1>3. ASSUME pc = "done", Utilities # {}
      PROVE  ToSet(read) = {k \in 1..Len(tree) : tree[k].kind = "file" /\ S!IsVisible(k)}
  <2>1. \A k \in 1..Len(tree) : IsPassed(k)
    BY <1>1, <1>3 DEF ScanInv, S!TypeOK, IsPassed
  <2> QED  BY <1>3, <2>1 DEF ScanInv, FilesAreRead
<1>4. VisibleFilesAreRead
  BY <1>2, <1>3 DEF VisibleFilesAreRead, S!VisibleFilesAreRead, ScanInv, FilesAreRead
<1>5. OnlyFirstIsMissed
  <2>1. SUFFICES ASSUME pc = "done", NEW f \in ToSet(read), NEW k \in 1..Len(tree[f].words)
                 PROVE  IsMissed(f, k)
    BY <1>2 DEF OnlyFirstIsMissed, S!OnlyFirstIsMissed, IsMissed
  <2> QED  BY <2>1 DEF ScanInv, NothingElseIsMissed
<1> QED  BY <1>4, <1>5
-----------------------------------------------------------------------------
\* Nothing is grouped before the last file is read.
GroupInv ==
    /\ pc = "done" => GP!IInv
    /\ pc # "done" => G!Init

LEMMA GroupAssumptions ==
    ASSUME InputInv, ScanInv
    PROVE  GP!Assumptions
<1>1. Code \subseteq Int
  <2>1. MaxRune \in Int
    BY SMT DEF MaxRune
  <2> QED  BY <2>1 DEF Code
<1>2. foundMap \subseteq Word
  BY DEF InputInv, ScanInv, S!TypeOK
<1> QED  BY <1>1, <1>2 DEF GP!Assumptions, GP!Strings, Word

LEMMA GroupsAreKnown ==
    ASSUME GroupInv
    PROVE  GP!IInv
<1>1. G!Init => GP!IInv
  BY SameGroups, GP!InitIsGrouped
<1> QED  BY <1>1 DEF GroupInv

\* Steps of other stages.
LEMMA GroupsStay ==
    ASSUME GP!IInv, UNCHANGED <<foundMap, variants, seen, groups, sorted>>
    PROVE  GP!IInv'
<1>1. \A p : GP!VariantPrefix(p)' = GP!VariantPrefix(p)
  BY DEF GP!VariantPrefix, GP!VariantPrefixLength, GP!Index
<1>2. GP!GroupsAscend'
  BY DEF GP!IInv, GP!GroupsAscend
<1>3. GP!NamesAreGrouped'
  BY <1>1 DEF GP!IInv, GP!NamesAreGrouped
<1> QED  BY <1>2, <1>3 DEF GP!IInv, GP!Group

LEMMA GroupsSettle ==
    ASSUME GP!IInv, G!Done
    PROVE  ~G!Next
<1>1. sorted \in Int /\ sorted = Len(groups) /\ seen = foundMap
  BY DEF GP!IInv, G!Done
<1>2. ~G!SortGroup
  BY <1>1 DEF G!SortGroup
<1>3. \A name : ~G!AddName(name)
  BY <1>1 DEF G!AddName
<1> QED  BY <1>2, <1>3 DEF G!Next

LEMMA ScanGroups ==
    ASSUME InputInv, ScanInv, GroupInv, Scan
    PROVE  GroupInv' /\ pc # "done"
<1>1. pc # "done" /\ UNCHANGED <<variants, seen, groups, sorted>>
  BY DEF Scan, inputs, grouping, S!Next, S!SkipDir, S!PassOver, S!OpenFile, S!ReadFile,
         S!MatchClass, S!EndFile, S!EndWalk, S!Walking
<1>2. CASE pc' = "done"
  <2>1. foundMap' = foundMap
    BY <1>1, <1>2 DEF Scan, S!Next, S!SkipDir, S!PassOver, S!OpenFile, S!ReadFile,
                      S!MatchClass, S!EndFile, S!EndWalk
  <2>2. GP!IInv
    BY GroupsAreKnown
  <2>3. GP!IInv'
    BY <1>1, <2>1, <2>2, GroupsStay
  <2> QED  BY <1>1, <1>2, <2>3 DEF GroupInv
<1>3. CASE pc' # "done"
  <2>1. G!Init
    BY <1>1 DEF GroupInv
  <2>2. G!Init'
    BY <1>1, <2>1 DEF G!Init
  <2> QED  BY <1>1, <1>3, <2>2 DEF GroupInv
<1> QED  BY <1>1, <1>2, <1>3
-----------------------------------------------------------------------------
\* What is known of the rules and the groups: they are lists.
Lists ==
    /\ Len(rules) \in Nat /\ Len(GroupNames) \in Nat
    /\ \A g \in 1..Len(GroupNames) : Len(GroupNames[g]) \in Nat

\* The utility k matches the name p of the group g.
Matching(k, g, p) == rules[k].isUtility /\ GroupNames[g][p] \in rules[k].matches

\* The loops have passed the name p of the group g for the utility k.
Passed(k, g, p) ==
    \/ k <= index
    \/ /\ pos # R!Outside /\ k <= index + R!UtilityRunLength
       /\ \/ g < pos[1]
          \/ g = pos[1] /\ k - index < pos[2]
          \/ g = pos[1] /\ k - index = pos[2] /\ p < pos[3]

\* What a new rule is: one that is no utility, or one for a name a utility matches.
IsKeptRule(w) == w.of \in 1..index /\ ~rules[w.of].isUtility /\ w = R!Original(w.of)

IsNewRule(w) ==
    /\ w.of \in 1..Len(rules) /\ w.group \in 1..Len(GroupNames) /\ w.place \in 1..Len(GroupNames[w.group])
    /\ Matching(w.of, w.group, w.place) /\ Passed(w.of, w.group, w.place)
    /\ w = R!Expanded(w.of, w.group, w.place, rules[w.of].url)

OnlyRules(list) == \A m \in 1..Len(list) : IsKeptRule(list[m]) \/ IsNewRule(list[m])

\* All that the loops have passed is there.
Has(list, w) == \E m \in 1..Len(list) : list[m] = w

AllRules(list) ==
    /\ \A k \in 1..index : ~rules[k].isUtility => Has(list, R!Original(k))
    /\ \A k \in 1..Len(rules), g \in 1..Len(GroupNames) : \A p \in 1..Len(GroupNames[g]) :
          Matching(k, g, p) /\ Passed(k, g, p) => Has(list, R!Expanded(k, g, p, rules[k].url))

\* The order of new rules: strict, so that none is there twice.
Precedes(x, y) ==
    \/ x.of < y.of /\ ~R!SameRun(x.of, y.of)
    \/ /\ x.of <= y.of => R!SameRun(x.of, y.of)
       /\ y.of <= x.of => R!SameRun(y.of, x.of)
       /\ \/ x.group < y.group
          \/ x.group = y.group /\ x.of < y.of
          \/ x.group = y.group /\ x.of = y.of /\ x.place < y.place

InOrder(list) == \A a, b \in 1..Len(list) : a < b => Precedes(list[a], list[b])

IsRewritten(list) == OnlyRules(list) /\ AllRules(list) /\ InOrder(list)

\* A run is over where it is: the rule behind it is no part of it.
RunsAreWhole ==
    index \in 1..(Len(rules) - 1) =>
        ~(rules[index].isUtility /\ rules[index + 1].isUtility /\ rules[index + 1].url = rules[index].url)

Position ==
    pos # R!Outside =>
        /\ index < Len(rules) /\ hasUtilities /\ R!UtilityRunLength > 0
        /\ pos = <<pos[1], pos[2], pos[3]>>
        /\ pos[1] \in 1..(Len(GroupNames) + 1)
        /\ pos[2] \in 1..R!UtilityRunLength
        /\ pos[3] \in Nat \ {0}
        /\ pos[1] <= Len(GroupNames) => pos[3] <= Len(GroupNames[pos[1]]) \/ pos[3] = 1

\* Before the first utility nothing is copied, from then on newRules is what is
\* rewritten so far.
Progress ==
    IF hasUtilities THEN IsRewritten(newRules)
    ELSE newRules = <<>> /\ \A k \in 1..index : ~rules[k].isUtility

\* The flag is set by the first run.
Flag == hasUtilities => pos # R!Outside \/ \E k \in 1..index : rules[k].isUtility

\* The inductive invariant.
LayerInv ==
    /\ index \in 0..Len(rules) /\ hasUtilities \in BOOLEAN
    /\ \E U : newRules \in Seq(U)
    /\ Position /\ Flag /\ RunsAreWhole /\ Progress
    /\ R!Settled =>
          index = Len(rules) /\ pos = R!Outside /\ (\E U : written \in Seq(U)) /\ IsRewritten(written)
-----------------------------------------------------------------------------
\* utilityRunLength: the rules of the run are utilities of one file, and the rule
\* behind them is not.
LEMMA RunLength ==
    ASSUME Lists, index \in Nat, index < Len(rules)
    PROVE  /\ R!UtilityRunLength \in 0..(Len(rules) - index)
           /\ \A k \in (index + 1)..(index + R!UtilityRunLength) : R!IsInRun(k)
           /\ index + R!UtilityRunLength < Len(rules) => ~R!IsInRun(index + R!UtilityRunLength + 1)
<1> DEFINE ends == {k \in (index + 1)..Len(rules) : ~R!IsInRun(k)}
           n == R!UtilityRunLength
<1>0. Len(rules) \in Nat
  BY DEF Lists
<1>1. n = IF ends = {} THEN Len(rules) - index ELSE R!Min(ends) - index - 1
  BY DEF R!UtilityRunLength
<1>2. \A k \in (index + 1)..Len(rules) : R!IsInRun(k) <=> k \notin ends
  OBVIOUS
<1>3. ends \in SUBSET Nat /\ \A k \in ends : k \in (index + 1)..Len(rules)
  BY <1>0
<1> HIDE DEF ends, n
<1>4. CASE ends = {}
  <2>1. n = Len(rules) - index
    BY <1>1, <1>4
  <2> QED  BY <1>0, <1>2, <1>4, <2>1 DEF n
<1>5. CASE ends # {}
  <2>1. \E x \in ends : \A y \in ends : x <= y
    BY <1>3, <1>5, LeastExists
  <2>2. R!Min(ends) \in ends /\ \A y \in ends : R!Min(ends) <= y
    BY <2>1 DEF R!Min
  <2> DEFINE m == R!Min(ends)
  <2>3. m \in ends /\ m \in (index + 1)..Len(rules) /\ \A y \in ends : m <= y
    BY <1>3, <2>2
  <2>4. n = m - index - 1
    BY <1>1, <1>5
  <2> HIDE DEF m
  <2>5. n \in 0..(Len(rules) - index) /\ index + n + 1 = m
    BY <1>0, <2>3, <2>4
  <2>6. \A k \in (index + 1)..(index + n) : k \in (index + 1)..Len(rules) /\ k \notin ends
    BY <1>0, <2>3, <2>5
  <2>7. ~R!IsInRun(index + n + 1)
    BY <1>2, <2>3, <2>5
  <2> QED  BY <1>2, <2>5, <2>6, <2>7 DEF n
<1> QED  BY <1>4, <1>5

\* At the beginning of the loop nothing is passed.
LEMMA InitIsRewritten ==
    ASSUME Lists, R!Init
    PROVE  LayerInv
<1>1. Len(rules) \in Nat
  BY DEF Lists
<1>2. index \in 0..Len(rules) /\ hasUtilities = FALSE /\ newRules \in Seq({})
  BY <1>1 DEF R!Init
<1>3. Position /\ RunsAreWhole
  BY DEF R!Init, Position, RunsAreWhole
<1>4. Progress
  BY DEF R!Init, Progress
<1>5. ~R!Settled
  BY DEF R!Init, R!Settled
<1> QED  BY <1>2, <1>3, <1>4, <1>5 DEF LayerInv, Flag

\* Rules before the first utility, copied as they are, are in order.
LEMMA CopiesAreRewritten ==
    ASSUME Lists, index \in 0..Len(rules),
           \A k \in 1..index : ~rules[k].isUtility,
           pos = R!Outside \/ (pos = <<1, 1, 1>> /\ R!UtilityRunLength \in Nat)
    PROVE  IsRewritten([k \in 1..index |-> R!Original(k)])
<1> DEFINE list == [k \in 1..index |-> R!Original(k)]
<1>1. Len(list) = index /\ \A m \in 1..index : list[m] = R!Original(m)
  BY DEF Lists
<1>2. \A m \in 1..index : R!Original(m).of = m
  BY DEF R!Original
<1>3. index \in Nat /\ Len(rules) \in Nat /\ index <= Len(rules) /\ Len(GroupNames) \in Nat
  BY DEF Lists
<1> HIDE DEF list
<1>4. OnlyRules(list)
  <2>1. \A m \in 1..index : IsKeptRule(list[m])
    BY <1>1, <1>2 DEF IsKeptRule
  <2> QED  BY <1>1, <2>1 DEF OnlyRules
<1>5. AllRules(list)
  <2>1. ASSUME NEW k \in 1..index PROVE Has(list, R!Original(k))
    BY <1>1 DEF Has
  <2>2. ASSUME NEW k \in 1..Len(rules), NEW g \in 1..Len(GroupNames), NEW p \in 1..Len(GroupNames[g]),
               Passed(k, g, p)
        PROVE  k \in 1..index
    <3>1. Len(GroupNames[g]) \in Nat
      BY DEF Lists
    <3>2. CASE pos = R!Outside
      BY <1>3, <2>2, <3>2 DEF Passed
    <3>3. CASE pos = <<1, 1, 1>> /\ R!UtilityRunLength \in Nat
      <4>1. pos[1] = 1 /\ pos[2] = 1 /\ pos[3] = 1
        BY <3>3
      <4> QED  BY <1>3, <2>2, <3>1, <3>3, <4>1 DEF Passed
    <3> QED  BY <3>2, <3>3
  <2>3. ASSUME NEW k \in 1..Len(rules), NEW g \in 1..Len(GroupNames), NEW p \in 1..Len(GroupNames[g]),
               Passed(k, g, p)
        PROVE  ~Matching(k, g, p)
    BY <2>2, <2>3 DEF Matching
  <2> QED  BY <2>1, <2>3 DEF AllRules
<1>6. InOrder(list)
  <2>1. ASSUME NEW a \in 1..index, NEW b \in 1..index, a < b PROVE Precedes(list[a], list[b])
    <3>1. list[a].of = a /\ list[b].of = b
      BY <1>1, <1>2
    <3>2. ~R!SameRun(a, b)
      <4>1. a \in a..b
        BY <1>3, <2>1
      <4> QED  BY <4>1 DEF R!SameRun
    <3> QED  BY <2>1, <3>1, <3>2 DEF Precedes
  <2> QED  BY <1>1, <2>1 DEF InOrder
<1> QED  BY <1>4, <1>5, <1>6 DEF IsRewritten, list

\* The new rules stay what they are as the loops go on, as long as they pass no name
\* that matches, and no rule that is no utility.
LEMMA StillRewritten ==
    ASSUME Lists, UNCHANGED <<rules, GroupNames>>, index \in 0..Len(rules), index' \in 0..Len(rules), index <= index',
           NEW list, IsRewritten(list),
           \A k \in (index + 1)..index' : rules[k].isUtility,
           \A k \in 1..Len(rules), g \in 1..Len(GroupNames) : \A p \in 1..Len(GroupNames[g]) :
              Matching(k, g, p) => (Passed(k, g, p)' <=> Passed(k, g, p))
    PROVE  IsRewritten(list)'
<1>1. OnlyRules(list)'
  <2>1. ASSUME NEW m \in 1..Len(list) PROVE (IsKeptRule(list[m]) \/ IsNewRule(list[m]))'
    <3>1. CASE IsKeptRule(list[m])
      BY <3>1 DEF IsKeptRule, R!Original
    <3>2. CASE IsNewRule(list[m])
      BY <3>2 DEF IsNewRule, Matching, R!Expanded
    <3> QED  BY <2>1, <3>1, <3>2 DEF IsRewritten, OnlyRules
  <2> QED  BY <2>1 DEF OnlyRules
<1>2. AllRules(list)'
  <2>1. ASSUME NEW k \in 1..index', ~rules[k].isUtility PROVE Has(list, R!Original(k))'
    <3>1. k \in 1..index
      BY <2>1 DEF Lists
    <3> QED  BY <2>1, <3>1 DEF IsRewritten, AllRules, Has, R!Original
  <2>2. ASSUME NEW k \in 1..Len(rules), NEW g \in 1..Len(GroupNames), NEW p \in 1..Len(GroupNames[g]),
               Matching(k, g, p), Passed(k, g, p)'
        PROVE  Has(list, R!Expanded(k, g, p, rules[k].url))'
    <3>1. Has(list, R!Expanded(k, g, p, rules[k].url))
      BY <2>2 DEF IsRewritten, AllRules
    <3> QED  BY <3>1 DEF Has, R!Expanded
  <2> QED  BY <2>1, <2>2 DEF AllRules, Matching
<1>3. InOrder(list)'
  BY DEF IsRewritten, InOrder, Precedes, R!SameRun
<1> QED  BY <1>1, <1>2, <1>3 DEF IsRewritten

\* A rule more: one that is no utility, or one for the name passed.
LEMMA OneMore ==
    ASSUME Lists, UNCHANGED <<rules, GroupNames>>, index \in 0..Len(rules), index' \in 0..Len(rules), index <= index',
           NEW list, NEW U, list \in Seq(U), IsRewritten(list), NEW w,
           (IsKeptRule(w) \/ IsNewRule(w))',
           \A k \in (index + 1)..index' : ~rules[k].isUtility => w = R!Original(k),
           \A k \in 1..Len(rules), g \in 1..Len(GroupNames) : \A p \in 1..Len(GroupNames[g]) :
              /\ Passed(k, g, p) => Passed(k, g, p)'
              /\ Matching(k, g, p) /\ Passed(k, g, p)' =>
                    Passed(k, g, p) \/ w = R!Expanded(k, g, p, rules[k].url),
           \A x : IsKeptRule(x) \/ IsNewRule(x) => Precedes(x, w)
    PROVE  IsRewritten(Append(list, w))'
<1> DEFINE more == Append(list, w)
<1>1. /\ Len(list) \in Nat /\ Len(more) = Len(list) + 1
      /\ \A m \in 1..Len(list) : more[m] = list[m]
      /\ more[Len(list) + 1] = w
  <2>1. list \in Seq(U \cup {w}) /\ w \in U \cup {w}
    BY SeqMonotonic
  <2> QED  BY <2>1, AppendProperties
<1> HIDE DEF more
<1>2. \A m \in 1..Len(more) : m \in 1..Len(list) \/ m = Len(list) + 1
  BY <1>1
<1>3. \A m \in 1..Len(list) : IsKeptRule(list[m]) \/ IsNewRule(list[m])
  BY DEF IsRewritten, OnlyRules
<1>4. OnlyRules(more)'
  <2>1. ASSUME NEW m \in 1..Len(list) PROVE (IsKeptRule(list[m]) \/ IsNewRule(list[m]))'
    <3>1. CASE IsKeptRule(list[m])
      BY <3>1 DEF IsKeptRule, R!Original
    <3>2. CASE IsNewRule(list[m])
      BY <3>2 DEF IsNewRule, Matching, R!Expanded
    <3> QED  BY <1>3, <3>1, <3>2
  <2> QED  BY <1>1, <1>2, <2>1 DEF OnlyRules
<1>5. AllRules(more)'
  <2>1. ASSUME NEW x, Has(list, x) PROVE Has(more, x)
    <3>1. PICK m \in 1..Len(list) : list[m] = x
      BY <2>1 DEF Has
    <3>2. m \in 1..Len(more) /\ more[m] = x
      BY <1>1, <3>1
    <3> QED  BY <3>2 DEF Has
  <2>2. Has(more, w)
    <3>1. Len(list) + 1 \in 1..Len(more)
      BY <1>1
    <3> QED  BY <1>1, <3>1 DEF Has
  <2>3. ASSUME NEW k \in 1..index', ~rules[k].isUtility PROVE Has(more, R!Original(k))'
    <3>1. CASE k \in 1..index
      <4>1. Has(list, R!Original(k))
        BY <2>3, <3>1 DEF IsRewritten, AllRules
      <4>2. Has(more, R!Original(k))
        BY <2>1, <4>1
      <4> QED  BY <4>2 DEF Has, R!Original
    <3>2. CASE k \notin 1..index
      <4>1. k \in (index + 1)..index'
        BY <3>2 DEF Lists
      <4>2. Has(more, R!Original(k))
        BY <2>2, <2>3, <4>1
      <4> QED  BY <4>2 DEF Has, R!Original
    <3> QED  BY <3>1, <3>2
  <2>4. ASSUME NEW k \in 1..Len(rules), NEW g \in 1..Len(GroupNames), NEW p \in 1..Len(GroupNames[g]),
               Matching(k, g, p), Passed(k, g, p)'
        PROVE  Has(more, R!Expanded(k, g, p, rules[k].url))'
    <3>1. CASE Passed(k, g, p)
      <4>1. Has(list, R!Expanded(k, g, p, rules[k].url))
        BY <2>4, <3>1 DEF IsRewritten, AllRules
      <4>2. Has(more, R!Expanded(k, g, p, rules[k].url))
        BY <2>1, <4>1
      <4> QED  BY <4>2 DEF Has, R!Expanded
    <3>2. CASE w = R!Expanded(k, g, p, rules[k].url)
      <4>1. Has(more, R!Expanded(k, g, p, rules[k].url))
        BY <2>2, <3>2
      <4> QED  BY <4>1 DEF Has, R!Expanded
    <3> QED  BY <2>4, <3>1, <3>2
  <2> QED  BY <2>3, <2>4 DEF AllRules, Matching
<1>6. InOrder(more)'
  <2>1. ASSUME NEW a \in 1..Len(more), NEW b \in 1..Len(more), a < b
        PROVE  Precedes(more[a], more[b])
    <3>1. a \in 1..Len(list)
      BY <1>1, <2>1
    <3>2. CASE b \in 1..Len(list)
      BY <1>1, <2>1, <3>1, <3>2 DEF IsRewritten, InOrder
    <3>3. CASE b = Len(list) + 1
      BY <1>1, <1>3, <3>1, <3>3
    <3> QED  BY <1>2, <3>2, <3>3
  <2>2. InOrder(more)
    BY <2>1 DEF InOrder
  <2> QED  BY <2>2 DEF InOrder, Precedes, R!SameRun
<1> QED  BY <1>4, <1>5, <1>6 DEF IsRewritten, more

\* What holds of a list holds of a variable with this value.
LEMMA NewRulesNext ==
    ASSUME NEW list, newRules' = list, IsRewritten(list)'
    PROVE  IsRewritten(newRules)'
BY DEF IsRewritten, OnlyRules, AllRules, InOrder, IsKeptRule, IsNewRule, Has, Precedes, R!SameRun,
       R!Original, R!Expanded, Matching, Passed

LEMMA WrittenNext ==
    ASSUME NEW list, written' = list, IsRewritten(list)'
    PROVE  IsRewritten(written)'
BY DEF IsRewritten, OnlyRules, AllRules, InOrder, IsKeptRule, IsNewRule, Has, Precedes, R!SameRun,
       R!Original, R!Expanded, Matching, Passed

\* A rule that is no utility goes behind all others.
LEMMA KeepRuleInv ==
    ASSUME Lists, LayerInv, R!KeepRule
    PROVE  LayerInv'
<1>1. /\ index \in 0..Len(rules) /\ index < Len(rules) /\ Len(rules) \in Nat /\ Len(GroupNames) \in Nat
      /\ pos = R!Outside /\ ~R!Settled /\ R!UtilityRunLength = 0
  BY DEF LayerInv, Lists, R!KeepRule, R!More, R!Settled
<1>2. UNCHANGED <<rules, GroupNames, hasUtilities, pos, written>> /\ index' = index + 1
  BY DEF R!KeepRule
<1>3. index' \in 1..Len(rules) /\ index' \in 0..Len(rules) /\ index <= index'
  BY <1>1, <1>2
<1>4. ~rules[index + 1].isUtility
  <2>1. ~R!IsInRun(index + R!UtilityRunLength + 1)
    BY <1>1, RunLength
  <2> QED  BY <1>1, <2>1 DEF R!IsInRun
<1>5. Position' /\ ~R!Settled'
  BY <1>1, <1>2 DEF Position, R!Settled, R!Unsettled, R!Outside
<1>6. RunsAreWhole'
  BY <1>2, <1>4 DEF RunsAreWhole
<1>7. \A k \in 1..Len(rules) : \A g, p :
         /\ Passed(k, g, p) <=> k <= index
         /\ Passed(k, g, p)' <=> k <= index + 1
  BY <1>1, <1>2 DEF Passed, R!Outside
<1>8. ASSUME hasUtilities PROVE Progress' /\ \E U : newRules' \in Seq(U)
  <2>1. IsRewritten(newRules)
    BY <1>8 DEF LayerInv, Progress
  <2>2. PICK U : newRules \in Seq(U)
    BY DEF LayerInv
  <2>3. newRules' = Append(newRules, R!Original(index + 1))
    BY <1>8 DEF R!KeepRule
  <2>4. PICK w : w.of = index + 1 /\ w = R!Original(index + 1)
    BY DEF R!Original
  <2>5. IsKeptRule(w)'
    BY <1>2, <1>3, <1>4, <2>4 DEF IsKeptRule, R!Original
  <2>6. \A k \in (index + 1)..index' : k = index + 1
    BY <1>1, <1>2
  <2>7. ASSUME NEW k \in 1..Len(rules), NEW g \in 1..Len(GroupNames), NEW p \in 1..Len(GroupNames[g])
        PROVE  /\ Passed(k, g, p) => Passed(k, g, p)'
               /\ Matching(k, g, p) /\ Passed(k, g, p)' => Passed(k, g, p)
    <3>1. k <= index + 1 => k <= index \/ k = index + 1
      BY <1>1
    <3> QED  BY <1>1, <1>4, <1>7, <3>1 DEF Matching
  <2>8. ASSUME NEW x, IsKeptRule(x) \/ IsNewRule(x) PROVE Precedes(x, w)
    <3>1. x.of \in 1..index
      BY <1>1, <1>7, <2>8 DEF IsKeptRule, IsNewRule
    <3>2. ~R!SameRun(x.of, index + 1)
      <4>1. index + 1 \in (x.of)..(index + 1)
        BY <1>1, <3>1
      <4> QED  BY <1>4, <4>1 DEF R!SameRun
    <3> QED  BY <1>1, <2>4, <3>1, <3>2 DEF Precedes
  <2>9. PICK list : newRules = list
    OBVIOUS
  <2>10. IsRewritten(Append(list, w))'
    <3>1. list \in Seq(U) /\ IsRewritten(list)
      BY <2>1, <2>2, <2>9
    <3> QED  BY <1>1, <1>2, <1>3, <2>4, <2>5, <2>6, <2>7, <2>8, <3>1, OneMore
  <2>11. newRules' = Append(list, w)
    BY <2>3, <2>4, <2>9
  <2>12. IsRewritten(newRules)'
    BY <2>10, <2>11, NewRulesNext
  <2>13. newRules' \in Seq(U \cup {w})
    <3>1. newRules \in Seq(U \cup {w}) /\ w \in U \cup {w}
      BY <2>2, SeqMonotonic
    <3> QED  BY <2>9, <2>11, <3>1, AppendProperties
  <2> QED  BY <1>2, <1>8, <2>12, <2>13 DEF Progress
<1>9. ASSUME ~hasUtilities PROVE Progress' /\ \E U : newRules' \in Seq(U)
  <2>1. newRules = <<>> /\ \A k \in 1..index : ~rules[k].isUtility
    BY <1>9 DEF LayerInv, Progress
  <2>2. newRules' = <<>> /\ ~hasUtilities'
    BY <1>2, <1>9, <2>1 DEF R!KeepRule
  <2>3. \A k \in 1..(index + 1) : k \in 1..index \/ k = index + 1
    BY <1>1
  <2>4. \A k \in 1..index' : ~rules'[k].isUtility
    BY <1>2, <1>4, <2>1, <2>3
  <2>5. newRules' \in Seq({})
    BY <2>2
  <2> QED  BY <2>2, <2>4, <2>5 DEF Progress
<1>10. Progress' /\ \E U : newRules' \in Seq(U)
  BY <1>8, <1>9 DEF LayerInv
<1>11. Flag'
  <2>1. \A k \in 1..index : k \in 1..index'
    BY <1>1, <1>2
  <2> QED  BY <1>1, <1>2, <2>1 DEF LayerInv, Flag
<1> QED  BY <1>2, <1>3, <1>5, <1>6, <1>10, <1>11 DEF LayerInv

\* What is copied at the first utility, and nothing at the others.
LEMMA BeginRunInv ==
    ASSUME Lists, LayerInv, R!BeginRun
    PROVE  LayerInv'
<1>1. /\ index \in 0..Len(rules) /\ index < Len(rules) /\ Len(rules) \in Nat /\ Len(GroupNames) \in Nat
      /\ pos = R!Outside /\ ~R!Settled /\ R!UtilityRunLength > 0
  BY DEF LayerInv, Lists, R!BeginRun, R!More, R!Settled
<1>2. /\ UNCHANGED <<rules, GroupNames, index, written>> /\ hasUtilities' = TRUE
      /\ newRules' = R!RulesSoFar /\ pos' = <<1, 1, 1>>
  BY DEF R!BeginRun
<1>3. R!UtilityRunLength \in Nat /\ R!UtilityRunLength' = R!UtilityRunLength
  BY <1>1, <1>2, RunLength DEF R!UtilityRunLength, R!IsInRun
<1>4. ~R!Settled' /\ RunsAreWhole'
  BY <1>1, <1>2 DEF R!Settled, R!Unsettled, RunsAreWhole, LayerInv
<1>5. Position'
  <2>1. pos'[1] = 1 /\ pos'[2] = 1 /\ pos'[3] = 1 /\ pos' = <<pos'[1], pos'[2], pos'[3]>>
    BY <1>2
  <2>2. 1 \in 1..(Len(GroupNames) + 1) /\ 1 \in 1..R!UtilityRunLength /\ 1 \in Nat \ {0}
    BY <1>1, <1>3
  <2> QED  BY <1>1, <1>2, <1>3, <2>1, <2>2 DEF Position
<1>6. PICK list : newRules' = list
  OBVIOUS
<1>7. IsRewritten(list)' /\ \E U : list \in Seq(U)
  <2>1. IsRewritten(list) /\ \E U : list \in Seq(U)
    <3>1. CASE hasUtilities
      <4>1. list = newRules
        BY <1>2, <1>6, <3>1 DEF R!RulesSoFar
      <4> QED  BY <3>1, <4>1 DEF LayerInv, Progress
    <3>2. CASE ~hasUtilities
      <4>1. list = [k \in 1..index |-> R!Original(k)]
        BY <1>2, <1>6, <3>2 DEF R!RulesSoFar
      <4>2. \A k \in 1..index : ~rules[k].isUtility
        BY <3>2 DEF LayerInv, Progress
      <4>3. IsRewritten(list)
        BY <1>1, <4>1, <4>2, CopiesAreRewritten
      <4>4. list \in Seq({R!Original(k) : k \in 1..index})
        BY <1>1, <4>1
      <4> QED  BY <4>3, <4>4
    <3> QED  BY <3>1, <3>2
  <2>2. \A k \in 1..Len(rules), g \in 1..Len(GroupNames) : \A p \in 1..Len(GroupNames[g]) :
           Passed(k, g, p)' <=> Passed(k, g, p)
    <3>1. pos'[1] = 1 /\ pos'[2] = 1 /\ pos'[3] = 1
      BY <1>2
    <3>2. SUFFICES ASSUME NEW k \in 1..Len(rules), NEW g \in 1..Len(GroupNames),
                          NEW p \in 1..Len(GroupNames[g])
                   PROVE  Passed(k, g, p)' <=> Passed(k, g, p)
      OBVIOUS
    <3>3. Len(GroupNames[g]) \in Nat
      BY DEF Lists
    <3>4. Passed(k, g, p) <=> k <= index
      BY <1>1 DEF Passed
    <3>5. ~(g < 1) /\ ~(k - index < 1 /\ ~(k <= index)) /\ ~(p < 1)
      BY <1>1, <3>3
    <3> QED  BY <1>2, <3>1, <3>4, <3>5 DEF Passed
  <2>3. \A k \in (index + 1)..index' : rules[k].isUtility
    BY <1>1, <1>2
  <2> QED  BY <1>1, <1>2, <2>1, <2>2, <2>3, StillRewritten
<1>8. Progress' /\ \E U : newRules' \in Seq(U)
  BY <1>2, <1>6, <1>7, NewRulesNext DEF Progress
<1>9. Flag'
  BY <1>2 DEF Flag, R!Outside
<1> QED  BY <1>1, <1>2, <1>4, <1>5, <1>8, <1>9 DEF LayerInv

\* substituteUtilities: the name it is at is passed and nothing else.
LEMMA SubstituteNamePasses ==
    ASSUME Lists, LayerInv, R!SubstituteName,
           NEW k \in 1..Len(rules), NEW h \in 1..Len(GroupNames), NEW q \in 1..Len(GroupNames[h])
    PROVE  Passed(k, h, q)' <=>
              Passed(k, h, q) \/ (h = pos[1] /\ k = index + pos[2] /\ q = pos[3])
<1> DEFINE g == pos[1]
           u == pos[2]
           p == pos[3]
           n == R!UtilityRunLength
<1>1. /\ index \in Nat /\ k \in Nat /\ h \in Nat /\ q \in Nat /\ n \in Nat
      /\ g \in 1..Len(GroupNames) /\ u \in 1..n /\ p \in Nat \ {0} /\ pos # R!Outside
      /\ Len(GroupNames[g]) \in Nat /\ (p <= Len(GroupNames[g]) \/ p = 1)
  <2>1. index \in Nat /\ Len(rules) \in Nat /\ Len(GroupNames) \in Nat /\ pos # R!Outside /\ pos[1] <= Len(GroupNames)
    BY DEF LayerInv, Lists, R!SubstituteName
  <2>2. Len(GroupNames[h]) \in Nat
    BY DEF Lists
  <2>3. Position
    BY DEF LayerInv
  <2>4. index < Len(rules)
    BY <2>1, <2>3 DEF Position
  <2>5. n \in Nat
    BY <2>1, <2>4, RunLength
  <2>6. g \in 1..Len(GroupNames)
    BY <2>1, <2>3 DEF Position
  <2>7. Len(GroupNames[g]) \in Nat
    BY <2>6 DEF Lists
  <2> QED  BY <2>1, <2>2, <2>3, <2>5, <2>6, <2>7 DEF Position
<1>2. UNCHANGED <<index, rules, GroupNames>> /\ pos' = R!Following(g, u, p, n)
  BY DEF R!SubstituteName
<1>3. R!UtilityRunLength' = n
  BY <1>2 DEF R!UtilityRunLength, R!IsInRun
<1>4. q <= Len(GroupNames[h])
  <2>1. Len(GroupNames[h]) \in Nat
    BY DEF Lists
  <2> QED  BY <2>1
<1>5. Passed(k, h, q) <=>
         k <= index \/ (k <= index + n /\ (h < g \/ (h = g /\ k - index < u) \/ (h = g /\ k - index = u /\ q < p)))
  BY <1>1 DEF Passed
<1>6. k <= index \/ k - index \in Nat \ {0}
  BY <1>1
<1>7. CASE p < Len(GroupNames[g])
  <2>1. pos' = <<g, u, p + 1>>
    BY <1>2, <1>7 DEF R!Following
  <2>2. pos'[1] = g /\ pos'[2] = u /\ pos'[3] = p + 1 /\ pos' # R!Outside
    BY <1>1, <2>1 DEF R!Outside
  <2>3. Passed(k, h, q)' <=>
           k <= index \/ (k <= index + n /\ (h < g \/ (h = g /\ k - index < u) \/ (h = g /\ k - index = u /\ q < p + 1)))
    BY <1>2, <1>3, <2>2 DEF Passed
  <2> HIDE DEF g, u, p, n
  <2>4. Passed(k, h, q)' <=> Passed(k, h, q) \/ (h = g /\ k = index + u /\ q = p)
    BY <1>1, <1>5, <2>3
  <2> QED  BY <2>4 DEF g, u, p
<1>8. CASE ~(p < Len(GroupNames[g])) /\ u < n
  <2>1. pos' = <<g, u + 1, 1>>
    BY <1>2, <1>8 DEF R!Following
  <2>2. pos'[1] = g /\ pos'[2] = u + 1 /\ pos'[3] = 1 /\ pos' # R!Outside
    BY <1>1, <2>1 DEF R!Outside
  <2>3. Passed(k, h, q)' <=>
           k <= index \/ (k <= index + n /\ (h < g \/ (h = g /\ k - index < u + 1) \/ (h = g /\ k - index = u + 1 /\ q < 1)))
    BY <1>2, <1>3, <2>2 DEF Passed
  <2>4. h = g => q < p \/ q = p
    BY <1>1, <1>4, <1>8
  <2> HIDE DEF g, u, p, n
  <2>5. Passed(k, h, q)' <=> Passed(k, h, q) \/ (h = g /\ k = index + u /\ q = p)
    <3>1. ~(q < 1)
      BY <1>1
    <3>2. k <= index \/ (k - index < u + 1 <=> k - index < u \/ k = index + u)
      BY <1>1
    <3>3. k = index + u => k <= index + n /\ k - index = u
      BY <1>1
    <3>4. k - index = u <=> k = index + u
      BY <1>1
    <3> QED  BY <1>5, <2>3, <2>4, <3>1, <3>2, <3>3, <3>4
  <2> QED  BY <2>5 DEF g, u, p
<1>9. CASE ~(p < Len(GroupNames[g])) /\ ~(u < n)
  <2>1. pos' = <<g + 1, 1, 1>>
    BY <1>2, <1>9 DEF R!Following
  <2>2. pos'[1] = g + 1 /\ pos'[2] = 1 /\ pos'[3] = 1 /\ pos' # R!Outside
    BY <1>1, <2>1 DEF R!Outside
  <2>3. Passed(k, h, q)' <=>
           k <= index \/ (k <= index + n /\ (h < g + 1 \/ (h = g + 1 /\ k - index < 1) \/ (h = g + 1 /\ k - index = 1 /\ q < 1)))
    BY <1>2, <1>3, <2>2 DEF Passed
  <2>4. (h = g => q < p \/ q = p) /\ u = n
    BY <1>1, <1>4, <1>9
  <2> HIDE DEF g, u, p, n
  <2>5. Passed(k, h, q)' <=> Passed(k, h, q) \/ (h = g /\ k = index + u /\ q = p)
    <3>1. ~(q < 1) /\ (k <= index \/ ~(k - index < 1))
      BY <1>1
    <3>2. h < g + 1 <=> h < g \/ h = g
      BY <1>1
    <3>3. k <= index + n <=> k - index < u \/ k - index = u
      BY <1>1, <2>4
    <3>4. k - index = u <=> k = index + u
      BY <1>1
    <3> QED  BY <1>5, <2>3, <2>4, <3>1, <3>2, <3>3, <3>4
  <2> QED  BY <2>5 DEF g, u, p
<1> QED  BY <1>7, <1>8, <1>9

\* The rule for the name goes behind those of the run that are there.
LEMMA SubstituteNameInv ==
    ASSUME Lists, LayerInv, R!SubstituteName
    PROVE  LayerInv'
<1> DEFINE g == pos[1]
           u == pos[2]
           p == pos[3]
           n == R!UtilityRunLength
           k == index + u
<1>1. /\ index \in Nat /\ index < Len(rules) /\ Len(rules) \in Nat /\ Len(GroupNames) \in Nat
      /\ pos # R!Outside /\ hasUtilities = TRUE /\ g \in 1..Len(GroupNames)
  BY DEF LayerInv, Position, Lists, R!SubstituteName
<1>2. u \in 1..n /\ p \in Nat \ {0} /\ (p <= Len(GroupNames[g]) \/ p = 1) /\ Len(GroupNames[g]) \in Nat
  BY <1>1 DEF LayerInv, Position, Lists
<1>3. n \in 1..(Len(rules) - index) /\ \A m \in (index + 1)..(index + n) : R!IsInRun(m)
  BY <1>1, <1>2, RunLength
<1>4. k \in (index + 1)..(index + n) /\ k \in 1..Len(rules)
  BY <1>1, <1>2, <1>3
<1>5. UNCHANGED <<rules, GroupNames, index, hasUtilities, written>> /\ pos' = R!Following(g, u, p, n)
  BY DEF R!SubstituteName
<1>6. R!UtilityRunLength' = n
  BY <1>5 DEF R!UtilityRunLength, R!IsInRun
<1>7. ~R!Settled /\ ~R!Settled' /\ RunsAreWhole /\ RunsAreWhole' /\ Progress
  BY <1>1, <1>5 DEF LayerInv, R!Settled, R!Unsettled, RunsAreWhole
<1>8. Position' /\ Flag'
  <2>1. \E a, b, c : /\ pos' = <<a, b, c>> /\ a \in 1..(Len(GroupNames) + 1) /\ b \in 1..n
                     /\ c \in Nat \ {0} /\ (a <= Len(GroupNames) => c <= Len(GroupNames[a]) \/ c = 1)
    <3>1. CASE p < Len(GroupNames[g])
      <4>1. pos' = <<g, u, p + 1>>
        BY <1>5, <3>1 DEF R!Following
      <4>2. g \in 1..(Len(GroupNames) + 1) /\ p + 1 \in Nat \ {0} /\ p + 1 <= Len(GroupNames[g])
        BY <1>1, <1>2, <3>1
      <4> HIDE DEF g, u, p, n
      <4> QED  BY <1>2, <4>1, <4>2
    <3>2. CASE ~(p < Len(GroupNames[g])) /\ u < n
      <4>1. pos' = <<g, u + 1, 1>>
        BY <1>5, <3>2 DEF R!Following
      <4>2. g \in 1..(Len(GroupNames) + 1) /\ u + 1 \in 1..n
        BY <1>1, <1>2, <1>3, <3>2
      <4> HIDE DEF g, u, p, n
      <4> QED  BY <4>1, <4>2
    <3>3. CASE ~(p < Len(GroupNames[g])) /\ ~(u < n)
      <4>1. pos' = <<g + 1, 1, 1>>
        BY <1>5, <3>3 DEF R!Following
      <4>2. g + 1 \in 1..(Len(GroupNames) + 1) /\ 1 \in 1..n
        BY <1>1, <1>3
      <4> HIDE DEF g, u, p, n
      <4> QED  BY <4>1, <4>2
    <3> QED  BY <3>1, <3>2, <3>3
  <2>2. PICK a, b, c : /\ pos' = <<a, b, c>> /\ a \in 1..(Len(GroupNames) + 1) /\ b \in 1..n
                       /\ c \in Nat \ {0} /\ (a <= Len(GroupNames) => c <= Len(GroupNames[a]) \/ c = 1)
    BY <2>1
  <2>3. pos'[1] = a /\ pos'[2] = b /\ pos'[3] = c
    BY <2>2
  <2>4. n > 0
    BY <1>3
  <2>5. pos' # R!Outside
    BY <2>2 DEF R!Outside
  <2> QED  BY <1>1, <1>5, <1>6, <2>2, <2>3, <2>4, <2>5 DEF Position, Flag
<1>9. \A l \in 1..Len(rules), h \in 1..Len(GroupNames) : \A q \in 1..Len(GroupNames[h]) :
         Passed(l, h, q)' <=> Passed(l, h, q) \/ (h = g /\ l = k /\ q = p)
  BY SubstituteNamePasses
<1>10. IsRewritten(newRules) /\ \E U : newRules \in Seq(U)
  BY <1>1 DEF LayerInv, Progress
<1>11. PICK list : list = newRules
  OBVIOUS
<1>12. PICK U : list \in Seq(U)
  BY <1>10, <1>11
<1>13. IsRewritten(list)
  BY <1>10, <1>11
<1>14. rules[k].isUtility /\ rules[k].url = rules[index + 1].url
  BY <1>3, <1>4 DEF R!IsInRun
<1> HIDE DEF n, k
<1>15. \A l \in (index + 1)..index' : FALSE
  BY <1>1, <1>5
<1>16. index \in 0..Len(rules) /\ index' \in 0..Len(rules) /\ index <= index'
  BY <1>1, <1>5
<1>17. (IsRewritten(newRules) /\ \E set : newRules \in Seq(set))'
  <2>1. CASE p <= Len(GroupNames[g]) /\ GroupNames[g][p] \in rules[k].matches
    <3>1. PICK w : w = R!Expanded(k, g, p, rules[index + 1].url)
      OBVIOUS
    <3>2. w.of = k /\ w.group = g /\ w.place = p /\ w = R!Expanded(k, g, p, rules[k].url)
      BY <1>14, <3>1 DEF R!Expanded
    <3>3. newRules' = Append(list, w)
      BY <1>11, <2>1, <3>1 DEF R!SubstituteName, k
    <3>4. p \in 1..Len(GroupNames[g])
      BY <1>2, <2>1
    <3>5. IsNewRule(w)'
      <4>1. w.of \in 1..Len(rules) /\ w.group \in 1..Len(GroupNames) /\ w.place \in 1..Len(GroupNames[w.group])
        BY <1>1, <1>4, <3>2, <3>4
      <4>2. Passed(w.of, w.group, w.place)'
        BY <1>9, <3>2, <4>1
      <4>3. Matching(w.of, w.group, w.place)
        BY <1>14, <2>1, <3>2 DEF Matching
      <4>4. w = R!Expanded(w.of, w.group, w.place, rules[w.of].url)
        BY <3>2
      <4> QED  BY <1>5, <4>1, <4>2, <4>3, <4>4 DEF IsNewRule, Matching, R!Expanded
    <3>6. ASSUME NEW x, IsKeptRule(x) \/ IsNewRule(x) PROVE Precedes(x, w)
      <4>1. x.of \in 1..Len(rules)
        BY <1>1, <3>6 DEF IsKeptRule, IsNewRule
      <4>2. CASE x.of <= index
        <5>1. ~R!SameRun(x.of, k)
          <6>1. index \in (x.of)..k /\ index + 1 \in (x.of)..k /\ index \in 1..(Len(rules) - 1)
            BY <1>1, <1>4, <4>1, <4>2
          <6> QED  BY <1>7, <6>1 DEF R!SameRun, RunsAreWhole
        <5>2. x.of < k
          BY <1>1, <1>4, <4>1, <4>2
        <5> QED  BY <3>2, <5>1, <5>2 DEF Precedes
      <4>3. CASE ~(x.of <= index)
        <5>1. IsNewRule(x)
          BY <1>1, <3>6, <4>3 DEF IsKeptRule
        <5>2. x.group \in Nat /\ x.place \in Nat /\ g \in Nat /\ p \in Nat
          BY <1>1, <1>2, <5>1 DEF IsNewRule, Lists
        <5>3. /\ x.of <= index + n
              /\ x.group < g \/ (x.group = g /\ x.of - index < u) \/ (x.group = g /\ x.of - index = u /\ x.place < p)
          BY <4>3, <5>1 DEF IsNewRule, Passed, n
        <5>4. \A a, b \in (index + 1)..(index + n) : R!SameRun(a, b)
          <6>1. ASSUME NEW a \in (index + 1)..(index + n), NEW b \in (index + 1)..(index + n), NEW m \in a..b
                PROVE  rules[m].isUtility /\ rules[m].url = rules[a].url
            <7>1. m \in (index + 1)..(index + n)
              BY <1>1, <1>3, <6>1
            <7> QED  BY <1>3, <7>1 DEF R!IsInRun, n
          <6> QED  BY <6>1 DEF R!SameRun
        <5>5. x.of \in (index + 1)..(index + n)
          BY <1>1, <1>3, <4>1, <4>3, <5>3
        <5>6. R!SameRun(x.of, k) /\ R!SameRun(k, x.of)
          BY <1>4, <5>4, <5>5 DEF n
        <5>7. (x.of - index < u => x.of < k) /\ (x.of - index = u => x.of = k)
          <6>1. x.of \in Int /\ index \in Int /\ u \in Int /\ k = index + u
            BY <1>1, <1>2, <1>3, <4>1 DEF k
          <6> HIDE DEF k
          <6> QED  BY <6>1
        <5> QED  BY <3>2, <5>3, <5>6, <5>7 DEF Precedes
      <4> QED  BY <4>2, <4>3
    <3>7. ASSUME NEW l \in 1..Len(rules), NEW h \in 1..Len(GroupNames), NEW q \in 1..Len(GroupNames[h])
          PROVE  /\ Passed(l, h, q) => Passed(l, h, q)'
                 /\ Matching(l, h, q) /\ Passed(l, h, q)' =>
                       Passed(l, h, q) \/ w = R!Expanded(l, h, q, rules[l].url)
      BY <1>9, <3>2
    <3>8. IsRewritten(Append(list, w))'
      BY <1>5, <1>12, <1>13, <1>15, <1>16, <3>5, <3>6, <3>7, OneMore
    <3>9. IsRewritten(newRules)'
      BY <3>3, <3>8, NewRulesNext
    <3>10. newRules' \in Seq(U \cup {w})
      <4>1. list \in Seq(U \cup {w}) /\ w \in U \cup {w}
        BY <1>12, SeqMonotonic
      <4> QED  BY <3>3, <4>1, AppendProperties
    <3> QED  BY <3>9, <3>10
  <2>2. CASE ~(p <= Len(GroupNames[g]) /\ GroupNames[g][p] \in rules[k].matches)
    <3>1. newRules' = list
      BY <1>11, <2>2 DEF R!SubstituteName, k
    <3>2. ASSUME NEW l \in 1..Len(rules), NEW h \in 1..Len(GroupNames), NEW q \in 1..Len(GroupNames[h]),
                 Matching(l, h, q)
          PROVE  Passed(l, h, q)' <=> Passed(l, h, q)
      <4>1. ~(h = g /\ l = k /\ q = p)
        BY <1>2, <2>2, <3>2 DEF Matching
      <4> QED  BY <1>9, <4>1
    <3>3. IsRewritten(list)'
      BY <1>5, <1>13, <1>15, <1>16, <3>2, StillRewritten
    <3> QED  BY <1>12, <3>1, <3>3, NewRulesNext
  <2> QED  BY <2>1, <2>2
<1>18. Progress'
  BY <1>1, <1>5, <1>17 DEF Progress
<1> QED  BY <1>1, <1>5, <1>7, <1>8, <1>16, <1>17, <1>18 DEF LayerInv

\* When the loops are done, all of the run is replaced.
LEMMA EndRunInv ==
    ASSUME Lists, LayerInv, R!EndRun
    PROVE  LayerInv'
<1> DEFINE n == R!UtilityRunLength
<1>1. /\ index \in Nat /\ index < Len(rules) /\ Len(rules) \in Nat /\ Len(GroupNames) \in Nat
      /\ pos # R!Outside /\ hasUtilities = TRUE /\ pos[1] > Len(GroupNames) /\ pos[1] \in Nat
  BY DEF LayerInv, Position, Lists, R!EndRun
<1>2. /\ n \in 0..(Len(rules) - index) /\ \A m \in (index + 1)..(index + n) : R!IsInRun(m)
      /\ index + n < Len(rules) => ~R!IsInRun(index + n + 1)
  BY <1>1, RunLength
<1>3. n > 0
  BY <1>1 DEF LayerInv, Position
<1>4. UNCHANGED <<rules, GroupNames, hasUtilities, newRules, written>> /\ index' = index + n /\ pos' = R!Outside
  BY DEF R!EndRun
<1>5. index \in 0..Len(rules) /\ index' \in 1..Len(rules) /\ index' \in 0..Len(rules) /\ index <= index'
  BY <1>1, <1>2, <1>3, <1>4
<1>6. ~R!Settled' /\ Position'
  BY <1>1, <1>4 DEF LayerInv, R!Settled, Position
<1>7. RunsAreWhole'
  <2>1. ASSUME index' \in 1..(Len(rules) - 1)
        PROVE  ~(rules[index'].isUtility /\ rules[index' + 1].isUtility /\ rules[index' + 1].url = rules[index'].url)
    <3>1. index' \in (index + 1)..(index + n) /\ index + n < Len(rules) /\ index' + 1 = index + n + 1
      BY <1>1, <1>2, <1>3, <1>4, <2>1
    <3>2. R!IsInRun(index') /\ ~R!IsInRun(index' + 1)
      BY <1>2, <3>1
    <3> QED  BY <3>2 DEF R!IsInRun
  <2> QED  BY <1>4, <2>1 DEF RunsAreWhole
<1>8. ASSUME NEW k \in 1..Len(rules), NEW g \in 1..Len(GroupNames), NEW p \in 1..Len(GroupNames[g])
      PROVE  Passed(k, g, p)' <=> Passed(k, g, p)
  <2>1. Passed(k, g, p)' <=> k <= index + n
    BY <1>4 DEF Passed
  <2>2. g < pos[1]
    BY <1>1
  <2>3. k <= index => k <= index + n
    BY <1>1, <1>2
  <2> QED  BY <1>1, <2>1, <2>2, <2>3 DEF Passed
<1>9. \A k \in (index + 1)..index' : rules[k].isUtility
  BY <1>2, <1>4 DEF R!IsInRun
<1>10. PICK list : list = newRules
  OBVIOUS
<1>11. IsRewritten(list) /\ \E U : list \in Seq(U)
  BY <1>1, <1>10 DEF LayerInv, Progress
<1> HIDE DEF n
<1>12. IsRewritten(list)'
  BY <1>4, <1>5, <1>8, <1>9, <1>11, StillRewritten
<1>13. newRules' = list
  BY <1>4, <1>10
<1>14. Progress' /\ \E U : newRules' \in Seq(U)
  BY <1>1, <1>4, <1>11, <1>12, <1>13, NewRulesNext DEF Progress
<1>15. Flag'
  <2>1. index' \in (index + 1)..index' /\ index' \in 1..index'
    BY <1>1, <1>2, <1>3, <1>4, <1>5 DEF n
  <2> QED  BY <1>4, <1>9, <2>1 DEF Flag
<1> QED  BY <1>1, <1>4, <1>5, <1>6, <1>7, <1>14, <1>15 DEF LayerInv

\* At the end the layer consists of the new rules, or of its own.
LEMMA FinishInv ==
    ASSUME Lists, LayerInv, R!Finish
    PROVE  LayerInv'
<1>1. index \in 0..Len(rules) /\ index = Len(rules) /\ Len(rules) \in Nat /\ pos = R!Outside /\ ~R!Settled
  BY DEF LayerInv, Lists, R!Finish, R!Settled
<1>2. UNCHANGED <<rules, GroupNames, index, hasUtilities, newRules, pos>>
  BY DEF R!Finish
<1>3. Position' /\ Flag' /\ RunsAreWhole'
  BY <1>1, <1>2 DEF LayerInv, Position, Flag, RunsAreWhole, R!Outside
<1>4. PICK list : list = newRules
  OBVIOUS
<1>5. PICK end : end = written'
  OBVIOUS
<1>6. ASSUME NEW x, IsRewritten(x) PROVE IsRewritten(x)'
  <2>1. R!UtilityRunLength' = R!UtilityRunLength
    BY <1>2 DEF R!UtilityRunLength, R!IsInRun
  <2>2. \A k \in 1..Len(rules), g \in 1..Len(GroupNames) : \A p \in 1..Len(GroupNames[g]) :
           Passed(k, g, p)' <=> Passed(k, g, p)
    BY <1>2, <2>1 DEF Passed, R!Outside
  <2>3. \A k \in (index + 1)..index' : rules[k].isUtility
    BY <1>1, <1>2
  <2> QED  BY <1>1, <1>2, <1>6, <2>2, <2>3, StillRewritten
<1>7. IsRewritten(end) /\ \E U : end \in Seq(U)
  <2>1. CASE hasUtilities
    <3>1. end = newRules
      BY <1>5, <2>1 DEF R!Finish
    <3> QED  BY <2>1, <3>1 DEF LayerInv, Progress
  <2>2. CASE ~hasUtilities
    <3>1. end = [k \in 1..index |-> R!Original(k)]
      BY <1>1, <1>5, <2>2 DEF R!Finish
    <3>2. \A k \in 1..index : ~rules[k].isUtility
      BY <2>2 DEF LayerInv, Progress
    <3>3. IsRewritten(end)
      BY <1>1, <3>1, <3>2, CopiesAreRewritten
    <3>4. end \in Seq({R!Original(k) : k \in 1..index})
      BY <1>1, <3>1
    <3> QED  BY <3>3, <3>4
  <2> QED  BY <2>1, <2>2
<1>8. IsRewritten(written)' /\ \E U : written' \in Seq(U)
  BY <1>5, <1>6, <1>7, WrittenNext
<1>9. Progress' /\ \E U : newRules' \in Seq(U)
  <2>1. \E U : newRules' \in Seq(U)
    BY <1>2 DEF LayerInv
  <2>2. CASE hasUtilities
    <3>1. IsRewritten(list)
      BY <1>4, <2>2 DEF LayerInv, Progress
    <3>2. IsRewritten(newRules)'
      BY <1>2, <1>4, <1>6, <3>1, NewRulesNext
    <3> QED  BY <1>2, <2>1, <2>2, <3>2 DEF Progress
  <2>3. CASE ~hasUtilities
    BY <1>2, <2>1, <2>3 DEF LayerInv, Progress
  <2> QED  BY <2>2, <2>3
<1> QED  BY <1>1, <1>2, <1>3, <1>8, <1>9 DEF LayerInv

LEMMA NextIsRewritten ==
    ASSUME Lists, LayerInv, R!Next
    PROVE  LayerInv'
BY KeepRuleInv, BeginRunInv, SubstituteNameInv, EndRunInv, FinishInv DEF R!Next

-----------------------------------------------------------------------------
\* A rule that precedes another is another one, and one of a list precedes itself never.
LEMMA WrittenRules ==
    ASSUME Lists, LayerInv, R!Settled
    PROVE  /\ Len(written) \in Nat /\ index = Len(rules) /\ IsRewritten(written)
           /\ \A m \in 1..Len(written) :
                 /\ written[m].of \in 1..Len(rules)
                 /\ written[m].group \in Nat /\ written[m].place \in Nat
                 /\ written[m].url = rules[written[m].of].url
                 /\ IF written[m].group = 0
                    THEN ~rules[written[m].of].isUtility /\ written[m].place = 0
                    ELSE /\ written[m].group \in 1..Len(GroupNames)
                         /\ written[m].place \in 1..Len(GroupNames[written[m].group])
                         /\ Matching(written[m].of, written[m].group, written[m].place)
<1>1. Len(written) \in Nat /\ index = Len(rules) /\ IsRewritten(written)
  BY DEF LayerInv
<1>2. ASSUME NEW m \in 1..Len(written)
      PROVE  /\ written[m].of \in 1..Len(rules)
             /\ written[m].group \in Nat /\ written[m].place \in Nat
             /\ written[m].url = rules[written[m].of].url
             /\ IF written[m].group = 0
                THEN ~rules[written[m].of].isUtility /\ written[m].place = 0
                ELSE /\ written[m].group \in 1..Len(GroupNames)
                     /\ written[m].place \in 1..Len(GroupNames[written[m].group])
                     /\ Matching(written[m].of, written[m].group, written[m].place)
  <2>1. PICK w : w = written[m]
    OBVIOUS
  <2>2. IsKeptRule(w) \/ IsNewRule(w)
    BY <1>1, <2>1 DEF IsRewritten, OnlyRules
  <2>3. CASE IsKeptRule(w)
    <3>1. w = R!Original(w.of) /\ w.of \in 1..Len(rules) /\ ~rules[w.of].isUtility
      BY <1>1, <2>3 DEF IsKeptRule
    <3>2. w.group = 0 /\ w.place = 0 /\ w.url = rules[w.of].url
      BY <3>1 DEF R!Original
    <3> QED  BY <2>1, <3>1, <3>2
  <2>4. CASE IsNewRule(w)
    <3>1. /\ w = R!Expanded(w.of, w.group, w.place, rules[w.of].url) /\ w.of \in 1..Len(rules)
          /\ w.group \in 1..Len(GroupNames) /\ w.place \in 1..Len(GroupNames[w.group])
          /\ Matching(w.of, w.group, w.place)
      BY <2>4 DEF IsNewRule
    <3>2. w.url = rules[w.of].url
      BY <3>1 DEF R!Expanded
    <3>3. w.group \in Nat /\ w.group # 0 /\ w.place \in Nat
      BY <3>1 DEF Lists
    <3> QED  BY <2>1, <3>1, <3>2, <3>3
  <2> QED  BY <2>2, <2>3, <2>4
<1> QED  BY <1>1, <1>2

\* The invariant says that every rule is there once,
LEMMA RewrittenOnce ==
    ASSUME Lists, LayerInv
    PROVE  R!EveryRuleOnce
<1> DEFINE keys == [k \in 1..Len(written) |->
                       <<written[k].of, written[k].group, written[k].place>>]
<1>1. SUFFICES ASSUME R!Settled
               PROVE  /\ R!IsInjective(keys) /\ R!ToSet(keys) = R!Expected
                      /\ \A k \in 1..Len(written) : written[k].url = rules[written[k].of].url
  BY DEF R!EveryRuleOnce
<1>2. Len(written) \in Nat /\ index = Len(rules) /\ IsRewritten(written)
  BY <1>1, WrittenRules
<1>3. \A m \in 1..Len(written) :
         /\ written[m].of \in 1..Len(rules)
         /\ written[m].group \in Nat /\ written[m].place \in Nat
         /\ written[m].url = rules[written[m].of].url
         /\ IF written[m].group = 0
            THEN ~rules[written[m].of].isUtility /\ written[m].place = 0
            ELSE /\ written[m].group \in 1..Len(GroupNames)
                 /\ written[m].place \in 1..Len(GroupNames[written[m].group])
                 /\ Matching(written[m].of, written[m].group, written[m].place)
  BY <1>1, WrittenRules
<1>4. Len(rules) \in Nat /\ Len(GroupNames) \in Nat
  BY DEF Lists
<1>5. \A a, b \in 1..Len(written) : a < b => keys[a] # keys[b]
  <2>1. SUFFICES ASSUME NEW a \in 1..Len(written), NEW b \in 1..Len(written), a < b,
                        keys[a] = keys[b]
                 PROVE  FALSE
    OBVIOUS
  <2>2. PICK x, y : x = written[a] /\ y = written[b]
    OBVIOUS
  <2>3. Precedes(x, y)
    BY <1>2, <2>1, <2>2 DEF IsRewritten, InOrder
  <2>4. x.of = y.of /\ x.group = y.group /\ x.place = y.place
    BY <2>1, <2>2
  <2>5. x.of \in Nat /\ x.group \in Nat /\ x.place \in Nat
    BY <1>3, <1>4, <2>2
  <2> QED  BY <2>3, <2>4, <2>5 DEF Precedes
<1>6. R!IsInjective(keys)
  <2>1. DOMAIN keys = 1..Len(written)
    OBVIOUS
  <2>2. \A a, b \in 1..Len(written) : a < b \/ b < a \/ a = b
    BY <1>2
  <2> HIDE DEF keys
  <2> QED  BY <1>5, <2>1, <2>2 DEF R!IsInjective
<1>7. \A e \in R!ToSet(keys) : e \in R!Expected
  <2>1. SUFFICES ASSUME NEW m \in 1..Len(written)
                 PROVE  <<written[m].of, written[m].group, written[m].place>> \in R!Expected
    BY DEF R!ToSet
  <2>2. PICK k, g, p : k = written[m].of /\ g = written[m].group /\ p = written[m].place
    OBVIOUS
  <2>3. CASE g = 0
    BY <1>3, <2>2, <2>3 DEF R!Expected
  <2>4. CASE g # 0
    BY <1>3, <2>2, <2>4 DEF R!Expected, Matching
  <2> QED  BY <2>3, <2>4
<1>8. \A e \in R!Expected : e \in R!ToSet(keys)
  <2>1. \A m \in 1..Len(written) : keys[m] \in R!ToSet(keys)
    BY DEF R!ToSet
  <2>2. \A m \in 1..Len(written) : \A k, g, p :
           keys[m] = <<k, g, p>> <=> written[m].of = k /\ written[m].group = g /\ written[m].place = p
    OBVIOUS
  <2> HIDE DEF keys
  <2>3. ASSUME NEW k \in 1..Len(rules), ~rules[k].isUtility PROVE <<k, 0, 0>> \in R!ToSet(keys)
    <3>1. PICK m \in 1..Len(written) : written[m] = R!Original(k)
      BY <1>2, <2>3 DEF IsRewritten, AllRules, Has
    <3>2. keys[m] = <<k, 0, 0>>
      BY <2>2, <3>1 DEF R!Original
    <3> QED  BY <2>1, <3>2
  <2>4. ASSUME NEW k \in 1..Len(rules), NEW g \in 1..Len(GroupNames), NEW p \in 1..Len(GroupNames[g]),
               rules[k].isUtility, GroupNames[g][p] \in rules[k].matches
        PROVE  <<k, g, p>> \in R!ToSet(keys)
    <3>1. Matching(k, g, p) /\ Passed(k, g, p)
      BY <1>2, <1>4, <2>4 DEF Matching, Passed
    <3>2. PICK m \in 1..Len(written) : written[m] = R!Expanded(k, g, p, rules[k].url)
      BY <1>2, <3>1 DEF IsRewritten, AllRules, Has
    <3>3. PICK w : w = written[m]
      OBVIOUS
    <3>4. w.of = k /\ w.group = g /\ w.place = p
      BY <3>2, <3>3 DEF R!Expanded
    <3>5. keys[m] = <<k, g, p>>
      BY <2>2, <3>3, <3>4
    <3> QED  BY <2>1, <3>5
  <2> QED  BY <2>3, <2>4 DEF R!Expected
<1> QED  BY <1>3, <1>6, <1>7, <1>8

\* and in its order.
LEMMA RewrittenInOrder ==
    ASSUME Lists, LayerInv
    PROVE  R!OrderIsKept
<1>1. SUFFICES ASSUME R!Settled, NEW a \in 1..Len(written), NEW b \in 1..Len(written), a < b,
                      NEW x, NEW y, x = written[a], y = written[b],
                      ~(x.of <= y.of /\ ~R!SameRun(x.of, y.of))
               PROVE  /\ R!SameRun(R!Min({x.of, y.of}), R!Max({x.of, y.of}))
                      /\ x.group <= y.group
                      /\ x.group = y.group => x.of <= y.of
                      /\ x.group = y.group /\ x.of = y.of => x.place < y.place
  BY DEF R!OrderIsKept
<1>2. /\ IsRewritten(written) /\ x.of \in Nat /\ y.of \in Nat /\ x.group \in Nat /\ y.group \in Nat
  BY <1>1, WrittenRules DEF Lists
<1>3. Precedes(x, y)
  BY <1>1, <1>2 DEF IsRewritten, InOrder
<1>4. /\ x.of <= y.of => R!SameRun(x.of, y.of)
      /\ y.of <= x.of => R!SameRun(y.of, x.of)
      /\ \/ x.group < y.group
         \/ x.group = y.group /\ x.of < y.of
         \/ x.group = y.group /\ x.of = y.of /\ x.place < y.place
  BY <1>1, <1>2, <1>3 DEF Precedes
<1>5. R!SameRun(R!Min({x.of, y.of}), R!Max({x.of, y.of}))
  <2>1. \A m, n \in Nat : m <= n => R!Min({m, n}) = m /\ R!Max({m, n}) = n /\ R!Min({n, m}) = m /\ R!Max({n, m}) = n
    BY DEF R!Min, R!Max
  <2>2. x.of <= y.of \/ y.of <= x.of
    BY <1>2
  <2> QED  BY <1>2, <1>4, <2>1, <2>2
<1> QED  BY <1>2, <1>4, <1>5

\* The types are right.
LEMMA RewrittenTypes ==
    ASSUME Lists, LayerInv
    PROVE  R!TypeOK
<1>1. index \in 0..Len(rules) /\ hasUtilities \in BOOLEAN
  BY DEF LayerInv
<1>2. hasUtilities = (pos # R!Outside \/ \E k \in 1..index : rules[k].isUtility)
  <2>1. ~hasUtilities => pos = R!Outside /\ \A k \in 1..index : ~rules[k].isUtility
    BY DEF LayerInv, Position, Progress
  <2>2. hasUtilities => pos # R!Outside \/ \E k \in 1..index : rules[k].isUtility
    BY DEF LayerInv, Flag
  <2> QED  BY <1>1, <2>1, <2>2
<1>3. pos \in Nat \X Nat \X Nat
  <2>1. CASE pos = R!Outside
    BY <2>1 DEF R!Outside
  <2>2. CASE pos # R!Outside
    <3>1. /\ index \in Nat /\ index < Len(rules) /\ Len(GroupNames) \in Nat /\ pos[3] \in Nat
          /\ pos = <<pos[1], pos[2], pos[3]>>
      BY <1>1, <2>2 DEF LayerInv, Position, Lists
    <3>2. R!UtilityRunLength \in Nat
      BY <3>1, RunLength DEF Lists
    <3>3. pos[1] \in Nat /\ pos[2] \in Nat
      BY <2>2, <3>1, <3>2 DEF LayerInv, Position
    <3> QED  BY <3>1, <3>3
  <2> QED  BY <2>1, <2>2
<1>4. \A k \in 1..Len(newRules) : newRules[k].of \in 1..Len(rules)
  <2>1. CASE hasUtilities
    <3>1. OnlyRules(newRules) /\ index \in Nat /\ Len(rules) \in Nat /\ index <= Len(rules)
      BY <1>1, <2>1 DEF LayerInv, Progress, IsRewritten, Lists
    <3> QED  BY <3>1 DEF OnlyRules, IsKeptRule, IsNewRule
  <2>2. CASE ~hasUtilities
    BY <2>2 DEF LayerInv, Progress
  <2> QED  BY <2>1, <2>2
<1> QED  BY <1>1, <1>2, <1>3, <1>4 DEF R!TypeOK
-----------------------------------------------------------------------------
\* The rules of a layer are rewritten when the groups are settled.
RewriteInv ==
    /\ turn \in 0..Len(layers)
    /\ turn = 0 => rules = <<>> /\ sheet = <<>> /\ R!Init
    /\ turn # 0 => pc = "done" /\ G!Done /\ Len(rules) \in Nat /\ LayerInv

LEMMA RulesAreLists == GP!IInv /\ Len(rules) \in Nat => Lists
<1> SUFFICES ASSUME GP!IInv, Len(rules) \in Nat PROVE Lists
  OBVIOUS
<1>1. groups \in Seq(GP!Group)
  BY DEF GP!IInv
<1>2. Len(groups) \in Nat /\ \A g \in 1..Len(groups) : groups[g] \in GP!Group
  BY <1>1
<1>3. \A g \in 1..Len(groups) : Len(groups[g].names) \in Nat
  BY <1>2 DEF GP!Group
<1> QED  BY <1>2, <1>3 DEF Lists, GroupNames

LEMMA RulesBegin == Lists /\ R!Init => LayerInv
BY InitIsRewritten

LEMMA RulesAreKnown ==
    ASSUME GroupInv, RewriteInv
    PROVE  Lists /\ LayerInv
<1>1. Len(rules) \in Nat
  BY DEF RewriteInv
<1>2. Lists
  BY <1>1, GroupsAreKnown, RulesAreLists
<1> QED  BY <1>2, RulesBegin DEF RewriteInv

LEMMA RulesStay ==
    ASSUME LayerInv, UNCHANGED <<groups, rules, index, hasUtilities, newRules, pos, written>>
    PROVE  LayerInv'
<1>0. GroupNames' = GroupNames
  BY DEF GroupNames
<1>1. /\ R!UtilityRunLength' = R!UtilityRunLength
      /\ R!Outside' = R!Outside /\ R!Unsettled' = R!Unsettled
  BY DEF R!UtilityRunLength, R!IsInRun, R!Outside, R!Unsettled
<1>2. /\ \A k, l : R!SameRun(k, l)' <=> R!SameRun(k, l)
      /\ \A k : R!Original(k)' = R!Original(k)
  BY DEF R!SameRun, R!Original
<1>3. \A k, g, p : /\ Matching(k, g, p)' <=> Matching(k, g, p)
                   /\ Passed(k, g, p)' <=> Passed(k, g, p)
  BY <1>0, <1>1 DEF Matching, Passed
<1>4. \A w : /\ IsKeptRule(w)' <=> IsKeptRule(w)
             /\ IsNewRule(w)' <=> IsNewRule(w)
  BY <1>0, <1>2, <1>3 DEF IsKeptRule, IsNewRule, R!Expanded
<1>5. \A list : IsRewritten(list)' <=> IsRewritten(list)
  <2>1. \A list : OnlyRules(list)' <=> OnlyRules(list)
    BY <1>4 DEF OnlyRules
  <2>2. \A list : AllRules(list)' <=> AllRules(list)
    <3>1. \A list, k : Has(list, R!Original(k))' <=> Has(list, R!Original(k))
      BY <1>2 DEF Has
    <3>2. \A list, k, g, p : Has(list, R!Expanded(k, g, p, rules[k].url))'
                               <=> Has(list, R!Expanded(k, g, p, rules[k].url))
      BY DEF Has, R!Expanded
    <3>3. \A list :
             (\A k \in 1..index : ~rules[k].isUtility => Has(list, R!Original(k)))'
                <=> \A k \in 1..index : ~rules[k].isUtility => Has(list, R!Original(k))
      BY <3>1
    <3>4. GroupNames' = GroupNames
      BY <1>0
    <3>5. \A list :
             (\A k \in 1..Len(rules), g \in 1..Len(GroupNames) : \A p \in 1..Len(GroupNames[g]) :
                 Matching(k, g, p) /\ Passed(k, g, p)
                    => Has(list, R!Expanded(k, g, p, rules[k].url)))'
                <=> \A k \in 1..Len(rules), g \in 1..Len(GroupNames) : \A p \in 1..Len(GroupNames[g]) :
                       Matching(k, g, p) /\ Passed(k, g, p)
                          => Has(list, R!Expanded(k, g, p, rules[k].url))
      BY <1>3, <3>2, <3>4
    <3> QED  BY <3>3, <3>5 DEF AllRules
  <2>3. \A list : InOrder(list)' <=> InOrder(list)
    BY <1>2 DEF InOrder, Precedes
  <2> QED  BY <2>1, <2>2, <2>3 DEF IsRewritten
<1>6. Position' /\ Flag' /\ RunsAreWhole' /\ Progress'
  <2>1. Position'
    BY <1>0, <1>1 DEF LayerInv, Position
  <2>2. Flag'
    BY <1>1 DEF LayerInv, Flag
  <2>3. RunsAreWhole'
    BY DEF LayerInv, RunsAreWhole
  <2>4. Progress'
    BY <1>5 DEF LayerInv, Progress
  <2> QED  BY <2>1, <2>2, <2>3, <2>4
<1>7. (R!Settled => /\ index = Len(rules) /\ pos = R!Outside
                    /\ (\E U : written \in Seq(U)) /\ IsRewritten(written))'
  BY <1>1, <1>5 DEF LayerInv, R!Settled
<1>8. (index \in 0..Len(rules) /\ hasUtilities \in BOOLEAN /\ \E U : newRules \in Seq(U))'
  BY DEF LayerInv
<1> QED  BY <1>6, <1>7, <1>8 DEF LayerInv

-----------------------------------------------------------------------------
\* The inductive invariant.
IInv == InputInv /\ ScanInv /\ GroupInv /\ RewriteInv

LEMMA InitIInv == Init => IInv
<1> SUFFICES ASSUME Init PROVE IInv
  OBVIOUS
<1>1. PICK in \in Inputs : tree = in.tree /\ variants = in.variants /\ layers = in.layers
  BY DEF Init
<1>2. IsInput(in)
  BY InputsAssumption
<1>3. tree \in Seq(S!Entry) /\ S!IsForest(tree) /\ layers \in Seq(Layers) /\ layers # <<>>
  BY <1>1, <1>2 DEF IsInput, S!IsForest
<1>4. classes \subseteq Word
  <2>1. SUFFICES ASSUME NEW f \in 1..Len(tree), NEW word \in ToSet(tree[f].words)
                 PROVE  word \in Word
    BY DEF Init
  <2>2. tree[f] \in S!Entry
    BY <1>3
  <2>3. tree[f].words \in Seq(Word)
    BY <2>2 DEF S!Entry
  <2> QED  BY <2>3 DEF ToSet
<1>5. InputInv
  BY <1>3, <1>4 DEF InputInv
<1>6. ScanInv
  BY <1>5, InitIsScanned DEF Init
<1>7. GroupInv
  BY SameGroups, GP!InitIsGrouped DEF Init, GroupInv
<1>8. RewriteInv
  BY <1>3 DEF Init, RewriteInv
<1> QED  BY <1>5, <1>6, <1>7, <1>8 DEF IInv

\* Steps of the stages that do not know of each other.
LEMMA InputStays ==
    ASSUME InputInv, UNCHANGED inputs
    PROVE  InputInv'
BY DEF inputs, InputInv, S!IsForest

LEMMA ScanStays ==
    ASSUME ScanInv, UNCHANGED <<inputs, scan>>
    PROVE  ScanInv'
<1>1. UNCHANGED <<tree, layers, classes, pc, at, open, data, foundMap, read>>
  BY DEF inputs, scan
<1>2. Utilities' = Utilities /\ S!entry' = S!entry /\ (S!IsSkipped' <=> S!IsSkipped)
  BY <1>1, UtilitiesStay DEF S!entry, S!IsSkipped
<1>3. S!TypeOK'
  BY <1>1 DEF ScanInv, S!TypeOK
<1>4. /\ \A k : IsPassed(k)' <=> IsPassed(k)
      /\ \A f, k : IsMissed(f, k)' <=> IsMissed(f, k)
  BY <1>1 DEF IsPassed, IsMissed
<1>5. FilesAreRead'
  BY <1>1, <1>4, StillRead DEF ScanInv, S!TypeOK
<1>6. ParentsAreVisible'
  BY <1>1, TreeStays DEF ScanInv, ParentsAreVisible
<1>7. NothingElseIsMissed'
  BY <1>1, <1>4 DEF ScanInv, NothingElseIsMissed
<1>8. \A f, o : IsSearched(f, o)' <=> IsSearched(f, o)
  BY <1>1, <1>4 DEF IsSearched
<1> QED  BY <1>1, <1>2, <1>3, <1>5, <1>6, <1>7, <1>8 DEF ScanInv

LEMMA GroupingStays ==
    ASSUME GroupInv, UNCHANGED <<inputs, scan, grouping>>
    PROVE  GroupInv' /\ (G!Done' <=> G!Done)
<1>1. UNCHANGED <<variants, pc, foundMap, seen, groups, sorted>>
  BY DEF inputs, scan, grouping
<1>2. GP!IInv => GP!IInv'
  BY <1>1, GroupsStay
<1> QED  BY <1>1, <1>2 DEF GroupInv, G!Init, G!Done

LEMMA RewritingStays ==
    ASSUME RewriteInv, UNCHANGED <<inputs, scan, grouping, rewriting, sheet>>
    PROVE  RewriteInv'
<1>1. /\ UNCHANGED <<layers, pc, turn, sheet>>
      /\ UNCHANGED <<groups, rules, index, hasUtilities, newRules, pos, written>>
      /\ UNCHANGED <<foundMap, seen, sorted>>
  BY DEF inputs, scan, grouping, rewriting
<1>2. LayerInv => LayerInv'
  BY <1>1, RulesStay
<1>3. R!Init => R!Init'
  BY <1>1 DEF R!Init, R!Outside, R!Unsettled
<1> QED  BY <1>1, <1>2, <1>3 DEF RewriteInv, G!Done

LEMMA ScanIInv ==
    ASSUME IInv, Scan
    PROVE  IInv'
<1>1. UNCHANGED <<inputs, grouping, rewriting, searching, writing>> /\ S!Next
  BY DEF Scan
<1>2. InputInv'
  BY <1>1, InputStays DEF IInv
<1>3. ScanInv'
  BY <1>1, NextIsScanned DEF IInv
<1>4. GroupInv' /\ pc # "done"
  BY ScanGroups DEF IInv
<1>5. RewriteInv'
  <2>1. turn = 0 /\ rules = <<>> /\ sheet = <<>> /\ R!Init
    BY <1>4 DEF IInv, RewriteInv
  <2>2. UNCHANGED <<layers, turn, rules, sheet, index, hasUtilities, newRules, pos, written>>
    BY <1>1 DEF inputs, rewriting, writing
  <2>3. R!Init'
    BY <2>1, <2>2 DEF R!Init, R!Outside, R!Unsettled
  <2> QED  BY <2>1, <2>2, <2>3 DEF IInv, RewriteInv
<1> QED  BY <1>2, <1>3, <1>4, <1>5 DEF IInv

LEMMA GroupIInv ==
    ASSUME IInv, Group
    PROVE  IInv'
<1>1. pc = "done" /\ UNCHANGED <<inputs, scan, rewriting, searching, writing>> /\ G!Next
  BY DEF Group
<1>2. InputInv' /\ ScanInv'
  BY <1>1, InputStays, ScanStays DEF IInv
<1>3. GP!IInv
  BY <1>1 DEF IInv, GroupInv
<1>4. GroupInv'
  <2>1. GP!Assumptions
    BY GroupAssumptions DEF IInv
  <2>2. GP!IInv'
    BY <1>1, <1>3, <2>1, SameGroups, GP!NextIsGrouped
  <2>3. pc' = "done"
    BY <1>1 DEF scan
  <2> QED  BY <2>2, <2>3 DEF GroupInv
<1>5. RewriteInv'
  <2>1. turn = 0 /\ rules = <<>> /\ sheet = <<>> /\ R!Init
    BY <1>1, <1>3, GroupsSettle DEF IInv, RewriteInv
  <2>2. UNCHANGED <<layers, turn, rules, sheet, index, hasUtilities, newRules, pos, written>>
    BY <1>1 DEF inputs, rewriting, writing
  <2>3. R!Init'
    BY <2>1, <2>2 DEF R!Init, R!Outside, R!Unsettled
  <2> QED  BY <2>1, <2>2, <2>3 DEF IInv, RewriteInv
<1> QED  BY <1>2, <1>4, <1>5 DEF IInv

\* The loop goes on to the next layer.
LEMMA BeginLayerIInv ==
    ASSUME IInv, BeginLayer
    PROVE  IInv'
<1>1. /\ pc = "done" /\ G!Done /\ turn < Len(layers) /\ turn' = turn + 1
      /\ UNCHANGED <<inputs, scan, grouping, searching, writing>>
  BY DEF BeginLayer
<1>2. InputInv' /\ ScanInv' /\ GroupInv' /\ G!Done'
  BY <1>1, InputStays, ScanStays, GroupingStays DEF IInv
<1>3. turn \in 0..Len(layers) /\ Len(layers) \in Nat /\ turn + 1 \in 1..Len(layers)
  BY <1>1 DEF IInv, InputInv, RewriteInv
<1>4. (Len(rules) \in Nat)'
  <2>1. layers[turn + 1] \in Layers
    BY <1>3 DEF IInv, InputInv
  <2>2. Len(layers[turn + 1].rules) \in Nat
    BY <2>1 DEF Layers
  <2>3. Len(rules') = Len(layers[turn + 1].rules)
    BY <2>2 DEF BeginLayer
  <2> QED  BY <2>2, <2>3
<1>5. Lists'
  <2>1. GP!IInv'
    BY <1>1, <1>2 DEF GroupInv, scan
  <2> QED  BY <1>4, <2>1, RulesAreLists, PTL
<1>6. LayerInv'
  <2>1. R!Init'
    BY DEF BeginLayer, R!Init, R!Outside, R!Unsettled
  <2> QED  BY <1>5, <2>1, RulesBegin, PTL
<1>7. pc' = "done" /\ layers' = layers /\ turn' \in 0..Len(layers) /\ turn' # 0
  BY <1>1, <1>3 DEF scan, inputs
<1>8. RewriteInv'
  BY <1>2, <1>4, <1>6, <1>7 DEF RewriteInv
<1> QED  BY <1>2, <1>8 DEF IInv

LEMMA SubstituteIInv ==
    ASSUME IInv, Substitute
    PROVE  IInv'
<1>1. /\ turn > Len(sheet) /\ R!Next
      /\ UNCHANGED <<inputs, scan, grouping, turn>>
  BY DEF Substitute
<1>2. InputInv' /\ ScanInv' /\ GroupInv' /\ (G!Done' <=> G!Done)
  BY <1>1, InputStays, ScanStays, GroupingStays DEF IInv
<1>3. turn # 0
  <2>1. turn = 0 => Len(sheet) = 0
    BY DEF IInv, RewriteInv
  <2> QED  BY <1>1, <2>1
<1>4. Lists /\ LayerInv
  BY RulesAreKnown DEF IInv
<1>5. LayerInv'
  BY <1>1, <1>4, NextIsRewritten
<1>6. rules' = rules
  BY <1>1 DEF R!Next, R!KeepRule, R!BeginRun, R!SubstituteName, R!EndRun, R!Finish
<1>7. RewriteInv'
  BY <1>1, <1>2, <1>3, <1>5, <1>6 DEF IInv, RewriteInv, inputs, scan
<1> QED  BY <1>2, <1>7 DEF IInv

\* The search for variables and the output read what the other stages leave.
LEMMA OthersIInv ==
    ASSUME IInv, BeginSearch \/ Search \/ BeginOutput \/ Write \/ UNCHANGED vars
    PROVE  IInv'
<1>1. UNCHANGED <<inputs, scan, grouping, rewriting, sheet>>
  BY DEF BeginSearch, Search, BeginOutput, Write, vars, writing, O!Begin, O!Next,
         O!OpenLayer, O!WriteRule, O!CloseLayer, O!Finish
<1> QED  BY <1>1, InputStays, ScanStays, GroupingStays, RewritingStays DEF IInv

LEMMA NextIInv == IInv /\ [Next]_vars => IInv'
<1> SUFFICES ASSUME IInv, [Next]_vars PROVE IInv'
  OBVIOUS
<1> QED  BY ScanIInv, GroupIInv, BeginLayerIInv, SubstituteIInv, OthersIInv DEF Next

\* The inductive invariant of the stages up to the rules that are written holds in
\* every reachable state.
THEOREM ProcessInvariant == Spec => []IInv
  BY InitIInv, NextIInv, PTL DEF Spec
-----------------------------------------------------------------------------
\* What is said of those stages follows from it.
LEMMA IInvProperties ==
    IInv => /\ VisibleFilesAreRead /\ OnlyFirstIsMissed
            /\ OrderDoesNotMatter /\ EveryRuleOnce /\ OrderIsKept
            /\ S!TypeOK /\ G!TypeOK /\ R!TypeOK
<1> SUFFICES ASSUME IInv
             PROVE  /\ VisibleFilesAreRead /\ OnlyFirstIsMissed
                    /\ OrderDoesNotMatter /\ EveryRuleOnce /\ OrderIsKept
                    /\ S!TypeOK /\ G!TypeOK /\ R!TypeOK
  OBVIOUS
<1>1. VisibleFilesAreRead /\ OnlyFirstIsMissed /\ S!TypeOK
  BY ScanProperties DEF IInv, ScanInv
<1>2. GP!IInv /\ GP!Assumptions
  BY GroupsAreKnown, GroupAssumptions DEF IInv
<1>3. OrderDoesNotMatter /\ G!TypeOK
  BY <1>2, SameGroups, GP!GroupsAreInOrder, GP!GroupTypes DEF OrderDoesNotMatter
<1>4. Lists /\ LayerInv
  BY RulesAreKnown DEF IInv
<1>5. EveryRuleOnce /\ OrderIsKept /\ R!TypeOK
  BY <1>4, RewrittenOnce, RewrittenInOrder, RewrittenTypes
     DEF EveryRuleOnce, OrderIsKept
<1> QED  BY <1>1, <1>3, <1>5

\* The walk over any directory trees reads the files that are not hidden, each once and
\* in order, and no file stays open (cmd/woosh/main.go, sources).
THEOREM VisibleFiles == Spec => []VisibleFilesAreRead
  BY ProcessInvariant, IInvProperties, PTL

\* Whatever the files contain, only the first word of one can be overlooked by the
\* pattern (woosh.go, the search of Process).
THEOREM FirstWords == Spec => []OnlyFirstIsMissed
  BY ProcessInvariant, IInvProperties, PTL

\* The groups of any class names with any variants come out in one order, whatever
\* the order of the map they come from (groupClassNames).
THEOREM GroupOrder == Spec => []OrderDoesNotMatter
  BY ProcessInvariant, IInvProperties, PTL

\* In a layer of any rules each utility is replaced by one rule for each class name
\* that it expands for (Process, substituteUtilities).
THEOREM RulesOnce == Spec => []EveryRuleOnce
  BY ProcessInvariant, IInvProperties, PTL

\* No rule is moved past one that it overrides, but for the groups of class names in
\* a run of utilities (Process, utilityRunLength, substituteUtilities).
THEOREM RuleOrder == Spec => []OrderIsKept
  BY ProcessInvariant, IInvProperties, PTL
-----------------------------------------------------------------------------
\* The kinds of the tokens that the program adds to those it reads.
Generated ==
    {"ident", "var", "custom", ")", "number", "percentage", "delim", "ws", "{", "}", ":", ";",
     ",", "(", "[", "]", "function", "hash", "at-keyword", "url", "bad-url", "dimension", EOF}

OutTokens == [kind : STRING \cup Generated, text : Word]
OutParts == [type : PartTypes, name : OutTokens, value : Seq(OutTokens)]

\* Tokens that are read can be written.
LEMMA TokensAreOut == Tokens \subseteq OutTokens /\ Seq(Tokens) \subseteq Seq(OutTokens)
<1>1. Tokens \subseteq OutTokens
  BY DEF Tokens, OutTokens
<1> QED  BY <1>1, SeqMonotonic

\* What the program makes of a kind and a text.
LEMMA MadeTokens ==
    /\ \A kind \in Generated : Plain(kind) \in OutTokens
    /\ \A kind \in Generated, text \in Word : Tok(kind, text) \in OutTokens
<1>1. <<>> \in Word
  BY DEF Word
<1> QED  BY <1>1 DEF Plain, Tok, OutTokens

\* Kinds, one by one.
LEMMA GeneratedKinds ==
    /\ "ident" \in Generated /\ "var" \in Generated /\ "custom" \in Generated
    /\ ")" \in Generated /\ "number" \in Generated /\ "percentage" \in Generated
    /\ "delim" \in Generated /\ "ws" \in Generated
    /\ "{" \in Generated /\ "}" \in Generated /\ ":" \in Generated /\ ";" \in Generated
    /\ "," \in Generated /\ "(" \in Generated /\ "[" \in Generated /\ "]" \in Generated
    /\ "function" \in Generated /\ "hash" \in Generated /\ "at-keyword" \in Generated
    /\ "url" \in Generated /\ "bad-url" \in Generated /\ "dimension" \in Generated
    /\ EOF \in Generated
  BY Zenon DEF Generated

-----------------------------------------------------------------------------
\* The declarations of a block of the input,
InDeclarations == {p \in Parts : p.type = "declaration"}

LEMMA DeclarationsType ==
    ASSUME NEW parts \in Seq(Parts)
    PROVE  Declarations(parts) \in Seq(InDeclarations)
<1> DEFINE F == [p \in 1..Len(parts) |->
                    IF parts[p].type = "declaration" THEN <<parts[p]>> ELSE <<>>]
<1>1. \A p \in 1..Len(parts) : F[p] \in Seq(InDeclarations)
  <2> SUFFICES ASSUME NEW p \in 1..Len(parts) PROVE F[p] \in Seq(InDeclarations)
    OBVIOUS
  <2>1. parts[p] \in Parts
    OBVIOUS
  <2>2. parts[p].type = "declaration" => parts[p] \in InDeclarations
    BY <2>1 DEF InDeclarations
  <2> QED  BY <2>2
<1>2. Len(parts) \in Nat
  OBVIOUS
<1>3. F \in Seq(Seq(InDeclarations))
  BY <1>1, <1>2
<1> HIDE DEF F
<1>4. FlattenSeq(F) \in Seq(InDeclarations)
  BY <1>3, FlattenType
<1> QED  BY <1>4 DEF Declarations, F

\* of a layer, and of all.
LEMMA ThemePartsType ==
    ASSUME NEW l \in Layers
    PROVE  ThemeParts(l) \in Seq(InDeclarations)
<1> DEFINE F == [k \in 1..Len(l.rules) |->
                   IF l.rules[k].kind # "theme" THEN <<>> ELSE Declarations(l.rules[k].parts)]
<1>1. l.rules \in Seq(Rules) /\ Len(l.rules) \in Nat
  BY DEF Layers
<1>2. \A k \in 1..Len(l.rules) : F[k] \in Seq(InDeclarations)
  <2> SUFFICES ASSUME NEW k \in 1..Len(l.rules) PROVE F[k] \in Seq(InDeclarations)
    OBVIOUS
  <2>1. l.rules[k] \in Rules
    BY <1>1
  <2>2. l.rules[k].parts \in Seq(Parts)
    BY <2>1 DEF Rules
  <2>3. Declarations(l.rules[k].parts) \in Seq(InDeclarations)
    BY <2>2, DeclarationsType
  <2> QED  BY <2>3
<1>3. F \in Seq(Seq(InDeclarations))
  <2>1. F \in [1..Len(l.rules) -> Seq(InDeclarations)]
    BY <1>2
  <2> HIDE DEF F
  <2> QED  BY <1>1, <2>1
<1> HIDE DEF F
<1>4. FlattenSeq(F) \in Seq(InDeclarations)
  BY <1>3, FlattenType
<1> QED  BY <1>4 DEF ThemeParts, F

LEMMA ThemeDeclarationsType ==
    ASSUME layers \in Seq(Layers)
    PROVE  ThemeDeclarations \in Seq(InDeclarations) /\ ThemeKeys \in Seq(Word)
<1> DEFINE F == [l \in 1..Len(layers) |-> ThemeParts(layers[l])]
<1>1. Len(layers) \in Nat /\ \A l \in 1..Len(layers) : layers[l] \in Layers
  OBVIOUS
<1>2. F \in Seq(Seq(InDeclarations))
  BY <1>1, ThemePartsType
<1> HIDE DEF F
<1>3. ThemeDeclarations \in Seq(InDeclarations)
  BY <1>2, FlattenType DEF ThemeDeclarations, F
<1>4. ThemeKeys \in Seq(Word)
  <2> DEFINE ds == ThemeDeclarations
  <2>1. Len(ds) \in Nat /\ \A k \in 1..Len(ds) : ds[k] \in InDeclarations
    BY <1>3
  <2> HIDE DEF ds
  <2>2. \A k \in 1..Len(ds) : ds[k].name.text \in Word
    BY <2>1 DEF InDeclarations, Parts, Tokens
  <2> QED  BY <2>1, <2>2 DEF ThemeKeys, ds
<1> QED  BY <1>3, <1>4

-----------------------------------------------------------------------------
\* A part of a sequence.
LEMMA SlicesAreWords ==
    ASSUME NEW Q, NEW s \in Seq(Q), NEW m \in Int, NEW n \in Int, m >= 1, n <= Len(s)
    PROVE  SubSeq(s, m, n) \in Seq(Q)
<1>1. \A k \in m..n : s[k] \in Q
  OBVIOUS
<1> QED  BY <1>1, SubSeqProperties

\* The Scanner in a value: texts are made of code points, and it never goes back.
\* The least of two numbers,
LEMMA PairMin ==
    ASSUME NEW a \in Int, NEW b \in Int
    PROVE  Min({a, b}) = IF a <= b THEN a ELSE b
<1> DEFINE m == IF a <= b THEN a ELSE b
<1>1. m \in {a, b} /\ \A y \in {a, b} : m <= y
  OBVIOUS
<1>2. \A x \in {a, b} : (\A y \in {a, b} : x <= y) => x = m
  OBVIOUS
<1> HIDE DEF m
<1>3. Min({a, b}) \in {a, b} /\ \A y \in {a, b} : Min({a, b}) <= y
  BY <1>1 DEF Min
<1>4. Min({a, b}) = m
  BY <1>2, <1>3
<1> QED  BY <1>4 DEF m

\* the characters ahead,
LEMMA PeekType ==
    ASSUME NEW s \in Word, NEW i \in Nat, NEW n \in Int
    PROVE  Peek(s, i, n) \in Word
<1>1. Len(s) \in Int
  BY DEF Word
<1>2. Min({i + n, Len(s)}) \in Int /\ Min({i + n, Len(s)}) <= Len(s)
  BY <1>1, PairMin
<1>3. i + 1 \in Int /\ i + 1 >= 1
  OBVIOUS
<1> QED  BY <1>2, <1>3, SlicesAreWords DEF Peek, Word

\* two of them,
LEMMA PeekTwo ==
    ASSUME NEW s \in Word, NEW i \in Nat, Len(Peek(s, i, 2)) >= 2
    PROVE  /\ i + 2 <= Len(s)
           /\ Peek(s, i, 2)[2] = s[i + 2]
           /\ s[i + 2] \in Code
<1> DEFINE m == Min({i + 2, Len(s)})
<1>1. Len(s) \in Int /\ s \in Seq(Code)
  BY DEF Word
<1>2. m \in Int /\ m <= Len(s) /\ m <= i + 2
  BY <1>1, PairMin
<1> HIDE DEF m
<1>3. \A k \in (i + 1)..m : s[k] \in Code
  BY <1>1, <1>2
<1>4. /\ Len(SubSeq(s, i + 1, m)) = IF i + 1 <= m THEN m - (i + 1) + 1 ELSE 0
      /\ \A k \in 1..(m - (i + 1) + 1) : SubSeq(s, i + 1, m)[k] = s[(i + 1) + k - 1]
  BY <1>1, <1>2, <1>3, SubSeqProperties
<1>5. Peek(s, i, 2) = SubSeq(s, i + 1, m)
  BY DEF Peek, m
<1>6. m = i + 2
  BY <1>2, <1>4, <1>5
<1> QED  BY <1>1, <1>2, <1>4, <1>5, <1>6

\* and how many there are of a kind: here are those that are of another.
LEMMA BeforeOthers ==
    ASSUME NEW s \in Word, NEW i \in Nat, NEW others \in SUBSET ((i + 1)..Len(s))
    PROVE  LET n == IF others = {} THEN Len(s) - i ELSE Min(others) - i - 1
           IN n \in Int /\ i + n \in Nat /\ (i <= Len(s) => n >= 0)
<1>1. Len(s) \in Nat
  BY DEF Word
<1>2. ASSUME others # {} PROVE Min(others) \in others
  <2>1. others \subseteq Nat
    OBVIOUS
  <2>2. \E x \in others : \A y \in others : x <= y
    BY <1>2, <2>1, LeastExists
  <2> QED  BY <2>2 DEF Min
<1>3. CASE others = {}
  BY <1>1, <1>3
<1>4. CASE others # {}
  <2>1. Min(others) \in (i + 1)..Len(s)
    BY <1>2, <1>4
  <2> QED  BY <1>1, <1>4, <2>1
<1> QED  BY <1>3, <1>4

\* White space, digits and hexadecimal digits.
LEMMA SpanTypes ==
    ASSUME NEW s \in Word, NEW i \in Nat
    PROVE  /\ i + Span(IsWhitespace, s, i) \in Nat
           /\ i + Span(IsDigit, s, i) \in Nat
           /\ Span(IsHexDigit, s, i) \in Int
           /\ i <= Len(s) => Span(IsHexDigit, s, i) >= 0
<1> DEFINE blanks == {j \in (i + 1)..Len(s) : ~IsWhitespace(s[j])}
           digits == {j \in (i + 1)..Len(s) : ~IsDigit(s[j])}
           hexDigits == {j \in (i + 1)..Len(s) : ~IsHexDigit(s[j])}
<1>1. /\ blanks \in SUBSET ((i + 1)..Len(s))
      /\ digits \in SUBSET ((i + 1)..Len(s))
      /\ hexDigits \in SUBSET ((i + 1)..Len(s))
  OBVIOUS
<1>2. /\ Span(IsWhitespace, s, i) = IF blanks = {} THEN Len(s) - i ELSE Min(blanks) - i - 1
      /\ Span(IsDigit, s, i) = IF digits = {} THEN Len(s) - i ELSE Min(digits) - i - 1
      /\ Span(IsHexDigit, s, i) = IF hexDigits = {} THEN Len(s) - i ELSE Min(hexDigits) - i - 1
  BY Zenon DEF Span
<1> HIDE DEF blanks, digits, hexDigits
<1> QED  BY <1>1, <1>2, BeforeOthers

\* Where a number ends.
LEMMA NumberStopType ==
    ASSUME NEW s \in Word, NEW i \in Nat
    PROVE  NumberStop(s, i) \in Nat
<1> DEFINE sign == SignStop(s, i)
           whole == DigitsStop(s, sign)
           fraction == FractionStop(s, whole)
<1>1. sign \in Nat
  BY DEF SignStop
<1> HIDE DEF sign
<1>2. whole \in Nat
  BY <1>1, SpanTypes DEF DigitsStop
<1> HIDE DEF whole
<1>3. fraction \in Nat
  <2>1. whole + 1 \in Nat
    BY <1>2
  <2>2. DigitsStop(s, whole + 1) \in Nat
    BY <2>1, SpanTypes DEF DigitsStop
  <2>3. FractionStop(s, whole) = DigitsStop(s, whole + 1) \/ FractionStop(s, whole) = whole
    BY Zenon DEF FractionStop
  <2> QED  BY <1>2, <2>2, <2>3
<1> HIDE DEF fraction
<1>4. PICK n : n = ExponentLength(Peek(s, fraction, 3))
  OBVIOUS
<1>5. fraction + n \in Nat
  <2>1. PICK p : p = Peek(s, fraction, 3)
    OBVIOUS
  <2>2. ExponentLength(p) \in {0, 2, 3}
    BY SMT DEF ExponentLength
  <2> QED  BY <1>3, <1>4, <2>1, <2>2
<1>6. DigitsStop(s, fraction + n) \in Nat
  BY <1>5, SpanTypes DEF DigitsStop
<1>7. ExponentStop(s, fraction) = fraction \/ ExponentStop(s, fraction) = DigitsStop(s, fraction + n)
  BY <1>4, Zenon DEF ExponentStop
<1>8. NumberStop(s, i) = ExponentStop(s, fraction)
  BY Zenon DEF NumberStop, sign, whole, fraction
<1> QED  BY <1>3, <1>6, <1>7, <1>8

\* A character that stands for another is a code point,
LEMMA ReplacementType == Replacement \in Code
<1>1. Replacement \in Nat
  BY SMT DEF Replacement
<1>2. MaxRune \in Nat
  BY SMT DEF MaxRune
<1>3. Replacement <= MaxRune
  BY SMT DEF Replacement, MaxRune
<1> QED  BY <1>1, <1>2, <1>3, SMT DEF Code

\* and an escape is one.
Escapes == [rune : Code, end : Nat, wrong : BOOLEAN]

LEMMA EscapedType ==
    ASSUME NEW s \in Word, NEW i \in Nat
    PROVE  Escaped(s, i) \in Escapes
<1> DEFINE p == Peek(s, i, 2)
           n == Min({6, Span(IsHexDigit, s, i + 1)})
           wrong(end) == [rune |-> Replacement, end |-> end, wrong |-> TRUE]
           digits == SubSeq(s, i + 2, i + 1 + n)
           coded == [rune |-> CodePoint(digits), end |-> SpaceAfterHex(s, i + 1 + n), wrong |-> FALSE]
           plain == [rune |-> p[2], end |-> i + 2, wrong |-> FALSE]
<1>1. Len(p) \in Nat
  <2>1. p \in Word
    BY PeekType
  <2> HIDE DEF p
  <2> QED  BY <2>1 DEF Word
<1>2. Replacement \in Code
  BY ReplacementType
<1>3. wrong(i) \in Escapes /\ wrong(i + 1) \in Escapes
  BY <1>2 DEF Escapes
<1>4. ASSUME Len(p) >= 2 PROVE coded \in Escapes /\ plain \in Escapes
  <2>1. i + 2 <= Len(s) /\ p[2] \in Code
    BY <1>4, PeekTwo
  <2>2. plain \in Escapes
    <3> HIDE DEF p
    <3> QED  BY <2>1 DEF Escapes
  <2>3. CodePoint(digits) \in Code
    <3> HIDE DEF digits
    <3>1. PICK x : x = FoldLeft(LAMBDA sum, d : 16 * sum + HexDigit(d), 0, digits)
      OBVIOUS
    <3>2. CodePoint(digits) \in 1..MaxRune \cup {Replacement}
      BY <3>1, Zenon DEF CodePoint
    <3>3. MaxRune \in Int
      BY SMT DEF MaxRune
    <3>4. 1..MaxRune \subseteq Code
      BY <3>3, SMT DEF Code
    <3> QED  BY <1>2, <3>2, <3>4, Zenon
  <2>4. n \in Nat
    <3>1. Len(s) \in Nat /\ i + 1 \in Nat /\ i + 1 <= Len(s)
      BY <2>1 DEF Word
    <3>2. Span(IsHexDigit, s, i + 1) \in Int /\ Span(IsHexDigit, s, i + 1) >= 0
      BY <3>1, SpanTypes
    <3> QED  BY <3>2, PairMin
  <2> HIDE DEF n, digits
  <2>5. SpaceAfterHex(s, i + 1 + n) \in Nat
    BY <2>4 DEF SpaceAfterHex
  <2> QED  BY <2>2, <2>3, <2>5 DEF Escapes
<1>5. \/ Escaped(s, i) = wrong(i) \/ Escaped(s, i) = wrong(i + 1)
      \/ ~(Len(p) < 2) /\ (Escaped(s, i) = coded \/ Escaped(s, i) = plain)
  <2> DEFINE isNone == p[1] # Backslash
             isNewline == Len(p) = 2 /\ p[1] = Backslash /\ p[2] = Newline
             a1 == wrong(i)
             b1 == wrong(i + 1)
  <2>1. Escaped(s, i) = CASE Len(p) < 2 \/ isNone -> a1
                          [] isNewline -> b1
                          [] OTHER -> IF IsHexDigit(p[2]) THEN coded ELSE plain
    BY Zenon DEF Escaped
  <2> HIDE DEF isNone, isNewline, p, n, digits, coded, plain, a1, b1
  <2>2. a1 = wrong(i) /\ b1 = wrong(i + 1)
    BY DEF a1, b1
  <2> HIDE DEF wrong
  <2> QED  BY <2>1, <2>2, SMT
<1> HIDE DEF p, coded, plain, wrong
<1>6. CASE Len(p) < 2
  BY <1>3, <1>5, <1>6
<1>7. CASE Len(p) >= 2
  BY <1>3, <1>4, <1>5, <1>7
<1> QED  BY <1>1, <1>6, <1>7

\* A loop whose passes keep to a set ends in it.
LEMMA LoopEndsIn ==
    ASSUME NEW n \in Nat, NEW Values, NEW f, f[0] \in Values,
           \A k \in 1..n : f[k - 1] \in Values => f[k] \in Values
    PROVE  f[n] \in Values
<1> DEFINE U == {k \in Nat : k <= n => f[k] \in Values}
<1>1. 0 \in U
  OBVIOUS
<1>2. ASSUME NEW k \in 0..(n - 1), k \in U PROVE k + 1 \in U
  <2>1. k + 1 \in 1..n /\ (k + 1) - 1 = k /\ f[k] \in Values
    BY <1>2
  <2>2. f[k + 1] \in Values
    BY <2>1
  <2> QED  BY <2>1, <2>2
<1>3. 0..n \subseteq U
  <2> HIDE DEF U
  <2> QED  BY <1>1, <1>2, BoundedInduction
<1>4. n \in 0..n
  OBVIOUS
<1> QED  BY <1>3, <1>4

\* Such a loop exists: onePass has its passes.
IsLoop(f, n, Values, b, onePass) ==
    f \in [0..n -> Values] /\ f[0] = b /\ \A k \in 1..n : f[k] = onePass[f[k - 1]]

LEMMA LoopIs ==
    ASSUME NEW n \in Nat, NEW Values, NEW b \in Values, NEW onePass \in [Values -> Values]
    PROVE  \E f : IsLoop(f, n, Values, b, onePass)
<1> DEFINE B == [k \in 1..n |-> onePass]
<1>1. \A k \in 1..n, x \in Values : B[k][x] = onePass[x] /\ B[k][x] \in Values
  OBVIOUS
<1> HIDE DEF B
<1>2. PICK f : Iterates(f, n, Values, b, B)
  BY <1>1, RecursionExists
<1>3. /\ f \in [0..n -> Values]
      /\ f[0] = b
      /\ \A k \in 1..n : f[k] = B[k][f[k - 1]]
  BY <1>2 DEF Iterates
<1>4. ASSUME NEW k \in 1..n PROVE f[k] = onePass[f[k - 1]]
  <2>1. k - 1 \in 0..n
    OBVIOUS
  <2> QED  BY <1>1, <1>3, <2>1
<1> QED  BY <1>3, <1>4 DEF IsLoop

\* A name.
Names == [value : Word, end : Nat]

NamePassed(s, n) ==
    CASE n.end < Len(s) /\ IsIdent(s[n.end + 1]) ->
             [value |-> Append(n.value, s[n.end + 1]), end |-> n.end + 1]
      [] StartsWithValidEscape(Peek(s, n.end, 2)) ->
             WithEscaped(n, Escaped(s, n.end))
      [] OTHER -> n

\* Each pass adds a character.
LEMMA NamePassedType ==
    ASSUME NEW s \in Word, NEW n \in Names
    PROVE  NamePassed(s, n) \in Names
<1> DEFINE isNext == n.end < Len(s) /\ IsIdent(s[n.end + 1])
           isEscape == StartsWithValidEscape(Peek(s, n.end, 2))
           next == [value |-> Append(n.value, s[n.end + 1]), end |-> n.end + 1]
           escape == WithEscaped(n, Escaped(s, n.end))
<1>1. n.value \in Word /\ n.end \in Nat /\ Len(s) \in Nat
  BY DEF Names, Word
<1>2. ASSUME isNext PROVE next \in Names
  <2>1. s[n.end + 1] \in Code
    BY <1>1, <1>2 DEF Word
  <2>2. Append(n.value, s[n.end + 1]) \in Word
    BY <1>1, <2>1 DEF Word
  <2> QED  BY <1>1, <2>2 DEF Names
<1>3. escape \in Names
  <2>1. Escaped(s, n.end) \in Escapes
    BY <1>1, EscapedType
  <2>2. PICK e : e = Escaped(s, n.end)
    OBVIOUS
  <2>3. e.rune \in Code /\ e.end \in Nat
    BY <2>1, <2>2 DEF Escapes
  <2>4. Append(n.value, e.rune) \in Word
    BY <1>1, <2>3 DEF Word
  <2>5. WithEscaped(n, e) \in Names
    BY <2>3, <2>4 DEF Names, WithEscaped
  <2> QED  BY <2>2, <2>5
<1>4. NamePassed(s, n) = CASE isNext -> next [] isEscape -> escape [] OTHER -> n
  BY Zenon DEF NamePassed
<1> HIDE DEF isNext, isEscape, next, escape
<1> QED  BY <1>2, <1>3, <1>4, SMT

\* The loop, pass after pass.
LEMMA ReadNameType ==
    ASSUME NEW s \in Word, NEW i \in Nat
    PROVE  ReadName(s, i) \in Names
<1> DEFINE N == Len(s)
           start == [value |-> <<>>, end |-> i]
           Loop(f) == f = [k \in 0..N |-> IF k = 0 THEN start ELSE NamePassed(s, f[k - 1])]
           onePass == [n \in Names |-> NamePassed(s, n)]
<1>1. N \in Nat
  BY DEF Word
<1>2. start \in Names
  BY DEF Names, Word
<1>3. onePass \in [Names -> Names] /\ \A n \in Names : onePass[n] = NamePassed(s, n)
  BY NamePassedType
<1> HIDE DEF N, start, onePass
<1>4. PICK g : IsLoop(g, N, Names, start, onePass)
  BY <1>1, <1>2, <1>3, LoopIs
<1>5. Loop(g)
  <2>1. ASSUME NEW k \in 0..N, k # 0 PROVE g[k] = NamePassed(s, g[k - 1])
    <3>1. k \in 1..N /\ k - 1 \in 0..N
      BY <1>1, <2>1
    <3> QED  BY <1>3, <1>4, <3>1 DEF IsLoop
  <2> QED  BY <1>4, <2>1 DEF IsLoop
<1>6. PICK f : f = CHOOSE h : Loop(h)
  OBVIOUS
<1>7. Loop(f)
  <2> HIDE DEF Loop
  <2> QED  BY <1>5, <1>6
<1>8. ReadName(s, i) = f[N]
  BY <1>6, Zenon DEF ReadName, NamePassed, start, N
<1>9. f[0] \in Names /\ \A k \in 1..N : f[k - 1] \in Names => f[k] \in Names
  <2>1. f[0] = start
    BY <1>1, <1>7
  <2>2. ASSUME NEW k \in 1..N PROVE f[k] = NamePassed(s, f[k - 1])
    <3>1. k \in 0..N /\ k # 0
      BY <1>1
    <3> QED  BY <1>7, <3>1
  <2> HIDE DEF Loop
  <2> QED  BY <1>2, <2>1, <2>2, NamePassedType
<1> HIDE DEF Loop
<1>10. f[N] \in Names
  BY <1>1, <1>9, LoopEndsIn
<1> QED  BY <1>8, <1>10

\* What Next returns is a token, and the Scanner is behind it.
Results == [tok : OutTokens, unit : Word, end : Nat, wrong : BOOLEAN, returns : BOOLEAN]

LEMMA ReadType ==
    ASSUME NEW tok \in OutTokens, NEW end \in Nat
    PROVE  Read(tok, end) \in Results
<1>1. <<>> \in Word
  BY DEF Word
<1> QED  BY <1>1 DEF Read, Results

\* It may have an error, or not return at all.
LEMMA ResultParts ==
    ASSUME NEW r \in Results, NEW b \in BOOLEAN
    PROVE  /\ [r EXCEPT !.wrong = b] \in Results
           /\ [r EXCEPT !.returns = b] \in Results
           /\ \A unit \in Word : [r EXCEPT !.unit = unit, !.returns = b] \in Results
  BY DEF Results

\* A token with a name,
LEMMA NamedType ==
    ASSUME NEW kind \in Generated, NEW s, NEW n \in Names
    PROVE  Named(kind, s, n) \in Results
<1>1. n.value \in Word /\ n.end \in Nat
  BY DEF Names
<1>2. PICK r : r = Read(Tok(kind, n.value), n.end)
  OBVIOUS
<1>3. r \in Results
  <2>1. Tok(kind, n.value) \in OutTokens
    BY <1>1, MadeTokens
  <2> QED  BY <1>1, <1>2, <2>1, ReadType
<1>4. Returns(s, n) \in BOOLEAN
  BY DEF Returns
<1>5. [r EXCEPT !.returns = Returns(s, n)] \in Results
  BY <1>3, <1>4, ResultParts
<1> QED  BY <1>2, <1>5, Zenon DEF Named

\* a number,
LEMMA ReadNumericType ==
    ASSUME NEW s \in Word, NEW i \in Nat
    PROVE  ReadNumeric(s, i) \in Results
<1> DEFINE end == NumberStop(s, i)
           number == Peek(s, i, end - i)
           n == ReadName(s, end)
           dimension == Read(Tok("dimension", number), n.end)
           withUnit == [dimension EXCEPT !.unit = n.value, !.returns = Returns(s, n)]
           percentage == Read(Tok("percentage", number), end + 1)
           plain == Read(Tok("number", number), end)
<1>1. end \in Nat
  BY NumberStopType
<1> HIDE DEF end
<1>2. number \in Word
  <2>1. end - i \in Int
    BY <1>1
  <2> QED  BY <2>1, PeekType
<1> HIDE DEF number
<1>3. n \in Names
  BY <1>1, ReadNameType
<1> HIDE DEF n
<1>4. n.value \in Word /\ n.end \in Nat /\ end + 1 \in Nat
  BY <1>1, <1>3 DEF Names
<1>5. dimension \in Results /\ percentage \in Results /\ plain \in Results
  <2>1. /\ Tok("dimension", number) \in OutTokens
        /\ Tok("percentage", number) \in OutTokens
        /\ Tok("number", number) \in OutTokens
    BY <1>2, MadeTokens, GeneratedKinds
  <2> QED  BY <1>1, <1>4, <2>1, ReadType
<1>6. withUnit \in Results
  <2>1. Returns(s, n) \in BOOLEAN
    BY DEF Returns
  <2> HIDE DEF dimension
  <2> QED  BY <1>4, <1>5, <2>1, ResultParts
<1>7. \/ ReadNumeric(s, i) = withUnit
      \/ ReadNumeric(s, i) = percentage
      \/ ReadNumeric(s, i) = plain
  BY Zenon DEF ReadNumeric, AfterNumber, WithUnit, end, number, n
<1> HIDE DEF withUnit, percentage, plain
<1> QED  BY <1>5, <1>6, <1>7, Zenon

\* a URL,
Urls == [kind : {"url", "bad-url"}, end : Nat, wrong : BOOLEAN, over : BOOLEAN]

LEMMA UrlParts ==
    ASSUME NEW u \in Urls, NEW end \in Nat
    PROVE  /\ [u EXCEPT !.end = end] \in Urls
           /\ [u EXCEPT !.end = end, !.over = TRUE] \in Urls
           /\ [u EXCEPT !.end = end, !.wrong = TRUE, !.over = TRUE] \in Urls
           /\ [u EXCEPT !.end = end, !.wrong = FALSE, !.over = TRUE] \in Urls
           /\ [u EXCEPT !.kind = "bad-url", !.end = end, !.wrong = TRUE] \in Urls
           /\ [u EXCEPT !.kind = "bad-url", !.end = end, !.wrong = FALSE] \in Urls
  BY DEF Urls

LEMMA UrlPassType ==
    ASSUME NEW s \in Word, NEW u \in Urls
    PROVE  UrlPass(s, u) \in Urls
<1> DEFINE e == Escaped(s, u.end)
           blank == u.end + Span(IsWhitespace, s, u.end)
           isLast == blank = Len(s) \/ s[blank + 1] = RParen
           bad(end, wrong) == [u EXCEPT !.kind = "bad-url", !.end = end, !.wrong = wrong]
           over(end, wrong) == [u EXCEPT !.end = Min({end, Len(s)}), !.wrong = wrong, !.over = TRUE]
<1>1. u.end \in Nat /\ Len(s) \in Nat
  BY DEF Urls, Word
<1>2. e.end \in Nat
  BY <1>1, EscapedType DEF Escapes
<1>3. blank \in Nat
  BY <1>1, SpanTypes
<1> HIDE DEF e, blank
<1>4. ASSUME NEW end \in Nat
      PROVE  /\ bad(end, TRUE) \in Urls /\ bad(end, FALSE) \in Urls
             /\ over(end, TRUE) \in Urls /\ over(end, FALSE) \in Urls
  <2>1. Min({end, Len(s)}) \in Nat
    BY <1>1, PairMin
  <2> QED  BY <2>1, UrlParts
<1>5. /\ over(u.end, TRUE) \in Urls /\ over(u.end + 1, FALSE) \in Urls
      /\ over(blank + 1, TRUE) \in Urls /\ bad(blank + 1, FALSE) \in Urls
      /\ bad(u.end + 1, TRUE) \in Urls /\ bad(e.end, TRUE) \in Urls
  <2>1. u.end + 1 \in Nat /\ blank + 1 \in Nat
    BY <1>1, <1>3
  <2> HIDE DEF bad, over
  <2> QED  BY <1>1, <1>2, <1>3, <1>4, <2>1, Zenon
<1>6. [u EXCEPT !.end = @ + 1] \in Urls /\ [u EXCEPT !.end = e.end] \in Urls
  <2>1. u.end + 1 \in Nat
    BY <1>1
  <2> QED  BY <1>2, <2>1, UrlParts
<1>7. \/ UrlPass(s, u) = over(u.end, TRUE) \/ UrlPass(s, u) = over(u.end + 1, FALSE)
      \/ UrlPass(s, u) = over(blank + 1, TRUE) \/ UrlPass(s, u) = bad(blank + 1, FALSE)
      \/ UrlPass(s, u) = bad(u.end + 1, TRUE) \/ UrlPass(s, u) = bad(e.end, TRUE)
      \/ UrlPass(s, u) = [u EXCEPT !.end = @ + 1] \/ UrlPass(s, u) = [u EXCEPT !.end = e.end]
  BY Zenon DEF UrlPass, AfterEscape, e, blank
<1> HIDE DEF bad, over
<1> QED  BY <1>5, <1>6, <1>7, Zenon

LEMMA BadUrlPassType ==
    ASSUME NEW s \in Word, NEW u \in Urls
    PROVE  BadUrlPass(s, u) \in Urls
<1>1. u.end \in Nat /\ Len(s) \in Nat
  BY DEF Urls, Word
<1>2. Min({u.end + 1, Len(s)}) \in Nat
  BY <1>1, PairMin
<1>3. Escaped(s, u.end + 1).end \in Nat
  BY <1>1, EscapedType DEF Escapes
<1>4. /\ [u EXCEPT !.end = Min({@ + 1, Len(s)}), !.over = TRUE] \in Urls
      /\ [u EXCEPT !.end = @ + 1] \in Urls
      /\ [u EXCEPT !.end = Escaped(s, u.end + 1).end] \in Urls
  <2>1. u.end + 1 \in Nat
    BY <1>1
  <2> QED  BY <1>2, <1>3, <2>1, UrlParts
<1> QED  BY <1>4, Zenon DEF BadUrlPass

UrlPassed(s, u) ==
    IF u.over THEN u ELSE IF u.kind = "url" THEN UrlPass(s, u) ELSE BadUrlPass(s, u)

LEMMA ReadUrlType ==
    ASSUME NEW s \in Word, NEW i \in Nat
    PROVE  ReadUrl(s, i) \in Results
<1> DEFINE N == Len(s) + 1
           start == [kind |-> "url", end |-> i + Span(IsWhitespace, s, i), wrong |-> FALSE,
                     over |-> FALSE]
           Loop(f) == f = [k \in 0..N |-> IF k = 0 THEN start ELSE UrlPassed(s, f[k - 1])]
           onePass == [u \in Urls |-> UrlPassed(s, u)]
<1>1. N \in Nat
  BY DEF Word
<1>2. start \in Urls
  <2>1. i + Span(IsWhitespace, s, i) \in Nat
    BY SpanTypes
  <2> QED  BY <2>1 DEF Urls
<1>3. \A u \in Urls : UrlPassed(s, u) \in Urls
  BY UrlPassType, BadUrlPassType, Zenon DEF UrlPassed
<1>4. onePass \in [Urls -> Urls] /\ \A u \in Urls : onePass[u] = UrlPassed(s, u)
  BY <1>3
<1> HIDE DEF N, start, onePass
<1>5. PICK g : IsLoop(g, N, Urls, start, onePass)
  BY <1>1, <1>2, <1>4, LoopIs
<1>6. Loop(g)
  <2>1. ASSUME NEW k \in 0..N, k # 0 PROVE g[k] = UrlPassed(s, g[k - 1])
    <3>1. k \in 1..N /\ k - 1 \in 0..N
      BY <1>1, <2>1
    <3> QED  BY <1>4, <1>5, <3>1 DEF IsLoop
  <2> QED  BY <1>5, <2>1 DEF IsLoop
<1>7. PICK f : f = CHOOSE h : Loop(h)
  OBVIOUS
<1>8. Loop(f)
  <2> HIDE DEF Loop
  <2> QED  BY <1>6, <1>7
<1>9. f[0] \in Urls /\ \A k \in 1..N : f[k - 1] \in Urls => f[k] \in Urls
  <2>1. f[0] = start
    BY <1>1, <1>8
  <2>2. ASSUME NEW k \in 1..N PROVE f[k] = UrlPassed(s, f[k - 1])
    <3>1. k \in 0..N /\ k # 0
      BY <1>1
    <3> QED  BY <1>8, <3>1
  <2> HIDE DEF Loop
  <2> QED  BY <1>2, <1>3, <2>1, <2>2
<1> DEFINE u == f[N]
<1>10. u \in Urls
  <2> HIDE DEF Loop
  <2> QED  BY <1>1, <1>9, LoopEndsIn
<1>11. ReadUrl(s, i) = [Read(Plain(u.kind), u.end) EXCEPT !.wrong = u.wrong]
  BY <1>7, Zenon DEF ReadUrl, UrlRead, UrlPassed, start, N
<1> HIDE DEF u, Loop
<1>12. u.kind \in {"url", "bad-url"} /\ u.end \in Nat /\ u.wrong \in BOOLEAN
  BY <1>10 DEF Urls
<1>13. PICK r : r = Read(Plain(u.kind), u.end)
  OBVIOUS
<1>14. r \in Results
  <2>1. Plain(u.kind) \in OutTokens
    BY <1>12, MadeTokens, GeneratedKinds
  <2> QED  BY <1>12, <1>13, <2>1, ReadType
<1>15. [r EXCEPT !.wrong = u.wrong] \in Results
  BY <1>12, <1>14, ResultParts
<1> QED  BY <1>11, <1>13, <1>15, Zenon

\* a name, a function or a URL,
LEMMA ReadIdentLikeType ==
    ASSUME NEW s \in Word, NEW i \in Nat
    PROVE  ReadIdentLike(s, i) \in Results
<1> DEFINE n == ReadName(s, i)
<1>1. n \in Names
  BY ReadNameType
<1> HIDE DEF n
<1>2. n.value \in Word /\ n.end \in Nat /\ n.end + 1 \in Nat
  BY <1>1 DEF Names
<1>3. ReadUrl(s, n.end + 1) \in Results
  BY <1>2, ReadUrlType
<1>4. /\ Read(Tok("var", n.value), n.end + 1) \in Results
      /\ Read(Tok("function", n.value), n.end + 1) \in Results
  <2>1. Tok("var", n.value) \in OutTokens /\ Tok("function", n.value) \in OutTokens
    BY <1>2, MadeTokens, GeneratedKinds
  <2> QED  BY <1>2, <2>1, ReadType
<1>5. Named("custom", s, n) \in Results /\ Named("ident", s, n) \in Results
  BY <1>1, NamedType, GeneratedKinds
<1>6. \/ ReadIdentLike(s, i) = ReadUrl(s, n.end + 1)
      \/ ReadIdentLike(s, i) = Read(Tok("var", n.value), n.end + 1)
      \/ ReadIdentLike(s, i) = Read(Tok("function", n.value), n.end + 1)
      \/ ReadIdentLike(s, i) = Named("custom", s, n)
      \/ ReadIdentLike(s, i) = Named("ident", s, n)
  BY Zenon DEF ReadIdentLike, AfterName, n
<1> QED  BY <1>3, <1>4, <1>5, <1>6, Zenon

\* a character by itself,
LEMMA SymbolKindType ==
    ASSUME NEW c \in Symbols
    PROVE  SymbolKind(c) \in Generated
<1>1. \/ c = Comma \/ c = Colon \/ c = Semicolon \/ c = LParen \/ c = RParen \/ c = 91 \/ c = 93
      \/ c = LBrace \/ c = RBrace
  BY DEF Symbols
<1> DEFINE comma == ","
           colon == ":"
           semicolon == ";"
           open1 == "("
           close1 == ")"
           open2 == "["
           close2 == "]"
           open3 == "{"
           close3 == "}"
<1>2. /\ comma \in Generated /\ colon \in Generated /\ semicolon \in Generated
      /\ open1 \in Generated /\ close1 \in Generated /\ open2 \in Generated
      /\ close2 \in Generated /\ open3 \in Generated /\ close3 \in Generated
  BY GeneratedKinds, Zenon
<1>3. SymbolKind(c) =
          CASE c = Comma -> comma [] c = Colon -> colon [] c = Semicolon -> semicolon
            [] c = LParen -> open1 [] c = RParen -> close1 [] c = 91 -> open2 [] c = 93 -> close2
            [] c = LBrace -> open3 [] c = RBrace -> close3
  BY Zenon DEF SymbolKind
<1> HIDE DEF comma, colon, semicolon, open1, close1, open2, close2, open3, close3
<1> QED  BY <1>1, <1>2, <1>3, SMT

LEMMA StrayBackslashType ==
    ASSUME NEW s, NEW i \in Nat
    PROVE  StrayBackslash(s, i) \in Results
<1> DEFINE end == IF Len(Peek(s, i, 2)) < 2 THEN i ELSE i + 1
<1>1. end \in Nat
  OBVIOUS
<1> HIDE DEF end
<1>2. Tok("delim", <<Backslash>>) \in OutTokens
  <2>1. Backslash <= MaxRune
    BY DEF Backslash, MaxRune
  <2>2. Backslash \in Code
    BY <2>1 DEF Backslash, Code
  <2>3. <<Backslash>> \in Word
    BY <2>2 DEF Word
  <2> QED  BY <2>3, MadeTokens, GeneratedKinds
<1>3. PICK r : r = Read(Tok("delim", <<Backslash>>), end)
  OBVIOUS
<1>4. r \in Results
  BY <1>1, <1>2, <1>3, ReadType
<1>5. [r EXCEPT !.wrong = TRUE] \in Results
  BY <1>4, ResultParts
<1> QED  BY <1>3, <1>5, Zenon DEF StrayBackslash, end

\* and any other.
LEMMA ReadTokenType ==
    ASSUME NEW s \in Word, NEW i \in Nat
    PROVE  ReadToken(s, i) \in Results
<1> DEFINE c == s[i + 1]
           isHash == c = NumberSign /\ IsHash(s, i)
           isAtKeyword == c = AtSign /\ StartsWithIdentSequence(Peek(s, i + 1, 3))
           isNumber == StartsWithNumber(Peek(s, i, 3))
           isIdent == StartsWithIdentSequence(Peek(s, i, 3))
           isStray == c = Backslash /\ ~StartsWithValidEscape(Peek(s, i, 2))
           ws == Read(Plain("ws"), i + Span(IsWhitespace, s, i))
           hash == Named("hash", s, ReadName(s, i + 1))
           atKeyword == Named("at-keyword", s, ReadName(s, i + 1))
           number == ReadNumeric(s, i)
           ident == ReadIdentLike(s, i)
           stray == StrayBackslash(s, i)
           symbol == Read(Plain(SymbolKind(c)), i + 1)
           delim == Read(Tok("delim", Peek(s, i, 1)), i + 1)
<1>1. ws \in Results
  <2>1. i + Span(IsWhitespace, s, i) \in Nat
    BY SpanTypes
  <2>2. Plain("ws") \in OutTokens
    BY MadeTokens, GeneratedKinds
  <2> QED  BY <2>1, <2>2, ReadType
<1>2. hash \in Results /\ atKeyword \in Results
  <2>1. ReadName(s, i + 1) \in Names
    BY ReadNameType
  <2> QED  BY <2>1, NamedType, GeneratedKinds
<1>3. number \in Results /\ ident \in Results /\ stray \in Results
  BY ReadNumericType, ReadIdentLikeType, StrayBackslashType
<1>4. ASSUME c \in Symbols PROVE symbol \in Results
  <2>1. Plain(SymbolKind(c)) \in OutTokens
    BY <1>4, SymbolKindType, MadeTokens
  <2> QED  BY <2>1, ReadType
<1>5. delim \in Results
  <2>1. Peek(s, i, 1) \in Word
    BY PeekType
  <2>2. Tok("delim", Peek(s, i, 1)) \in OutTokens
    BY <2>1, MadeTokens, GeneratedKinds
  <2> QED  BY <2>2, ReadType
<1>6. ReadToken(s, i) = CASE IsWhitespace(c) -> ws
                          [] isHash -> hash
                          [] isAtKeyword -> atKeyword
                          [] isNumber -> number
                          [] isIdent -> ident
                          [] isStray -> stray
                          [] c \in Symbols -> symbol
                          [] OTHER -> delim
  BY Zenon DEF ReadToken
<1> HIDE DEF c, isHash, isAtKeyword, isNumber, isIdent, isStray, ws, hash, atKeyword, number,
             ident, stray, symbol, delim
<1> QED  BY <1>1, <1>2, <1>3, <1>4, <1>5, <1>6, SMT

\* All that it returns.
ReadStates == [list : Seq(Results), end : Nat, stuck : BOOLEAN]

LEMMA ReadsType ==
    ASSUME NEW all \in ReadStates, NEW r \in Results
    PROVE  Reads(all, r) \in ReadStates
<1>1. all.list \in Seq(Results) /\ r.end \in Nat
  BY DEF ReadStates, Results
<1>2. Append(all.list, r) \in Seq(Results)
  BY <1>1
<1>3. (r.end = all.end) \in BOOLEAN
  OBVIOUS
<1>4. [list |-> Append(all.list, r), end |-> r.end, stuck |-> r.end = all.end] \in ReadStates
  BY <1>1, <1>2, <1>3 DEF ReadStates
<1>5. [all EXCEPT !.stuck = TRUE] \in ReadStates
  BY DEF ReadStates
<1> QED  BY <1>4, <1>5, Zenon DEF Reads

\* A comment is passed over, or it is an error.
LEMMA ReadCommentType ==
    ASSUME NEW s \in Word, NEW i \in Nat
    PROVE  ReadComment(s, i) \in Results
<1> DEFINE ends == {k \in (i + 4)..Len(s) : s[k - 1] = Star /\ s[k] = Slash}
<1>1. Len(s) \in Nat /\ Plain(EOF) \in OutTokens
  <2>1. Len(s) \in Nat
    BY DEF Word
  <2>2. Plain(EOF) \in OutTokens
    BY MadeTokens, GeneratedKinds
  <2> QED  BY <2>1, <2>2
<1>2. CommentEnd(s, i) \in Nat
  <2>1. ends \subseteq Nat
    OBVIOUS
  <2>2. CommentEnd(s, i) = IF ends = {} THEN 0 ELSE Min(ends)
    BY Zenon DEF CommentEnd
  <2> HIDE DEF ends
  <2>3. ASSUME ends # {} PROVE Min(ends) \in ends
    <3>1. \E x \in ends : \A y \in ends : x <= y
      BY <2>1, <2>3, LeastExists
    <3> QED  BY <3>1 DEF Min
  <2>4. PICK e : e = Min(ends)
    OBVIOUS
  <2>5. ends # {} => e \in Nat
    BY <2>1, <2>3, <2>4, Zenon
  <2>6. CommentEnd(s, i) = 0 \/ (ends # {} /\ CommentEnd(s, i) = e)
    BY <2>2, <2>4, Zenon
  <2>7. 0 \in Nat
    OBVIOUS
  <2> QED  BY <2>5, <2>6, <2>7, Zenon
<1>3. PICK r : r = Read(Plain(EOF), Len(s))
  OBVIOUS
<1>4. r \in Results /\ Read(Plain(EOF), CommentEnd(s, i)) \in Results
  BY <1>1, <1>2, <1>3, ReadType
<1>5. [r EXCEPT !.wrong = TRUE] \in Results
  BY <1>4, ResultParts
<1> QED  BY <1>3, <1>4, <1>5, Zenon DEF ReadComment

\* The loop of match, pass after pass.
LEMMA ReadPassType ==
    ASSUME NEW s \in Word, NEW all \in ReadStates
    PROVE  ReadPass(s, all) \in ReadStates
<1> DEFINE r == ReadComment(s, all.end)
<1>1. all.end \in Nat
  BY DEF ReadStates
<1>2. r \in Results /\ ReadToken(s, all.end) \in Results
  BY <1>1, ReadCommentType, ReadTokenType
<1> HIDE DEF r
<1>3. Reads(all, r) \in ReadStates /\ Reads(all, ReadToken(s, all.end)) \in ReadStates
  BY <1>2, ReadsType
<1>4. [all EXCEPT !.end = r.end] \in ReadStates
  BY <1>2 DEF ReadStates, Results
<1>5. \/ ReadPass(s, all) = all \/ ReadPass(s, all) = Reads(all, r)
      \/ ReadPass(s, all) = Reads(all, ReadToken(s, all.end))
      \/ ReadPass(s, all) = [all EXCEPT !.end = r.end]
  BY Zenon DEF ReadPass, r
<1> QED  BY <1>3, <1>4, <1>5, Zenon

LEMMA ReadAllType ==
    ASSUME NEW inner \in Word
    PROVE  ReadAll(inner) \in ReadStates
<1> DEFINE s == Blanks(inner)
           N == Len(s)
           start == [list |-> <<>>, end |-> 0, stuck |-> FALSE]
           Loop(f) == f = [k \in 0..N |-> IF k = 0 THEN start ELSE ReadPass(s, f[k - 1])]
           onePass == [all \in ReadStates |-> ReadPass(s, all)]
<1>1. s \in Word /\ N \in Nat
  <2>1. Space \in Code
    <3>1. Space <= MaxRune
      BY DEF Space, MaxRune
    <3> QED  BY <3>1 DEF Space, Code
  <2>2. Len(inner) \in Nat /\ \A i \in 1..Len(inner) : inner[i] \in Code
    BY DEF Word
  <2>3. s \in Word
    BY <2>1, <2>2 DEF Word, Blanks
  <2> HIDE DEF s
  <2> QED  BY <2>3 DEF Word
<1>2. start \in ReadStates
  BY DEF ReadStates
<1>3. onePass \in [ReadStates -> ReadStates] /\ \A all \in ReadStates : onePass[all] = ReadPass(s, all)
  <2> HIDE DEF s
  <2> QED  BY <1>1, ReadPassType
<1> HIDE DEF N, start, onePass
<1>4. PICK g : IsLoop(g, N, ReadStates, start, onePass)
  BY <1>1, <1>2, <1>3, LoopIs
<1> HIDE DEF s
<1>5. Loop(g)
  <2>1. ASSUME NEW k \in 0..N, k # 0 PROVE g[k] = ReadPass(s, g[k - 1])
    <3>1. k \in 1..N /\ k - 1 \in 0..N
      BY <1>1, <2>1
    <3> QED  BY <1>3, <1>4, <3>1 DEF IsLoop
  <2> QED  BY <1>4, <2>1 DEF IsLoop
<1>6. PICK f : f = CHOOSE h : Loop(h)
  OBVIOUS
<1>7. Loop(f)
  <2> HIDE DEF Loop
  <2> QED  BY <1>5, <1>6
<1>8. ReadAll(inner) = f[N]
  BY <1>6, Zenon DEF ReadAll, s, start, N
<1>9. f[0] \in ReadStates /\ \A k \in 1..N : f[k - 1] \in ReadStates => f[k] \in ReadStates
  <2>1. f[0] = start
    BY <1>1, <1>7
  <2>2. ASSUME NEW k \in 1..N PROVE f[k] = ReadPass(s, f[k - 1])
    <3>1. k \in 0..N /\ k # 0
      BY <1>1
    <3> QED  BY <1>7, <3>1
  <2> HIDE DEF Loop
  <2> QED  BY <1>1, <1>2, <2>1, <2>2, ReadPassType
<1> HIDE DEF Loop
<1>10. f[N] \in ReadStates
  BY <1>1, <1>9, LoopEndsIn
<1> QED  BY <1>8, <1>10

\* What a value in brackets is scanned to, if it is.
LEMMA ScannedType ==
    ASSUME NEW all \in ReadStates
    PROVE  Scanned(all) \in Seq(Seq(OutTokens))
<1> DEFINE list == [k \in 1..Len(all.list) |-> all.list[k].tok]
<1>1. all.list \in Seq(Results)
  BY DEF ReadStates
<1>2. list \in Seq(OutTokens)
  <2>1. Len(all.list) \in Nat /\ \A k \in 1..Len(all.list) : all.list[k] \in Results
    BY <1>1
  <2>2. \A k \in 1..Len(all.list) : all.list[k].tok \in OutTokens
    BY <2>1 DEF Results
  <2> QED  BY <2>1, <2>2
<1> HIDE DEF list
<1>3. <<list>> \in Seq(Seq(OutTokens)) /\ <<>> \in Seq(Seq(OutTokens))
  BY <1>2
<1>4. Scanned(all) = <<list>> \/ Scanned(all) = <<>>
  BY Zenon DEF Scanned, list
<1> QED  BY <1>3, <1>4

-----------------------------------------------------------------------------
\* What replaces a function is made of tokens.
\* var(), of a name,
LEMMA VarType ==
    ASSUME NEW name \in Word
    PROVE  Var(name) \in Seq(OutTokens)
<1>1. Plain("var") \in OutTokens /\ Tok("custom", name) \in OutTokens /\ Plain(")") \in OutTokens
  BY MadeTokens, GeneratedKinds
<1> QED  BY <1>1 DEF Var

\* and what a value without brackets is.
LEMMA BareValueType ==
    ASSUME NEW value \in Word, NEW flags
    PROVE  BareValue(value, flags) \in Seq(Seq(OutTokens))
<1>1. /\ Tok("number", value) \in OutTokens /\ Tok("percentage", value) \in OutTokens
      /\ Tok("delim", <<Slash>>) \in OutTokens /\ Tok("delim", <<>>) \in OutTokens
  <2>1. Slash <= MaxRune
    BY DEF Slash, MaxRune
  <2>2. Slash \in Code
    BY <2>1 DEF Slash, Code
  <2>3. <<Slash>> \in Word /\ <<>> \in Word
    BY <2>2 DEF Word
  <2> QED  BY <2>3, MadeTokens, GeneratedKinds
<1>2. /\ <<<<Tok("number", value)>>>> \in Seq(Seq(OutTokens))
      /\ <<<<Tok("percentage", value)>>>> \in Seq(Seq(OutTokens))
      /\ <<<<Tok("number", value), Tok("delim", <<Slash>>), Tok("delim", <<>>)>>>>
            \in Seq(Seq(OutTokens))
      /\ <<>> \in Seq(Seq(OutTokens))
  <2> HIDE DEF Tok
  <2> QED  BY <1>1
<1>3. \/ BareValue(value, flags) = <<<<Tok("number", value)>>>>
      \/ BareValue(value, flags) = <<<<Tok("percentage", value)>>>>
      \/ BareValue(value, flags) =
             <<<<Tok("number", value), Tok("delim", <<Slash>>), Tok("delim", <<>>)>>>>
      \/ BareValue(value, flags) = <<>>
  BY Zenon DEF BareValue
<1> QED  BY <1>2, <1>3

\* All that a function accepts.
LEMMA ReplacementsType ==
    ASSUME NEW usage, NEW value \in Word, NEW keys \in Seq(Word)
    PROVE  Replacements(usage, value, keys) \in Seq(Seq(OutTokens))
<1> DEFINE inner == Inner(value)
           U == Seq(Seq(OutTokens))
           literal == IF value \in usage.literals THEN <<<<Tok("ident", value)>>>> ELSE <<>>
           F == [k \in 1..Len(keys) |-> IF IsNamed(keys[k], usage, value) THEN <<Var(keys[k])>>
                                     ELSE <<>>]
           arbitrary == IF InBrackets(value)
                        THEN ArbitraryValue(inner, usage.arbitrary, ReadAll(inner)) ELSE <<>>
           bare == BareValue(value, usage.bare)
<1>1. literal \in U
  <2>1. Tok("ident", value) \in OutTokens
    BY MadeTokens, GeneratedKinds
  <2>2. <<<<Tok("ident", value)>>>> \in U /\ <<>> \in U
    BY <2>1
  <2> HIDE DEF U
  <2> QED  BY <2>2, Zenon
<1>2. FlattenSeq(F) \in U
  <2>1. Len(keys) \in Nat /\ \A k \in 1..Len(keys) : keys[k] \in Word
    OBVIOUS
  <2>2. ASSUME NEW k \in 1..Len(keys) PROVE F[k] \in U
    <3>1. Var(keys[k]) \in Seq(OutTokens)
      BY <2>1, VarType
    <3>2. <<Var(keys[k])>> \in U /\ <<>> \in U
      BY <3>1
    <3>3. F[k] = <<Var(keys[k])>> \/ F[k] = <<>>
      OBVIOUS
    <3> QED  BY <3>2, <3>3, Zenon
  <2>3. F \in [1..Len(keys) -> U]
    <3> HIDE DEF U
    <3> QED  BY <2>2
  <2>4. F \in Seq(U)
    <3> HIDE DEF U, F
    <3> QED  BY <2>1, <2>3
  <2> HIDE DEF F
  <2> QED  BY <2>4, FlattenType
<1>3. arbitrary \in U
  <2>1. inner \in Word
    <3>1. Len(value) - 1 \in Int /\ Len(value) - 1 <= Len(value)
      BY DEF Word
    <3> QED  BY <3>1, SlicesAreWords DEF Word, Inner
  <2> HIDE DEF inner
  <2>2. Scanned(ReadAll(inner)) \in U /\ <<>> \in U
    BY <2>1, ReadAllType, ScannedType
  <2> HIDE DEF U
  <2> QED  BY <2>2, Zenon DEF ArbitraryValue
<1>4. bare \in U
  BY BareValueType
<1> DEFINE all == literal \o FlattenSeq(F) \o arbitrary \o bare
<1>5. all \in U
  <2> HIDE DEF literal, F, arbitrary, bare
  <2> QED  BY <1>1, <1>2, <1>3, <1>4, ConcatProperties
<1>6. Replacements(usage, value, keys) = <<>> \/ Replacements(usage, value, keys) = all
  BY Zenon DEF Replacements
<1>7. <<>> \in U
  OBVIOUS
<1> HIDE DEF all, U
<1> QED  BY <1>5, <1>6, <1>7 DEF U

-----------------------------------------------------------------------------
\* The loop over the tokens of a declaration.
LoopStates == [tokens : Seq(OutTokens), i : Nat \ {0}, ok : BOOLEAN]

\* Their parts.
LEMMA LoopStateTypes ==
    ASSUME NEW s \in LoopStates
    PROVE  /\ s.tokens \in Seq(OutTokens) /\ s.i \in Nat \ {0} /\ s.ok \in BOOLEAN
           /\ Len(s.tokens) \in Nat /\ Len(s.tokens) + 1 \in Nat \ {0}
<1>1. s.tokens \in Seq(OutTokens) /\ s.i \in Nat \ {0} /\ s.ok \in BOOLEAN
  BY DEF LoopStates
<1>2. Len(s.tokens) \in Nat
  BY <1>1
<1> QED  BY <1>1, <1>2

\* The index moves on.
LEMMA LoopStateParts ==
    ASSUME NEW s \in LoopStates, NEW i \in Nat \ {0}
    PROVE  [s EXCEPT !.i = i] \in LoopStates /\ [s EXCEPT !.i = i, !.ok = FALSE] \in LoopStates
  BY DEF LoopStates

\* A function is replaced,
LEMMA ReplacedType ==
    ASSUME NEW s \in LoopStates, s.i <= Len(s.tokens), NEW n \in Nat,
           NEW found \in Seq(Seq(OutTokens))
    PROVE  Replaced(s, n, found) \in LoopStates
<1>1. s.tokens \in Seq(OutTokens) /\ s.i \in Nat \ {0} /\ Len(s.tokens) \in Nat
  BY LoopStateTypes
<1>2. CASE found = <<>>
  <2>1. Replaced(s, n, found) = [s EXCEPT !.i = Len(s.tokens) + 1, !.ok = FALSE]
    BY <1>2, Zenon DEF Replaced
  <2>2. Len(s.tokens) + 1 \in Nat \ {0}
    BY <1>1
  <2> QED  BY <2>1, <2>2, LoopStateParts
<1>3. CASE found # <<>>
  <2> DEFINE before1 == SubSeq(s.tokens, 1, s.i - 1)
             behind == From(s.tokens, s.i + n)
             i == s.i + Len(found[1])
  <2>1. found[1] \in Seq(OutTokens)
    BY <1>3
  <2>2. before1 \in Seq(OutTokens)
    <3>1. s.i - 1 \in Int /\ s.i - 1 <= Len(s.tokens)
      BY <1>1
    <3> QED  BY <1>1, <3>1, SlicesAreWords
  <2>3. behind \in Seq(OutTokens)
    <3>1. s.i + n \in Int /\ s.i + n >= 1 /\ Len(s.tokens) \in Int
      BY <1>1
    <3> QED  BY <1>1, <3>1, SlicesAreWords DEF From
  <2>4. i \in Nat \ {0}
    BY <1>1, <2>1
  <2> HIDE DEF before1, behind
  <2>5. before1 \o found[1] \o behind \in Seq(OutTokens)
    BY <2>1, <2>2, <2>3, ConcatProperties
  <2>6. Replaced(s, n, found) = [tokens |-> before1 \o found[1] \o behind, i |-> i, ok |-> TRUE]
    BY <1>3, Zenon DEF Replaced, BehindReplacement, before1, behind
  <2> HIDE DEF i
  <2>7. [tokens |-> before1 \o found[1] \o behind, i |-> i, ok |-> TRUE] \in LoopStates
    BY <2>4, <2>5 DEF LoopStates
  <2> QED  BY <2>6, <2>7
<1> QED  BY <1>2, <1>3

\* by the first that it accepts, unless it has an error or match does not return,
LEMMA ReplaceUsageType ==
    ASSUME NEW s \in LoopStates, s.i <= Len(s.tokens), NEW n \in Nat, NEW usage,
           NEW value \in Word, NEW keys \in Seq(Word)
    PROVE  ReplaceUsage(s, n, usage, value, keys) \in LoopStates
<1>1. Replacements(usage, value, keys) \in Seq(Seq(OutTokens)) /\ <<>> \in Seq(Seq(OutTokens))
  BY ReplacementsType
<1>2. /\ Replaced(s, n, Replacements(usage, value, keys)) \in LoopStates
      /\ Replaced(s, n, <<>>) \in LoopStates
  BY <1>1, ReplacedType
<1> QED  BY <1>2, Zenon DEF ReplaceUsage

\* or the loop ends there.
LEMMA ReplaceFunctionType ==
    ASSUME NEW s \in LoopStates, s.i <= Len(s.tokens), NEW v, v.n \in Nat, NEW value \in Word,
           NEW keys \in Seq(Word)
    PROVE  ReplaceFunction(s, v, value, keys) \in LoopStates
<1> DEFINE usage == Merge(NoUsage, SubSeq(s.tokens, s.i, s.i + v.n - 1))
<1>1. ReplaceUsage(s, v.n, usage, value, keys) \in LoopStates
  <2> HIDE DEF usage
  <2> QED  BY ReplaceUsageType
<1> HIDE DEF usage
<1>2. [s EXCEPT !.i = Len(s.tokens) + 1] \in LoopStates
  <2>1. Len(s.tokens) + 1 \in Nat \ {0}
    BY LoopStateTypes
  <2> QED  BY <2>1, LoopStateParts
<1>3. \/ ReplaceFunction(s, v, value, keys) = [s EXCEPT !.i = Len(s.tokens) + 1]
      \/ ReplaceFunction(s, v, value, keys) = ReplaceUsage(s, v.n, usage, value, keys)
  BY Zenon DEF ReplaceFunction, usage
<1> QED  BY <1>1, <1>2, <1>3

\* A pass of the loop.
LoopPassed(s, value, keys) ==
    IF s.i > Len(s.tokens) THEN s
    ELSE IF s.tokens[s.i].kind # "--value" THEN [s EXCEPT !.i = @ + 1]
    ELSE ReplaceFunction(s, ValueLength(KindsIn(From(s.tokens, s.i))), value, keys)

\* Each pass leads from such a state to another.
LEMMA LoopPassedType ==
    ASSUME NEW s \in LoopStates, NEW value \in Word, NEW keys \in Seq(Word)
    PROVE  LoopPassed(s, value, keys) \in LoopStates
<1>1. s.tokens \in Seq(OutTokens) /\ s.i \in Nat \ {0} /\ Len(s.tokens) \in Nat
  BY LoopStateTypes
<1>2. [s EXCEPT !.i = @ + 1] \in LoopStates
  <2>1. s.i + 1 \in Nat \ {0}
    BY <1>1
  <2> QED  BY <2>1, LoopStateParts
<1>3. ASSUME ~(s.i > Len(s.tokens))
      PROVE  ReplaceFunction(s, ValueLength(KindsIn(From(s.tokens, s.i))), value, keys)
                \in LoopStates
  <2> DEFINE ks == KindsIn(s.tokens)
  <2>1. PICK v : v = ValueLength(KindsIn(From(s.tokens, s.i)))
    OBVIOUS
  <2>2. s.i \in 1..Len(s.tokens) /\ s.i <= Len(s.tokens)
    BY <1>1, <1>3
  <2>3. ks \in Seq(KindSet(s.tokens)) /\ Len(ks) = Len(s.tokens)
    BY <1>1, KindsInType
  <2>4. v = ValueLength(SubSeq(ks, s.i, Len(s.tokens)))
    BY <1>1, <2>1, <2>2, KindsInSlice DEF From
  <2> HIDE DEF ks
  <2>5. v.n \in 1..(Len(ks) + 1 - s.i)
    BY <2>2, <2>3, <2>4, ValueLengthType
  <2>6. v.n \in Nat
    BY <2>5
  <2> QED  BY <2>1, <2>2, <2>6, ReplaceFunctionType
<1> QED  BY <1>2, <1>3 DEF LoopPassed

\* The loop, pass after pass.
LEMMA ReplaceValueFunctionType ==
    ASSUME NEW list \in Seq(Tokens), NEW value \in Word, NEW keys \in Seq(Word)
    PROVE  ReplaceValueFunction(list, value, keys).tokens \in Seq(OutTokens)
<1> DEFINE N == Len(list)
           start == [tokens |-> list, i |-> 1, ok |-> TRUE]
           Loop(f) == f = [k \in 0..N |->
                              IF k = 0 THEN start ELSE LoopPassed(f[k - 1], value, keys)]
           B == [k \in 1..N |-> [s \in LoopStates |-> LoopPassed(s, value, keys)]]
<1>1. N \in Nat
  OBVIOUS
<1>2. start \in LoopStates
  BY TokensAreOut DEF LoopStates
<1>3. \A k \in 1..N, s \in LoopStates :
         B[k][s] = LoopPassed(s, value, keys) /\ B[k][s] \in LoopStates
  BY LoopPassedType
<1> HIDE DEF N, start, B
<1>4. PICK g : Iterates(g, N, LoopStates, start, B)
  BY <1>1, <1>2, <1>3, RecursionExists
<1>5. Loop(g)
  <2>1. g \in [0..N -> LoopStates] /\ g[0] = start /\ \A k \in 1..N : g[k] = B[k][g[k - 1]]
    BY <1>4 DEF Iterates
  <2>2. ASSUME NEW k \in 0..N
        PROVE  g[k] = IF k = 0 THEN start ELSE LoopPassed(g[k - 1], value, keys)
    <3>1. CASE k = 0
      BY <2>1, <3>1
    <3>2. CASE k # 0
      <4>1. k \in 1..N /\ k - 1 \in 0..N
        BY <1>1, <3>2
      <4> QED  BY <1>3, <2>1, <3>2, <4>1
    <3> QED  BY <3>1, <3>2
  <2> QED  BY <2>1, <2>2
<1>6. PICK f : f = CHOOSE h : Loop(h)
  OBVIOUS
<1>7. Loop(f)
  <2> HIDE DEF Loop
  <2> QED  BY <1>5, <1>6
<1>8. ReplaceValueFunction(list, value, keys) = f[N]
  BY <1>6, Zenon DEF ReplaceValueFunction, LoopPassed, start, N
<1>9. N \in 0..N /\ 0..N \subseteq {k \in Nat : k <= N => f[k] \in LoopStates}
  <2> DEFINE U == {k \in Nat : k <= N => f[k] \in LoopStates}
  <2>1. 0 \in U
    BY <1>1, <1>2, <1>7
  <2>2. ASSUME NEW k \in 0..(N - 1), k \in U PROVE k + 1 \in U
    <3>1. k + 1 \in 0..N /\ k + 1 # 0 /\ (k + 1) - 1 = k
      BY <1>1
    <3>2. f[k + 1] = LoopPassed(f[k], value, keys)
      BY <1>7, <3>1
    <3>3. f[k] \in LoopStates
      BY <1>1, <2>2
    <3> QED  BY <1>1, <3>2, <3>3, LoopPassedType
  <2>3. 0..N \subseteq U
    <3> HIDE DEF U, Loop
    <3> QED  BY <1>1, <2>1, <2>2, BoundedInduction
  <2> QED  BY <1>1, <2>3
<1>10. f[N] \in LoopStates
  BY <1>1, <1>9
<1> QED  BY <1>8, <1>10, LoopStateTypes

\* replaceValueFunctionInBlock and expand.
LEMMA OutPartsOfIn == Parts \subseteq OutParts
  BY TokensAreOut DEF Parts, OutParts

LEMMA ReplaceInBlockType ==
    ASSUME NEW parts \in Seq(Parts), NEW value \in Word, NEW keys \in Seq(Word)
    PROVE  ReplaceInBlock(parts, value, keys) \in Seq(OutParts)
<1> DEFINE kept(part, new) == IF new.ok THEN <<[part EXCEPT !.value = new.tokens]>> ELSE <<>>
           said(part) == IF part.type # "declaration" THEN <<part>>
                         ELSE kept(part, ReplaceValueFunction(part.value, value, keys))
           F == [k \in 1..Len(parts) |-> said(parts[k])]
<1>1. ASSUME NEW part \in Parts PROVE said(part) \in Seq(OutParts)
  <2>1. part \in OutParts /\ part.value \in Seq(Tokens)
    <3>1. part.value \in Seq(Tokens)
      BY DEF Parts
    <3> QED  BY <3>1, OutPartsOfIn
  <2>2. PICK new : new = ReplaceValueFunction(part.value, value, keys)
    OBVIOUS
  <2>3. new.tokens \in Seq(OutTokens)
    BY <2>1, <2>2, ReplaceValueFunctionType
  <2>4. [part EXCEPT !.value = new.tokens] \in OutParts
    BY <2>1, <2>3 DEF OutParts
  <2>5. /\ <<part>> \in Seq(OutParts) /\ <<>> \in Seq(OutParts)
        /\ <<[part EXCEPT !.value = new.tokens]>> \in Seq(OutParts)
    BY <2>1, <2>4
  <2> QED  BY <2>2, <2>5, Zenon
<1>2. Len(parts) \in Nat /\ \A k \in 1..Len(parts) : parts[k] \in Parts
  OBVIOUS
<1> HIDE DEF said
<1>3. F \in Seq(Seq(OutParts))
  BY <1>1, <1>2
<1> HIDE DEF F
<1>4. FlattenSeq(F) \in Seq(OutParts)
  BY <1>3, FlattenType
<1> QED  BY <1>4, Zenon DEF ReplaceInBlock, F, said

\* expand, with or without a value.
LEMMA ExpandType ==
    ASSUME NEW r \in Rules, NEW suffix \in Word, NEW keys \in Seq(Word)
    PROVE  Expand(r, suffix, keys) \in Seq(OutParts)
<1> DEFINE value == SubSeq(suffix, Len(r.name) + 1, Len(suffix))
<1>1. r.name \in Word /\ r.parts \in Seq(Parts)
  BY DEF Rules
<1>2. value \in Word
  <2>1. Len(r.name) + 1 \in Int /\ Len(r.name) + 1 >= 1 /\ Len(suffix) \in Int
    BY <1>1 DEF Word
  <2> QED  BY <2>1, SlicesAreWords DEF Word
<1> HIDE DEF value
<1>3. ReplaceInBlock(r.parts, value, keys) \in Seq(OutParts) /\ <<>> \in Seq(OutParts)
  BY <1>1, <1>2, ReplaceInBlockType
<1>4. Expand(r, suffix, keys) = ReplaceInBlock(r.parts, value, keys) \/ Expand(r, suffix, keys) = <<>>
  BY Zenon DEF Expand, From, value
<1> QED  BY <1>3, <1>4

\* What a rule says for a class name.
LEMMA SuffixType ==
    ASSUME NEW name \in Word
    PROVE  Suffix(name) \in Word
<1> DEFINE p == GP!VariantPrefix(name)
<1>1. name \in GP!Strings
  BY DEF GP!Strings, Word
<1>2. GP!VariantPrefixLength(name) \in 0..Len(name) /\ Len(p) = GP!VariantPrefixLength(name)
  BY <1>1, GP!PrefixLengthType
<1>3. G!VariantPrefix(name) = p
  BY DEF G!VariantPrefix, GP!VariantPrefix, G!VariantPrefixLength, GP!VariantPrefixLength,
         G!Index, GP!Index, G!Min, GP!Min
<1> HIDE DEF p
<1>4. Len(p) + 1 \in Int /\ Len(p) + 1 >= 1 /\ Len(name) \in Int
  BY <1>2 DEF Word
<1> QED  BY <1>3, <1>4, SlicesAreWords DEF Suffix, Word

\* Any rule, for any name.
LEMMA ExpandedType ==
    ASSUME layers \in Seq(Layers), NEW r \in Rules, NEW name \in Word
    PROVE  Expanded(r, name) \in Seq(OutParts)
<1>1. Expand(r, Suffix(name), ThemeKeys) \in Seq(OutParts) /\ <<>> \in Seq(OutParts)
  BY SuffixType, ThemeDeclarationsType, ExpandType
<1> QED  BY <1>1, Zenon DEF Expanded

-----------------------------------------------------------------------------
\* The tokens of a block.
LEMMA PartTokensType ==
    ASSUME NEW part \in OutParts
    PROVE  PartTokens(part) \in Seq(OutTokens)
<1>1. part.type \in PartTypes /\ part.name \in OutTokens /\ part.value \in Seq(OutTokens)
  BY DEF OutParts
<1>2. /\ Plain(":") \in OutTokens /\ Plain("ws") \in OutTokens /\ Plain(";") \in OutTokens
      /\ Plain("{") \in OutTokens /\ Plain("}") \in OutTokens
  BY MadeTokens, GeneratedKinds, Zenon
<1>3. Heading(part) \in Seq(OutTokens)
  <2>1. <<part.name>> \in Seq(OutTokens) /\ <<>> \in Seq(OutTokens)
    BY <1>1
  <2>2. <<part.name>> \o part.value \in Seq(OutTokens) /\ <<>> \o part.value \in Seq(OutTokens)
    BY <1>1, <2>1, ConcatProperties
  <2> QED  BY <2>2, Zenon DEF Heading
<1> DEFINE colon == Plain(":")
           ws == Plain("ws")
           semicolon == Plain(";")
           open1 == Plain("{")
           close1 == Plain("}")
<1> HIDE DEF colon, ws, semicolon, open1, close1
<1>4. /\ colon \in OutTokens /\ ws \in OutTokens /\ semicolon \in OutTokens
      /\ open1 \in OutTokens /\ close1 \in OutTokens
  BY <1>2, Zenon DEF colon, ws, semicolon, open1, close1
<1>5. /\ <<part.name, colon, ws>> \in Seq(OutTokens) /\ <<semicolon, ws>> \in Seq(OutTokens)
      /\ <<open1, ws>> \in Seq(OutTokens) /\ <<close1, ws>> \in Seq(OutTokens)
  BY <1>1, <1>4
<1>6. /\ <<part.name, colon, ws>> \o part.value \o <<semicolon, ws>> \in Seq(OutTokens)
      /\ Heading(part) \o <<open1, ws>> \in Seq(OutTokens)
      /\ Heading(part) \o <<semicolon, ws>> \in Seq(OutTokens)
  BY <1>1, <1>3, <1>5, ConcatProperties
<1>7. \/ PartTokens(part) = <<part.name, colon, ws>> \o part.value \o <<semicolon, ws>>
      \/ PartTokens(part) = Heading(part) \o <<open1, ws>>
      \/ PartTokens(part) = <<close1, ws>>
      \/ PartTokens(part) = Heading(part) \o <<semicolon, ws>>
  BY <1>1, Zenon DEF PartTokens, PartTypes, colon, ws, semicolon, open1, close1
<1> QED  BY <1>5, <1>6, <1>7

\* of a block,
LEMMA BlockTokensType ==
    ASSUME NEW parts \in Seq(OutParts)
    PROVE  BlockTokens(parts) \in Seq(OutTokens)
<1> DEFINE F == [k \in 1..Len(parts) |-> PartTokens(parts[k])]
<1>1. Len(parts) \in Nat /\ \A k \in 1..Len(parts) : parts[k] \in OutParts
  OBVIOUS
<1>2. F \in Seq(Seq(OutTokens))
  BY <1>1, PartTokensType
<1> HIDE DEF F
<1>3. FlattenSeq(F) \in Seq(OutTokens)
  BY <1>2, FlattenType
<1> QED  BY <1>3 DEF BlockTokens, F

\* in braces,
LEMMA BracedType ==
    ASSUME NEW list \in Seq(OutTokens)
    PROVE  Braced(list) \in Seq(OutTokens)
<1>1. PICK a1, b1, c1 : a1 = Plain("{") /\ b1 = Plain("ws") /\ c1 = Plain("}")
  OBVIOUS
<1>2. a1 \in OutTokens /\ b1 \in OutTokens /\ c1 \in OutTokens
  BY <1>1, MadeTokens, GeneratedKinds, Zenon
<1>3. <<a1, b1>> \in Seq(OutTokens) /\ <<c1>> \in Seq(OutTokens)
  BY <1>2
<1>4. <<a1, b1>> \o list \o <<c1>> \in Seq(OutTokens)
  BY <1>3, ConcatProperties
<1> QED  BY <1>1, <1>4, Zenon DEF Braced

\* and inside of the rules that the variants of a name wrap it in.
LEMMA InjectVariantsType ==
    ASSUME NEW heads \in Seq(Seq(OutTokens)), NEW block \in Seq(OutTokens)
    PROVE  InjectVariants(heads, block) \in Seq(OutTokens)
<1>1. PICK a1, b1, c1 : a1 = Plain("{") /\ b1 = Plain("ws") /\ c1 = Plain("}")
  OBVIOUS
<1>2. a1 \in OutTokens /\ b1 \in OutTokens /\ c1 \in OutTokens
  BY <1>1, MadeTokens, GeneratedKinds, Zenon
<1> DEFINE F == [k \in 1..Len(heads) |-> <<a1, b1>> \o heads[k]]
           E == [k \in 1..Len(heads) |-> <<b1, c1>>]
<1>3. Len(heads) \in Nat /\ \A k \in 1..Len(heads) : heads[k] \in Seq(OutTokens)
  OBVIOUS
<1>4. <<a1, b1>> \in Seq(OutTokens) /\ <<b1, c1>> \in Seq(OutTokens)
  BY <1>2
<1>5. \A k \in 1..Len(heads) : <<a1, b1>> \o heads[k] \in Seq(OutTokens)
  BY <1>3, <1>4, ConcatProperties
<1>6. F \in Seq(Seq(OutTokens)) /\ E \in Seq(Seq(OutTokens))
  BY <1>3, <1>4, <1>5
<1> HIDE DEF F, E
<1>7. FlattenSeq(F) \in Seq(OutTokens) /\ FlattenSeq(E) \in Seq(OutTokens)
  BY <1>6, FlattenType
<1>8. FlattenSeq(F) \o block \o FlattenSeq(E) \in Seq(OutTokens)
  BY <1>7, ConcatProperties
<1>9. InjectVariants(heads, block) = FlattenSeq(F) \o block \o FlattenSeq(E)
  BY <1>1, Zenon DEF InjectVariants, F, E
<1> QED  BY <1>8, <1>9
-----------------------------------------------------------------------------
\* What the rules to write are made of.
SheetRules == [isTheme : BOOLEAN, prelude : Seq(OutTokens), parts : Seq(Parts),
               block : Seq(OutTokens)]
SheetLayers == [name : Word, rules : Seq(SheetRules)]

\* The tokens that the stages hand on, with texts of code points.
HeadsInv == \A v \in DOMAIN variants : variants[v] \in Seq(Seq(Tokens))

ExpansionsInv ==
    \A l \in 1..Len(layers) : \A k \in 1..Len(layers[l].rules) : \A name \in classes :
        expansions[l][k][name] \in Seq(OutParts)

TurnInv == turn # 0 => Len(rules) = Len(layers[turn].rules)

SheetInv == sheet \in Seq(SheetLayers)

ContentInv == HeadsInv /\ ExpansionsInv /\ TurnInv /\ SheetInv

\* The heads of the variants that a prefix spells.
LEMMA HeadsType ==
    ASSUME HeadsInv, NEW prefix \in Word
    PROVE  Heads(prefix) \in Seq(Seq(OutTokens))
<1> DEFINE vs == G!VariantsIn(prefix)
           F == [m \in 1..Len(vs) |-> variants[vs[m]]]
<1>1. prefix \in GP!Strings
  BY DEF GP!Strings, Word
<1>2. GP!VariantsIn(prefix) \in Seq(DOMAIN variants)
  BY <1>1, GP!VariantsType
<1>3. vs = GP!VariantsIn(prefix)
  BY Zenon DEF G!VariantsIn, GP!VariantsIn, G!VariantPrefixLength, GP!VariantPrefixLength,
               G!Index, GP!Index, G!Min, GP!Min
<1>4. vs \in Seq(DOMAIN variants)
  BY <1>2, <1>3
<1> HIDE DEF vs
<1>5. Len(vs) \in Nat /\ \A m \in 1..Len(vs) : vs[m] \in DOMAIN variants
  BY <1>4
<1>6. \A m \in 1..Len(vs) : variants[vs[m]] \in Seq(Seq(OutTokens))
  <2>1. Seq(Seq(Tokens)) \subseteq Seq(Seq(OutTokens))
    BY TokensAreOut, SeqMonotonic
  <2> QED  BY <1>5, <2>1 DEF HeadsInv
<1>7. F \in Seq(Seq(Seq(OutTokens)))
  BY <1>5, <1>6
<1> HIDE DEF F
<1>8. FlattenSeq(F) \in Seq(Seq(OutTokens))
  BY <1>7, FlattenType
<1>9. Heads(prefix) = FlattenSeq(F)
  BY Zenon DEF Heads, F, vs
<1> QED  BY <1>8, <1>9

\* A rule that is kept, or one for a class name.
IsMade(w) ==
    /\ w.of \in 1..Len(layers[turn].rules)
    /\ w.group # 0 => w.group \in 1..Len(groups) /\ w.place \in 1..Len(groups[w.group].names)

\* Groups are of class names that the pattern matches.
LEMMA GroupsType ==
    ASSUME IInv
    PROVE  /\ Len(groups) \in Nat
           /\ \A g \in 1..Len(groups) :
                 /\ groups[g].prefix \in Word
                 /\ \A p \in 1..Len(groups[g].names) : groups[g].names[p] \in classes
<1>1. G!TypeOK /\ S!TypeOK
  BY IInvProperties
<1>2. foundMap \subseteq classes
  BY <1>1 DEF S!TypeOK
<1>3. PICK U : U = [prefix : Word, names : Seq(foundMap)]
  OBVIOUS
<1>4. groups \in Seq(U)
  BY <1>1, <1>3 DEF G!TypeOK, G!Strings, Word
<1>5. Len(groups) \in Nat /\ \A g \in 1..Len(groups) : groups[g] \in U
  BY <1>4
<1>6. \A g \in 1..Len(groups) : groups[g].prefix \in Word /\ groups[g].names \in Seq(foundMap)
  BY <1>3, <1>5
<1> QED  BY <1>2, <1>5, <1>6

\* A selector.
LEMMA ClassNameType ==
    ASSUME NEW name \in Word
    PROVE  <<Tok("delim", <<Dot>>), Tok("ident", name), Plain("ws")>> \in Seq(OutTokens)
<1>1. Dot <= MaxRune
  BY DEF Dot, MaxRune
<1>2. Dot \in Code
  BY <1>1 DEF Dot, Code
<1>3. <<Dot>> \in Word
  BY <1>2 DEF Word
<1>4. /\ Tok("delim", <<Dot>>) \in OutTokens /\ Tok("ident", name) \in OutTokens
      /\ Plain("ws") \in OutTokens
  BY <1>3, MadeTokens, GeneratedKinds
<1>5. PICK a1, b1, c1 : a1 = Tok("delim", <<Dot>>) /\ b1 = Tok("ident", name) /\ c1 = Plain("ws")
  OBVIOUS
<1>6. a1 \in OutTokens /\ b1 \in OutTokens /\ c1 \in OutTokens
  BY <1>4, <1>5
<1>7. <<a1, b1, c1>> \in Seq(OutTokens)
  BY <1>6
<1> QED  BY <1>5, <1>7

\* What is written for it.
LEMMA NewRuleType ==
    ASSUME IInv, HeadsInv, ExpansionsInv, turn # 0, NEW w, IsMade(w)
    PROVE  NewRule(w) \in SheetRules
<1> DEFINE r == layers[turn].rules[w.of]
           name == NameOf(w)
           className == <<Tok("delim", <<Dot>>), Tok("ident", name), Plain("ws")>>
           kept == [isTheme |-> r.kind = "theme", prelude |-> r.prelude, parts |-> r.parts,
                    block |-> Braced(BlockTokens(r.parts))]
           heads == Heads(groups[w.group].prefix)
           block == Braced(BlockTokens(expansions[turn][w.of][name]))
           made == [isTheme |-> FALSE, prelude |-> className, parts |-> <<>>,
                    block |-> InjectVariants(heads, block)]
<1>1. turn \in 1..Len(layers) /\ w.of \in 1..Len(layers[turn].rules) /\ layers \in Seq(Layers)
  BY DEF IInv, RewriteInv, InputInv, IsMade
<1>2. r \in Rules
  <2>1. layers[turn] \in Layers
    BY <1>1
  <2>2. layers[turn].rules \in Seq(Rules)
    BY <2>1 DEF Layers
  <2> QED  BY <1>1, <2>2
<1> HIDE DEF r
<1>3. kept \in SheetRules
  <2>1. r.prelude \in Seq(Tokens) /\ r.parts \in Seq(Parts)
    BY <1>2 DEF Rules
  <2>2. r.prelude \in Seq(OutTokens)
    BY <2>1, TokensAreOut
  <2>3. r.parts \in Seq(OutParts)
    BY <2>1, OutPartsOfIn, SeqMonotonic
  <2>4. BlockTokens(r.parts) \in Seq(OutTokens)
    BY <2>3, BlockTokensType
  <2>5. Braced(BlockTokens(r.parts)) \in Seq(OutTokens)
    BY <2>4, BracedType
  <2> QED  BY <2>1, <2>2, <2>5 DEF SheetRules
<1>4. w.group # 0 => made \in SheetRules
  <2> SUFFICES ASSUME w.group # 0 PROVE made \in SheetRules
    OBVIOUS
  <2>1. w.group \in 1..Len(groups) /\ w.place \in 1..Len(groups[w.group].names)
    BY DEF IsMade
  <2>2. groups[w.group].prefix \in Word /\ name \in classes
    BY <2>1, GroupsType DEF NameOf
  <2>3. name \in Word
    BY <2>2 DEF IInv, InputInv
  <2> HIDE DEF name
  <2>4. className \in Seq(OutTokens)
    BY <2>3, ClassNameType
  <2>5. heads \in Seq(Seq(OutTokens))
    BY <2>2, HeadsType
  <2>6. block \in Seq(OutTokens)
    <3>1. expansions[turn][w.of][name] \in Seq(OutParts)
      BY <1>1, <2>2 DEF ExpansionsInv
    <3>2. BlockTokens(expansions[turn][w.of][name]) \in Seq(OutTokens)
      BY <3>1, BlockTokensType
    <3> QED  BY <3>2, BracedType
  <2> HIDE DEF heads, block, className
  <2>7. InjectVariants(heads, block) \in Seq(OutTokens)
    BY <2>5, <2>6, InjectVariantsType
  <2> QED  BY <2>4, <2>7 DEF SheetRules
<1>5. NewRule(w) = IF w.group = 0 THEN kept ELSE made
  BY Zenon DEF NewRule, r, name
<1> HIDE DEF kept, made
<1> QED  BY <1>3, <1>4, <1>5
-----------------------------------------------------------------------------
\* The invariant holds at the start: the pattern and the expansion are computed there.
LEMMA InitContent == Init => ContentInv
<1> SUFFICES ASSUME Init PROVE ContentInv
  OBVIOUS
<1>1. PICK in \in Inputs : tree = in.tree /\ variants = in.variants /\ layers = in.layers
  BY DEF Init
<1>2. HeadsInv
  BY <1>1, InputsAssumption DEF IsInput, HeadsInv
<1>3. layers \in Seq(Layers) /\ classes \subseteq Word
  BY InitIInv DEF IInv, InputInv
<1>4. ExpansionsInv
  <2> SUFFICES ASSUME NEW l \in 1..Len(layers), NEW k \in 1..Len(layers[l].rules),
                      NEW name \in classes
               PROVE  expansions[l][k][name] \in Seq(OutParts)
    BY DEF ExpansionsInv
  <2>1. layers[l] \in Layers
    BY <1>3
  <2>2. layers[l].rules \in Seq(Rules)
    BY <2>1 DEF Layers
  <2>3. layers[l].rules[k] \in Rules
    BY <2>2
  <2>4. name \in Word
    BY <1>3
  <2>5. Expanded(layers[l].rules[k], name) \in Seq(OutParts)
    BY <1>3, <2>3, <2>4, ExpandedType
  <2>6. expansions[l][k][name] = Expanded(layers[l].rules[k], name)
    BY DEF Init
  <2> QED  BY <2>5, <2>6
<1>5. TurnInv /\ SheetInv
  BY DEF Init, TurnInv, SheetInv
<1> QED  BY <1>2, <1>4, <1>5 DEF ContentInv

\* When the layer is settled, it consists of such rules.
LEMMA WrittenAreMade ==
    IInv /\ TurnInv /\ turn # 0 /\ R!Settled =>
        /\ Len(written) \in Nat /\ (\E U : written \in Seq(U))
        /\ \A m \in 1..Len(written) : IsMade(written[m])
<1> SUFFICES ASSUME IInv, TurnInv, turn # 0, R!Settled
             PROVE  /\ Len(written) \in Nat /\ (\E U : written \in Seq(U))
                    /\ \A m \in 1..Len(written) : IsMade(written[m])
  OBVIOUS
<1>1. Lists /\ LayerInv /\ R!Settled
  BY RulesAreKnown DEF IInv, R!Settled, R!Settled, R!Unsettled, R!Unsettled
<1>2. \E U : written \in Seq(U)
  BY <1>1 DEF LayerInv
<1>3. /\ Len(written) \in Nat
      /\ \A m \in 1..Len(written) :
            /\ written[m].of \in 1..Len(rules)
            /\ written[m].group # 0 =>
                  written[m].group \in 1..Len(GroupNames)
                  /\ written[m].place \in 1..Len(GroupNames[written[m].group])
  <2>1. /\ Len(written) \in Nat
        /\ \A m \in 1..Len(written) :
              /\ written[m].of \in 1..Len(rules)
              /\ IF written[m].group = 0
                 THEN ~rules[written[m].of].isUtility /\ written[m].place = 0
                 ELSE /\ written[m].group \in 1..Len(GroupNames)
                      /\ written[m].place \in 1..Len(GroupNames[written[m].group])
                      /\ Matching(written[m].of, written[m].group, written[m].place)
    BY <1>1, WrittenRules
  <2> QED  BY <2>1
<1>4. Len(groups) \in Nat
  BY GroupsType
<1>5. Len(GroupNames) = Len(groups) /\ \A g \in 1..Len(groups) : GroupNames[g] = groups[g].names
  BY <1>4 DEF GroupNames
<1> QED  BY <1>2, <1>3, <1>5 DEF IsMade, TurnInv

\* A layer that is settled is made of such rules.
LEMMA SubstituteContent ==
    ASSUME IInv, ContentInv, Substitute
    PROVE  ContentInv'
<1>1. /\ turn > Len(sheet) /\ R!Next /\ turn' = turn
      /\ UNCHANGED <<inputs, scan, grouping>>
      /\ sheet' = IF R!Settled'
                  THEN Append(sheet, [name |-> layers[turn].name,
                                      rules |-> [k \in DOMAIN written' |-> NewRule(written'[k])]])
                  ELSE sheet
  BY DEF Substitute
<1>2. /\ layers' = layers /\ variants' = variants /\ classes' = classes
      /\ expansions' = expansions /\ groups' = groups /\ rules' = rules
  BY <1>1 DEF inputs, grouping, R!Next, R!KeepRule, R!BeginRun, R!SubstituteName, R!EndRun, R!Finish
<1>3. HeadsInv' /\ ExpansionsInv' /\ TurnInv'
  BY <1>1, <1>2 DEF ContentInv, HeadsInv, ExpansionsInv, TurnInv
<1>4. IInv'
  BY SubstituteIInv
<1>5. turn # 0
  <2>1. turn = 0 => Len(sheet) = 0
    BY DEF IInv, RewriteInv
  <2> QED  BY <1>1, <2>1
<1>6. SheetInv'
  <2>1. CASE ~R!Settled'
    BY <1>1, <2>1 DEF ContentInv, SheetInv
  <2>2. CASE R!Settled'
    <3> DEFINE F == [k \in DOMAIN written' |-> NewRule(written'[k])]
    <3>1. /\ (Len(written) \in Nat)' /\ (\E U : written \in Seq(U))'
          /\ (\A m \in 1..Len(written) : IsMade(written[m]))'
      <4>1. (turn # 0)'
        BY <1>1, <1>5
      <4> QED  BY <1>3, <1>4, <2>2, <4>1, WrittenAreMade, PTL
    <3>2. \A m \in 1..Len(written') : IsMade(written'[m])
      BY <1>1, <1>2, <3>1 DEF IsMade
    <3>3. DOMAIN written' = 1..Len(written') /\ Len(written') \in Nat
      BY <3>1
    <3>4. \A m \in 1..Len(written') : NewRule(written'[m]) \in SheetRules
      BY <1>5, <3>2, NewRuleType DEF ContentInv
    <3>5. F \in Seq(SheetRules)
      <4>1. F \in [1..Len(written') -> SheetRules]
        BY <3>3, <3>4
      <4> HIDE DEF F
      <4> QED  BY <3>3, <4>1
    <3> HIDE DEF F
    <3>6. layers[turn].name \in Word
      <4>1. turn \in 1..Len(layers) /\ layers \in Seq(Layers)
        BY <1>5 DEF IInv, RewriteInv, InputInv
      <4>2. layers[turn] \in Layers
        BY <4>1
      <4> QED  BY <4>2 DEF Layers
    <3>7. [name |-> layers[turn].name, rules |-> F] \in SheetLayers
      BY <3>5, <3>6 DEF SheetLayers
    <3>8. sheet' = Append(sheet, [name |-> layers[turn].name, rules |-> F])
      BY <1>1, <2>2 DEF F
    <3>9. PICK x : x = [name |-> layers[turn].name, rules |-> F]
      OBVIOUS
    <3> QED  BY <3>7, <3>8, <3>9 DEF ContentInv, SheetInv
  <2> QED  BY <2>1, <2>2
<1> QED  BY <1>3, <1>6 DEF ContentInv

\* Every step keeps the invariant.
LEMMA NextContent == IInv /\ ContentInv /\ [Next]_vars => ContentInv'
<1> SUFFICES ASSUME IInv, ContentInv, [Next]_vars PROVE ContentInv'
  OBVIOUS
<1>1. ASSUME UNCHANGED <<inputs, turn, rules, sheet>> PROVE ContentInv'
  <2>1. /\ layers' = layers /\ variants' = variants /\ classes' = classes
        /\ expansions' = expansions /\ turn' = turn /\ rules' = rules /\ sheet' = sheet
    BY <1>1 DEF inputs
  <2> QED  BY <2>1 DEF ContentInv, HeadsInv, ExpansionsInv, TurnInv, SheetInv
<1>2. CASE Scan \/ Group \/ BeginSearch \/ Search \/ BeginOutput \/ Write \/ UNCHANGED vars
  <2>1. UNCHANGED <<inputs, turn, rules, sheet>>
    BY <1>2 DEF Scan, Group, BeginSearch, Search, BeginOutput, Write, vars, writing, rewriting,
                O!Begin, O!Next, O!OpenLayer, O!WriteRule, O!CloseLayer, O!Finish
  <2> QED  BY <1>1, <2>1
<1>3. CASE BeginLayer
  <2>1. /\ UNCHANGED inputs /\ sheet' = sheet /\ turn' = turn + 1 /\ turn < Len(layers)
        /\ rules' = LET list == layers[turn + 1].rules
                    IN [k \in 1..Len(list) |->
                          [isUtility |-> list[k].kind = "utility", url |-> list[k].url,
                           matches |-> {name \in foundMap : expansions[turn + 1][k][name] # <<>>}]]
    BY <1>3 DEF BeginLayer, writing
  <2>2. /\ layers' = layers /\ variants' = variants /\ classes' = classes
        /\ expansions' = expansions
    BY <2>1 DEF inputs
  <2>3. turn + 1 \in 1..Len(layers) /\ layers \in Seq(Layers)
    BY <2>1 DEF IInv, RewriteInv, InputInv
  <2>4. layers[turn + 1] \in Layers
    BY <2>3
  <2>5. Len(layers[turn + 1].rules) \in Nat
    BY <2>4 DEF Layers
  <2>6. Len(rules') = Len(layers[turn + 1].rules)
    BY <2>1, <2>5
  <2> QED  BY <2>1, <2>2, <2>6 DEF ContentInv, HeadsInv, ExpansionsInv, TurnInv, SheetInv
<1> QED  BY <1>2, <1>3, SubstituteContent DEF Next
-----------------------------------------------------------------------------
\* The search is the one that the lemmas are about.
LEMMA SameSearch ==
    /\ \A ks : V!ValueLength(ks) = ValueLength(ks)
    /\ \A list : V!KindsIn(list) = KindsIn(list)
    /\ \A value : V!VarFunctionPropertyName(value) = VarFunctionPropertyName(value)
    /\ \A list : V!RefersTo(list) = RefersTo(list)
    /\ \A x : V!ToSet(x) = ToSet(x)
<1>1. \A ks : V!ValueLength(ks) = ValueLength(ks)
  BY Zenon DEF V!ValueLength, ValueLength, V!Nest, Nest, V!Opens, Opens, V!EndOf, EndOf,
               V!Closers, Closers, V!Front, Front, V!Last, Last
<1>2. \A list : V!KindsIn(list) = KindsIn(list)
  BY Zenon DEF V!KindsIn, KindsIn
<1>3. \A value : V!VarFunctionPropertyName(value) = VarFunctionPropertyName(value)
  BY Zenon DEF V!VarFunctionPropertyName, VarFunctionPropertyName, V!SkipWhitespace, SkipWhitespace
<1>4. \A list : V!RefersTo(list) = RefersTo(list)
  BY Zenon DEF V!RefersTo, RefersTo, V!Refers, Refers, V!IsBlank, IsBlank, V!IsClosedBlock,
               IsClosedBlock, V!KindsIn, KindsIn, V!AreValues, AreValues, V!Opens, Opens,
               V!EndOf, EndOf, V!Closers, Closers
<1>5. \A x : V!ToSet(x) = ToSet(x)
  BY Zenon DEF V!ToSet, ToSet
<1> QED  BY <1>1, <1>2, <1>3, <1>4, <1>5
-----------------------------------------------------------------------------
SearchDecls == [name : Word, value : Seq(Tokens)]

\* What is searched: the theme declarations, and blocks made of tokens.
SearchInput ==
    /\ blocks \in Seq(Seq(OutTokens)) /\ decls \in Seq(SearchDecls)
    /\ refPc # "idle" =>
          /\ decls = [k \in 1..Len(ThemeDeclarations) |->
                        [name |-> ThemeDeclarations[k].name.text,
                         value |-> ThemeDeclarations[k].value]]
          /\ styles = [used |-> UNION {RefersTo(list) : list \in ToSet(blocks)},
                       decls |-> [k \in DOMAIN decls |->
                                    [name |-> decls[k].name, refs |-> RefersTo(decls[k].value)]]]

\* What findReferences has found in the tokens up to where it is.
FoundInv ==
    /\ refI \in Nat
    /\ refI > 0 =>
          /\ refPc \in {"rules", "pass"} /\ refI <= Len(V!tokens) + 1
          /\ result = before \cup RefersBefore(V!tokens, refI)

\* The names collected in the blocks, or the declarations, before the one searched.
Collected == IF refI > 0 THEN before ELSE result

LoopInv ==
    /\ refAt \in Nat
    /\ refPc = "rules" =>
          /\ refAt \in 1..(Len(blocks) + 1) /\ (refI > 0 => refAt <= Len(blocks))
          /\ oldLen = 0
          /\ Collected = UNION {RefersTo(blocks[k]) : k \in 1..(refAt - 1)}
    /\ refPc = "pass" =>
          /\ refAt \in 1..(Len(decls) + 1)
          /\ refI > 0 => refAt <= Len(decls) /\ decls[refAt].name \in before

\* The output begins with what the search has ended with.
PhaseInv ==
    /\ refPc \in {"idle", "rules", "pass", "done"}
    /\ refPc = "idle" => V!Init
    /\ before \subseteq result
    /\ outPc # "idle" => refPc = "done" /\ used = result

SearchInv == SearchInput /\ FoundInv /\ LoopInv /\ PhaseInv

\* Before the search.
LEMMA InitSearch == Init => SearchInv
<1> SUFFICES ASSUME Init PROVE SearchInv
  OBVIOUS
<1>1. V!Init /\ outPc = "idle"
  BY DEF Init, O!Init
<1> QED  BY <1>1 DEF V!Init, SearchInv, SearchInput, FoundInv, LoopInv, PhaseInv

\* Steps of the other stages.
LEMMA DeclarationsStay ==
    ASSUME layers' = layers
    PROVE  ThemeDeclarations' = ThemeDeclarations
  BY DEF ThemeDeclarations, ThemeParts, Declarations

\* neither the search nor its input.
LEMMA SearchStays ==
    ASSUME SearchInv, UNCHANGED <<layers, searching>>,
           \/ UNCHANGED <<used, outPc>>
           \/ outPc # "idle" /\ used' = used
           \/ refPc = "done" /\ used' = result
    PROVE  SearchInv'
<1>1. /\ ThemeDeclarations' = ThemeDeclarations
      /\ blocks' = blocks /\ decls' = decls /\ styles' = styles /\ result' = result
      /\ oldLen' = oldLen /\ refAt' = refAt /\ refI' = refI /\ refPc' = refPc /\ before' = before
  BY DeclarationsStay DEF searching
<1>2. V!tokens' = V!tokens
  BY <1>1 DEF V!tokens
<1>3. SearchInput'
  BY <1>1 DEF SearchInv, SearchInput
<1>4. FoundInv'
  BY <1>1, <1>2 DEF SearchInv, FoundInv, RefersBefore
<1>5. LoopInv'
  BY <1>1 DEF SearchInv, LoopInv, Collected
<1>6. PhaseInv'
  BY <1>1 DEF SearchInv, PhaseInv, V!Init
<1> QED  BY <1>3, <1>4, <1>5, <1>6 DEF SearchInv

\* The blocks that are searched, of a layer
LEMMA OtherBlocksType ==
    ASSUME NEW list \in Seq(SheetRules)
    PROVE  OtherBlocks(list) \in Seq(Seq(OutTokens))
<1> DEFINE F == [k \in 1..Len(list) |-> IF list[k].isTheme THEN <<>> ELSE <<list[k].block>>]
<1>1. Len(list) \in Nat /\ \A k \in 1..Len(list) : list[k] \in SheetRules
  OBVIOUS
<1>2. \A k \in 1..Len(list) : F[k] \in Seq(Seq(OutTokens))
  <2> SUFFICES ASSUME NEW k \in 1..Len(list) PROVE F[k] \in Seq(Seq(OutTokens))
    OBVIOUS
  <2>1. list[k].block \in Seq(OutTokens)
    BY <1>1 DEF SheetRules
  <2>2. <<list[k].block>> \in Seq(Seq(OutTokens)) /\ <<>> \in Seq(Seq(OutTokens))
    BY <2>1
  <2> QED  BY <2>2
<1>3. F \in Seq(Seq(Seq(OutTokens)))
  <2>1. F \in [1..Len(list) -> Seq(Seq(OutTokens))]
    BY <1>2
  <2> HIDE DEF F
  <2> QED  BY <1>1, <2>1
<1> HIDE DEF F
<1>4. FlattenSeq(F) \in Seq(Seq(OutTokens))
  BY <1>3, FlattenType
<1> QED  BY <1>4 DEF OtherBlocks, F

\* and of all.
LEMMA AllBlocksType ==
    ASSUME SheetInv
    PROVE  FlattenSeq([l \in 1..Len(sheet) |-> OtherBlocks(sheet[l].rules)]) \in Seq(Seq(OutTokens))
<1> DEFINE F == [l \in 1..Len(sheet) |-> OtherBlocks(sheet[l].rules)]
<1>1. Len(sheet) \in Nat /\ \A l \in 1..Len(sheet) : sheet[l] \in SheetLayers
  BY DEF SheetInv
<1>2. \A l \in 1..Len(sheet) : OtherBlocks(sheet[l].rules) \in Seq(Seq(OutTokens))
  BY <1>1, OtherBlocksType DEF SheetLayers
<1>3. F \in Seq(Seq(Seq(OutTokens)))
  BY <1>1, <1>2
<1> HIDE DEF F
<1>4. FlattenSeq(F) \in Seq(Seq(OutTokens))
  BY <1>3, FlattenType
<1> QED  BY <1>4 DEF F

\* The search begins with what the other stages have left.
LEMMA BeginSearchInv ==
    ASSUME IInv, ContentInv, SearchInv, BeginSearch
    PROVE  SearchInv'
<1> DEFINE bs == FlattenSeq([l \in 1..Len(sheet) |-> OtherBlocks(sheet[l].rules)])
           ds == ThemeDeclarations
           list == [k \in 1..Len(ds) |-> [name |-> ds[k].name.text, value |-> ds[k].value]]
<1>1. V!Begin(bs, list) /\ UNCHANGED <<inputs, writing>>
  BY DEF BeginSearch
<1>2. bs \in Seq(Seq(OutTokens))
  BY AllBlocksType DEF ContentInv
<1>3. ds \in Seq(InDeclarations)
  BY ThemeDeclarationsType DEF IInv, InputInv
<1>4. list \in Seq(SearchDecls)
  <2>1. Len(ds) \in Nat /\ \A k \in 1..Len(ds) : ds[k] \in InDeclarations
    BY <1>3
  <2> HIDE DEF ds
  <2>2. \A k \in 1..Len(ds) : ds[k].name.text \in Word /\ ds[k].value \in Seq(Tokens)
    BY <2>1 DEF InDeclarations, Parts, Tokens
  <2>3. \A k \in 1..Len(ds) : list[k] \in SearchDecls
    BY <2>2 DEF SearchDecls
  <2>4. list \in [1..Len(ds) -> SearchDecls]
    BY <2>3
  <2> HIDE DEF list
  <2> QED  BY <2>1, <2>4
<1> HIDE DEF bs
<1>5. /\ refPc = "idle" /\ blocks' = bs /\ decls' = list /\ refPc' = "rules" /\ refAt' = 1
      /\ result' = result /\ oldLen' = oldLen /\ refI' = refI /\ before' = before
      /\ styles' = [used |-> UNION {RefersTo(b1) : b1 \in ToSet(blocks')},
                    decls |-> [k \in DOMAIN decls' |->
                                 [name |-> decls'[k].name, refs |-> RefersTo(decls'[k].value)]]]
  <2> HIDE DEF list
  <2> QED  BY <1>1, SameSearch DEF V!Begin
<1>6. result = {} /\ before = {} /\ oldLen = 0 /\ refI = 0 /\ outPc = "idle"
  BY <1>5 DEF SearchInv, PhaseInv, V!Init
<1>7. ThemeDeclarations' = ThemeDeclarations /\ outPc' = outPc
  BY <1>1, DeclarationsStay DEF inputs, writing
<1>8. SearchInput'
  <2> HIDE DEF list
  <2>1. blocks' \in Seq(Seq(OutTokens)) /\ decls' \in Seq(SearchDecls)
    BY <1>2, <1>4, <1>5
  <2>2. decls' = [k \in 1..Len(ThemeDeclarations') |->
                    [name |-> ThemeDeclarations'[k].name.text,
                     value |-> ThemeDeclarations'[k].value]]
    BY <1>5, <1>7 DEF list
  <2> QED  BY <1>5, <2>1, <2>2 DEF SearchInput
<1>9. FoundInv'
  BY <1>5, <1>6 DEF FoundInv
<1>10. LoopInv'
  <2>1. Len(bs) \in Nat
    BY <1>2
  <2>2. 1 \in 1..(Len(bs) + 1) /\ {RefersTo(bs[k]) : k \in 1..(1 - 1)} = {}
    BY <2>1
  <2> QED  BY <1>5, <1>6, <2>2 DEF LoopInv, Collected
<1>11. PhaseInv'
  BY <1>5, <1>6, <1>7 DEF PhaseInv
<1> QED  BY <1>8, <1>9, <1>10, <1>11 DEF SearchInv
-----------------------------------------------------------------------------
\* What findReferences searches.
LEMMA SearchedType ==
    ASSUME SearchInv, refI > 0
    PROVE  /\ V!tokens \in Seq(OutTokens) /\ Len(V!tokens) \in Nat
           /\ refPc = "rules" => refAt \in 1..Len(blocks) /\ V!tokens = blocks[refAt]
           /\ refPc = "pass" => refAt \in 1..Len(decls) /\ V!tokens = decls[refAt].value
           /\ refPc \in {"rules", "pass"}
<1>1. /\ refPc \in {"rules", "pass"} /\ refAt \in Nat
      /\ refPc = "rules" => refAt \in 1..(Len(blocks) + 1) /\ refAt <= Len(blocks)
      /\ refPc = "pass" => refAt \in 1..(Len(decls) + 1) /\ refAt <= Len(decls)
      /\ blocks \in Seq(Seq(OutTokens)) /\ decls \in Seq(SearchDecls)
  BY DEF SearchInv, SearchInput, FoundInv, LoopInv
<1>2. CASE refPc = "rules"
  <2>1. refAt \in 1..Len(blocks) /\ V!tokens = blocks[refAt]
    BY <1>1, <1>2 DEF V!tokens
  <2>2. blocks[refAt] \in Seq(OutTokens)
    BY <1>1, <2>1
  <2> QED  BY <1>2, <2>1, <2>2
<1>3. CASE refPc = "pass"
  <2>1. refAt \in 1..Len(decls) /\ V!tokens = decls[refAt].value
    BY <1>1, <1>3 DEF V!tokens
  <2>2. decls[refAt] \in SearchDecls
    BY <1>1, <2>1
  <2>3. V!tokens \in Seq(Tokens)
    BY <2>1, <2>2 DEF SearchDecls
  <2>4. V!tokens \in Seq(OutTokens)
    BY <2>3, TokensAreOut
  <2> QED  BY <1>3, <2>1, <2>4
<1> QED  BY <1>1, <1>2, <1>3

\* A pass of the loop of findReferences.
LEMMA SearchTokenFinds ==
    ASSUME SearchInv, V!SearchToken
    PROVE  /\ refI' \in Nat /\ refI' > 0 /\ refI' <= Len(V!tokens) + 1
           /\ result' = before \cup RefersBefore(V!tokens, refI')
           /\ result \subseteq result'
<1>1. /\ refI > 0 /\ refI <= Len(V!tokens) /\ refI \in Nat
      /\ result = before \cup RefersBefore(V!tokens, refI)
  BY DEF V!SearchToken, SearchInv, FoundInv
<1>2. PICK list : list = V!tokens
  OBVIOUS
<1>3. list \in Seq(OutTokens) /\ Len(list) \in Nat
  BY <1>1, <1>2, SearchedType
<1>4. refI \in 1..Len(list)
  BY <1>1, <1>2, <1>3
<1>5. PICK v : v = ValueLength(KindsIn(SubSeq(list, refI, Len(list))))
  OBVIOUS
<1>6. PICK f : f = VarFunctionPropertyName(SubSeq(list, refI, refI + v.n - 1))
  OBVIOUS
<1>7. IF list[refI].kind = "var" /\ v.ok
      THEN result' = result \cup f.names /\ refI' = refI + f.end
      ELSE refI' = refI + 1 /\ result' = result
  <2>1. IF list[refI].kind = "var" /\ v.ok
        THEN result' = result \cup f.names /\ refI' = refI + f.end
        ELSE refI' = refI + 1 /\ UNCHANGED result
    BY <1>2, <1>5, <1>6, SameSearch DEF V!SearchToken
  <2> QED  BY <2>1
<1>8. CASE list[refI].kind = "var" /\ v.ok
  <2>1. /\ refI + f.end \in (refI + 1)..(Len(list) + 1)
        /\ RefersBefore(list, refI + f.end) = RefersBefore(list, refI) \cup f.names
    BY <1>3, <1>4, <1>5, <1>6, <1>8, PassVar
  <2> QED  BY <1>1, <1>2, <1>3, <1>4, <1>7, <1>8, <2>1
<1>9. CASE ~(list[refI].kind = "var" /\ v.ok)
  <2>1. RefersBefore(list, refI + 1) = RefersBefore(list, refI)
    BY <1>3, <1>4, <1>5, <1>9, PassToken
  <2> QED  BY <1>1, <1>2, <1>3, <1>4, <1>7, <1>9, <2>1
<1> QED  BY <1>8, <1>9

\* What the search leaves alone.
LEMMA InputsStay ==
    ASSUME SearchInv, UNCHANGED <<layers, blocks, decls, styles>>, refPc # "idle"
    PROVE  SearchInput'
<1>1. ThemeDeclarations' = ThemeDeclarations
  BY DeclarationsStay
<1> QED  BY <1>1 DEF SearchInv, SearchInput

\* The loop goes on.
LEMMA SearchTokenInv ==
    ASSUME SearchInv, UNCHANGED <<layers, used, outPc>>, V!SearchToken
    PROVE  SearchInv'
<1>1. /\ UNCHANGED <<layers, blocks, decls, styles, oldLen, refAt, refPc, before>> /\ refI > 0
  BY DEF V!SearchToken, V!input
<1>2. refPc \in {"rules", "pass"} /\ outPc = "idle"
  BY <1>1, SearchedType DEF SearchInv, PhaseInv
<1>3. SearchInput'
  BY <1>1, <1>2, InputsStay
<1>4. V!tokens' = V!tokens
  BY <1>1 DEF V!tokens
<1>5. FoundInv'
  BY <1>1, <1>2, <1>4, SearchTokenFinds DEF FoundInv, RefersBefore
<1>6. LoopInv'
  BY <1>1, SearchTokenFinds DEF SearchInv, LoopInv, Collected
<1>7. PhaseInv'
  BY <1>1, <1>2, SearchTokenFinds DEF SearchInv, PhaseInv
<1> QED  BY <1>3, <1>5, <1>6, <1>7 DEF SearchInv

\* All that findReferences finds.
LEMMA SearchEnds ==
    ASSUME SearchInv, refI > 0, refI > Len(V!tokens)
    PROVE  result = before \cup RefersTo(V!tokens)
<1>1. /\ V!tokens \in Seq(OutTokens) /\ refI \in Nat
      /\ result = before \cup RefersBefore(V!tokens, refI)
  BY SearchedType DEF SearchInv, FoundInv
<1> QED  BY <1>1, AllBefore

\* One more block.
LEMMA OneMoreBlock ==
    ASSUME NEW k \in Nat \ {0}
    PROVE  UNION {RefersTo(blocks[j]) : j \in 1..k} =
              RefersTo(blocks[k]) \cup UNION {RefersTo(blocks[j]) : j \in 1..(k - 1)}
<1>1. 1..k = (1..(k - 1)) \cup {k}
  OBVIOUS
<1>2. PICK J : J = 1..(k - 1)
  OBVIOUS
<1>3. UNION {RefersTo(blocks[j]) : j \in J \cup {k}} =
         RefersTo(blocks[k]) \cup UNION {RefersTo(blocks[j]) : j \in J}
  OBVIOUS
<1> QED  BY <1>1, <1>2, <1>3

\* A block, or a declaration, is done.
LEMMA EndSearchInv ==
    ASSUME SearchInv, UNCHANGED <<layers, used, outPc>>, V!EndSearch
    PROVE  SearchInv'
<1>1. /\ UNCHANGED <<layers, blocks, decls, styles, result, oldLen, refPc, before>>
      /\ refI > 0 /\ refI > Len(V!tokens) /\ refI' = 0 /\ refAt' = refAt + 1
  BY DEF V!EndSearch, V!input
<1>2. /\ refPc \in {"rules", "pass"} /\ outPc = "idle"
      /\ refPc = "rules" => refAt \in 1..Len(blocks) /\ V!tokens = blocks[refAt]
      /\ refPc = "pass" => refAt \in 1..Len(decls)
  BY <1>1, SearchedType DEF SearchInv, PhaseInv
<1>3. SearchInput'
  BY <1>1, <1>2, InputsStay
<1>4. FoundInv'
  BY <1>1 DEF FoundInv
<1>5. Len(blocks) \in Nat /\ Len(decls) \in Nat
  BY DEF SearchInv, SearchInput
<1>6. LoopInv'
  <2>1. CASE refPc = "rules"
    <3>1. before = UNION {RefersTo(blocks[k]) : k \in 1..(refAt - 1)} /\ oldLen = 0
      BY <1>1, <2>1 DEF SearchInv, LoopInv, Collected
    <3>2. result = before \cup RefersTo(blocks[refAt])
      BY <1>1, <1>2, <2>1, SearchEnds
    <3>3. refAt \in Nat \ {0} /\ refAt + 1 \in 1..(Len(blocks) + 1) /\ (refAt + 1) - 1 = refAt
      BY <1>2, <1>5, <2>1
    <3>4. result = UNION {RefersTo(blocks[k]) : k \in 1..((refAt + 1) - 1)}
      BY <3>1, <3>2, <3>3, OneMoreBlock
    <3> QED  BY <1>1, <2>1, <3>1, <3>3, <3>4 DEF LoopInv, Collected
  <2>2. CASE refPc = "pass"
    <3>1. refAt + 1 \in 1..(Len(decls) + 1) /\ refAt + 1 \in Nat
      BY <1>2, <1>5, <2>2
    <3> QED  BY <1>1, <2>2, <3>1 DEF LoopInv
  <2> QED  BY <1>2, <2>1, <2>2
<1>7. PhaseInv'
  BY <1>1, <1>2 DEF SearchInv, PhaseInv
<1> QED  BY <1>3, <1>4, <1>6, <1>7 DEF SearchInv
-----------------------------------------------------------------------------
\* findReferences is called, for a block or a declaration.
LEMMA SearchCalled ==
    ASSUME SearchInv, UNCHANGED <<layers, used, outPc>>,
           UNCHANGED <<blocks, decls, styles, result, oldLen, refAt, refPc>>,
           refI = 0, refI' = 1, before' = result,
           \/ refPc = "rules" /\ refAt <= Len(blocks)
           \/ refPc = "pass" /\ refAt <= Len(decls) /\ decls[refAt].name \in result
    PROVE  SearchInv'
<1>1. /\ blocks \in Seq(Seq(OutTokens)) /\ decls \in Seq(SearchDecls)
      /\ refPc = "rules" => refAt \in 1..(Len(blocks) + 1)
      /\ refPc = "pass" => refAt \in 1..(Len(decls) + 1)
      /\ outPc = "idle"
  BY DEF SearchInv, SearchInput, LoopInv, PhaseInv
<1>2. \E list \in Seq(OutTokens) : list = V!tokens
  <2>1. CASE refPc = "rules" /\ refAt <= Len(blocks)
    <3>1. blocks[refAt] \in Seq(OutTokens)
      BY <1>1, <2>1
    <3> QED  BY <2>1, <3>1 DEF V!tokens
  <2>2. CASE refPc = "pass" /\ refAt <= Len(decls)
    <3>1. decls[refAt] \in SearchDecls
      BY <1>1, <2>2
    <3>2. decls[refAt].value \in Seq(Tokens)
      BY <3>1 DEF SearchDecls
    <3>3. decls[refAt].value \in Seq(OutTokens)
      BY <3>2, TokensAreOut
    <3> QED  BY <2>2, <3>3 DEF V!tokens
  <2> QED  BY <2>1, <2>2
<1>3. V!tokens' = V!tokens
  BY DEF V!tokens
<1>4. RefersBefore(V!tokens, 1) = {} /\ Len(V!tokens) \in Nat
  BY <1>2, NothingBefore
<1>5. SearchInput'
  BY InputsStay
<1>6. FoundInv'
  <2>1. RefersBefore(V!tokens, refI)' = {}
    BY <1>3, <1>4 DEF RefersBefore
  <2> QED  BY <1>3, <1>4, <2>1 DEF FoundInv
<1>7. LoopInv'
  BY <1>1 DEF SearchInv, LoopInv, Collected
<1>8. PhaseInv'
  BY <1>1 DEF SearchInv, PhaseInv
<1> QED  BY <1>5, <1>6, <1>7, <1>8 DEF SearchInv

\* A pass begins.
LEMMA PassBegins ==
    ASSUME SearchInv, UNCHANGED <<layers, used, outPc>>, refPc \in {"rules", "pass"}, refI = 0,
           V!BeginPass
    PROVE  SearchInv'
<1>1. /\ UNCHANGED <<blocks, decls, styles, result, refI, before>>
      /\ refPc' = "pass" /\ refAt' = 1 /\ outPc = "idle"
  BY DEF V!BeginPass, V!input, SearchInv, PhaseInv
<1>2. SearchInput'
  <2>1. ThemeDeclarations' = ThemeDeclarations
    BY DeclarationsStay
  <2> QED  BY <1>1, <2>1 DEF SearchInv, SearchInput
<1>3. FoundInv'
  BY <1>1 DEF FoundInv
<1>4. LoopInv'
  <2>1. Len(decls) \in Nat
    BY DEF SearchInv, SearchInput
  <2>2. 1 \in 1..(Len(decls) + 1)
    BY <2>1
  <2> QED  BY <1>1, <2>2 DEF LoopInv
<1>5. PhaseInv'
  BY <1>1 DEF SearchInv, PhaseInv
<1> QED  BY <1>2, <1>3, <1>4, <1>5 DEF SearchInv

\* Every step of the search.
LEMMA SearchStepInv ==
    ASSUME SearchInv, UNCHANGED <<layers, used, outPc>>, V!Next
    PROVE  SearchInv'
<1>1. CASE V!SearchToken
  BY <1>1, SearchTokenInv
<1>2. CASE V!EndSearch
  BY <1>2, EndSearchInv
<1>3. CASE V!SearchBlock
  BY <1>3, SearchCalled DEF V!SearchBlock, V!input
<1>4. CASE V!EndRules
  BY <1>4, PassBegins DEF V!EndRules
<1>5. CASE V!SearchDeclaration
  BY <1>5, SearchCalled DEF V!SearchDeclaration, V!input, V!IsUsed
<1>6. CASE V!SkipDeclaration
  <2>1. /\ UNCHANGED <<blocks, decls, styles, result, oldLen, refI, refPc, before>>
        /\ refPc = "pass" /\ refI = 0 /\ refAt <= Len(decls) /\ refAt' = refAt + 1
        /\ outPc = "idle"
    BY <1>6 DEF V!SkipDeclaration, V!input, SearchInv, PhaseInv
  <2>2. Len(decls) \in Nat /\ refAt \in 1..(Len(decls) + 1)
    BY <2>1 DEF SearchInv, SearchInput, LoopInv
  <2>3. SearchInput'
    BY <2>1, InputsStay
  <2>4. refAt + 1 \in 1..(Len(decls) + 1) /\ refAt + 1 \in Nat
    BY <2>1, <2>2
  <2>5. FoundInv' /\ LoopInv'
    BY <2>1, <2>4 DEF FoundInv, LoopInv
  <2>6. PhaseInv'
    BY <2>1 DEF SearchInv, PhaseInv
  <2> QED  BY <2>3, <2>5, <2>6 DEF SearchInv
<1>7. CASE V!EndPass
  <2>1. CASE Cardinality(result) = oldLen
    <3>0. \A S1 : V!Cardinality(S1) = Cardinality(S1)
      BY Zenon DEF V!Cardinality, Cardinality
    <3>1. /\ UNCHANGED <<blocks, decls, styles, result, oldLen, refI, refAt, before>>
          /\ refPc = "pass" /\ refPc' = "done" /\ refI = 0 /\ outPc = "idle"
      BY <1>7, <2>1, <3>0 DEF V!EndPass, V!input, SearchInv, PhaseInv
    <3>2. SearchInput'
      <4>1. ThemeDeclarations' = ThemeDeclarations
        BY DeclarationsStay
      <4> QED  BY <3>1, <4>1 DEF SearchInv, SearchInput
    <3>3. FoundInv' /\ LoopInv'
      BY <3>1 DEF SearchInv, FoundInv, LoopInv
    <3>4. PhaseInv'
      BY <3>1 DEF SearchInv, PhaseInv
    <3> QED  BY <3>2, <3>3, <3>4 DEF SearchInv
  <2>2. CASE Cardinality(result) # oldLen
    <3>0. \A S1 : V!Cardinality(S1) = Cardinality(S1)
      BY Zenon DEF V!Cardinality, Cardinality
    <3>1. V!BeginPass /\ refPc = "pass" /\ refI = 0
      BY <1>7, <2>2, <3>0 DEF V!EndPass
    <3> QED  BY <3>1, PassBegins
  <2> QED  BY <2>1, <2>2
<1> QED  BY <1>1, <1>2, <1>3, <1>4, <1>5, <1>6, <1>7 DEF V!Next

\* Every step of Process.
LEMMA NextSearch == IInv /\ ContentInv /\ SearchInv /\ [Next]_vars => SearchInv'
<1> SUFFICES ASSUME IInv, ContentInv, SearchInv, [Next]_vars PROVE SearchInv'
  OBVIOUS
<1>1. CASE Scan \/ Group \/ BeginLayer \/ Substitute \/ UNCHANGED vars
  <2>1. UNCHANGED <<layers, searching, used, outPc>>
    BY <1>1 DEF Scan, Group, BeginLayer, Substitute, vars, inputs, writing
  <2> QED  BY <2>1, SearchStays
<1>2. CASE BeginSearch
  BY <1>2, BeginSearchInv
<1>3. CASE Search
  <2>1. UNCHANGED <<layers, used, outPc>> /\ V!Next
    BY <1>3 DEF Search, inputs, writing
  <2> QED  BY <2>1, SearchStepInv
<1>4. CASE BeginOutput
  <2>1. UNCHANGED <<layers, searching>> /\ refPc = "done" /\ used' = result
    BY <1>4 DEF BeginOutput, inputs, O!Begin
  <2> QED
    <3>1. refPc' = "done" /\ outPc' = "write"
      BY <1>4 DEF BeginOutput, searching, O!Begin
    <3> QED  BY <2>1, SearchStays
<1>5. CASE Write
  <2>1. UNCHANGED <<layers, searching>> /\ O!Next
    BY <1>5 DEF Write, inputs
  <2>2. outPc # "idle" /\ used' = used
    BY <2>1 DEF O!Next, O!OpenLayer, O!WriteRule, O!CloseLayer, O!Finish
  <2> QED  BY <2>1, <2>2, SearchStays
<1> QED  BY <1>1, <1>2, <1>3, <1>4, <1>5 DEF Next
-----------------------------------------------------------------------------
\* Finite sets are finite sets.
LEMMA SameSets ==
    /\ \A S1 : T!IsFiniteSet(S1) <=> IsFiniteSet(S1)
    /\ \A S1 : T!Cardinality(S1) = Cardinality(S1)
    /\ \A S1 : V!Cardinality(S1) = Cardinality(S1)
<1>1. \A S1 : T!IsFiniteSet(S1) <=> IsFiniteSet(S1)
  BY Zenon DEF T!IsFiniteSet, IsFiniteSet
<1>2. \A S1 : T!Cardinality(S1) = Cardinality(S1)
  BY Zenon DEF T!Cardinality, Cardinality, T!IsFiniteSet, IsFiniteSet
<1>3. \A S1 : V!Cardinality(S1) = Cardinality(S1)
  BY Zenon DEF V!Cardinality, Cardinality, V!IsFiniteSet, IsFiniteSet
<1> QED  BY <1>1, <1>2, <1>3

-----------------------------------------------------------------------------
\* The variables that ThemeVars keeps are those needed, whatever the declarations.  The
\* heart of it is PassInvariant: a pass remembers nothing of what it saw, and still, if
\* the names are as many at its end as at its start, then they were the same set all
\* along, so that every declaration was visited with all of them.

\* What the rules that are not @theme refer to stays collected.
UsedAreCollected == ThemePc # "rules" => styles.used \subseteq ThemeResult

\* There is a set, as large as the pass found it to be at its start, for which
\* the declarations visited so far have been followed.
Followed(old) ==
    /\ Cardinality(old) = ThemeLen
    /\ \A j \in 1..(ThemeAt - 1) : T!decls[j].name \in old => T!decls[j].refs \subseteq ThemeResult

PassInvariant == ThemePc = "pass" => ThemeAt >= 1 /\ \E old \in SUBSET ThemeResult : Followed(old)

\* After the last pass.
ThemeIsClosed == ThemePc \in {"rewrite", "done"} => T!Closed(ThemeResult)

WrittenAreKept == ThemePc = "done" => ThemeWritten = {i \in 1..Len(T!decls) : T!Kept(i)}

ThemeInv ==
    /\ T!TypeOK /\ UsedAreCollected /\ T!OnlyNeeded /\ PassInvariant /\ ThemeIsClosed
    /\ WrittenAreKept

\* Names that are referred to are finitely many, and can be counted.
LEMMA NameSetsAreFinite ==
    \A names \in T!NameSets : names \subseteq Word /\ IsFiniteSet(names) /\ Cardinality(names) \in Nat
  BY FS_CardinalityType, SameSets DEF T!NameSets

\* The declarations are records of a name and a set of names.
LEMMA DeclarationTypes ==
    ASSUME T!TypeOK
    PROVE  /\ T!decls \in Seq(T!Declarations) /\ Len(T!decls) \in Nat
           /\ \A i \in 1..Len(T!decls) : T!decls[i].name \in Word /\ T!decls[i].refs \in T!NameSets
<1>1. T!decls \in Seq(T!Declarations)
  BY DEF T!TypeOK, T!Stylesheets, T!decls
<1>2. \A i \in 1..Len(T!decls) : T!decls[i] \in T!Declarations
  BY <1>1
<1> QED  BY <1>1, <1>2 DEF T!Declarations

\* A name a needed declaration refers to is needed.
LEMMA NeededIsClosed ==
    ASSUME T!TypeOK, NEW i \in 1..Len(T!decls), T!decls[i].name \in T!Needed
    PROVE  T!decls[i].refs \subseteq T!Needed
<1> SUFFICES ASSUME NEW n \in T!decls[i].refs, NEW names \in SUBSET T!Mentioned, T!Covers(names)
             PROVE  n \in names
  BY DEF T!Needed, T!Mentioned
<1> QED  BY DEF T!Needed, T!Covers, T!Closed

\* A closed set of names with the used ones is all that is needed, and no more if
\* it is within.
LEMMA CoversIsNeeded ==
    ASSUME NEW names, T!Covers(names)
    PROVE  T!Needed \subseteq names
<1>1. names \cap T!Mentioned \in SUBSET T!Mentioned
  OBVIOUS
<1>2. styles.used \subseteq names \cap T!Mentioned
  BY DEF T!Covers, T!Mentioned
<1>3. T!Closed(names \cap T!Mentioned)
  BY DEF T!Covers, T!Closed, T!Mentioned
<1> QED  BY <1>1, <1>2, <1>3 DEF T!Covers, T!Needed

\* What is needed depends on the styles alone.
LEMMA NeededStays == styles' = styles => T!Needed' = T!Needed
  BY DEF T!Needed, T!Mentioned, T!Covers, T!Closed, T!decls

\* The invariant holds at the start.
LEMMA ThemeInit == T!Init => ThemeInv
<1> SUFFICES ASSUME T!Init PROVE ThemeInv
  OBVIOUS
<1>1. styles \in T!Stylesheets /\ {} \in T!NameSets
  BY FS_EmptySet, SameSets DEF T!Init, T!NameSets
<1>2. T!decls \in Seq(T!Declarations) /\ Len(T!decls) \in Nat
  BY <1>1 DEF T!Stylesheets, T!decls
<1>3. T!TypeOK
  BY <1>1, <1>2 DEF T!Init, T!TypeOK
<1>4. UsedAreCollected /\ PassInvariant /\ ThemeIsClosed /\ WrittenAreKept /\ T!OnlyNeeded
  BY DEF T!Init, UsedAreCollected, PassInvariant, ThemeIsClosed, WrittenAreKept, T!OnlyNeeded
<1> QED  BY <1>3, <1>4 DEF ThemeInv

\* A pass begins with nothing visited.
LEMMA ThemePassBegins ==
    ASSUME T!TypeOK, NEW names \in T!NameSets, T!BeginPass(names)
    PROVE  /\ ThemeResult' = names /\ ThemeAt' = 1 /\ ThemeLen' \in Nat /\ ThemePc' = "pass"
           /\ ThemeAt' \in 0..Len(T!decls) + 1
           /\ PassInvariant'
<1>1. ThemeResult' = names /\ ThemeAt' = 1 /\ ThemeLen' = Cardinality(names) /\ ThemePc' = "pass"
  BY SameSets DEF T!BeginPass
<1>2. ThemeLen' \in Nat
  BY <1>1, NameSetsAreFinite
<1>3. ThemeAt' \in 0..Len(T!decls) + 1
  BY <1>1, DeclarationTypes
<1>4. Followed(names)'
  BY <1>1 DEF Followed
<1>5. names \in SUBSET ThemeResult' /\ ThemeAt' >= 1
  BY <1>1
<1>6. PassInvariant'
  BY <1>4, <1>5 DEF PassInvariant
<1> QED  BY <1>1, <1>2, <1>3, <1>6

\* Every step keeps the invariant.
LEMMA ThemeNext == ThemeInv /\ [T!Next]_(T!vars) => ThemeInv'
<1> SUFFICES ASSUME ThemeInv, [T!Next]_(T!vars) PROVE ThemeInv'
  OBVIOUS
<1> USE DEF ThemeInv
<1>1. CASE T!CollectUsed
  <2>1. styles' = styles /\ ThemeWritten' = ThemeWritten /\ T!BeginPass(styles.used)
    BY <1>1 DEF T!CollectUsed
  <2>2. styles.used \in T!NameSets /\ styles.used \subseteq Word
    BY NameSetsAreFinite DEF T!TypeOK, T!Stylesheets
  <2>3. /\ ThemeResult' = styles.used /\ ThemeAt' \in 0..Len(T!decls) + 1 /\ ThemeLen' \in Nat
        /\ ThemePc' = "pass" /\ PassInvariant'
    BY <2>1, <2>2, ThemePassBegins
  <2>4. T!decls' = T!decls
    BY <2>1 DEF T!decls
  <2>5. T!TypeOK'
    BY <2>1, <2>2, <2>3, <2>4 DEF T!TypeOK
  <2>6. T!OnlyNeeded'
    <3>1. styles.used \subseteq T!Needed
      BY DEF T!Needed, T!Mentioned, T!Covers
    <3>2. T!Needed' = T!Needed
      BY <2>1, NeededStays
    <3> QED  BY <2>3, <3>1, <3>2 DEF T!OnlyNeeded
  <2>7. UsedAreCollected' /\ ThemeIsClosed' /\ WrittenAreKept'
    BY <2>1, <2>3 DEF UsedAreCollected, ThemeIsClosed, WrittenAreKept
  <2> QED  BY <2>3, <2>5, <2>6, <2>7
<1>2. CASE T!VisitDeclaration
  <2>1. /\ styles' = styles /\ ThemeWritten' = ThemeWritten /\ ThemeLen' = ThemeLen
        /\ ThemePc = "pass" /\ ThemePc' = "pass" /\ ThemeAt' = ThemeAt + 1 /\ ThemeAt <= Len(T!decls)
        /\ ThemeResult' = ThemeResult \cup T!Added(T!decls[ThemeAt]) /\ T!decls' = T!decls
    BY <1>2 DEF T!VisitDeclaration, T!decls
  <2>2. ThemeAt \in 1..Len(T!decls)
    BY <2>1, DeclarationTypes DEF PassInvariant, T!TypeOK
  <2>3. ThemeResult' \in T!NameSets
    <3>1. T!Added(T!decls[ThemeAt]) \in T!NameSets /\ ThemeResult \in T!NameSets
      BY <2>2, DeclarationTypes, FS_EmptySet, SameSets DEF T!Added, T!TypeOK, T!NameSets
    <3> QED  BY <2>1, <3>1, FS_Union, SameSets DEF T!NameSets
  <2>4. T!TypeOK'
    <3>1. ThemeAt' \in 0..Len(T!decls) + 1
      BY <2>1, <2>2, DeclarationTypes
    <3> QED  BY <2>1, <2>3, <3>1 DEF T!TypeOK
  <2>5. T!OnlyNeeded'
    <3>1. T!Added(T!decls[ThemeAt]) \subseteq T!Needed
      BY <2>2, NeededIsClosed DEF T!Added, T!OnlyNeeded
    <3>2. T!Needed' = T!Needed
      BY <2>1, NeededStays
    <3> QED  BY <2>1, <3>1, <3>2 DEF T!OnlyNeeded
  <2>6. PassInvariant'
    <3>1. PICK old \in SUBSET ThemeResult : Followed(old)
      BY <2>1 DEF PassInvariant
    <3>2. ASSUME NEW j \in 1..(ThemeAt' - 1), T!decls[j].name \in old
          PROVE  T!decls[j].refs \subseteq ThemeResult'
      <4>1. j \in 1..(ThemeAt - 1) \/ j = ThemeAt
        BY <2>1, <2>2
      <4>2. CASE j \in 1..(ThemeAt - 1)
        BY <2>1, <3>1, <3>2, <4>2 DEF Followed
      <4>3. CASE j = ThemeAt
        BY <2>1, <3>1, <3>2, <4>3 DEF T!Added
      <4> QED  BY <4>1, <4>2, <4>3
    <3>3. Followed(old)'
      BY <2>1, <3>1, <3>2 DEF Followed
    <3>4. old \in SUBSET ThemeResult' /\ ThemeAt' >= 1
      BY <2>1, <2>2, <3>1
    <3> QED  BY <3>3, <3>4 DEF PassInvariant
  <2>7. UsedAreCollected' /\ ThemeIsClosed' /\ WrittenAreKept'
    BY <2>1 DEF UsedAreCollected, ThemeIsClosed, WrittenAreKept
  <2> QED  BY <2>4, <2>5, <2>6, <2>7
<1>3. CASE T!EndPass
  <2>1. /\ styles' = styles /\ ThemeWritten' = ThemeWritten /\ ThemePc = "pass" /\ ThemeAt > Len(T!decls)
        /\ T!decls' = T!decls
    BY <1>3 DEF T!EndPass, T!decls
  <2>2. ThemeResult \in T!NameSets /\ ThemeAt = Len(T!decls) + 1
    BY <2>1, DeclarationTypes DEF T!TypeOK
  <2>3. T!Needed' = T!Needed
    BY <2>1, NeededStays
  <2>4. CASE T!NothingAdded
    <3>1. ThemeResult' = ThemeResult /\ ThemeLen' = ThemeLen /\ ThemeAt' = ThemeAt /\ ThemePc' = "rewrite"
      BY <1>3, <2>4 DEF T!EndPass
    <3>2. PICK old \in SUBSET ThemeResult : Followed(old)
      BY <2>1 DEF PassInvariant
    <3>3. old = ThemeResult
      BY <2>2, <2>4, <3>2, NameSetsAreFinite, FS_Subset, SameSets DEF Followed, T!NothingAdded
    <3>4. ThemeAt - 1 = Len(T!decls)
      BY <2>2, DeclarationTypes
    <3>5. T!Closed(ThemeResult)
      BY <3>2, <3>3, <3>4 DEF Followed, T!Closed
    <3>6. T!Closed(ThemeResult)'
      BY <2>1, <3>1, <3>5 DEF T!Closed
    <3>7. T!TypeOK' /\ T!OnlyNeeded'
      BY <2>1, <2>3, <3>1 DEF T!TypeOK, T!OnlyNeeded
    <3> QED  BY <2>1, <3>1, <3>6, <3>7
             DEF UsedAreCollected, PassInvariant, ThemeIsClosed, WrittenAreKept
  <2>5. CASE ~T!NothingAdded
    <3>1. T!BeginPass(ThemeResult)
      BY <1>3, <2>5 DEF T!EndPass
    <3>2. /\ ThemeResult' = ThemeResult /\ ThemeAt' \in 0..Len(T!decls) + 1 /\ ThemeLen' \in Nat
          /\ ThemePc' = "pass" /\ PassInvariant'
      BY <2>2, <3>1, ThemePassBegins
    <3>3. T!TypeOK' /\ T!OnlyNeeded'
      BY <2>1, <2>3, <3>2 DEF T!TypeOK, T!OnlyNeeded
    <3> QED  BY <2>1, <3>2, <3>3 DEF UsedAreCollected, ThemeIsClosed, WrittenAreKept
  <2> QED  BY <2>4, <2>5
<1>4. CASE T!RewriteThemes
  <2>1. /\ styles' = styles /\ ThemeResult' = ThemeResult /\ ThemeLen' = ThemeLen /\ ThemeAt' = ThemeAt
        /\ ThemePc = "rewrite" /\ ThemePc' = "done" /\ T!decls' = T!decls
        /\ ThemeWritten' = {i \in 1..Len(T!decls) : T!Kept(i)}
    BY <1>4 DEF T!RewriteThemes, T!decls
  <2>2. T!TypeOK'
    BY <2>1 DEF T!TypeOK
  <2>3. T!Needed' = T!Needed
    BY <2>1, NeededStays
  <2>4. T!OnlyNeeded' /\ UsedAreCollected' /\ PassInvariant'
    BY <2>1, <2>3 DEF T!OnlyNeeded, UsedAreCollected, PassInvariant
  <2>5. ThemeIsClosed' /\ WrittenAreKept'
    BY <2>1 DEF ThemeIsClosed, T!Closed, WrittenAreKept, T!Kept
  <2> QED  BY <2>2, <2>4, <2>5
<1>5. CASE UNCHANGED T!vars
  <2>1. /\ styles' = styles /\ ThemeResult' = ThemeResult /\ ThemeLen' = ThemeLen /\ ThemeAt' = ThemeAt
        /\ ThemePc' = ThemePc /\ ThemeWritten' = ThemeWritten /\ T!decls' = T!decls
    BY <1>5 DEF T!vars, T!decls
  <2>2. T!Needed' = T!Needed
    BY <2>1, NeededStays
  <2>3. T!TypeOK' /\ T!OnlyNeeded' /\ UsedAreCollected'
    BY <2>1, <2>2 DEF T!TypeOK, T!OnlyNeeded, UsedAreCollected
  <2>4. PassInvariant'
    BY <2>1 DEF PassInvariant, Followed
  <2>5. ThemeIsClosed' /\ WrittenAreKept'
    BY <2>1 DEF ThemeIsClosed, T!Closed, WrittenAreKept, T!Kept
  <2> QED  BY <2>3, <2>4, <2>5
<1> QED  BY <1>1, <1>2, <1>3, <1>4, <1>5 DEF T!Next

\* Once the passes are over, the names collected are exactly those needed.
LEMMA ResultIsNeeded == ThemeInv /\ ThemePc \in {"rewrite", "done"} => ThemeResult = T!Needed
<1> SUFFICES ASSUME ThemeInv, ThemePc \in {"rewrite", "done"} PROVE ThemeResult = T!Needed
  OBVIOUS
<1>1. ThemeResult \in SUBSET Word /\ T!Covers(ThemeResult)
  BY DEF ThemeInv, T!TypeOK, T!NameSets, UsedAreCollected, ThemeIsClosed, T!Covers
<1>2. T!Needed \subseteq ThemeResult
  BY <1>1, CoversIsNeeded
<1> QED  BY <1>2 DEF ThemeInv, T!OnlyNeeded

LEMMA ThemeProperties == ThemeInv => T!AllNeeded /\ T!WrittenIsSelfContained
<1> SUFFICES ASSUME ThemeInv PROVE T!AllNeeded /\ T!WrittenIsSelfContained
  OBVIOUS
<1>1. T!AllNeeded
  BY ResultIsNeeded DEF T!AllNeeded
<1>2. ASSUME ThemePc = "done" PROVE T!WrittenIsSelfContained
  <2>1. ThemeResult = T!Needed /\ T!Closed(ThemeResult) /\ ThemeWritten = {i \in 1..Len(T!decls) : T!Kept(i)}
    BY <1>2, ResultIsNeeded DEF ThemeInv, ThemeIsClosed, WrittenAreKept
  <2>2. ThemeWritten = {i \in 1..Len(T!decls) : T!decls[i].name \in T!Needed}
    BY <2>1 DEF T!Kept
  <2>3. ASSUME NEW i \in ThemeWritten, NEW j \in 1..Len(T!decls), T!decls[j].name \in T!decls[i].refs
        PROVE  j \in ThemeWritten
    BY <2>1, <2>2, <2>3 DEF T!Closed
  <2> QED  BY <2>2, <2>3 DEF T!WrittenIsSelfContained
<1> QED  BY <1>1, <1>2 DEF T!WrittenIsSelfContained

-----------------------------------------------------------------------------
\* The search and the output as ThemeVars sees them.
USE DEF ThemeResult, ThemeLen, ThemeAt, ThemePc, ThemeWritten

\* The image of a finite set.
LEMMA ImageIsFinite ==
    ASSUME NEW D, IsFiniteSet(D), NEW f, f = [x \in D |-> f[x]]
    PROVE  IsFiniteSet({f[x] : x \in D})
<1> DEFINE E == {f[x] : x \in D}
<1>1. f \in [D -> E] /\ \A y \in E : \E x \in D : f[x] = y
  OBVIOUS
<1> HIDE DEF E
<1>2. f \in Surjection(D, E)
  BY <1>1 DEF Surjection
<1>3. IsFiniteSet(E)
  BY <1>2, FS_Surjection
<1> QED  BY <1>3 DEF E

\* Tokens refer to finitely many names.
LEMMA RefersToType ==
    ASSUME NEW list \in Seq(OutTokens)
    PROVE  RefersTo(list) \in T!NameSets
<1> DEFINE I == {q \in 1..Len(list) : \E p \in 1..(q - 1) : Refers(list, p, q)}
<1>1. IsFiniteSet(I)
  <2>1. IsFiniteSet(1..Len(list))
    BY FS_Interval
  <2> QED  BY <2>1, FS_Subset
<1>2. \A q \in I : list[q].text \in Word
  <2>1. \A q \in 1..Len(list) : list[q] \in OutTokens
    OBVIOUS
  <2> QED  BY <2>1 DEF OutTokens
<1> HIDE DEF I
<1>3. IsFiniteSet({list[q].text : q \in I})
  <2> DEFINE f == [q \in I |-> list[q].text]
  <2>1. f = [q \in I |-> f[q]] /\ {f[q] : q \in I} = {list[q].text : q \in I}
    OBVIOUS
  <2> HIDE DEF f
  <2> QED  BY <1>1, <2>1, ImageIsFinite
<1>4. RefersTo(list) = {list[q].text : q \in I}
  BY Zenon DEF RefersTo, I
<1>5. {list[q].text : q \in I} \subseteq Word
  BY <1>2
<1> QED  BY <1>3, <1>4, <1>5, SameSets DEF T!NameSets

\* The input of ThemeVars is one.
LEMMA StylesType ==
    ASSUME SearchInv
    PROVE  styles \in T!Stylesheets
<1>1. CASE refPc = "idle"
  <2>1. styles = [used |-> {}, decls |-> <<>>]
    BY <1>1 DEF SearchInv, PhaseInv, V!Init
  <2>2. {} \in T!NameSets
    BY FS_EmptySet, SameSets DEF T!NameSets
  <2> QED  BY <2>1, <2>2 DEF T!Stylesheets
<1>2. CASE refPc # "idle"
  <2> DEFINE names == UNION {RefersTo(list) : list \in ToSet(blocks)}
             list1 == [k \in DOMAIN decls |->
                          [name |-> decls[k].name, refs |-> RefersTo(decls[k].value)]]
  <2>1. /\ styles = [used |-> names, decls |-> list1]
        /\ blocks \in Seq(Seq(OutTokens)) /\ decls \in Seq(SearchDecls)
    BY <1>2 DEF SearchInv, SearchInput
  <2>2. names \in T!NameSets
    <3>1. ToSet(blocks) \subseteq Seq(OutTokens) /\ IsFiniteSet(ToSet(blocks))
      <4>1. Len(blocks) \in Nat /\ \A k \in 1..Len(blocks) : blocks[k] \in Seq(OutTokens)
        BY <2>1
      <4>2. IsFiniteSet(1..Len(blocks))
        BY <4>1, FS_Interval
      <4>3. IsFiniteSet({blocks[k] : k \in 1..Len(blocks)})
        <5> DEFINE f == [k \in 1..Len(blocks) |-> blocks[k]]
        <5>1. /\ f = [k \in 1..Len(blocks) |-> f[k]]
              /\ {f[k] : k \in 1..Len(blocks)} = {blocks[k] : k \in 1..Len(blocks)}
          OBVIOUS
        <5> HIDE DEF f
        <5> QED  BY <4>2, <5>1, ImageIsFinite
      <4>4. ToSet(blocks) = {blocks[k] : k \in 1..Len(blocks)}
        BY <2>1 DEF ToSet
      <4> QED  BY <4>1, <4>3, <4>4
    <3>2. \A list \in ToSet(blocks) : RefersTo(list) \in T!NameSets
      BY <3>1, RefersToType
    <3>3. IsFiniteSet({RefersTo(list) : list \in ToSet(blocks)})
      <4> DEFINE f == [list \in ToSet(blocks) |-> RefersTo(list)]
      <4>1. f = [list \in ToSet(blocks) |-> f[list]]
        OBVIOUS
      <4>2. {f[list] : list \in ToSet(blocks)} = {RefersTo(list) : list \in ToSet(blocks)}
        OBVIOUS
      <4> HIDE DEF f
      <4>3. IsFiniteSet({f[list] : list \in ToSet(blocks)})
        BY <3>1, <4>1, ImageIsFinite
      <4> QED  BY <4>2, <4>3
    <3>4. \A n1 \in {RefersTo(list) : list \in ToSet(blocks)} : IsFiniteSet(n1) /\ n1 \subseteq Word
      BY <3>2, SameSets DEF T!NameSets
    <3>5. IsFiniteSet(names)
      BY <3>3, <3>4, FS_UNION
    <3> QED  BY <3>4, <3>5, SameSets DEF T!NameSets
  <2>3. list1 \in Seq(T!Declarations)
    <3>1. /\ Len(decls) \in Nat /\ DOMAIN decls = 1..Len(decls)
          /\ \A k \in 1..Len(decls) : decls[k] \in SearchDecls
      BY <2>1
    <3>2. \A k \in 1..Len(decls) : decls[k].name \in Word /\ RefersTo(decls[k].value) \in T!NameSets
      <4> SUFFICES ASSUME NEW k \in 1..Len(decls)
                   PROVE  decls[k].name \in Word /\ RefersTo(decls[k].value) \in T!NameSets
        OBVIOUS
      <4>1. decls[k].name \in Word /\ decls[k].value \in Seq(Tokens)
        BY <3>1 DEF SearchDecls
      <4>2. decls[k].value \in Seq(OutTokens)
        BY <4>1, TokensAreOut
      <4> QED  BY <4>1, <4>2, RefersToType
    <3>3. list1 \in [1..Len(decls) -> T!Declarations]
      BY <3>1, <3>2 DEF T!Declarations
    <3> HIDE DEF list1
    <3> QED  BY <3>1, <3>3
  <2> HIDE DEF names, list1
  <2> QED  BY <2>1, <2>2, <2>3 DEF T!Stylesheets
<1> QED  BY <1>1, <1>2

\* Until the first pass begins, ThemeVars sees nothing.
LEMMA NothingSeen == SearchInv /\ refPc \in {"idle", "rules"} => T!Init
<1> SUFFICES ASSUME SearchInv, refPc \in {"idle", "rules"} PROVE T!Init
  OBVIOUS
<1>1. ~Searching /\ outPc = "idle"
  BY DEF Searching, SearchInv, PhaseInv
<1>2. styles \in T!Stylesheets
  BY StylesType
<1> QED  BY <1>1, <1>2 DEF T!Init

\* Steps that ThemeVars does not see.
LEMMA Unseen ==
    ASSUME UNCHANGED <<layers, styles, oldLen, refAt, refPc>>,
           (IF refI > 0 THEN before ELSE result)' = IF refI > 0 THEN before ELSE result,
           (outPc # "done" /\ outPc' # "done") \/ UNCHANGED <<used, outPc>>
    PROVE  UNCHANGED T!vars
<1>1. ThemeDeclarations' = ThemeDeclarations /\ Searching' = Searching
  BY DeclarationsStay DEF Searching
<1> QED  BY <1>1 DEF T!vars, O!IsKept
-----------------------------------------------------------------------------
\* All blocks are searched.
LEMMA EndRulesCollects ==
    ASSUME SearchInv, V!EndRules
    PROVE  result = styles.used
<1>1. refPc = "rules" /\ refI = 0 /\ refAt > Len(blocks)
  BY DEF V!EndRules
<1>2. /\ blocks \in Seq(Seq(OutTokens))
      /\ styles.used = UNION {RefersTo(list) : list \in ToSet(blocks)}
      /\ refAt \in 1..(Len(blocks) + 1)
      /\ result = UNION {RefersTo(blocks[k]) : k \in 1..(refAt - 1)}
  BY <1>1 DEF SearchInv, SearchInput, LoopInv, Collected
<1>3. refAt - 1 = Len(blocks) /\ ToSet(blocks) = {blocks[k] : k \in 1..Len(blocks)}
  BY <1>1, <1>2 DEF ToSet
<1> QED  BY <1>2, <1>3

\* A declaration, as ThemeVars sees it.
LEMMA DeclarationSeen ==
    ASSUME SearchInv, refPc = "pass", refAt <= Len(decls)
    PROVE  /\ refAt \in 1..Len(decls) /\ T!decls = styles.decls /\ Len(T!decls) = Len(decls)
           /\ T!decls[refAt] = [name |-> decls[refAt].name, refs |-> RefersTo(decls[refAt].value)]
<1>1. /\ decls \in Seq(SearchDecls) /\ refAt \in 1..(Len(decls) + 1)
      /\ styles.decls = [k \in DOMAIN decls |->
                            [name |-> decls[k].name, refs |-> RefersTo(decls[k].value)]]
  BY DEF SearchInv, SearchInput, LoopInv
<1>2. Len(decls) \in Nat /\ DOMAIN decls = 1..Len(decls)
  BY <1>1
<1> QED  BY <1>1, <1>2 DEF T!decls

\* Every step of the search is one of ThemeVars, or nothing that it sees.
LEMMA SearchRefines ==
    ASSUME SearchInv, Search
    PROVE  T!Next \/ UNCHANGED T!vars
<1>1. UNCHANGED <<layers, used, outPc>> /\ V!Next
  BY DEF Search, inputs, writing
<1>2. refPc \in {"rules", "pass"} /\ outPc = "idle"
  BY <1>1, SearchedType DEF V!Next, V!SearchToken, V!EndSearch, V!SearchBlock, V!EndRules,
     V!SearchDeclaration, V!SkipDeclaration, V!EndPass, SearchInv, PhaseInv
<1>3. CASE V!SearchToken
  <2>1. /\ UNCHANGED <<styles, oldLen, refAt, refPc, before>> /\ refI > 0 /\ refI' > 0
    BY <1>3, SearchTokenFinds DEF V!SearchToken, V!input
  <2>2. UNCHANGED T!vars
    BY <1>1, <1>2, <2>1, Unseen
  <2> QED  BY <2>2
<1>4. CASE refPc = "rules" /\ refPc' = "rules" /\ styles' = styles
  <2>1. ~Searching /\ ~Searching'
    BY <1>4 DEF Searching
  <2> QED  BY <1>1, <1>2, <1>4, <2>1 DEF T!vars
<1>5. CASE V!EndSearch
  <2>1. /\ UNCHANGED <<blocks, decls, styles, result, oldLen, refPc, before>>
        /\ refI > 0 /\ refI > Len(V!tokens) /\ refI' = 0 /\ refAt' = refAt + 1
    BY <1>5 DEF V!EndSearch, V!input
  <2>2. CASE refPc = "rules"
    BY <1>4, <2>1, <2>2
  <2>3. CASE refPc = "pass"
    <3>1. refAt <= Len(decls) /\ decls[refAt].name \in before
      BY <2>1, <2>3 DEF SearchInv, LoopInv
    <3>2. result = before \cup RefersTo(decls[refAt].value)
      BY <2>1, <2>3, SearchEnds DEF V!tokens
    <3>3. /\ T!decls = styles.decls /\ refAt <= Len(T!decls)
          /\ T!decls[refAt].name \in before
          /\ T!decls[refAt].refs = RefersTo(decls[refAt].value)
      BY <2>3, <3>1, DeclarationSeen
    <3>4. Searching /\ Searching'
      BY <2>1, <2>3 DEF Searching
    <3>5. T!Added(T!decls[refAt]) = RefersTo(decls[refAt].value)
      BY <2>1, <3>3, <3>4 DEF T!Added
    <3>6. T!VisitDeclaration
      BY <1>1, <1>2, <2>1, <2>3, <3>2, <3>3, <3>4, <3>5 DEF T!VisitDeclaration
    <3> QED  BY <3>6 DEF T!Next
  <2> QED  BY <1>2, <2>2, <2>3
<1>6. CASE V!SearchBlock
  BY <1>4, <1>6 DEF V!SearchBlock, V!input
<1>7. CASE V!EndRules
  <2>1. /\ UNCHANGED <<styles, result, refI>> /\ refPc = "rules" /\ refPc' = "pass"
        /\ refAt' = 1 /\ oldLen' = Cardinality(result) /\ refI = 0
    BY <1>7, SameSets DEF V!EndRules, V!BeginPass, V!input
  <2>2. result = styles.used
    BY <1>7, EndRulesCollects
  <2>3. ~Searching /\ Searching'
    BY <2>1 DEF Searching
  <2>4. T!BeginPass(styles.used)
    BY <2>1, <2>2, <2>3, SameSets DEF T!BeginPass
  <2>5. T!CollectUsed
    BY <1>1, <1>2, <2>1, <2>3, <2>4 DEF T!CollectUsed
  <2> QED  BY <2>5 DEF T!Next
<1>8. CASE V!SearchDeclaration
  <2>1. /\ UNCHANGED <<styles, result, oldLen, refAt, refPc>> /\ refI = 0 /\ refI' = 1
        /\ before' = result
    BY <1>8 DEF V!SearchDeclaration, V!input
  <2>2. UNCHANGED T!vars
    BY <1>1, <1>2, <2>1, Unseen
  <2> QED  BY <2>2
<1>9. CASE V!SkipDeclaration
  <2>1. /\ UNCHANGED <<styles, result, oldLen, refI, refPc>> /\ refPc = "pass" /\ refI = 0
        /\ refAt <= Len(decls) /\ refAt' = refAt + 1 /\ decls[refAt].name \notin result
    BY <1>9 DEF V!SkipDeclaration, V!input, V!IsUsed
  <2>2. /\ T!decls = styles.decls /\ refAt <= Len(T!decls)
        /\ T!decls[refAt].name \notin result
    BY <2>1, DeclarationSeen
  <2>3. Searching /\ Searching'
    BY <2>1 DEF Searching
  <2>4. T!Added(T!decls[refAt]) = {}
    BY <2>1, <2>2, <2>3 DEF T!Added
  <2>5. T!VisitDeclaration
    BY <1>1, <1>2, <2>1, <2>2, <2>3, <2>4 DEF T!VisitDeclaration
  <2> QED  BY <2>5 DEF T!Next
<1>10. CASE V!EndPass
  <2>1. /\ refPc = "pass" /\ refI = 0 /\ refAt > Len(decls) /\ styles' = styles
        /\ \/ /\ Cardinality(result) = oldLen /\ refPc' = "done"
              /\ UNCHANGED <<result, oldLen, refAt, refI, before>>
           \/ /\ Cardinality(result) # oldLen /\ refPc' = "pass" /\ refAt' = 1
              /\ oldLen' = Cardinality(result) /\ UNCHANGED <<result, refI, before>>
    BY <1>10, SameSets DEF V!EndPass, V!BeginPass, V!input
  <2>2. Len(T!decls) = Len(decls)
    <3>1. /\ decls \in Seq(SearchDecls)
          /\ styles.decls = [k \in DOMAIN decls |->
                                [name |-> decls[k].name, refs |-> RefersTo(decls[k].value)]]
      BY <2>1 DEF SearchInv, SearchInput
    <3>2. Len(decls) \in Nat /\ DOMAIN decls = 1..Len(decls)
      BY <3>1
    <3> QED  BY <3>1, <3>2 DEF T!decls
  <2>3. Searching /\ Searching'
    BY <2>1 DEF Searching
  <2>4. CASE Cardinality(result) = oldLen
    <3>1. refPc' = "done" /\ UNCHANGED <<result, oldLen, refAt, refI, before>>
      BY <2>1, <2>4
    <3>2. T!NothingAdded
      BY <2>1, <2>3, <2>4, SameSets DEF T!NothingAdded
    <3>3. T!EndPass
      BY <1>1, <1>2, <2>1, <2>2, <2>3, <3>1, <3>2 DEF T!EndPass
    <3> QED  BY <3>3 DEF T!Next
  <2>5. CASE Cardinality(result) # oldLen
    <3>1. /\ refPc' = "pass" /\ refAt' = 1 /\ oldLen' = Cardinality(result)
          /\ UNCHANGED <<result, refI, before>>
      BY <2>1, <2>5
    <3>2. ~T!NothingAdded
      BY <2>1, <2>3, <2>5, SameSets DEF T!NothingAdded
    <3>3. T!BeginPass(IF ~Searching THEN {} ELSE IF refI > 0 THEN before ELSE result)
      BY <2>1, <2>3, <3>1, SameSets DEF T!BeginPass
    <3>4. T!EndPass
      BY <1>1, <1>2, <2>1, <2>2, <2>3, <3>2, <3>3 DEF T!EndPass
    <3> QED  BY <3>4 DEF T!Next
  <2> QED  BY <2>4, <2>5
<1> QED  BY <1>1, <1>3, <1>5, <1>6, <1>7, <1>8, <1>9, <1>10 DEF V!Next
-----------------------------------------------------------------------------
\* The declarations that are written are those of the names collected.
LEMMA FinishRefines ==
    ASSUME IInv, SearchInv, Write, O!Finish
    PROVE  T!RewriteThemes
<1>1. /\ UNCHANGED <<layers, styles, result, oldLen, refAt, refI, refPc, before, used>>
      /\ outPc = "write" /\ outPc' = "done"
  BY DEF Write, inputs, searching, O!Finish
<1>2. refPc = "done" /\ used = result /\ refI = 0
  BY <1>1 DEF SearchInv, PhaseInv, FoundInv
<1>3. Searching /\ Searching'
  BY <1>1, <1>2 DEF Searching
<1>4. ThemeDeclarations' = ThemeDeclarations
  BY <1>1, DeclarationsStay
<1>5. /\ T!decls = styles.decls /\ Len(T!decls) = Len(ThemeDeclarations)
      /\ \A k \in 1..Len(ThemeDeclarations) :
            /\ T!decls[k].name = ThemeDeclarations[k].name.text
            /\ ThemeDeclarations[k].type = "declaration"
  <2> DEFINE ds == ThemeDeclarations
  <2>1. ds \in Seq(InDeclarations)
    BY ThemeDeclarationsType DEF IInv, InputInv
  <2> HIDE DEF ds
  <2>2. Len(ds) \in Nat /\ \A k \in 1..Len(ds) : ds[k] \in InDeclarations
    BY <2>1
  <2>3. /\ decls = [k \in 1..Len(ds) |-> [name |-> ds[k].name.text, value |-> ds[k].value]]
        /\ styles.decls = [k \in DOMAIN decls |->
                             [name |-> decls[k].name, refs |-> RefersTo(decls[k].value)]]
    BY <1>2 DEF SearchInv, SearchInput, ds
  <2>4. DOMAIN decls = 1..Len(ds) /\ \A k \in 1..Len(ds) : decls[k].name = ds[k].name.text
    BY <2>3
  <2>5. Len(styles.decls) = Len(ds) /\ \A k \in 1..Len(ds) : styles.decls[k].name = ds[k].name.text
    BY <2>2, <2>3, <2>4
  <2>6. \A k \in 1..Len(ds) : ds[k].type = "declaration"
    BY <2>2 DEF InDeclarations
  <2> QED  BY <2>5, <2>6 DEF T!decls, ds
<1>6. \A k \in 1..Len(ThemeDeclarations) : T!Kept(k) <=> O!IsKept(ThemeDeclarations[k])
  BY <1>2, <1>3, <1>5 DEF T!Kept, O!IsKept
<1>7. {k \in 1..Len(ThemeDeclarations) : O!IsKept(ThemeDeclarations[k])}' =
         {k \in 1..Len(T!decls) : T!Kept(k)}
  <2>1. {k \in 1..Len(ThemeDeclarations) : O!IsKept(ThemeDeclarations[k])}' =
           {k \in 1..Len(ThemeDeclarations) : O!IsKept(ThemeDeclarations[k])}
    BY <1>1, <1>4 DEF O!IsKept
  <2> QED  BY <1>5, <1>6, <2>1
<1> QED  BY <1>1, <1>2, <1>3, <1>7 DEF T!RewriteThemes

\* So is every other step from the call of usedVariableNames on.
LEMMA StepRefines ==
    IInv /\ ContentInv /\ SearchInv /\ [Next]_vars =>
        IF refPc = "idle" THEN T!Init' ELSE T!Next \/ UNCHANGED T!vars
<1> SUFFICES ASSUME IInv, ContentInv, SearchInv, [Next]_vars
             PROVE  IF refPc = "idle" THEN T!Init' ELSE T!Next \/ UNCHANGED T!vars
  OBVIOUS
<1>1. ASSUME refPc = "idle" PROVE T!Init'
  <2>1. SearchInv'
    BY NextSearch
  <2>2. (refPc \in {"idle", "rules"})'
    BY <1>1 DEF Next, Scan, Group, BeginLayer, Substitute, BeginSearch, V!Begin, Search, V!Next,
       V!SearchToken, V!EndSearch, V!SearchBlock, V!EndRules, V!SearchDeclaration, V!SkipDeclaration,
       V!EndPass, V!BeginPass, BeginOutput, Write, vars, searching
  <2> QED  BY <2>1, <2>2, NothingSeen, PTL
<1>2. ASSUME refPc # "idle", UNCHANGED <<layers, searching>>,
             (outPc # "done" /\ outPc' # "done") \/ UNCHANGED <<used, outPc>>
      PROVE  UNCHANGED T!vars
  BY <1>2, Unseen DEF searching
<1>3. ASSUME refPc # "idle" PROVE T!Next \/ UNCHANGED T!vars
  <2>1. CASE Scan \/ Group \/ BeginLayer \/ Substitute \/ UNCHANGED vars
    BY <1>2, <1>3, <2>1 DEF Scan, Group, BeginLayer, Substitute, vars, inputs, writing
  <2>2. CASE BeginSearch
    BY <1>3, <2>2 DEF BeginSearch, V!Begin
  <2>3. CASE Search
    BY <2>3, SearchRefines
  <2>4. CASE BeginOutput
    BY <1>2, <1>3, <2>4 DEF BeginOutput, O!Begin, inputs
  <2>5. CASE Write
    <3>1. CASE O!Finish
      BY <2>5, <3>1, FinishRefines DEF T!Next
    <3>2. CASE O!OpenLayer \/ O!WriteRule \/ O!CloseLayer
      <4>1. outPc = "write"
        BY <3>2 DEF O!OpenLayer, O!WriteRule, O!CloseLayer
      <4>2. outPc' # "done"
        BY <3>2, <4>1 DEF O!OpenLayer, O!WriteRule, O!CloseLayer, O!Write
      <4> QED  BY <1>2, <1>3, <2>5, <4>1, <4>2 DEF Write, inputs
    <3> QED  BY <2>5, <3>1, <3>2 DEF Write, O!Next
  <2> QED  BY <2>1, <2>2, <2>3, <2>4, <2>5 DEF Next
<1> QED  BY <1>1, <1>3

\* The inductive invariant with the types of the tokens that the stages hand on, and
\* the search: what has been found is what the tokens passed so far refer to.
THEOREM SearchInvariant == Spec => [](IInv /\ ContentInv /\ SearchInv)
<1>1. Init => IInv /\ ContentInv /\ SearchInv
  BY InitIInv, InitContent, InitSearch
<1>2. IInv /\ ContentInv /\ SearchInv /\ [Next]_vars => (IInv /\ ContentInv /\ SearchInv)'
  BY NextIInv, NextContent, NextSearch
<1> QED  BY <1>1, <1>2, PTL DEF Spec

\* From the call of usedVariableNames on, whatever the blocks and the declarations, the
\* loops over tokens and passes do step by step what ThemeVars says (findReferences,
\* varFunctionPropertyName, usedVariableNames, rewriteThemeRule).
THEOREM SearchImplements == Spec => ImplementsThemeVars
<1>1. IInv /\ ContentInv /\ SearchInv /\ [Next]_vars =>
         [IF refPc = "idle" THEN T!Init' ELSE [T!Next]_(T!vars)]_vars
  BY StepRefines
<1> QED  BY <1>1, SearchInvariant, PTL DEF Spec, ImplementsThemeVars
-----------------------------------------------------------------------------
\* The invariant of ThemeVars holds until the first pass,
LEMMA ThemesBegin == SearchInv /\ refPc \in {"idle", "rules"} => ThemeInv
  BY NothingSeen, ThemeInit

\* from the start,
LEMMA InitThemes == Init => ThemeInv
<1> SUFFICES ASSUME Init PROVE ThemeInv
  OBVIOUS
<1>1. refPc = "idle"
  BY DEF Init, V!Init
<1> QED  BY <1>1, InitSearch, ThemesBegin

\* and ever after.
LEMMA NextThemes == IInv /\ ContentInv /\ SearchInv /\ ThemeInv /\ [Next]_vars => ThemeInv'
<1> SUFFICES ASSUME IInv, ContentInv, SearchInv, ThemeInv, [Next]_vars PROVE ThemeInv'
  OBVIOUS
<1>1. CASE refPc = "idle"
  <2>1. T!Init'
    BY <1>1, StepRefines
  <2> QED  BY <2>1, ThemeInit, PTL
<1>2. CASE refPc # "idle"
  <2>1. T!Next \/ UNCHANGED T!vars
    BY <1>2, StepRefines
  <2> QED  BY <2>1, ThemeNext
<1> QED  BY <1>1, <1>2

\* It is an invariant of Process.
THEOREM ThemesInvariant == Spec => [](IInv /\ ContentInv /\ SearchInv /\ ThemeInv)
<1>1. Init => ThemeInv
  BY InitThemes
<1>2. IInv /\ ContentInv /\ SearchInv /\ ThemeInv /\ [Next]_vars => ThemeInv'
  BY NextThemes
<1> QED  BY <1>1, <1>2, SearchInvariant, PTL DEF Spec

\* A name is collected only through a chain of references from a rule
\* (usedVariableNames).
THEOREM OnlyNeededNames == Spec => []T!OnlyNeeded
<1>1. ThemeInv => T!OnlyNeeded
  BY DEF ThemeInv
<1> QED  BY ThemesInvariant, <1>1, PTL

\* Passes that stop on a count of names (usedVariableNames) still leave a set
\* closed under the references of the theme declarations.
THEOREM AllNeededNames == Spec => []T!AllNeeded
<1>1. ThemeInv => T!AllNeeded
  BY ThemeProperties
<1> QED  BY ThemesInvariant, <1>1, PTL

\* The theme declarations that are written, token by token searched, are those needed,
\* and every reference in them is declared there if it is declared at all
\* (usedVariableNames, rewriteThemeRule).
THEOREM WrittenThemes == Spec => []WrittenIsSelfContained
<1>1. ThemeInv => WrittenIsSelfContained
  BY ThemeProperties DEF WrittenIsSelfContained
<1> QED  BY <1>1, ThemesInvariant, PTL

\* The types of the search.
LEMMA SearchTypes == SearchInv /\ ThemeInv => V!TypeOK
<1> SUFFICES ASSUME SearchInv, ThemeInv PROVE V!TypeOK
  OBVIOUS
<1>1. oldLen \in Nat
  <2>1. CASE Searching
    BY <2>1 DEF ThemeInv, T!TypeOK
  <2>2. CASE ~Searching
    BY <2>2 DEF Searching, SearchInv, PhaseInv, LoopInv, V!Init
  <2> QED  BY <2>1, <2>2
<1>2. refI > 0 => refPc \in {"rules", "pass"} /\ refAt >= 1
  BY SearchedType DEF SearchInv, FoundInv, LoopInv
<1> QED  BY <1>1, <1>2 DEF V!TypeOK, SearchInv, FoundInv, LoopInv, PhaseInv

\* The types of all stages.
THEOREM ProcessTypes == Spec => []TypeOK
<1>1. IInv /\ SearchInv /\ ThemeInv => TypeOK
  BY IInvProperties, SearchTypes DEF TypeOK
<1> QED  BY <1>1, ThemesInvariant, PTL
=============================================================================
