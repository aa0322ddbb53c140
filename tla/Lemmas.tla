-------------------------------- MODULE Lemmas --------------------------------
(***************************************************************************)
(* What the proofs of several modules rest on.  Induction over the natural *)
(* numbers, where the induction theorems of the library take the property  *)
(* as an operator and here it is the set of the numbers that have it, and  *)
(* what it gives about recursive functions.  Component values: the stack   *)
(* of ValueLength finds the end that the grammar gives to a value.  And    *)
(* references: what the loop of findReferences finds up to a token is what *)
(* the var() functions before it refer to.                                 *)
(***************************************************************************)
EXTENDS VarFunctions, SequenceTheorems, FiniteSetTheorems, WellFoundedInduction, TLAPS

-----------------------------------------------------------------------------
\* A set of naturals that is not empty has a least element.
LEMMA LeastExists ==
    ASSUME NEW S \in SUBSET Nat, S # {}
    PROVE  \E x \in S : \A y \in S : x <= y
<1> DEFINE R == OpToRel(<, Nat)
<1>1. IsWellFoundedOn(R, Nat)
  BY NatLessThanWellFounded
<1>2. \E x \in S : \A y \in S : ~(<<y, x>> \in R)
  <2> HIDE DEF R
  <2> QED  BY <1>1, WFMin
<1>3. \A x, y \in Nat : <<y, x>> \in R <=> y < x
  BY DEF OpToRel
<1> HIDE DEF R
<1>4. PICK x \in S : \A y \in S : ~(<<y, x>> \in R)
  BY <1>2
<1>5. \A y \in S : ~(y < x)
  BY <1>3, <1>4
<1>6. \A y \in S : x <= y
  BY <1>5
<1> QED  BY <1>6

\* Induction: a set with 0 and the successor of each of its elements holds every
\* natural number.
LEMMA Induction ==
    ASSUME NEW S,
           0 \in S,
           \A n \in Nat : n \in S => n + 1 \in S
    PROVE  Nat \subseteq S
<1> DEFINE T == Nat \ S
<1>1. SUFFICES ASSUME T # {} PROVE FALSE
  OBVIOUS
<1>2. PICK x \in T : \A y \in T : x <= y
  <2>1. T \in SUBSET Nat
    OBVIOUS
  <2> HIDE DEF T
  <2> QED  BY <1>1, <2>1, LeastExists
<1>3. x \in Nat /\ x \notin S /\ x # 0
  OBVIOUS
<1>4. x - 1 \in Nat /\ x - 1 \notin T
  BY <1>2, <1>3
<1>5. (x - 1) + 1 \in S
  BY <1>4
<1> QED  BY <1>3, <1>5

\* The same up to a bound.
LEMMA BoundedInduction ==
    ASSUME NEW n \in Nat, NEW S,
           0 \in S,
           \A i \in 0..(n - 1) : i \in S => i + 1 \in S
    PROVE  0..n \subseteq S
<1> DEFINE T == {i \in Nat : i <= n => i \in S}
<1>1. 0 \in T
  OBVIOUS
<1>2. \A i \in Nat : i \in T => i + 1 \in T
  OBVIOUS
<1>3. Nat \subseteq T
  <2> HIDE DEF T
  <2> QED  BY <1>1, <1>2, Induction
<1> QED  BY <1>3

\* f starts with b and goes on with the functions of G.
Iterates(f, n, T, b, G) ==
    /\ f \in [0..n -> T]
    /\ f[0] = b
    /\ \A i \in 1..n : f[i] = G[i][f[i - 1]]

\* Primitive recursion over an interval: such a function exists.
LEMMA RecursionExists ==
    ASSUME NEW n \in Nat, NEW T, NEW b \in T, NEW G,
           \A i \in 1..n, x \in T : G[i][x] \in T
    PROVE  \E f : Iterates(f, n, T, b, G)
<1> DEFINE Good(m) ==
              \E f \in [0..m -> T] :
                  f[0] = b /\ \A i \in 1..m : f[i] = G[i][f[i - 1]]
           S == {m \in Nat : m <= n => Good(m)}
<1>1. Good(0)
  <2> DEFINE f == [i \in 0..0 |-> b]
  <2>1. f \in [0..0 -> T] /\ f[0] = b /\ \A i \in 1..0 : f[i] = G[i][f[i - 1]]
    OBVIOUS
  <2> HIDE DEF f
  <2> QED  BY <2>1
<1>2. ASSUME NEW m \in Nat, m + 1 <= n, Good(m) PROVE Good(m + 1)
  <2>1. PICK f \in [0..m -> T] : f[0] = b /\ \A i \in 1..m : f[i] = G[i][f[i - 1]]
    BY <1>2
  <2> DEFINE g == [i \in 0..(m + 1) |-> IF i = m + 1 THEN G[m + 1][f[m]] ELSE f[i]]
  <2>2. m + 1 \in 1..n
    BY <1>2
  <2>3. f[m] \in T
    OBVIOUS
  <2>4. G[m + 1][f[m]] \in T
    BY <2>2, <2>3
  <2>5. g \in [0..(m + 1) -> T]
    BY <2>4
  <2>6. g[0] = b
    BY <2>1
  <2>7. ASSUME NEW i \in 1..(m + 1) PROVE g[i] = G[i][g[i - 1]]
    <3>1. CASE i = m + 1
      <4>1. g[i] = G[m + 1][f[m]] /\ g[i - 1] = f[m]
        BY <3>1
      <4> QED  BY <3>1, <4>1
    <3>2. CASE i # m + 1
      <4>1. i \in 1..m /\ g[i] = f[i] /\ g[i - 1] = f[i - 1]
        BY <3>2
      <4> QED  BY <2>1, <4>1
    <3> QED  BY <3>1, <3>2
  <2> HIDE DEF g
  <2> QED  BY <2>5, <2>6, <2>7
<1> HIDE DEF Good
<1>3. 0 \in S
  BY <1>1
<1>4. ASSUME NEW m \in Nat, m \in S PROVE m + 1 \in S
  BY <1>2, <1>4
<1>5. n \in S
  <2> HIDE DEF S
  <2> QED  BY <1>3, <1>4, Induction
<1>6. Good(n)
  BY <1>5
<1> QED  BY <1>6 DEF Good, Iterates

\* Induction over a rank.
LEMMA RankInduction ==
    ASSUME NEW D, NEW rank \in [D -> Nat], NEW S,
           \A x \in D : (\A y \in D : rank[y] < rank[x] => y \in S) => x \in S
    PROVE  D \subseteq S
<1> DEFINE T == {n \in Nat : \A x \in D : rank[x] < n => x \in S}
<1>1. 0 \in T
  OBVIOUS
<1>2. ASSUME NEW n \in Nat, n \in T PROVE n + 1 \in T
  <2>1. ASSUME NEW x \in D, rank[x] < n + 1 PROVE x \in S
    <3>1. \A y \in D : rank[y] < rank[x] => rank[y] < n
      BY <2>1
    <3> QED  BY <1>2, <3>1
  <2> QED  BY <2>1
<1>3. Nat \subseteq T
  <2> HIDE DEF T
  <2> QED  BY <1>1, <1>2, Induction
<1>4. \A x \in D : rank[x] + 1 \in T /\ rank[x] < rank[x] + 1
  BY <1>3
<1> QED  BY <1>4

\* What is below x by rank.
Below(x, D, rank) == {y \in D : rank[y] < rank[x]}

\* f is at each x what G makes of f below x.
Recurses(f, D, T, rank, G) ==
    /\ f \in [D -> T]
    /\ \A x \in D : f[x] = G[x][[y \in Below(x, D, rank) |-> f[y]]]

\* Recursion over a bounded rank: such a function exists.
LEMMA RecursiveFunctionExists ==
    ASSUME NEW D, NEW T, NEW n \in Nat, NEW rank \in [D -> 0..n], NEW G,
           \A x \in D : \A h \in [Below(x, D, rank) -> T] : G[x][h] \in T
    PROVE  \E f : Recurses(f, D, T, rank, G)
<1> DEFINE Under(m) == {x \in D : rank[x] < m}
           Good(m) == \E f \in [Under(m) -> T] :
                         \A x \in Under(m) : f[x] = G[x][[y \in Below(x, D, rank) |-> f[y]]]
           S == {m \in Nat : Good(m)}
<1>1. Good(0)
  <2>1. Under(0) = {}
    OBVIOUS
  <2> DEFINE f == [x \in {} |-> x]
  <2>2. f \in [Under(0) -> T]
    BY <2>1
  <2> QED  BY <2>1, <2>2
<1>2. ASSUME NEW m \in Nat, Good(m) PROVE Good(m + 1)
  <2>1. PICK f \in [Under(m) -> T] :
              \A x \in Under(m) : f[x] = G[x][[y \in Below(x, D, rank) |-> f[y]]]
    BY <1>2
  <2>2. \A x \in Under(m + 1) : x \in D /\ Below(x, D, rank) \subseteq Under(m)
    BY DEF Below
  <2>3. Under(m) \subseteq Under(m + 1)
    OBVIOUS
  <2> HIDE DEF Under
  <2> DEFINE h(x) == [y \in Below(x, D, rank) |-> f[y]]
             g == [x \in Under(m + 1) |-> IF x \in Under(m) THEN f[x] ELSE G[x][h(x)]]
  <2>4. \A x \in Under(m + 1) : h(x) \in [Below(x, D, rank) -> T]
    BY <2>2
  <2>5. \A x \in Under(m + 1) : G[x][h(x)] \in T
    BY <2>2, <2>4
  <2>6. g \in [Under(m + 1) -> T]
    <3> HIDE DEF h
    <3> QED  BY <2>5
  <2>7. ASSUME NEW x \in Under(m + 1)
        PROVE  g[x] = G[x][[y \in Below(x, D, rank) |-> g[y]]]
    <3>1. \A y \in Below(x, D, rank) : g[y] = f[y]
      BY <2>2, <2>3
    <3>2. [y \in Below(x, D, rank) |-> g[y]] = h(x)
      <4> HIDE DEF g
      <4> QED  BY <3>1
    <3>3. g[x] = G[x][h(x)]
      BY <2>1
    <3> HIDE DEF g, h
    <3> QED  BY <3>2, <3>3
  <2> HIDE DEF g
  <2> QED  BY <2>6, <2>7
<1> HIDE DEF Good
<1>3. n + 1 \in S
  <2>1. 0 \in S /\ \A m \in Nat : m \in S => m + 1 \in S
    BY <1>1, <1>2
  <2> HIDE DEF S
  <2> QED  BY <2>1, Induction
<1>4. Good(n + 1)
  BY <1>3
<1>5. Under(n + 1) = D
  OBVIOUS
<1>6. PICK f \in [Under(n + 1) -> T] :
            \A x \in Under(n + 1) : f[x] = G[x][[y \in Below(x, D, rank) |-> f[y]]]
  BY <1>4 DEF Good
<1> HIDE DEF Under
<1>7. Recurses(f, D, T, rank, G)
  BY <1>5, <1>6 DEF Recurses
<1> QED  BY <1>7

-----------------------------------------------------------------------------
\* ValueLength: its loop.
Stacks == Seq(Closers)

Extents == [n : Int, ok : BOOLEAN]

LoopAts == Nat \X Stacks

\* A pass of the loop at token i with a stack, where from is what later passes make of it.
LoopStep(ks, i, stack, from) ==
    IF stack = <<>> \/ i > Len(ks) THEN [n |-> i - 1, ok |-> stack = <<>>]
    ELSE from[<<i + 1, Nest(stack, ks[i])>>]

ValueLoop(ks, from) == from = [at \in LoopAts |-> LoopStep(ks, at[1], at[2], from)]

LEMMA EndsAreClosers == \A kind : Opens(kind) => EndOf(kind) \in Closers
  BY DEF Opens, EndOf, Closers

\* What Front and Append make of a stack.
LEMMA NestType ==
    ASSUME NEW stack \in Stacks, stack # <<>>, NEW kind
    PROVE  Nest(stack, kind) \in Stacks
<1>1. Front(stack) \in Stacks
  BY DEF Front, Stacks
<1>2. Opens(kind) => Append(stack, EndOf(kind)) \in Stacks
  BY EndsAreClosers, AppendProperties DEF Stacks
<1> QED  BY <1>1, <1>2 DEF Nest

LEMMA LoopExists ==
    ASSUME NEW S, NEW ks \in Seq(S)
    PROVE  \E f \in [LoopAts -> Extents] : ValueLoop(ks, f)
<1> DEFINE N == Len(ks)
           rank == [at \in LoopAts |-> IF at[1] > N THEN 0 ELSE N + 1 - at[1]]
           B == [at \in LoopAts |-> [f \in [Below(at, LoopAts, rank) -> Extents] |->
                                        LoopStep(ks, at[1], at[2], f)]]
<1>1. N \in Nat
  OBVIOUS
<1>2. \A at \in LoopAts : at[1] \in Nat /\ at[2] \in Stacks
  BY DEF LoopAts
<1>3. rank \in [LoopAts -> 0..(N + 1)]
  BY <1>1, <1>2
<1>4. ASSUME NEW at \in LoopAts, ~(at[2] = <<>> \/ at[1] > N)
      PROVE  <<at[1] + 1, Nest(at[2], ks[at[1]])>> \in Below(at, LoopAts, rank)
  <2> DEFINE next == <<at[1] + 1, Nest(at[2], ks[at[1]])>>
  <2>1. next \in LoopAts
    BY <1>2, <1>4, NestType DEF LoopAts
  <2>2. next[1] = at[1] + 1
    OBVIOUS
  <2> HIDE DEF next
  <2>3. rank[next] < rank[at]
    BY <1>1, <1>2, <1>4, <2>1, <2>2
  <2> QED  BY <2>1, <2>3 DEF Below, next
<1> HIDE DEF rank
<1>5. ASSUME NEW at \in LoopAts, NEW f \in [Below(at, LoopAts, rank) -> Extents]
      PROVE  B[at][f] \in Extents
  <2>1. B[at][f] = LoopStep(ks, at[1], at[2], f)
    OBVIOUS
  <2>2. [n |-> at[1] - 1, ok |-> at[2] = <<>>] \in Extents
    BY <1>2 DEF Extents
  <2> HIDE DEF B
  <2> QED  BY <1>4, <2>1, <2>2 DEF LoopStep
<1>6. PICK f : Recurses(f, LoopAts, Extents, rank, B)
  <2> HIDE DEF B, N
  <2>1. N + 1 \in Nat
    BY <1>1
  <2> QED  BY <1>3, <1>5, <2>1, RecursiveFunctionExists
<1>7. ASSUME NEW at \in LoopAts PROVE f[at] = LoopStep(ks, at[1], at[2], f)
  <2> DEFINE h == [y \in Below(at, LoopAts, rank) |-> f[y]]
  <2>1. f[at] = B[at][h] /\ h \in [Below(at, LoopAts, rank) -> Extents]
    BY <1>6 DEF Recurses, Below
  <2>2. B[at][h] = LoopStep(ks, at[1], at[2], h)
    <3> HIDE DEF h
    <3> QED  BY <2>1
  <2>3. \A y \in Below(at, LoopAts, rank) : h[y] = f[y]
    OBVIOUS
  <2> HIDE DEF h
  <2> QED  BY <1>4, <2>1, <2>2, <2>3 DEF LoopStep
<1>8. f \in [LoopAts -> Extents]
  BY <1>6 DEF Recurses
<1> QED  BY <1>7, <1>8 DEF ValueLoop

\* The loop that ValueLength is defined by.
StackLoop(ks) == CHOOSE f : ValueLoop(ks, f)

LEMMA LoopDef ==
    ASSUME NEW S, NEW ks \in Seq(S)
    PROVE  /\ ValueLoop(ks, StackLoop(ks))
           /\ ValueLength(ks) =
                 IF ks = <<>> THEN [n |-> 0, ok |-> FALSE]
                 ELSE IF Opens(ks[1]) THEN StackLoop(ks)[<<2, <<EndOf(ks[1])>>>>]
                 ELSE [n |-> 1, ok |-> TRUE]
<1>1. ValueLoop(ks, StackLoop(ks))
  <2>1. \E f : ValueLoop(ks, f)
    BY LoopExists
  <2> QED  BY <2>1, Zenon DEF StackLoop
<1>2. StackLoop(ks) = CHOOSE f : f = [at \in LoopAts |-> LoopStep(ks, at[1], at[2], f)]
  BY Zenon DEF StackLoop, ValueLoop
<1>3. ValueLength(ks) =
                 IF ks = <<>> THEN [n |-> 0, ok |-> FALSE]
                 ELSE IF Opens(ks[1])
                 THEN (CHOOSE f : f = [at \in LoopAts |-> LoopStep(ks, at[1], at[2], f)])
                         [<<2, <<EndOf(ks[1])>>>>]
                 ELSE [n |-> 1, ok |-> TRUE]
  BY Zenon DEF ValueLength, LoopAts, LoopStep, Stacks
<1>4. ValueLength(ks) =
                 IF ks = <<>> THEN [n |-> 0, ok |-> FALSE]
                 ELSE IF Opens(ks[1]) THEN StackLoop(ks)[<<2, <<EndOf(ks[1])>>>>]
                 ELSE [n |-> 1, ok |-> TRUE]
  BY <1>2, <1>3, Zenon
<1> QED  BY <1>1, <1>4

\* One pass.
LEMMA LoopPass ==
    ASSUME NEW S, NEW ks \in Seq(S), NEW i \in Nat, NEW stack \in Stacks
    PROVE  StackLoop(ks)[<<i, stack>>] = LoopStep(ks, i, stack, StackLoop(ks))
<1> DEFINE f == StackLoop(ks)
           at == <<i, stack>>
<1>1. ValueLoop(ks, f)
  BY LoopDef
<1>2. at \in LoopAts /\ at[1] = i /\ at[2] = stack
  BY DEF LoopAts
<1> HIDE DEF f, at
<1>3. f[at] = LoopStep(ks, at[1], at[2], f)
  BY <1>1, <1>2 DEF ValueLoop
<1> QED  BY <1>2, <1>3 DEF f, at
-----------------------------------------------------------------------------
\* The grammar of values: AreValues is a recursion over intervals.
Intervals(ks) == (1..(Len(ks) + 1)) \X (0..Len(ks)) \X Closers

\* The block at i ends at k, or nowhere, and values follow.
BlockStep(ks, i, j, end, k, are) ==
    /\ \/ k > i /\ ks[k] = EndOf(ks[i]) /\ are[<<i + 1, k - 1, EndOf(ks[i])>>]
       \/ k = Len(ks) /\ are[<<i + 1, Len(ks), EndOf(ks[i])>>]
    /\ are[<<k + 1, j, end>>]

ValuesStep(ks, i, j, end, are) ==
    \/ i > j
    \/ /\ ks[i] # end
       /\ IF Opens(ks[i])
          THEN \E k \in i..j : BlockStep(ks, i, j, end, k, are)
          ELSE are[<<i + 1, j, end>>]

ValuesLoop(ks, are) ==
    are = [at \in Intervals(ks) |-> ValuesStep(ks, at[1], at[2], at[3], are)]

LEMMA ValuesExist ==
    ASSUME NEW S, NEW ks \in Seq(S)
    PROVE  \E f : ValuesLoop(ks, f)
<1> DEFINE N == Len(ks)
           D == Intervals(ks)
           rank == [at \in D |-> IF at[1] > at[2] THEN 0 ELSE at[2] + 1 - at[1]]
           B == [at \in D |-> [f \in [Below(at, D, rank) -> BOOLEAN] |->
                                  ValuesStep(ks, at[1], at[2], at[3], f)]]
<1>1. N \in Nat
  OBVIOUS
<1>2. \A at \in D : at[1] \in 1..(N + 1) /\ at[2] \in 0..N /\ at[3] \in Closers
  BY DEF Intervals
<1>3. rank \in [D -> 0..N]
  <2> HIDE DEF D, N
  <2> QED  BY <1>1, <1>2
<1>4. ASSUME NEW at \in D, NEW i \in 1..(N + 1), NEW j \in 0..N, NEW end \in Closers,
             at[1] = i, at[2] = j, i <= j,
             NEW x \in 1..(N + 1), NEW y \in 0..N, NEW e \in Closers,
             x > i, x > y \/ y <= j
      PROVE  <<x, y, e>> \in Below(at, D, rank)
  <2> DEFINE next == <<x, y, e>>
  <2>1. next \in D
    BY DEF Intervals
  <2>2. next[1] = x /\ next[2] = y
    OBVIOUS
  <2>3. rank[next] = IF x > y THEN 0 ELSE y + 1 - x
    <3> HIDE DEF D, next
    <3> QED  BY <2>1, <2>2
  <2>4. rank[at] = j + 1 - i
    <3> HIDE DEF D
    <3> QED  BY <1>4
  <2>5. rank[next] < rank[at]
    <3> HIDE DEF next, rank, D
    <3> QED  BY <1>1, <1>4, <2>3, <2>4
  <2> HIDE DEF D, rank, next
  <2>6. next \in Below(at, D, rank)
    BY <2>1, <2>5 DEF Below
  <2> QED  BY <2>6 DEF next
<1> HIDE DEF rank, D
<1>5. ASSUME NEW at \in D, NEW f \in [Below(at, D, rank) -> BOOLEAN]
      PROVE  B[at][f] \in BOOLEAN
  <2>1. B[at][f] = ValuesStep(ks, at[1], at[2], at[3], f)
    OBVIOUS
  <2>2. ValuesStep(ks, at[1], at[2], at[3], f) \in BOOLEAN
    BY DEF ValuesStep
  <2> HIDE DEF B
  <2> QED  BY <2>1, <2>2
<1>6. PICK f : Recurses(f, D, BOOLEAN, rank, B)
  <2> HIDE DEF B, N
  <2> QED  BY <1>1, <1>3, <1>5, RecursiveFunctionExists
<1>7. ASSUME NEW at \in D PROVE f[at] = ValuesStep(ks, at[1], at[2], at[3], f)
  <2> DEFINE h == [y \in Below(at, D, rank) |-> f[y]]
             i == at[1]
             j == at[2]
             end == at[3]
  <2>1. f[at] = B[at][h] /\ h \in [Below(at, D, rank) -> BOOLEAN]
    BY <1>6 DEF Recurses, Below
  <2>2. B[at][h] = ValuesStep(ks, i, j, end, h)
    <3> HIDE DEF h
    <3> QED  BY <2>1
  <2>3. \A y \in Below(at, D, rank) : h[y] = f[y]
    OBVIOUS
  <2>4. i \in 1..(N + 1) /\ j \in 0..N /\ end \in Closers
    BY <1>2
  <2> HIDE DEF h, i, j, end
  <2>5. \A x \in 1..(N + 1), y \in 0..N, e \in Closers :
           i <= j /\ x > i /\ (x > y \/ y <= j) => <<x, y, e>> \in Below(at, D, rank)
    BY <1>4, <2>4 DEF i, j
  <2>6. \A x \in 1..(N + 1), y \in 0..N, e \in Closers :
           i <= j /\ x > i /\ (x > y \/ y <= j) => h[<<x, y, e>>] = f[<<x, y, e>>]
    BY <2>3, <2>5
  <2>7. ASSUME i <= j, Opens(ks[i]), NEW k \in i..j
        PROVE  BlockStep(ks, i, j, end, k, h) <=> BlockStep(ks, i, j, end, k, f)
    <3>1. EndOf(ks[i]) \in Closers
      BY <2>7, EndsAreClosers
    <3>2. k \in 1..N /\ i + 1 \in 1..(N + 1) /\ k + 1 \in 1..(N + 1) /\ N \in 0..N
      BY <1>1, <2>4, <2>7
    <3>3. h[<<k + 1, j, end>>] = f[<<k + 1, j, end>>]
      <4>1. k + 1 > i /\ j <= j
        BY <2>4, <2>7
      <4> QED  BY <2>4, <2>6, <2>7, <3>2, <4>1
    <3>4. k > i => k - 1 \in 0..N /\ k - 1 <= j /\ i + 1 > i
      BY <2>4, <2>7, <3>2
    <3>5. k > i => h[<<i + 1, k - 1, EndOf(ks[i])>>] = f[<<i + 1, k - 1, EndOf(ks[i])>>]
      BY <2>6, <2>7, <3>1, <3>2, <3>4
    <3>6. k = N => N <= j /\ i + 1 > i
      BY <2>4, <2>7, <3>2
    <3>7. k = N => h[<<i + 1, N, EndOf(ks[i])>>] = f[<<i + 1, N, EndOf(ks[i])>>]
      BY <2>6, <2>7, <3>1, <3>2, <3>6
    <3> QED  BY <3>3, <3>5, <3>7 DEF BlockStep
  <2>8. i <= j => h[<<i + 1, j, end>>] = f[<<i + 1, j, end>>]
    <3>1. i <= j => i + 1 \in 1..(N + 1) /\ i + 1 > i /\ j <= j
      BY <1>1, <2>4
    <3> QED  BY <2>4, <2>6, <3>1
  <2>9. ~(i > j) <=> i <= j
    BY <2>4
  <2>10. ValuesStep(ks, i, j, end, h) <=> ValuesStep(ks, i, j, end, f)
    BY <2>7, <2>8, <2>9 DEF ValuesStep
  <2>11. ValuesStep(ks, i, j, end, h) \in BOOLEAN /\ ValuesStep(ks, i, j, end, f) \in BOOLEAN
    BY DEF ValuesStep
  <2> QED  BY <2>1, <2>2, <2>10, <2>11 DEF i, j, end
<1>8. f \in [D -> BOOLEAN]
  BY <1>6 DEF Recurses
<1> QED  BY <1>7, <1>8 DEF ValuesLoop, D

\* The recursion that AreValues is defined by.
ValuesIn(ks) == CHOOSE f : ValuesLoop(ks, f)

\* AreValues is that recursion.
LEMMA ValuesDef ==
    ASSUME NEW S, NEW ks \in Seq(S),
           NEW i \in 1..(Len(ks) + 1), NEW j \in 0..Len(ks), NEW end \in Closers
    PROVE  AreValues(ks, i, j, end) <=>
              \/ i > j
              \/ /\ ks[i] # end
                 /\ IF Opens(ks[i])
                    THEN \E k \in i..j :
                            /\ \/ /\ k > i /\ ks[k] = EndOf(ks[i])
                                  /\ AreValues(ks, i + 1, k - 1, EndOf(ks[i]))
                               \/ k = Len(ks) /\ AreValues(ks, i + 1, Len(ks), EndOf(ks[i]))
                            /\ AreValues(ks, k + 1, j, end)
                    ELSE AreValues(ks, i + 1, j, end)
<1>1. ValuesLoop(ks, ValuesIn(ks))
  <2>1. \E f : ValuesLoop(ks, f)
    BY ValuesExist
  <2> QED  BY <2>1, Zenon DEF ValuesIn
<1>2. ValuesIn(ks) = CHOOSE f : f = [at \in Intervals(ks) |-> ValuesStep(ks, at[1], at[2], at[3], f)]
  BY Zenon DEF ValuesIn, ValuesLoop
<1>3. \A x, y, e : AreValues(ks, x, y, e) =
        (CHOOSE f : f = [at \in Intervals(ks) |-> ValuesStep(ks, at[1], at[2], at[3], f)])[<<x, y, e>>]
  BY Zenon DEF AreValues, Intervals, ValuesStep, BlockStep
<1>4. \A x, y, e : AreValues(ks, x, y, e) = ValuesIn(ks)[<<x, y, e>>]
  BY <1>2, <1>3, Zenon
<1> DEFINE at == <<i, j, end>>
           f == ValuesIn(ks)
<1>5. at \in Intervals(ks) /\ at[1] = i /\ at[2] = j /\ at[3] = end
  BY DEF Intervals
<1> HIDE DEF at, f
<1>6. f[at] = ValuesStep(ks, at[1], at[2], at[3], f)
  BY <1>1, <1>5 DEF ValuesLoop, f
<1>7. AreValues(ks, i, j, end) <=> ValuesStep(ks, i, j, end, f)
  <2>1. AreValues(ks, i, j, end) = f[at]
    BY <1>4 DEF f, at
  <2>2. f[at] = ValuesStep(ks, i, j, end, f)
    BY <1>5, <1>6
  <2> QED  BY <2>1, <2>2
<1>8. \A x, y, e : f[<<x, y, e>>] <=> AreValues(ks, x, y, e)
  BY <1>4, Zenon DEF f
<1>9. ASSUME NEW k
      PROVE  BlockStep(ks, i, j, end, k, f) <=>
                /\ \/ /\ k > i /\ ks[k] = EndOf(ks[i])
                      /\ AreValues(ks, i + 1, k - 1, EndOf(ks[i]))
                   \/ k = Len(ks) /\ AreValues(ks, i + 1, Len(ks), EndOf(ks[i]))
                /\ AreValues(ks, k + 1, j, end)
  BY <1>8, Zenon DEF BlockStep
<1>10. f[<<i + 1, j, end>>] <=> AreValues(ks, i + 1, j, end)
  BY <1>8, Zenon
<1> QED  BY <1>7, <1>9, <1>10, Zenon DEF ValuesStep
-----------------------------------------------------------------------------
\* Where a block that is open at i, and is closed by a token end, may be closed.
EndsAt(ks, i, end) == {k \in i..Len(ks) : ks[k] = end /\ AreValues(ks, i, k - 1, end)}

\* Nothing is closed behind the last token.
LEMMA NoEndBehind ==
    ASSUME NEW S, NEW ks \in Seq(S), NEW end \in Closers
    PROVE  EndsAt(ks, Len(ks) + 1, end) = {} /\ AreValues(ks, Len(ks) + 1, Len(ks), end)
<1>1. Len(ks) \in Nat
  OBVIOUS
<1>2. EndsAt(ks, Len(ks) + 1, end) = {}
  BY <1>1 DEF EndsAt
<1>3. Len(ks) + 1 \in 1..(Len(ks) + 1) /\ Len(ks) \in 0..Len(ks) /\ Len(ks) + 1 > Len(ks)
  BY <1>1
<1>4. AreValues(ks, Len(ks) + 1, Len(ks), end)
  BY <1>3, ValuesDef
<1> QED  BY <1>2, <1>4

\* A token that closes the block.
LEMMA EndIsHere ==
    ASSUME NEW S, NEW ks \in Seq(S), NEW end \in Closers, NEW i \in 1..Len(ks), ks[i] = end
    PROVE  EndsAt(ks, i, end) = {i} /\ ~AreValues(ks, i, Len(ks), end)
<1>1. Len(ks) \in Nat /\ i \in 1..(Len(ks) + 1) /\ i - 1 \in 0..Len(ks) /\ i > i - 1
  OBVIOUS
<1>2. AreValues(ks, i, i - 1, end)
  BY <1>1, ValuesDef
<1>3. ASSUME NEW j \in i..Len(ks) PROVE ~AreValues(ks, i, j, end)
  <2>1. j \in 0..Len(ks) /\ ~(i > j)
    BY <1>1
  <2> QED  BY <1>1, <2>1, ValuesDef
<1>4. \A k \in i..Len(ks) : k = i \/ k - 1 \in i..Len(ks)
  BY <1>1
<1>5. EndsAt(ks, i, end) = {i}
  BY <1>1, <1>2, <1>3, <1>4 DEF EndsAt
<1>6. Len(ks) \in i..Len(ks)
  BY <1>1
<1> QED  BY <1>3, <1>5, <1>6

\* A token that is a value of its own.
LEMMA EndBehindToken ==
    ASSUME NEW S, NEW ks \in Seq(S), NEW end \in Closers, NEW i \in 1..Len(ks),
           ks[i] # end, ~Opens(ks[i])
    PROVE  /\ EndsAt(ks, i, end) = EndsAt(ks, i + 1, end)
           /\ AreValues(ks, i, Len(ks), end) <=> AreValues(ks, i + 1, Len(ks), end)
<1>1. Len(ks) \in Nat /\ i \in 1..(Len(ks) + 1)
  OBVIOUS
<1>2. ASSUME NEW j \in i..Len(ks)
      PROVE  AreValues(ks, i, j, end) <=> AreValues(ks, i + 1, j, end)
  <2>1. j \in 0..Len(ks) /\ ~(i > j)
    BY <1>1
  <2> QED  BY <1>1, <2>1, ValuesDef
<1>3. \A k : k \in i..Len(ks) <=> k = i \/ k \in (i + 1)..Len(ks)
  BY <1>1
<1>4. \A k \in (i + 1)..Len(ks) : k - 1 \in i..Len(ks)
  BY <1>1
<1>5. EndsAt(ks, i, end) = EndsAt(ks, i + 1, end)
  BY <1>2, <1>3, <1>4 DEF EndsAt
<1>6. Len(ks) \in i..Len(ks)
  BY <1>1
<1> QED  BY <1>2, <1>5, <1>6

\* A block that is never closed takes all that follows.
LEMMA NoEndBehindOpen ==
    ASSUME NEW S, NEW ks \in Seq(S), NEW end \in Closers, NEW i \in 1..Len(ks),
           ks[i] # end, Opens(ks[i]),
           EndsAt(ks, i + 1, EndOf(ks[i])) = {},
           AreValues(ks, i + 1, Len(ks), EndOf(ks[i]))
    PROVE  EndsAt(ks, i, end) = {} /\ AreValues(ks, i, Len(ks), end)
<1> DEFINE N == Len(ks)
           inner == EndOf(ks[i])
<1>1. N \in Nat /\ i \in 1..(N + 1) /\ i \in Nat /\ i <= N
  OBVIOUS
<1>2. ASSUME NEW k \in i..N
      PROVE  ~(k > i /\ ks[k] = inner /\ AreValues(ks, i + 1, k - 1, inner))
  <2>1. k > i => k \in (i + 1)..N
    BY <1>1
  <2> QED  BY <2>1 DEF EndsAt
<1>3. ASSUME NEW j \in i..N, AreValues(ks, i, j, end) PROVE j = N
  <2>1. j \in 0..N /\ ~(i > j)
    BY <1>1
  <2>2. PICK k \in i..j : k = N \/ (k > i /\ ks[k] = inner /\ AreValues(ks, i + 1, k - 1, inner))
    BY <1>1, <1>3, <2>1, ValuesDef
  <2>3. k \in i..N
    BY <1>1
  <2>4. k = N
    BY <1>2, <2>2, <2>3
  <2> QED  BY <1>1, <2>4
<1>4. EndsAt(ks, i, end) = {}
  <2>1. ASSUME NEW k \in i..N, ks[k] = end, AreValues(ks, i, k - 1, end) PROVE FALSE
    <3>1. k # i
      BY <2>1
    <3>2. k - 1 \in i..N /\ k - 1 # N
      BY <1>1, <3>1
    <3> QED  BY <1>3, <2>1, <3>2
  <2> QED  BY <2>1 DEF EndsAt
<1>5. AreValues(ks, i, N, end)
  <2>1. N \in i..N /\ N \in 0..N /\ ~(i > N)
    BY <1>1
  <2>2. AreValues(ks, N + 1, N, end)
    BY NoEndBehind
  <2>3. \E k \in i..N : k = N /\ AreValues(ks, i + 1, N, inner) /\ AreValues(ks, k + 1, N, end)
    BY <2>1, <2>2
  <2> HIDE DEF N, inner
  <2> QED  BY <1>1, <2>1, <2>3, ValuesDef DEF N, inner
<1> QED  BY <1>4, <1>5

\* Behind a block that is closed, it is as if there were no block.
LEMMA EndBehindBlock ==
    ASSUME NEW S, NEW ks \in Seq(S), NEW end \in Closers, NEW i \in 1..Len(ks),
           ks[i] # end, Opens(ks[i]), NEW m,
           EndsAt(ks, i + 1, EndOf(ks[i])) = {m},
           ~AreValues(ks, i + 1, Len(ks), EndOf(ks[i]))
    PROVE  /\ m \in (i + 1)..Len(ks)
           /\ EndsAt(ks, i, end) = EndsAt(ks, m + 1, end)
           /\ AreValues(ks, i, Len(ks), end) <=> AreValues(ks, m + 1, Len(ks), end)
<1> DEFINE N == Len(ks)
           inner == EndOf(ks[i])
<1>1. N \in Nat /\ i \in 1..(N + 1) /\ i \in Nat /\ i <= N
  OBVIOUS
<1>2. m \in (i + 1)..N /\ ks[m] = inner /\ AreValues(ks, i + 1, m - 1, inner)
  BY DEF EndsAt
<1>3. ASSUME NEW k \in i..N
      PROVE  k > i /\ ks[k] = inner /\ AreValues(ks, i + 1, k - 1, inner) <=> k = m
  <2>1. k > i => k \in (i + 1)..N
    BY <1>1
  <2>2. k > i /\ ks[k] = inner /\ AreValues(ks, i + 1, k - 1, inner) => k = m
    BY <2>1 DEF EndsAt
  <2>3. m > i
    BY <1>1, <1>2
  <2> QED  BY <1>2, <2>2, <2>3
<1>4. ASSUME NEW j \in i..N
      PROVE  AreValues(ks, i, j, end) <=> m <= j /\ AreValues(ks, m + 1, j, end)
  <2>1. j \in 0..N /\ ~(i > j)
    BY <1>1
  <2>2. AreValues(ks, i, j, end) <=>
           \E k \in i..j : /\ \/ k > i /\ ks[k] = inner /\ AreValues(ks, i + 1, k - 1, inner)
                              \/ k = N /\ AreValues(ks, i + 1, N, inner)
                           /\ AreValues(ks, k + 1, j, end)
    <3> HIDE DEF N, inner
    <3> QED  BY <1>1, <2>1, ValuesDef DEF N, inner
  <2>3. \A k \in i..j : k \in i..N
    BY <1>1
  <2>4. AreValues(ks, i, j, end) <=> \E k \in i..j : k = m /\ AreValues(ks, k + 1, j, end)
    <3> HIDE DEF N, inner
    <3> QED  BY <1>3, <2>2, <2>3 DEF N, inner
  <2>5. m \in i..j <=> m <= j
    BY <1>1, <1>2
  <2> QED  BY <2>4, <2>5
<1>5. ASSUME NEW k PROVE k \in EndsAt(ks, i, end) <=> k \in EndsAt(ks, m + 1, end)
  <2>1. ASSUME k \in i..N, ks[k] = end, AreValues(ks, i, k - 1, end)
        PROVE  k \in (m + 1)..N /\ AreValues(ks, m + 1, k - 1, end)
    <3>1. k # i
      BY <2>1
    <3>2. k - 1 \in i..N
      BY <1>1, <2>1, <3>1
    <3>3. m <= k - 1 /\ AreValues(ks, m + 1, k - 1, end)
      BY <1>4, <2>1, <3>2
    <3> QED  BY <1>1, <1>2, <2>1, <3>3
  <2>2. ASSUME k \in (m + 1)..N, AreValues(ks, m + 1, k - 1, end)
        PROVE  k \in i..N /\ AreValues(ks, i, k - 1, end)
    <3>1. k \in i..N /\ k - 1 \in i..N /\ m <= k - 1
      BY <1>1, <1>2, <2>2
    <3> QED  BY <1>4, <2>2, <3>1
  <2> QED  BY <2>1, <2>2 DEF EndsAt
<1>6. EndsAt(ks, i, end) = EndsAt(ks, m + 1, end)
  BY <1>5
<1>7. N \in i..N /\ m <= N
  BY <1>1, <1>2
<1>8. AreValues(ks, i, N, end) <=> AreValues(ks, m + 1, N, end)
  BY <1>4, <1>7
<1> QED  BY <1>2, <1>6, <1>8
-----------------------------------------------------------------------------
\* The loop, in a slice that begins behind the first d kinds, and the grammar of the whole
\* agree on where the innermost block is closed, from i on.
AgreeAt(ks, d, i, stack) ==
    LET N == Len(ks)
        end == Last(stack)
        f == StackLoop(SubSeq(ks, d + 1, N))
    IN \/ /\ EndsAt(ks, i, end) = {} /\ AreValues(ks, i, N, end)
          /\ f[<<i - d, stack>>] = [n |-> N - d, ok |-> FALSE]
       \/ \E m \in i..N :
             /\ EndsAt(ks, i, end) = {m} /\ ~AreValues(ks, i, N, end)
             /\ f[<<i - d, stack>>] = f[<<(m + 1) - d, Front(stack)>>]

\* What is on top of a stack.
LEMMA StackTop ==
    ASSUME NEW stack \in Stacks, stack # <<>>
    PROVE  Last(stack) \in Closers /\ Front(stack) \in Stacks
<1>1. Len(stack) \in 1..Len(stack)
  BY DEF Stacks
<1>2. Last(stack) \in Closers
  BY <1>1 DEF Stacks, Last
<1>3. Front(stack) \in Stacks
  BY DEF Front, Stacks
<1> QED  BY <1>2, <1>3

LEMMA StackPushed ==
    ASSUME NEW stack \in Stacks, NEW end \in Closers
    PROVE  /\ Append(stack, end) \in Stacks /\ Append(stack, end) # <<>>
           /\ Last(Append(stack, end)) = end /\ Front(Append(stack, end)) = stack
<1> DEFINE s == Append(stack, end)
<1>1. s \in Seq(Closers) /\ Len(s) = Len(stack) + 1 /\ s[Len(stack) + 1] = end
      /\ \A k \in 1..Len(stack) : s[k] = stack[k]
  BY AppendProperties DEF Stacks
<1>2. Len(stack) \in Nat /\ stack \in Seq(Closers)
  BY DEF Stacks
<1> HIDE DEF s
<1>3. s # <<>> /\ Last(s) = end
  BY <1>1, <1>2 DEF Last
<1>4. Front(s) \in Seq(Closers) /\ Len(Front(s)) = Len(stack)
      /\ \A k \in 1..Len(stack) : Front(s)[k] = s[k]
  BY <1>1, <1>2 DEF Front
<1>5. Front(s) = stack
  BY <1>1, <1>2, <1>4, SeqEqual
<1> QED  BY <1>1, <1>3, <1>5 DEF s, Stacks

LEMMA StacksAgree ==
    ASSUME NEW S, NEW ks \in Seq(S), NEW d \in 0..Len(ks),
           NEW i \in (d + 1)..(Len(ks) + 1), NEW stack \in Stacks, stack # <<>>
    PROVE  AgreeAt(ks, d, i, stack)
<1> DEFINE N == Len(ks)
           slice == SubSeq(ks, d + 1, N)
           f == StackLoop(slice)
           D == (d + 1)..(N + 1)
           rank == [j \in D |-> N + 1 - j]
           G == {j \in D : \A s \in Stacks : s # <<>> => AgreeAt(ks, d, j, s)}
<1>1. N \in Nat /\ d \in Nat /\ d <= N
  OBVIOUS
<1>2. slice \in Seq(S) /\ Len(slice) = N - d /\ \A j \in 1..(N - d) : slice[j] = ks[j + d]
  <2>1. d + 1 \in 1..(N + 1) /\ N \in d..N
    BY <1>1
  <2>2. slice \in Seq(S) /\ Len(slice) = N - (d + 1) + 1
        /\ \A j \in 1..(N - (d + 1) + 1) : slice[j] = ks[(d + 1) + j - 1]
    BY <1>1, <2>1, SubSeqProperties
  <2> HIDE DEF slice, N
  <2>3. N - (d + 1) + 1 = N - d /\ \A j \in 1..(N - d) : (d + 1) + j - 1 = j + d
    BY <1>1
  <2> QED  BY <2>2, <2>3
<1>3. rank \in [D -> Nat]
  BY <1>1
<1>4. \A j, s, r : LoopStep(slice, j, s, r) =
          IF s = <<>> \/ j > N - d THEN [n |-> j - 1, ok |-> s = <<>>]
          ELSE r[<<j + 1, Nest(s, slice[j])>>]
  <2> HIDE DEF slice, N
  <2> QED  BY <1>2 DEF LoopStep
<1>5. ASSUME NEW j \in D, NEW s \in Stacks
      PROVE  f[<<j - d, s>>] = IF s = <<>> \/ j = N + 1 THEN [n |-> (j - d) - 1, ok |-> s = <<>>]
                               ELSE f[<<(j + 1) - d, Nest(s, ks[j])>>]
  <2>1. j - d \in Nat /\ (j - d > N - d <=> j = N + 1) /\ (j - d) + 1 = (j + 1) - d
    BY <1>1
  <2>2. j # N + 1 => j - d \in 1..(N - d) /\ (j - d) + d = j
    BY <1>1
  <2> HIDE DEF slice, N, D
  <2>3. f[<<j - d, s>>] = LoopStep(slice, j - d, s, f)
    BY <1>2, <2>1, LoopPass
  <2>4. j # N + 1 => slice[j - d] = ks[j]
    BY <1>2, <2>2
  <2>5. LoopStep(slice, j - d, s, f) =
          IF s = <<>> \/ j - d > N - d THEN [n |-> (j - d) - 1, ok |-> s = <<>>]
          ELSE f[<<(j - d) + 1, Nest(s, slice[j - d])>>]
    BY <1>4, Zenon
  <2> HIDE DEF f
  <2> QED  BY <2>1, <2>3, <2>4, <2>5
<1>6. ASSUME NEW j \in D, \A l \in D : rank[l] < rank[j] => l \in G
      PROVE  j \in G
  <2> SUFFICES ASSUME NEW s \in Stacks, s # <<>>
               PROVE  AgreeAt(ks, d, j, s)
    OBVIOUS
  <2> DEFINE end == Last(s)
  <2>1. end \in Closers /\ Front(s) \in Stacks
    BY StackTop
  <2>2. \A l \in D : l > j => \A t \in Stacks : t # <<>> => AgreeAt(ks, d, l, t)
    <3>1. \A l \in D : l > j => rank[l] < rank[j]
      BY <1>1
    <3> HIDE DEF rank, D
    <3> QED  BY <1>6, <3>1
  <2>3. CASE j = N + 1
    <3>1. EndsAt(ks, j, end) = {} /\ AreValues(ks, j, N, end)
      BY <2>1, <2>3, NoEndBehind
    <3>2. (j - d) - 1 = N - d
      BY <1>1, <2>3
    <3>3. f[<<j - d, s>>] = [n |-> N - d, ok |-> FALSE]
      <4>1. f[<<j - d, s>>] = [n |-> (j - d) - 1, ok |-> s = <<>>]
        <5> HIDE DEF f, D, N
        <5> QED  BY <1>5, <2>3
      <4>2. (s = <<>>) = FALSE
        OBVIOUS
      <4> HIDE DEF f, N
      <4> QED  BY <3>2, <4>1, <4>2
    <3> HIDE DEF f, end
    <3> QED  BY <3>1, <3>3 DEF AgreeAt, f, end
  <2>4. CASE j # N + 1
    <3>1. j \in 1..N /\ j + 1 \in D /\ j + 1 > j
      BY <1>1, <2>4
    <3>2. f[<<j - d, s>>] = f[<<(j + 1) - d, Nest(s, ks[j])>>]
      <4> HIDE DEF f, D, N
      <4> QED  BY <1>5, <2>4
    <3>3. CASE ks[j] = end
      <4>1. EndsAt(ks, j, end) = {j} /\ ~AreValues(ks, j, N, end)
        BY <2>1, <3>1, <3>3, EndIsHere
      <4>2. f[<<j - d, s>>] = f[<<(j + 1) - d, Front(s)>>]
        <5>1. Nest(s, ks[j]) = Front(s)
          BY <3>3 DEF Nest
        <5> HIDE DEF f
        <5> QED  BY <3>2, <5>1
      <4>3. j \in j..N
        BY <3>1
      <4> HIDE DEF f, end
      <4> QED  BY <4>1, <4>2, <4>3 DEF AgreeAt, f, end
    <3>4. CASE ks[j] # end /\ ~Opens(ks[j])
      <4>1. /\ EndsAt(ks, j, end) = EndsAt(ks, j + 1, end)
            /\ AreValues(ks, j, N, end) <=> AreValues(ks, j + 1, N, end)
        BY <2>1, <3>1, <3>4, EndBehindToken
      <4>2. f[<<j - d, s>>] = f[<<(j + 1) - d, s>>]
        <5>1. Nest(s, ks[j]) = s
          BY <3>4 DEF Nest
        <5> HIDE DEF f
        <5> QED  BY <3>2, <5>1
      <4>3. AgreeAt(ks, d, j + 1, s)
        <5> HIDE DEF D
        <5> QED  BY <2>2, <3>1
      <4>4. \A m \in (j + 1)..N : m \in j..N
        BY <3>1
      <4> HIDE DEF f, end
      <4> QED  BY <4>1, <4>2, <4>3, <4>4 DEF AgreeAt, f, end
    <3>5. CASE ks[j] # end /\ Opens(ks[j])
      <4> DEFINE inner == EndOf(ks[j])
                 t == Append(s, inner)
      <4>1. inner \in Closers
        BY <3>5, EndsAreClosers
      <4>2. t \in Stacks /\ t # <<>> /\ Last(t) = inner /\ Front(t) = s
        <5> HIDE DEF inner
        <5> QED  BY <4>1, StackPushed
      <4>3. f[<<j - d, s>>] = f[<<(j + 1) - d, t>>]
        <5>1. Nest(s, ks[j]) = t
          BY <3>5 DEF Nest
        <5> HIDE DEF f, t
        <5> QED  BY <3>2, <5>1
      <4> HIDE DEF t
      <4>4. AgreeAt(ks, d, j + 1, t)
        <5> HIDE DEF D
        <5> QED  BY <2>2, <3>1, <4>2
      <4>5. CASE /\ EndsAt(ks, j + 1, inner) = {} /\ AreValues(ks, j + 1, N, inner)
                 /\ f[<<(j + 1) - d, t>>] = [n |-> N - d, ok |-> FALSE]
        <5>1. EndsAt(ks, j, end) = {} /\ AreValues(ks, j, N, end)
          BY <2>1, <3>1, <3>5, <4>5, NoEndBehindOpen
        <5> HIDE DEF f, end
        <5> QED  BY <4>3, <4>5, <5>1 DEF AgreeAt, f, end
      <4>6. ASSUME NEW m \in (j + 1)..N,
                   EndsAt(ks, j + 1, inner) = {m}, ~AreValues(ks, j + 1, N, inner),
                   f[<<(j + 1) - d, t>>] = f[<<(m + 1) - d, s>>]
            PROVE  AgreeAt(ks, d, j, s)
        <5>1. /\ EndsAt(ks, j, end) = EndsAt(ks, m + 1, end)
              /\ AreValues(ks, j, N, end) <=> AreValues(ks, m + 1, N, end)
          BY <2>1, <3>1, <3>5, <4>6, EndBehindBlock
        <5>2. m + 1 \in D /\ m + 1 > j
          BY <1>1, <3>1
        <5>3. AgreeAt(ks, d, m + 1, s)
          <6> HIDE DEF D
          <6> QED  BY <2>2, <5>2
        <5>4. \A l \in (m + 1)..N : l \in j..N
          BY <3>1
        <5>5. f[<<j - d, s>>] = f[<<(m + 1) - d, s>>]
          <6> HIDE DEF f
          <6> QED  BY <4>3, <4>6, Zenon
        <5> HIDE DEF f, end
        <5> QED  BY <5>1, <5>3, <5>4, <5>5 DEF AgreeAt, f, end
      <4>7. \/ /\ EndsAt(ks, j + 1, inner) = {} /\ AreValues(ks, j + 1, N, inner)
               /\ f[<<(j + 1) - d, t>>] = [n |-> N - d, ok |-> FALSE]
            \/ \E m \in (j + 1)..N :
                  /\ EndsAt(ks, j + 1, inner) = {m} /\ ~AreValues(ks, j + 1, N, inner)
                  /\ f[<<(j + 1) - d, t>>] = f[<<(m + 1) - d, s>>]
        <5> HIDE DEF inner
        <5> QED  BY <4>2, <4>4 DEF AgreeAt
      <4> HIDE DEF f, inner, N
      <4> QED  BY <4>5, <4>6, <4>7, Zenon
    <3> QED  BY <3>3, <3>4, <3>5
  <2> QED  BY <2>3, <2>4
<1>7. D \subseteq G
  <2> HIDE DEF D, G, rank
  <2> QED  BY <1>3, <1>6, RankInduction
<1>8. i \in D
  OBVIOUS
<1> HIDE DEF D
<1> QED  BY <1>7, <1>8

\* ValueLength goes by the grammar: a block that is closed ends where the grammar closes
\* it, and there alone; one that is not takes all there is.
LEMMA ValueLengthFinds ==
    ASSUME NEW S, NEW ks \in Seq(S), NEW i \in 1..Len(ks), Opens(ks[i]),
           NEW v, v = ValueLength(SubSeq(ks, i, Len(ks)))
    PROVE  \/ /\ v.ok = TRUE /\ v.n \in 2..(Len(ks) + 1 - i)
              /\ \A k \in i..Len(ks) : IsClosedBlock(ks, i, k) <=> k = i + v.n - 1
              /\ ~AreValues(ks, i + 1, Len(ks), EndOf(ks[i]))
           \/ /\ v.ok = FALSE /\ v.n = Len(ks) + 1 - i
              /\ \A k \in i..Len(ks) : ~IsClosedBlock(ks, i, k)
              /\ AreValues(ks, i + 1, Len(ks), EndOf(ks[i]))
<1> DEFINE N == Len(ks)
           d == i - 1
           slice == SubSeq(ks, d + 1, N)
           f == StackLoop(slice)
           end == EndOf(ks[i])
           stack == <<end>>
<1>1. N \in Nat /\ d \in 0..N /\ d + 1 = i /\ i + 1 \in (d + 1)..(N + 1) /\ (i + 1) - d = 2
  OBVIOUS
<1>2. end \in Closers
  BY EndsAreClosers
<1>3. stack \in Stacks /\ stack # <<>> /\ Last(stack) = end /\ Front(stack) = <<>>
  <2> HIDE DEF end
  <2> QED  BY <1>2 DEF Stacks, Last, Front
<1>4. slice \in Seq(S) /\ slice # <<>> /\ slice[1] = ks[i]
  <2>1. i \in 1..(N + 1) /\ N \in (i - 1)..N
    BY <1>1
  <2>2. SubSeq(ks, i, N) \in Seq(S) /\ Len(SubSeq(ks, i, N)) = N - i + 1
        /\ \A j \in 1..(N - i + 1) : SubSeq(ks, i, N)[j] = ks[i + j - 1]
    BY <2>1, SubSeqProperties
  <2>3. 1 \in 1..(N - i + 1) /\ i + 1 - 1 = i /\ N - i + 1 # 0
    BY <1>1
  <2>4. slice = SubSeq(ks, i, N)
    BY <1>1
  <2> HIDE DEF slice, N
  <2>5. Len(slice) # 0
    BY <2>2, <2>3, <2>4
  <2> QED  BY <2>2, <2>3, <2>4, <2>5
<1>5. v = f[<<2, stack>>]
  <2>1. v = ValueLength(slice)
    BY <1>1
  <2>2. v = f[<<2, <<EndOf(slice[1])>>>>]
    <3> HIDE DEF slice
    <3> QED  BY <1>4, <2>1, LoopDef
  <2> HIDE DEF slice
  <2> QED  BY <1>4, <2>2
<1>6. AgreeAt(ks, d, i + 1, stack)
  <2> HIDE DEF d, stack
  <2> QED  BY <1>1, <1>3, StacksAgree
<1>7. \A k \in i..N : IsClosedBlock(ks, i, k) <=> k \in EndsAt(ks, i + 1, end)
  BY DEF IsClosedBlock, EndsAt
<1>8. CASE /\ EndsAt(ks, i + 1, end) = {} /\ AreValues(ks, i + 1, N, end)
           /\ f[<<(i + 1) - d, stack>>] = [n |-> N - d, ok |-> FALSE]
  <2>1. v = [n |-> N - d, ok |-> FALSE]
    <3> HIDE DEF f, d, stack
    <3> QED  BY <1>1, <1>5, <1>8
  <2>2. N - d = N + 1 - i
    OBVIOUS
  <2> HIDE DEF d
  <2> QED  BY <1>7, <1>8, <2>1, <2>2
<1>9. ASSUME NEW m \in (i + 1)..N, EndsAt(ks, i + 1, end) = {m},
             ~AreValues(ks, i + 1, N, end),
             f[<<(i + 1) - d, stack>>] = f[<<(m + 1) - d, Front(stack)>>]
      PROVE  /\ v.ok = TRUE /\ v.n \in 2..(N + 1 - i)
             /\ \A k \in i..N : IsClosedBlock(ks, i, k) <=> k = i + v.n - 1
             /\ ~AreValues(ks, i + 1, N, end)
  <2>1. v = f[<<(m + 1) - d, <<>>>>]
    <3> HIDE DEF f, d, stack
    <3> QED  BY <1>1, <1>3, <1>5, <1>9
  <2>2. (m + 1) - d \in Nat
    BY <1>1
  <2>3. <<>> \in Stacks
    BY DEF Stacks
  <2>4. v = LoopStep(slice, (m + 1) - d, <<>>, f)
    <3> HIDE DEF d, slice
    <3> QED  BY <1>4, <2>1, <2>2, <2>3, LoopPass
  <2>5. v = [n |-> ((m + 1) - d) - 1, ok |-> TRUE]
    <3> HIDE DEF slice, f, d
    <3> QED  BY <2>4 DEF LoopStep
  <2>6. v.ok = TRUE /\ v.n = ((m + 1) - d) - 1
    <3> HIDE DEF d
    <3> QED  BY <2>5
  <2>7. v.n \in 2..(N + 1 - i) /\ i + v.n - 1 = m
    BY <2>6, <1>1
  <2>8. \A k \in i..N : IsClosedBlock(ks, i, k) <=> k = m
    BY <1>7, <1>9
  <2> HIDE DEF N, end
  <2> QED  BY <1>9, <2>6, <2>7, <2>8
<1>10. \/ /\ EndsAt(ks, i + 1, end) = {} /\ AreValues(ks, i + 1, N, end)
          /\ f[<<(i + 1) - d, stack>>] = [n |-> N - d, ok |-> FALSE]
       \/ \E m \in (i + 1)..N :
             /\ EndsAt(ks, i + 1, end) = {m} /\ ~AreValues(ks, i + 1, N, end)
             /\ f[<<(i + 1) - d, stack>>] = f[<<(m + 1) - d, Front(stack)>>]
  <2> HIDE DEF d, stack, end
  <2> QED  BY <1>3, <1>6 DEF AgreeAt
<1> QED  BY <1>8, <1>9, <1>10

\* The first token of a slice, and what ValueLength says of one that opens nothing.
LEMMA SliceFrom ==
    ASSUME NEW S, NEW ks \in Seq(S), NEW i \in 1..Len(ks), NEW n \in i..Len(ks)
    PROVE  /\ SubSeq(ks, i, n) \in Seq(S) /\ Len(SubSeq(ks, i, n)) = n + 1 - i
           /\ \A j \in 1..(n + 1 - i) : SubSeq(ks, i, n)[j] = ks[i + j - 1]
           /\ SubSeq(ks, i, n) # <<>> /\ SubSeq(ks, i, n)[1] = ks[i]
<1> DEFINE slice == SubSeq(ks, i, n)
<1>1. i \in 1..(Len(ks) + 1) /\ n \in (i - 1)..Len(ks)
  OBVIOUS
<1>2. slice \in Seq(S) /\ Len(slice) = n - i + 1
      /\ \A j \in 1..(n - i + 1) : slice[j] = ks[i + j - 1]
  BY <1>1, SubSeqProperties
<1>3. n - i + 1 = n + 1 - i /\ 1 \in 1..(n + 1 - i) /\ i + 1 - 1 = i
  OBVIOUS
<1> HIDE DEF slice
<1>4. slice # <<>> /\ slice[1] = ks[i]
  BY <1>2, <1>3
<1> QED  BY <1>2, <1>3, <1>4 DEF slice

LEMMA ValueLengthOfToken ==
    ASSUME NEW S, NEW ks \in Seq(S), NEW i \in 1..Len(ks), NEW n \in i..Len(ks), ~Opens(ks[i])
    PROVE  ValueLength(SubSeq(ks, i, n)).n = 1 /\ ValueLength(SubSeq(ks, i, n)).ok = TRUE
<1> DEFINE slice == SubSeq(ks, i, n)
<1>1. slice \in Seq(S) /\ slice # <<>> /\ slice[1] = ks[i]
  BY SliceFrom
<1> HIDE DEF slice
<1>2. ValueLength(slice) = [n |-> 1, ok |-> TRUE]
  BY <1>1, LoopDef
<1> QED  BY <1>2 DEF slice

\* Any value in a slice that is not empty has a length.
LEMMA ValueLengthType ==
    ASSUME NEW S, NEW ks \in Seq(S), NEW i \in 1..Len(ks),
           NEW v, v = ValueLength(SubSeq(ks, i, Len(ks)))
    PROVE  v.n \in 1..(Len(ks) + 1 - i) /\ v.ok \in BOOLEAN
<1>1. CASE Opens(ks[i])
  <2>1. Len(ks) + 1 - i \in 1..(Len(ks) + 1 - i)
    OBVIOUS
  <2>2. v.n \in 2..(Len(ks) + 1 - i) \/ v.n = Len(ks) + 1 - i
    BY <1>1, ValueLengthFinds
  <2>3. v.ok = TRUE \/ v.ok = FALSE
    BY <1>1, ValueLengthFinds
  <2>4. v.n \in 1..(Len(ks) + 1 - i)
    BY <2>1, <2>2
  <2>5. v.ok \in BOOLEAN
    BY <2>3, Zenon
  <2> QED  BY <2>4, <2>5
<1>2. CASE ~Opens(ks[i])
  <2>1. Len(ks) \in i..Len(ks) /\ 1 \in 1..(Len(ks) + 1 - i)
    OBVIOUS
  <2> QED  BY <1>2, <2>1, ValueLengthOfToken
<1> QED  BY <1>1, <1>2
-----------------------------------------------------------------------------
\* Tokens of any set have kinds of some set.
KindSet(list) == {list[i].kind : i \in 1..Len(list)}

LEMMA KindsInType ==
    ASSUME NEW S, NEW list \in Seq(S)
    PROVE  /\ KindsIn(list) \in Seq(KindSet(list)) /\ Len(KindsIn(list)) = Len(list)
           /\ \A i \in 1..Len(list) : KindsIn(list)[i] = list[i].kind
<1>1. \A i \in 1..Len(list) : list[i].kind \in KindSet(list)
  BY DEF KindSet
<1>2. KindsIn(list) \in [1..Len(list) -> KindSet(list)]
  BY <1>1 DEF KindsIn
<1>3. Len(list) \in Nat
  OBVIOUS
<1>4. KindsIn(list) \in Seq(KindSet(list)) /\ Len(KindsIn(list)) = Len(list)
  BY <1>2, <1>3
<1>5. \A i \in 1..Len(list) : KindsIn(list)[i] = list[i].kind
  BY DEF KindsIn
<1> QED  BY <1>4, <1>5

\* The kinds of a slice are a slice of the kinds.
LEMMA KindsInSlice ==
    ASSUME NEW S, NEW list \in Seq(S), NEW i \in 1..Len(list)
    PROVE  KindsIn(SubSeq(list, i, Len(list))) = SubSeq(KindsIn(list), i, Len(list))
<1> DEFINE N == Len(list)
           ks == KindsIn(list)
           slice == SubSeq(list, i, N)
           l == KindsIn(slice)
           r == SubSeq(ks, i, N)
<1>1. i \in 1..(N + 1) /\ N \in (i - 1)..N /\ N - i + 1 \in Nat
  OBVIOUS
<1>2. ks \in Seq(KindSet(list)) /\ Len(ks) = N /\ \A j \in 1..N : ks[j] = list[j].kind
  BY KindsInType
<1>3. slice \in Seq(S) /\ Len(slice) = N - i + 1
      /\ \A j \in 1..(N - i + 1) : slice[j] = list[i + j - 1]
  BY <1>1, SubSeqProperties
<1>4. r \in Seq(KindSet(list)) /\ Len(r) = N - i + 1
      /\ \A j \in 1..(N - i + 1) : r[j] = ks[i + j - 1]
  <2> HIDE DEF ks, N
  <2> QED  BY <1>1, <1>2, SubSeqProperties
<1>5. l \in Seq(KindSet(slice)) /\ Len(l) = N - i + 1
      /\ \A j \in 1..(N - i + 1) : l[j] = slice[j].kind
  <2> HIDE DEF slice
  <2> QED  BY <1>3, KindsInType
<1>6. \A j \in 1..(N - i + 1) : i + j - 1 \in 1..N
  BY <1>1
<1>7. \A j \in 1..(N - i + 1) : l[j] = r[j]
  <2> HIDE DEF slice, ks, l, r, N
  <2> QED  BY <1>2, <1>3, <1>4, <1>5, <1>6
<1>8. l = r
  <2>1. l \in Seq(KindSet(slice) \cup KindSet(list)) /\ r \in Seq(KindSet(slice) \cup KindSet(list))
    <3> HIDE DEF l, r, slice
    <3> QED  BY <1>4, <1>5, SeqMonotonic
  <2>2. Len(l) = Len(r) /\ \A j \in 1..Len(l) : l[j] = r[j]
    <3> HIDE DEF l, r, N
    <3> QED  BY <1>4, <1>5, <1>7
  <2> HIDE DEF l, r
  <2> QED  BY <2>1, <2>2, SeqEqual
<1> QED  BY <1>8

\* SkipWhitespace stops at the first token that is no white space, or behind the last.
LEMMA SkipFinds ==
    ASSUME NEW S, NEW value \in Seq(S), NEW p \in 1..(Len(value) + 1),
           NEW q, q = SkipWhitespace(value, p)
    PROVE  /\ q \in p..(Len(value) + 1)
           /\ q <= Len(value) => value[q].kind # "ws"
           /\ \A r \in p..(q - 1) : value[r].kind = "ws"
<1> DEFINE N == Len(value)
           Stops == {x \in p..(N + 1) : x <= N => value[x].kind # "ws"}
           P(x) == /\ x <= N => value[x].kind # "ws"
                   /\ \A r \in p..(x - 1) : value[r].kind = "ws"
<1>1. N \in Nat /\ N + 1 \in Stops /\ Stops \subseteq Nat
  OBVIOUS
<1>2. PICK x \in Stops : \A y \in Stops : x <= y
  <2> HIDE DEF Stops
  <2> QED  BY <1>1, LeastExists
<1>3. x \in p..(N + 1) /\ P(x)
  <2>1. \A r \in p..(x - 1) : r \in p..(N + 1) /\ r <= N /\ ~(x <= r)
    BY <1>1
  <2> QED  BY <1>2, <2>1
<1>4. q = CHOOSE y \in p..(N + 1) : P(y)
  BY DEF SkipWhitespace
<1>5. q \in p..(N + 1) /\ P(q)
  <2> HIDE DEF P, N
  <2> QED  BY <1>3, <1>4
<1> QED  BY <1>5
-----------------------------------------------------------------------------
\* findReferences: the custom properties that the var() functions before i refer to.
RefersBefore(list, i) ==
    {list[q].text : q \in {q \in 1..Len(list) :
                              \E p \in 1..(q - 1) : p < i /\ Refers(list, p, q)}}

LEMMA NothingBefore ==
    ASSUME NEW S, NEW list \in Seq(S)
    PROVE  RefersBefore(list, 1) = {}
  BY DEF RefersBefore

LEMMA AllBefore ==
    ASSUME NEW S, NEW list \in Seq(S), NEW i \in Nat, i > Len(list)
    PROVE  RefersBefore(list, i) = RefersTo(list)
<1>1. \A q \in 1..Len(list) : \A p \in 1..(q - 1) : p < i
  OBVIOUS
<1> QED  BY <1>1 DEF RefersBefore, RefersTo

\* Where no var() function refers to anything, there is nothing to be found.
LEMMA NoMoreBefore ==
    ASSUME NEW S, NEW list \in Seq(S), NEW i \in 1..Len(list), NEW j \in Nat, i <= j,
           \A p \in i..(j - 1), q \in 1..Len(list) : p < q => ~Refers(list, p, q)
    PROVE  RefersBefore(list, j) = RefersBefore(list, i)
<1>1. \A q \in 1..Len(list) : \A p \in 1..(q - 1) :
          p < j /\ Refers(list, p, q) <=> p < i /\ Refers(list, p, q)
  <2> SUFFICES ASSUME NEW q \in 1..Len(list), NEW p \in 1..(q - 1), p < j, ~(p < i)
               PROVE  ~Refers(list, p, q)
    OBVIOUS
  <2>1. p \in i..(j - 1) /\ p < q
    OBVIOUS
  <2> QED  BY <2>1
<1> QED  BY <1>1, Zenon DEF RefersBefore

\* A token that is no var() function, or one that is not closed.
LEMMA PassToken ==
    ASSUME NEW S, NEW list \in Seq(S), NEW i \in 1..Len(list),
           NEW v, v = ValueLength(KindsIn(SubSeq(list, i, Len(list)))),
           ~(list[i].kind = "var" /\ v.ok)
    PROVE  RefersBefore(list, i + 1) = RefersBefore(list, i)
<1> DEFINE N == Len(list)
           ks == KindsIn(list)
<1>1. ks \in Seq(KindSet(list)) /\ Len(ks) = N /\ ks[i] = list[i].kind
  BY KindsInType
<1>2. v = ValueLength(SubSeq(ks, i, N))
  BY KindsInSlice
<1>3. ASSUME NEW q \in 1..N, i < q, Refers(list, i, q) PROVE FALSE
  <2>1. list[i].kind = "var" /\ \E k \in (q + 1)..N : IsClosedBlock(ks, i, k)
    BY <1>3 DEF Refers
  <2>2. PICK k \in (q + 1)..N : IsClosedBlock(ks, i, k)
    BY <2>1
  <2>3. Opens(ks[i]) /\ v.ok # TRUE
    <3>1. v.ok # TRUE
      BY <2>1, Zenon
    <3>2. Opens(ks[i])
      BY <1>1, <2>1 DEF Opens
    <3> QED  BY <3>1, <3>2
  <2>4. k \in i..N /\ i \in 1..N
    BY <1>3
  <2> HIDE DEF ks, N
  <2> QED  BY <1>1, <1>2, <2>2, <2>3, <2>4, ValueLengthFinds
<1>4. \A p \in i..((i + 1) - 1) : p = i
  OBVIOUS
<1>5. i + 1 \in Nat /\ i <= i + 1
  OBVIOUS
<1>6. \A p \in i..((i + 1) - 1), q \in 1..N : p < q => ~Refers(list, p, q)
  BY <1>3, <1>4
<1> QED  BY <1>5, <1>6, NoMoreBefore

\* From i on, nothing refers but what is at i itself.
LEMMA OneBefore ==
    ASSUME NEW S, NEW list \in Seq(S), NEW i \in 1..Len(list), NEW j \in (i + 1)..(Len(list) + 1),
           \A p \in (i + 1)..(j - 1) : list[p].kind # "var"
    PROVE  RefersBefore(list, j) =
               RefersBefore(list, i) \cup {list[y].text : y \in {y \in 1..Len(list) : i < y /\ Refers(list, i, y)}}
<1>1. \A q \in 1..Len(list) :
          (\E p \in 1..(q - 1) : p < j /\ Refers(list, p, q))
             <=> \/ \E p \in 1..(q - 1) : p < i /\ Refers(list, p, q)
                 \/ i < q /\ Refers(list, i, q)
  <2> SUFFICES ASSUME NEW q \in 1..Len(list)
               PROVE  (\E p \in 1..(q - 1) : p < j /\ Refers(list, p, q))
                         <=> \/ \E p \in 1..(q - 1) : p < i /\ Refers(list, p, q)
                             \/ i < q /\ Refers(list, i, q)
    OBVIOUS
  <2>1. ASSUME NEW p \in 1..(q - 1), p < j, ~(p < i), p # i
        PROVE  ~Refers(list, p, q)
    <3>1. p \in (i + 1)..(j - 1)
      BY <2>1
    <3> QED  BY <3>1 DEF Refers
  <2>2. i < q => i \in 1..(q - 1) /\ i < j
    OBVIOUS
  <2>3. \A p \in 1..(q - 1) : p < i => p < j
    OBVIOUS
  <2>4. \A p \in 1..(q - 1) : p < q
    OBVIOUS
  <2> QED  BY <2>1, <2>2, <2>3, <2>4
<1> QED  BY <1>1 DEF RefersBefore

\* A var() function that is closed: the loop goes on behind the name, or where a name
\* should have been, and has found what the function refers to.
LEMMA PassVar ==
    ASSUME NEW S, NEW list \in Seq(S), NEW i \in 1..Len(list), list[i].kind = "var",
           NEW v, v = ValueLength(KindsIn(SubSeq(list, i, Len(list)))), v.ok,
           NEW f, f = VarFunctionPropertyName(SubSeq(list, i, i + v.n - 1))
    PROVE  /\ i + f.end \in (i + 1)..(Len(list) + 1)
           /\ RefersBefore(list, i + f.end) = RefersBefore(list, i) \cup f.names
<1> DEFINE N == Len(list)
           ks == KindsIn(list)
           m == v.n
           value == SubSeq(list, i, i + m - 1)
           p == SkipWhitespace(value, 2)
           q == SkipWhitespace(value, p + 1)
           isEnd == q <= Len(value) /\ (value[q].kind = "," \/ (value[q].kind = ")" /\ q = Len(value)))
<1>1. /\ ks \in Seq(KindSet(list)) /\ Len(ks) = N /\ ks[i] = list[i].kind
      /\ \A x \in 1..N : ks[x] = list[x].kind
  BY KindsInType
<1>2. v = ValueLength(SubSeq(ks, i, N))
  BY KindsInSlice
<1>3. /\ m \in 2..(N + 1 - i)
      /\ \A k \in i..N : IsClosedBlock(ks, i, k) <=> k = i + m - 1
  <2>1. Opens(ks[i]) /\ i \in 1..Len(ks)
    BY <1>1 DEF Opens
  <2>2. v.ok # FALSE
    BY Zenon
  <2> HIDE DEF ks, N
  <2> QED  BY <1>1, <1>2, <2>1, <2>2, ValueLengthFinds
<1>4. i + m - 1 \in i..N /\ m \in Nat /\ m >= 2 /\ N \in Nat /\ i \in Nat
  BY <1>3
<1>5. value \in Seq(S) /\ Len(value) = m /\ \A x \in 1..m : value[x] = list[i + x - 1]
  <2> HIDE DEF m
  <2>1. i \in Int /\ i + m - 1 \in Int /\ i <= i + m - 1 /\ (i + m - 1) - i + 1 = m
    BY <1>4
  <2>2. \A x \in i..(i + m - 1) : list[x] \in S
    BY <1>4
  <2> QED  BY <2>1, <2>2, SubSeqProperties
<1>6. value[m].kind = ")"
  <2>1. IsClosedBlock(ks, i, i + m - 1)
    BY <1>3, <1>4
  <2>2. ks[i + m - 1] = ")"
    BY <1>1, <2>1 DEF IsClosedBlock, EndOf
  <2>3. m \in 1..m /\ i + m - 1 \in 1..N
    BY <1>4
  <2> HIDE DEF value, ks, m, N
  <2> QED  BY <1>1, <1>5, <2>2, <2>3
<1>7. p \in 2..m /\ value[p].kind # "ws" /\ \A r \in 2..(p - 1) : value[r].kind = "ws"
  <2>1. 2 \in 1..(Len(value) + 1)
    BY <1>4, <1>5
  <2> HIDE DEF value, m
  <2>2. /\ p \in 2..(m + 1) /\ (p <= m => value[p].kind # "ws")
        /\ \A r \in 2..(p - 1) : value[r].kind = "ws"
    BY <1>5, <2>1, SkipFinds
  <2>3. p # m + 1
    <3> HIDE DEF p
    <3>1. p = m + 1 => m \in 2..(p - 1)
      BY <1>4
    <3> QED  BY <1>6, <2>2, <3>1
  <2> HIDE DEF p
  <2> QED  BY <1>4, <2>2, <2>3
<1>8. p < m => q \in (p + 1)..m /\ value[q].kind # "ws" /\ \A r \in (p + 1)..(q - 1) : value[r].kind = "ws"
  <2> SUFFICES ASSUME p < m
               PROVE  q \in (p + 1)..m /\ value[q].kind # "ws"
                      /\ \A r \in (p + 1)..(q - 1) : value[r].kind = "ws"
    OBVIOUS
  <2> HIDE DEF value, m, p
  <2>1. p + 1 \in 1..(Len(value) + 1)
    BY <1>4, <1>5, <1>7
  <2>2. /\ q \in (p + 1)..(m + 1) /\ (q <= m => value[q].kind # "ws")
        /\ \A r \in (p + 1)..(q - 1) : value[r].kind = "ws"
    BY <1>5, <2>1, SkipFinds
  <2>3. q # m + 1
    <3> HIDE DEF q
    <3>1. q = m + 1 => m \in (p + 1)..(q - 1)
      BY <1>4, <1>7
    <3> QED  BY <1>6, <2>2, <3>1
  <2> HIDE DEF q
  <2> QED  BY <1>4, <1>7, <2>2, <2>3
<1>9. f = IF p > m \/ value[p].kind # "custom" THEN [names |-> {}, end |-> p - 1]
          ELSE IF isEnd THEN [names |-> {value[p].text}, end |-> q]
          ELSE [names |-> {}, end |-> q - 1]
  <2>1. f = VarFunctionPropertyName(value)
    OBVIOUS
  <2> HIDE DEF value
  <2> QED  BY <1>5, <2>1, Zenon DEF VarFunctionPropertyName
<1> HIDE DEF value, m, ks, p, q
\* The first argument can only be the token at p.
<1>10. ASSUME NEW y \in 1..N, i < y, Refers(list, i, y)
       PROVE  y = i + p - 1 /\ value[p].kind = "custom"
  <2>1. list[y].kind = "custom" /\ \A r \in (i + 1)..(y - 1) : list[r].kind = "ws"
    BY <1>10 DEF Refers, IsBlank
  <2>2. list[i + p - 1].kind # "ws" /\ \A r \in 2..(p - 1) : list[i + r - 1].kind = "ws"
    <3>1. p \in 1..m /\ \A r \in 2..(p - 1) : r \in 1..m
      BY <1>4, <1>7
    <3> HIDE DEF N
    <3> QED  BY <1>5, <1>7, <3>1
  <2>3. ~(i + p - 1 \in (i + 1)..(y - 1))
    BY <2>1, <2>2
  <2>4. y >= i + p - 1
    <3>1. ASSUME y < i + p - 1 PROVE FALSE
      <4>1. (y - i) + 1 \in 2..(p - 1) /\ i + ((y - i) + 1) - 1 = y
        BY <1>4, <1>7, <1>10, <3>1
      <4>2. list[y].kind = "ws"
        BY <2>2, <4>1
      <4> QED  BY <2>1, <4>2
    <3> QED  BY <1>4, <1>7, <3>1
  <2>5. y = i + p - 1
    BY <1>4, <1>7, <1>10, <2>3, <2>4
  <2>6. value[p] = list[y]
    BY <1>4, <1>5, <1>7, <2>5
  <2> QED  BY <2>1, <2>5, <2>6
<1>11. value[p].kind = "custom" => p < m /\ i + p - 1 \in 1..N /\ i < i + p - 1
  <2>1. p # m \/ value[p].kind = ")"
    BY <1>6
  <2> QED  BY <1>4, <1>7, <2>1
\* The block ends at the end of the value, and the name at q.
<1>12. ASSUME value[p].kind = "custom", Refers(list, i, i + p - 1)
       PROVE  isEnd
  <2> DEFINE y == i + p - 1
  <2>1. PICK k \in (y + 1)..N :
            /\ IsClosedBlock(ks, i, k)
            /\ \E r \in (y + 1)..k : IsBlank(list, y, r) /\ (list[r].kind = "," \/ r = k)
    BY <1>12 DEF Refers, ks
  <2>2. PICK r \in (y + 1)..k : IsBlank(list, y, r) /\ (list[r].kind = "," \/ r = k)
    BY <2>1
  <2>3. k = i + m - 1
    <3>1. k \in i..N
      BY <1>4, <1>7
    <3> QED  BY <1>3, <2>1, <3>1
  <2>4. \A x \in (y + 1)..(r - 1) : list[x].kind = "ws"
    BY <2>2 DEF IsBlank
  <2> DEFINE z == (r - i) + 1
  <2>5. z \in (p + 1)..m /\ i + z - 1 = r
    BY <1>4, <1>7, <2>3
  <2>6. value[z] = list[r]
    <3>1. z \in 1..m
      BY <1>7, <2>5
    <3> HIDE DEF z
    <3> QED  BY <1>5, <2>5, <3>1
  <2>7. r = k <=> z = m
    BY <1>4, <2>3, <2>5
  <2>8. value[z].kind # "ws"
    BY <1>6, <2>2, <2>6, <2>7
  <2>9. \A x \in (p + 1)..(z - 1) : value[x].kind = "ws"
    <3> SUFFICES ASSUME NEW x \in (p + 1)..(z - 1) PROVE value[x].kind = "ws"
      OBVIOUS
    <3>1. i + x - 1 \in (y + 1)..(r - 1) /\ x \in 1..m
      BY <1>4, <1>7, <2>5
    <3> QED  BY <1>5, <2>4, <3>1
  <2> HIDE DEF y, z
  <2>10. q \in (p + 1)..m /\ value[q].kind # "ws" /\ \A x \in (p + 1)..(q - 1) : value[x].kind = "ws"
    BY <1>8, <1>11, <1>12
  <2>11. ~(z < q) /\ ~(q < z)
    <3>1. z < q => z \in (p + 1)..(q - 1)
      BY <1>4, <1>7, <2>5, <2>10
    <3>2. q < z => q \in (p + 1)..(z - 1)
      BY <1>4, <1>7, <2>5, <2>10
    <3> QED  BY <2>8, <2>9, <2>10, <3>1, <3>2
  <2>12. q = z
    BY <1>4, <1>7, <2>5, <2>10, <2>11
  <2>13. q \in 1..m /\ q <= m /\ (r = k => q = m)
    BY <1>4, <1>7, <2>5, <2>7, <2>12
  <2>14. value[q].kind = "," \/ q = m
    BY <2>2, <2>6, <2>12, <2>13
  <2> QED  BY <1>5, <1>6, <2>13, <2>14
<1>13. ASSUME value[p].kind = "custom", isEnd
       PROVE  Refers(list, i, i + p - 1)
  <2>1. /\ q \in (p + 1)..m /\ \A x \in (p + 1)..(q - 1) : value[x].kind = "ws"
        /\ p < m
    BY <1>8, <1>11, <1>13
  <2>2. list[i + p - 1].kind = "custom"
    <3>1. p \in 1..m
      BY <1>7
    <3> QED  BY <1>5, <1>13, <3>1
  <2>3. IsBlank(list, i, i + p - 1)
    <3> SUFFICES ASSUME NEW r \in (i + 1)..((i + p - 1) - 1) PROVE list[r].kind = "ws"
      BY DEF IsBlank
    <3>1. (r - i) + 1 \in 2..(p - 1) /\ (r - i) + 1 \in 1..m /\ i + ((r - i) + 1) - 1 = r
      BY <1>4, <1>7
    <3> QED  BY <1>5, <1>7, <3>1
  <2>4. IsBlank(list, i + p - 1, i + q - 1)
    <3> SUFFICES ASSUME NEW r \in ((i + p - 1) + 1)..((i + q - 1) - 1) PROVE list[r].kind = "ws"
      BY DEF IsBlank
    <3>1. (r - i) + 1 \in (p + 1)..(q - 1) /\ (r - i) + 1 \in 1..m /\ i + ((r - i) + 1) - 1 = r
      BY <1>4, <1>7, <2>1
    <3> QED  BY <1>5, <2>1, <3>1
  <2>5. list[i + q - 1].kind = "," \/ i + q - 1 = i + m - 1
    <3>1. q \in 1..m
      BY <1>7, <2>1
    <3> QED  BY <1>5, <1>13, <3>1
  <2>6. IsClosedBlock(ks, i, i + m - 1)
    BY <1>3, <1>4
  <2>7. /\ i + m - 1 \in ((i + p - 1) + 1)..N
        /\ i + q - 1 \in ((i + p - 1) + 1)..(i + m - 1)
    BY <1>4, <1>7, <2>1
  <2> QED  BY <2>2, <2>3, <2>4, <2>5, <2>6, <2>7 DEF Refers, ks
<1> DEFINE found == {list[y].text : y \in {y \in 1..N : i < y /\ Refers(list, i, y)}}
<1>14. /\ f.end \in 1..m
       /\ \A x \in 2..f.end : value[x].kind # "var"
       /\ f.names = found
  <2>1. CASE value[p].kind # "custom"
    <3>1. f = [names |-> {}, end |-> p - 1]
      BY <1>9, <2>1, Zenon
    <3>2. f.names = {} /\ f.end = p - 1
      BY <3>1
    <3>3. found = {}
      BY <1>10, <2>1
    <3>4. p - 1 \in 1..m
      BY <1>4, <1>7
    <3>5. \A x \in 2..(p - 1) : value[x].kind # "var"
      BY <1>7
    <3> QED  BY <3>2, <3>3, <3>4, <3>5
  <2>2. CASE value[p].kind = "custom"
    <3>1. p < m /\ ~(p > m) /\ q \in (p + 1)..m /\ q \in Nat
      BY <1>4, <1>7, <1>8, <1>11, <2>2
    <3>2. \A x \in 2..(q - 1) : value[x].kind # "var"
      <4> SUFFICES ASSUME NEW x \in 2..(q - 1) PROVE value[x].kind # "var"
        OBVIOUS
      <4>1. x \in 2..(p - 1) \/ x = p \/ x \in (p + 1)..(q - 1)
        BY <1>7, <3>1
      <4> QED  BY <1>7, <1>8, <2>2, <3>1, <4>1
    <3>3. CASE isEnd
      <4>1. f = [names |-> {value[p].text}, end |-> q]
        BY <1>9, <2>2, <3>1, <3>3, Zenon
      <4>2. f.names = {value[p].text} /\ f.end = q
        BY <4>1
      <4>3. value[q].kind # "var"
        BY <3>3
      <4>4. \A x \in 2..q : value[x].kind # "var"
        <5>1. \A x \in 2..q : x \in 2..(q - 1) \/ x = q
          BY <3>1
        <5> QED  BY <3>2, <4>3, <5>1
      <4>5. Refers(list, i, i + p - 1)
        BY <1>13, <2>2, <3>3
      <4>6. i + p - 1 \in 1..N /\ i < i + p - 1 /\ value[p] = list[i + p - 1]
        <5>1. p \in 1..m
          BY <1>7
        <5> QED  BY <1>5, <1>11, <2>2, <5>1
      <4>7. found = {value[p].text}
        BY <1>10, <4>5, <4>6
      <4>8. q \in 1..m
        BY <1>7, <3>1
      <4> QED  BY <4>2, <4>4, <4>7, <4>8
    <3>4. CASE ~isEnd
      <4>1. f = [names |-> {}, end |-> q - 1]
        BY <1>9, <2>2, <3>1, <3>4, Zenon
      <4>2. f.names = {} /\ f.end = q - 1
        BY <4>1
      <4>3. found = {}
        BY <1>10, <1>12, <2>2, <3>4
      <4>4. q - 1 \in 1..m
        BY <1>4, <1>7, <3>1
      <4> QED  BY <3>2, <4>2, <4>3, <4>4
    <3> QED  BY <3>3, <3>4
  <2> QED  BY <2>1, <2>2
<1> HIDE DEF found
<1>15. i + f.end \in (i + 1)..(N + 1)
  BY <1>4, <1>14
<1>16. \A x \in (i + 1)..((i + f.end) - 1) : list[x].kind # "var"
  <2> SUFFICES ASSUME NEW x \in (i + 1)..((i + f.end) - 1) PROVE list[x].kind # "var"
    OBVIOUS
  <2>1. (x - i) + 1 \in 2..f.end /\ (x - i) + 1 \in 1..m /\ i + ((x - i) + 1) - 1 = x
    BY <1>4, <1>14
  <2> QED  BY <1>5, <1>14, <2>1
<1>17. RefersBefore(list, i + f.end) = RefersBefore(list, i) \cup found
  BY <1>15, <1>16, OneBefore DEF found
<1> QED  BY <1>14, <1>15, <1>17

-----------------------------------------------------------------------------
\* FlattenSeq: its recursion.
FlattenLoop(seqs, f) ==
    f = [i \in 1..Len(seqs) |-> IF i = 1 THEN seqs[i] ELSE f[i - 1] \o seqs[i]]

LEMMA FlattenLoopExists ==
    ASSUME NEW S, NEW seqs \in Seq(Seq(S)), seqs # <<>>
    PROVE  \E f : FlattenLoop(seqs, f)
<1> DEFINE N == Len(seqs)
           B == [i \in 1..(N - 1) |-> [x \in Seq(S) |-> x \o seqs[i + 1]]]
<1>1. N \in Nat /\ N - 1 \in Nat /\ \A i \in 1..N : seqs[i] \in Seq(S)
  OBVIOUS
<1>2. seqs[1] \in Seq(S)
  BY <1>1
<1>3. \A i \in 1..(N - 1), x \in Seq(S) : B[i][x] = x \o seqs[i + 1] /\ B[i][x] \in Seq(S)
  <2> SUFFICES ASSUME NEW i \in 1..(N - 1), NEW x \in Seq(S)
               PROVE  B[i][x] = x \o seqs[i + 1] /\ B[i][x] \in Seq(S)
    OBVIOUS
  <2>1. B[i][x] = x \o seqs[i + 1]
    OBVIOUS
  <2>2. seqs[i + 1] \in Seq(S)
    BY <1>1
  <2>3. x \o seqs[i + 1] \in Seq(S)
    BY <2>2, ConcatProperties
  <2> QED  BY <2>1, <2>3
<1> HIDE DEF B, N
<1>4. PICK g : Iterates(g, N - 1, Seq(S), seqs[1], B)
  BY <1>1, <1>2, <1>3, RecursionExists
<1> DEFINE f == [i \in 1..N |-> g[i - 1]]
<1>5. ASSUME NEW i \in 1..N
      PROVE  f[i] = IF i = 1 THEN seqs[i] ELSE f[i - 1] \o seqs[i]
  <2>1. CASE i = 1
    BY <1>1, <1>4, <2>1 DEF Iterates
  <2>2. CASE i # 1
    <3>1. i - 1 \in 1..(N - 1) /\ i - 1 \in 1..N /\ (i - 1) - 1 \in 0..(N - 1) /\ (i - 1) + 1 = i
      BY <1>1, <2>2
    <3>2. f[i] = g[i - 1] /\ f[i - 1] = g[(i - 1) - 1]
      BY <3>1
    <3>3. g[i - 1] = B[i - 1][g[(i - 1) - 1]] /\ g[(i - 1) - 1] \in Seq(S)
      BY <1>4, <3>1 DEF Iterates
    <3>4. g[i - 1] = g[(i - 1) - 1] \o seqs[i]
      BY <1>3, <3>1, <3>3
    <3> QED  BY <2>2, <3>2, <3>4
  <2> QED  BY <2>1, <2>2
<1>6. f = [i \in 1..N |-> IF i = 1 THEN seqs[i] ELSE f[i - 1] \o seqs[i]]
  <2> DEFINE h == [i \in 1..N |-> IF i = 1 THEN seqs[i] ELSE f[i - 1] \o seqs[i]]
  <2>1. f = [i \in 1..N |-> f[i]]
    OBVIOUS
  <2> HIDE DEF f
  <2> QED  BY <1>5, <2>1
<1> HIDE DEF f
<1> QED  BY <1>6 DEF FlattenLoop, N

LEMMA FlattenDef ==
    ASSUME NEW S, NEW seqs \in Seq(Seq(S)), seqs # <<>>,
           NEW f, f = CHOOSE g : FlattenLoop(seqs, g)
    PROVE  FlattenLoop(seqs, f) /\ FlattenSeq(seqs) = f[Len(seqs)]
<1>1. FlattenLoop(seqs, f)
  BY FlattenLoopExists
<1>2. Len(seqs) # 0
  OBVIOUS
<1>3. FlattenSeq(seqs) = f[Len(seqs)]
  <2>1. f = CHOOSE g : g = [i \in 1..Len(seqs) |-> IF i = 1 THEN seqs[i] ELSE g[i - 1] \o seqs[i]]
    BY Zenon DEF FlattenLoop
  <2>2. FlattenSeq(seqs) = (CHOOSE g : g = [i \in 1..Len(seqs) |->
                                IF i = 1 THEN seqs[i] ELSE g[i - 1] \o seqs[i]])[Len(seqs)]
    BY <1>2, Zenon DEF FlattenSeq
  <2> QED  BY <2>1, <2>2, Zenon
<1> QED  BY <1>1, <1>3

\* What is made of sequences is one itself.
LEMMA FlattenType ==
    ASSUME NEW S, NEW seqs \in Seq(Seq(S))
    PROVE  FlattenSeq(seqs) \in Seq(S)
<1>1. CASE seqs = <<>>
  <2>1. Len(seqs) = 0
    BY <1>1
  <2>2. FlattenSeq(seqs) = seqs
    BY <2>1, Zenon DEF FlattenSeq
  <2>3. seqs \in Seq(S)
    BY <1>1
  <2> QED  BY <2>2, <2>3
<1>2. CASE seqs # <<>>
  <2> DEFINE N == Len(seqs)
  <2>1. PICK f : f = CHOOSE g : FlattenLoop(seqs, g)
    OBVIOUS
  <2>2. FlattenLoop(seqs, f) /\ FlattenSeq(seqs) = f[N]
    BY <1>2, <2>1, FlattenDef
  <2>3. N \in Nat /\ N \in 1..N /\ \A i \in 1..N : seqs[i] \in Seq(S)
    BY <1>2
  <2> HIDE DEF N
  <2>4. \A i \in 1..N : f[i] = IF i = 1 THEN seqs[i] ELSE f[i - 1] \o seqs[i]
    BY <2>2 DEF FlattenLoop, N
  <2> DEFINE U == {i \in Nat : i \in 1..N => f[i] \in Seq(S)}
  <2>5. 0 \in U
    OBVIOUS
  <2>6. ASSUME NEW i \in Nat, i \in U PROVE i + 1 \in U
    <3> SUFFICES ASSUME i + 1 \in 1..N PROVE f[i + 1] \in Seq(S)
      OBVIOUS
    <3>1. f[i + 1] = IF i + 1 = 1 THEN seqs[i + 1] ELSE f[(i + 1) - 1] \o seqs[i + 1]
      BY <2>4
    <3>2. seqs[i + 1] \in Seq(S)
      BY <2>3
    <3>3. CASE i = 0
      BY <3>1, <3>2, <3>3
    <3>4. CASE i # 0
      <4>1. i \in 1..N /\ (i + 1) - 1 = i /\ i + 1 # 1
        BY <2>3, <3>4
      <4>2. f[i] \in Seq(S) /\ f[i + 1] = f[i] \o seqs[i + 1]
        BY <2>6, <3>1, <4>1
      <4> QED  BY <3>2, <4>2, ConcatProperties
    <3> QED  BY <3>3, <3>4
  <2>7. Nat \subseteq U
    <3> HIDE DEF U
    <3> QED  BY <2>5, <2>6, Induction
  <2>8. f[N] \in Seq(S)
    BY <2>3, <2>7
  <2> QED  BY <2>2, <2>8
<1> QED  BY <1>1, <1>2

-----------------------------------------------------------------------------
\* Where a value ends by the grammar is where ValueLength says.
LEMMA EndOfValueIs ==
    ASSUME NEW S, NEW ks \in Seq(S), NEW i \in 1..Len(ks),
           NEW v, v = ValueLength(SubSeq(ks, i, Len(ks)))
    PROVE  /\ EndOfValue(ks, i) = i + v.n - 1 /\ EndOfValue(ks, i) \in i..Len(ks)
           /\ IsValue(ks, i, i + v.n - 1)
           /\ ~Opens(ks[i]) => EndOfValue(ks, i) = i
<1> DEFINE m == i + v.n - 1
<1>1. v.n \in 1..(Len(ks) + 1 - i) /\ v.ok \in BOOLEAN
  BY ValueLengthType
<1>2. m \in i..Len(ks) /\ Len(ks) \in i..Len(ks) /\ i \in i..Len(ks) /\ Len(ks) \in Nat
  BY <1>1
<1>3. \A k \in i..Len(ks) : IsValue(ks, i, k) <=> k = m
  <2>1. CASE ~Opens(ks[i])
    <3>1. v.n = 1
      BY <1>2, <2>1, ValueLengthOfToken
    <3>2. m = i
      BY <3>1
    <3> QED  BY <2>1, <3>2 DEF IsValue
  <2>2. CASE Opens(ks[i])
    <3>1. CASE /\ v.ok = TRUE /\ v.n \in 2..(Len(ks) + 1 - i)
               /\ \A k \in i..Len(ks) : IsClosedBlock(ks, i, k) <=> k = i + v.n - 1
               /\ ~AreValues(ks, i + 1, Len(ks), EndOf(ks[i]))
      BY <2>2, <3>1 DEF IsValue
    <3>2. CASE /\ v.ok = FALSE /\ v.n = Len(ks) + 1 - i
               /\ \A k \in i..Len(ks) : ~IsClosedBlock(ks, i, k)
               /\ AreValues(ks, i + 1, Len(ks), EndOf(ks[i]))
      <4>1. m = Len(ks)
        BY <1>2, <3>2
      <4> HIDE DEF m
      <4> QED  BY <2>2, <3>2, <4>1 DEF IsValue
    <3>3. \/ /\ v.ok = TRUE /\ v.n \in 2..(Len(ks) + 1 - i)
             /\ \A k \in i..Len(ks) : IsClosedBlock(ks, i, k) <=> k = i + v.n - 1
             /\ ~AreValues(ks, i + 1, Len(ks), EndOf(ks[i]))
          \/ /\ v.ok = FALSE /\ v.n = Len(ks) + 1 - i
             /\ \A k \in i..Len(ks) : ~IsClosedBlock(ks, i, k)
             /\ AreValues(ks, i + 1, Len(ks), EndOf(ks[i]))
      BY <2>2, ValueLengthFinds
    <3> HIDE DEF m
    <3> QED  BY <3>1, <3>2, <3>3
  <2> QED  BY <2>1, <2>2
<1> HIDE DEF m
<1>4. EndOfValue(ks, i) = m
  BY <1>2, <1>3 DEF EndOfValue
<1>5. ~Opens(ks[i]) => EndOfValue(ks, i) = i
  BY <1>2, <1>3, <1>4 DEF IsValue
<1> QED  BY <1>2, <1>3, <1>4, <1>5 DEF m
-----------------------------------------------------------------------------
\* A recursion that looks ahead: what f is at i depends on what it is behind i.
LooksAhead(f, n, T, G) ==
    /\ f \in [1..(n + 1) -> T]
    /\ \A i \in 1..(n + 1) : f[i] = G[i][[j \in (i + 1)..(n + 1) |-> f[j]]]

\* Such a function exists.
LEMMA AheadExists ==
    ASSUME NEW n \in Nat, NEW T, NEW G,
           \A i \in 1..(n + 1) : \A h \in [(i + 1)..(n + 1) -> T] : G[i][h] \in T
    PROVE  \E f : LooksAhead(f, n, T, G)
<1> DEFINE D == 1..(n + 1)
           rank == [i \in D |-> n + 1 - i]
<1>1. rank \in [D -> 0..n]
  OBVIOUS
<1>2. \A i \in D : Below(i, D, rank) = (i + 1)..(n + 1)
  BY DEF Below
<1>3. \A i \in D : \A h \in [Below(i, D, rank) -> T] : G[i][h] \in T
  <2> HIDE DEF rank
  <2> QED  BY <1>2
<1>4. PICK f : Recurses(f, D, T, rank, G)
  <2> HIDE DEF D, rank
  <2> QED  BY <1>1, <1>3, RecursiveFunctionExists
<1>5. f \in [D -> T] /\ \A i \in D : f[i] = G[i][[j \in (i + 1)..(n + 1) |-> f[j]]]
  <2> HIDE DEF rank
  <2> QED  BY <1>2, <1>4 DEF Recurses
<1> QED  BY <1>5 DEF LooksAhead

\* FirstValue is a recursion over the positions in a slice.
FirstStep(ks, kinds, i, at) ==
    IF i > Len(ks) \/ ks[i] \in kinds THEN i ELSE at[EndOfValue(ks, i) + 1]

FirstLoop(ks, kinds, at) ==
    at = [i \in 1..(Len(ks) + 1) |-> FirstStep(ks, kinds, i, at)]

LEMMA EndIsBehind ==
    ASSUME NEW S, NEW ks \in Seq(S), NEW i \in 1..Len(ks)
    PROVE  EndOfValue(ks, i) \in i..Len(ks) /\ EndOfValue(ks, i) + 1 \in (i + 1)..(Len(ks) + 1)
<1>1. EndOfValue(ks, i) \in i..Len(ks)
  BY EndOfValueIs
<1> QED  BY <1>1

LEMMA FirstLoopExists ==
    ASSUME NEW S, NEW ks \in Seq(S), NEW kinds
    PROVE  \E at \in [1..(Len(ks) + 1) -> Nat] : FirstLoop(ks, kinds, at)
<1> DEFINE N == Len(ks)
           G == [i \in 1..(N + 1) |-> [h \in [(i + 1)..(N + 1) -> Nat] |->
                                          FirstStep(ks, kinds, i, h)]]
<1>1. N \in Nat
  OBVIOUS
<1>2. ASSUME NEW i \in 1..(N + 1), ~(i > N)
      PROVE  EndOfValue(ks, i) + 1 \in (i + 1)..(N + 1)
  BY <1>2, EndIsBehind
<1>3. ASSUME NEW i \in 1..(N + 1), NEW h \in [(i + 1)..(N + 1) -> Nat]
      PROVE  G[i][h] \in Nat
  <2>1. G[i][h] = FirstStep(ks, kinds, i, h)
    OBVIOUS
  <2> HIDE DEF G
  <2> QED  BY <1>2, <2>1 DEF FirstStep
<1>4. PICK f : LooksAhead(f, N, Nat, G)
  <2> HIDE DEF G, N
  <2> QED  BY <1>1, <1>3, AheadExists
<1>5. ASSUME NEW i \in 1..(N + 1) PROVE f[i] = FirstStep(ks, kinds, i, f)
  <2> DEFINE h == [j \in (i + 1)..(N + 1) |-> f[j]]
  <2>1. f[i] = G[i][h] /\ h \in [(i + 1)..(N + 1) -> Nat]
    <3> HIDE DEF G
    <3> QED  BY <1>4 DEF LooksAhead
  <2>2. G[i][h] = FirstStep(ks, kinds, i, h)
    <3> HIDE DEF h
    <3> QED  BY <2>1
  <2>3. \A j \in (i + 1)..(N + 1) : h[j] = f[j]
    OBVIOUS
  <2> HIDE DEF h, G
  <2> QED  BY <1>2, <2>1, <2>2, <2>3 DEF FirstStep
<1>6. f \in [1..(N + 1) -> Nat]
  BY <1>4 DEF LooksAhead
<1> QED  BY <1>5, <1>6 DEF FirstLoop

LEMMA FirstValueDef ==
    ASSUME NEW S, NEW ks \in Seq(S), NEW kinds, NEW i \in 1..(Len(ks) + 1)
    PROVE  FirstValue(ks, i, kinds) =
              IF i > Len(ks) \/ ks[i] \in kinds THEN i
              ELSE FirstValue(ks, EndOfValue(ks, i) + 1, kinds)
<1> DEFINE f == CHOOSE at : FirstLoop(ks, kinds, at)
<1>1. FirstLoop(ks, kinds, f)
  <2>1. \E at : FirstLoop(ks, kinds, at)
    BY FirstLoopExists
  <2> QED  BY <2>1, Zenon
<1>2. f = CHOOSE at : at = [j \in 1..(Len(ks) + 1) |-> FirstStep(ks, kinds, j, at)]
  BY Zenon DEF FirstLoop
<1>3. \A j : FirstValue(ks, j, kinds) =
           (CHOOSE at : at = [x \in 1..(Len(ks) + 1) |-> FirstStep(ks, kinds, x, at)])[j]
  BY Zenon DEF FirstValue, FirstStep
<1>4. \A j : FirstValue(ks, j, kinds) = f[j]
  BY <1>2, <1>3, Zenon
<1> HIDE DEF f
<1>5. f[i] = FirstStep(ks, kinds, i, f)
  BY <1>1 DEF FirstLoop
<1> QED  BY <1>4, <1>5, Zenon DEF FirstStep

\* It finds a value of one of the kinds, or the end.
LEMMA FirstValueType ==
    ASSUME NEW S, NEW ks \in Seq(S), NEW kinds, NEW i \in 1..(Len(ks) + 1)
    PROVE  /\ FirstValue(ks, i, kinds) \in i..(Len(ks) + 1)
           /\ FirstValue(ks, i, kinds) <= Len(ks) => ks[FirstValue(ks, i, kinds)] \in kinds
<1> DEFINE N == Len(ks)
           D == 1..(N + 1)
           rank == [j \in D |-> N + 1 - j]
           Good(j) == /\ FirstValue(ks, j, kinds) \in j..(N + 1)
                      /\ FirstValue(ks, j, kinds) <= N => ks[FirstValue(ks, j, kinds)] \in kinds
           G == {j \in D : Good(j)}
<1>1. N \in Nat
  OBVIOUS
<1>2. rank \in [D -> Nat]
  BY <1>1
<1>3. ASSUME NEW j \in D, \A l \in D : rank[l] < rank[j] => l \in G
      PROVE  j \in G
  <2>1. CASE j > N \/ ks[j] \in kinds
    <3>1. FirstValue(ks, j, kinds) = j
      BY <2>1, FirstValueDef
    <3> QED  BY <2>1, <3>1
  <2>2. CASE ~(j > N \/ ks[j] \in kinds)
    <3> DEFINE l == EndOfValue(ks, j) + 1
    <3>1. FirstValue(ks, j, kinds) = FirstValue(ks, l, kinds)
      BY <2>2, FirstValueDef
    <3>2. l \in (j + 1)..(N + 1)
      BY <2>2, EndIsBehind
    <3> HIDE DEF l
    <3>3. l \in D /\ rank[l] < rank[j]
      BY <1>1, <3>2
    <3>4. Good(l)
      <4> HIDE DEF D, rank, Good
      <4> QED  BY <1>3, <3>3
    <3> QED  BY <1>1, <3>1, <3>2, <3>4
  <2> QED  BY <2>1, <2>2
<1>4. D \subseteq G
  <2> HIDE DEF D, G, rank
  <2> QED  BY <1>2, <1>3, RankInduction
<1>5. Good(i)
  BY <1>4
<1> QED  BY <1>5

-----------------------------------------------------------------------------
\* A list of positions that follow each other.
LEMMA PositionsType ==
    ASSUME NEW first \in Nat \ {0}, NEW last \in Nat, first <= last + 1
    PROVE  /\ Positions(first, last) \in Seq(Nat)
           /\ Len(Positions(first, last)) = last + 1 - first
           /\ \A i \in 1..(last + 1 - first) : Positions(first, last)[i] = first + i - 1
<1> DEFINE n == last + 1 - first
<1>1. n \in Nat /\ last - first + 1 = n
  OBVIOUS
<1> HIDE DEF n
<1>2. Positions(first, last) = [i \in 1..n |-> first + i - 1]
  BY <1>1 DEF Positions
<1>3. \A i \in 1..n : first + i - 1 \in Nat
  OBVIOUS
<1>4. Positions(first, last) \in [1..n -> Nat]
  BY <1>2, <1>3
<1>5. Positions(first, last) \in Seq(Nat) /\ Len(Positions(first, last)) = n
  BY <1>1, <1>4
<1> QED  BY <1>2, <1>5 DEF n

LEMMA NoPositions ==
    ASSUME NEW first \in Nat \ {0}
    PROVE  Positions(first, first - 1) = <<>>
<1>1. first - 1 \in Nat /\ first <= (first - 1) + 1 /\ (first - 1) + 1 - first = 0
  OBVIOUS
<1>2. Positions(first, first - 1) \in Seq(Nat) /\ Len(Positions(first, first - 1)) = 0
  BY <1>1, PositionsType
<1> QED  BY <1>2

LEMMA SomePositions ==
    ASSUME NEW S, NEW ks \in Seq(S), NEW first \in 1..Len(ks), NEW last \in first..Len(ks)
    PROVE  Positions(first, last) # <<>>
<1>1. first \in Nat \ {0} /\ last \in Nat /\ first <= last + 1 /\ last + 1 - first # 0
  OBVIOUS
<1>2. Positions(first, last) \in Seq(Nat) /\ Len(Positions(first, last)) # 0
  BY <1>1, PositionsType
<1> QED  BY <1>2

\* The next position.
LEMMA PositionsGrow ==
    ASSUME NEW first \in Nat \ {0}, NEW last \in Nat, first <= last + 1
    PROVE  Append(Positions(first, last), last + 1) = Positions(first, last + 1)
<1> DEFINE s == Positions(first, last)
           t == Positions(first, last + 1)
           n == last + 1 - first
<1>1. n \in Nat /\ (last + 1) + 1 - first = n + 1 /\ first <= (last + 1) + 1
      /\ first + (n + 1) - 1 = last + 1 /\ last + 1 \in Nat
  OBVIOUS
<1>2. s \in Seq(Nat) /\ Len(s) = n /\ \A i \in 1..n : s[i] = first + i - 1
  BY PositionsType
<1>3. t \in Seq(Nat) /\ Len(t) = n + 1 /\ \A i \in 1..(n + 1) : t[i] = first + i - 1
  <2> HIDE DEF n, t
  <2>1. /\ Positions(first, last + 1) \in Seq(Nat)
        /\ Len(Positions(first, last + 1)) = (last + 1) + 1 - first
        /\ \A i \in 1..((last + 1) + 1 - first) : Positions(first, last + 1)[i] = first + i - 1
    BY <1>1, PositionsType
  <2> QED  BY <1>1, <2>1 DEF t
<1> HIDE DEF s, t, n
<1>4. /\ Append(s, last + 1) \in Seq(Nat) /\ Len(Append(s, last + 1)) = n + 1
      /\ \A i \in 1..n : Append(s, last + 1)[i] = s[i]
      /\ Append(s, last + 1)[n + 1] = last + 1
  BY <1>1, <1>2, AppendProperties
<1>5. \A i \in 1..(n + 1) : Append(s, last + 1)[i] = t[i]
  <2>1. \A i \in 1..(n + 1) : i \in 1..n \/ i = n + 1
    BY <1>1
  <2>2. t[n + 1] = last + 1
    BY <1>1, <1>3
  <2>3. \A i \in 1..n : s[i] = t[i]
    BY <1>1, <1>2, <1>3
  <2> QED  BY <1>4, <2>1, <2>2, <2>3
<1>6. Append(s, last + 1) = t
  BY <1>1, <1>3, <1>4, <1>5, SeqEqual
<1> QED  BY <1>6 DEF s, t

-----------------------------------------------------------------------------
\* A block that is opened at v and has been read up to p: the stack of ValueLength, in any
\* slice that begins at v and is not shorter, is the parser's.
OpenAt(ks, v, p, stack) ==
    \A n \in p..Len(ks) :
        ValueLength(SubSeq(ks, v, n)) = StackLoop(SubSeq(ks, v, n))[<<p + 2 - v, stack>>]

LEMMA OpenBegins ==
    ASSUME NEW S, NEW ks \in Seq(S), NEW v \in 1..Len(ks), Opens(ks[v])
    PROVE  OpenAt(ks, v, v, <<EndOf(ks[v])>>)
<1> SUFFICES ASSUME NEW n \in v..Len(ks)
             PROVE  ValueLength(SubSeq(ks, v, n))
                        = StackLoop(SubSeq(ks, v, n))[<<v + 2 - v, <<EndOf(ks[v])>>>>]
  BY DEF OpenAt
<1> DEFINE slice == SubSeq(ks, v, n)
<1>1. slice \in Seq(S) /\ slice # <<>> /\ slice[1] = ks[v]
  BY SliceFrom
<1>2. v + 2 - v = 2
  OBVIOUS
<1> HIDE DEF slice
<1>3. ValueLength(slice) = StackLoop(slice)[<<2, <<EndOf(slice[1])>>>>]
  BY <1>1, LoopDef
<1> QED  BY <1>1, <1>2, <1>3 DEF slice

LEMMA OpenGoesOn ==
    ASSUME NEW S, NEW ks \in Seq(S), NEW v \in 1..Len(ks), NEW p \in v..Len(ks), p < Len(ks),
           NEW stack \in Stacks, stack # <<>>, OpenAt(ks, v, p, stack)
    PROVE  OpenAt(ks, v, p + 1, Nest(stack, ks[p + 1]))
<1> SUFFICES ASSUME NEW n \in (p + 1)..Len(ks)
             PROVE  ValueLength(SubSeq(ks, v, n))
                        = StackLoop(SubSeq(ks, v, n))[<<(p + 1) + 2 - v, Nest(stack, ks[p + 1])>>]
  BY DEF OpenAt
<1> DEFINE slice == SubSeq(ks, v, n)
           i == p + 2 - v
<1>1. n \in v..Len(ks) /\ n \in p..Len(ks) /\ i \in Nat /\ i \in 1..(n + 1 - v)
      /\ v + i - 1 = p + 1 /\ (p + 1) + 2 - v = i + 1
  OBVIOUS
<1>2. slice \in Seq(S) /\ Len(slice) = n + 1 - v
      /\ \A j \in 1..(n + 1 - v) : slice[j] = ks[v + j - 1]
  BY <1>1, SliceFrom
<1>3. ValueLength(slice) = StackLoop(slice)[<<i, stack>>]
  BY <1>1 DEF OpenAt
<1> HIDE DEF slice, i
<1>4. slice[i] = ks[p + 1] /\ ~(i > Len(slice))
  BY <1>1, <1>2
<1>5. StackLoop(slice)[<<i, stack>>] = LoopStep(slice, i, stack, StackLoop(slice))
  BY <1>1, <1>2, LoopPass
<1>6. LoopStep(slice, i, stack, StackLoop(slice))
         = StackLoop(slice)[<<i + 1, Nest(stack, slice[i])>>]
  BY <1>4, Zenon DEF LoopStep
<1>7. ValueLength(slice) = StackLoop(slice)[<<i + 1, Nest(stack, ks[p + 1])>>]
  BY <1>3, <1>4, <1>5, <1>6, Zenon
<1> QED  BY <1>1, <1>7 DEF slice

\* It is closed, or the input ends.
LEMMA OpenStops ==
    ASSUME NEW S, NEW ks \in Seq(S), NEW v \in 1..Len(ks), NEW p \in v..Len(ks),
           NEW stack \in Stacks, OpenAt(ks, v, p, stack), NEW n \in p..Len(ks),
           stack = <<>> \/ n = p
    PROVE  ValueLength(SubSeq(ks, v, n)) = [n |-> p + 1 - v, ok |-> stack = <<>>]
<1> DEFINE slice == SubSeq(ks, v, n)
           i == p + 2 - v
<1>1. n \in v..Len(ks) /\ i \in Nat /\ i - 1 = p + 1 - v /\ (n = p => i > n + 1 - v)
  OBVIOUS
<1>2. slice \in Seq(S) /\ Len(slice) = n + 1 - v
  BY <1>1, SliceFrom
<1>3. ValueLength(slice) = StackLoop(slice)[<<i, stack>>]
  BY DEF OpenAt
<1> HIDE DEF slice, i
<1>4. StackLoop(slice)[<<i, stack>>] = LoopStep(slice, i, stack, StackLoop(slice))
  BY <1>1, <1>2, LoopPass
<1>5. stack = <<>> \/ i > Len(slice)
  BY <1>1, <1>2
<1>6. LoopStep(slice, i, stack, StackLoop(slice)) = [n |-> i - 1, ok |-> stack = <<>>]
  BY <1>5, Zenon DEF LoopStep
<1> QED  BY <1>1, <1>3, <1>4, <1>6 DEF slice

\* Then the grammar ends the block where the parser does.
LEMMA EndFound ==
    ASSUME NEW S, NEW ks \in Seq(S), NEW v \in 1..Len(ks), NEW p \in v..Len(ks),
           ValueLength(SubSeq(ks, v, Len(ks))).n = p + 1 - v
    PROVE  EndOfValue(ks, v) = p
<1>1. EndOfValue(ks, v) = v + (p + 1 - v) - 1
  BY EndOfValueIs
<1> QED  BY <1>1
=============================================================================
