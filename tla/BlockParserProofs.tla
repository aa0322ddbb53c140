-------------------------- MODULE BlockParserProofs --------------------------
(***************************************************************************)
(* What blockPart makes of the contents of a block: proofs about           *)
(* BlockParser.                                                            *)
(***************************************************************************)
EXTENDS BlockParser, Lemmas

-----------------------------------------------------------------------------
\* Rules and declarations, by all of their fields.
ItemType ==
    [type : {"none", "rule", "declaration"}, name : Nat, prelude : Seq(Nat), block : Seq(Nat),
     value : Seq(Nat), important : BOOLEAN]

Made(type, name, prelude, block, value, important) ==
    [type |-> type, name |-> name, prelude |-> prelude, block |-> block, value |-> value,
     important |-> important]

LEMMA MadeType ==
    ASSUME NEW type \in {"none", "rule", "declaration"}, NEW name \in Nat,
           NEW p \in Seq(Nat), NEW b \in Seq(Nat), NEW v \in Seq(Nat), NEW important \in BOOLEAN
    PROVE  Made(type, name, p, b, v, important) \in ItemType
BY DEF Made, ItemType

LEMMA ItemFields ==
    ASSUME NEW it \in ItemType
    PROVE  /\ it.type \in {"none", "rule", "declaration"} /\ it.name \in Nat
           /\ it.prelude \in Seq(Nat) /\ it.block \in Seq(Nat) /\ it.value \in Seq(Nat)
           /\ it.important \in BOOLEAN
           /\ it = Made(it.type, it.name, it.prelude, it.block, it.value, it.important)
BY DEF Made, ItemType

LEMMA ItemEqual ==
    ASSUME NEW x \in ItemType, NEW y \in ItemType, x.type = y.type, x.name = y.name,
           x.prelude = y.prelude, x.block = y.block, x.value = y.value, x.important = y.important
    PROVE  x = y
BY DEF ItemType

\* One field replaced.
LEMMA ItemExcept ==
    ASSUME NEW it \in ItemType, NEW s \in Seq(Nat)
    PROVE  LET made(x, y, z) == Made(it.type, it.name, x, y, z, it.important)
           IN /\ [it EXCEPT !["prelude"] = s] = made(s, it.block, it.value)
              /\ [it EXCEPT !["block"] = s] = made(it.prelude, s, it.value)
              /\ [it EXCEPT !["value"] = s] = made(it.prelude, it.block, s)
<1> DEFINE made(x, y, z) == Made(it.type, it.name, x, y, z, it.important)
<1>1. /\ made(s, it.block, it.value) \in ItemType /\ made(it.prelude, s, it.value) \in ItemType
      /\ made(it.prelude, it.block, s) \in ItemType
  BY ItemFields, MadeType
<1>2. [it EXCEPT !["prelude"] = s] = made(s, it.block, it.value)
  <2> DEFINE w == [it EXCEPT !["prelude"] = s]
             m == made(s, it.block, it.value)
  <2>1. /\ w \in ItemType /\ w.type = it.type /\ w.name = it.name /\ w.prelude = s
        /\ w.block = it.block /\ w.value = it.value /\ w.important = it.important
    BY DEF ItemType
  <2>2. /\ m.type = it.type /\ m.name = it.name /\ m.prelude = s
        /\ m.block = it.block /\ m.value = it.value /\ m.important = it.important
    BY DEF Made
  <2>3. m \in ItemType
    BY <1>1
  <2> HIDE DEF w, m
  <2>4. w = m
    BY <2>1, <2>2, <2>3, ItemEqual
  <2> QED  BY <2>4 DEF w, m
<1>3. [it EXCEPT !["block"] = s] = made(it.prelude, s, it.value)
  <2> DEFINE w == [it EXCEPT !["block"] = s]
             m == made(it.prelude, s, it.value)
  <2>1. /\ w \in ItemType /\ w.type = it.type /\ w.name = it.name /\ w.prelude = it.prelude
        /\ w.block = s /\ w.value = it.value /\ w.important = it.important
    BY DEF ItemType
  <2>2. /\ m.type = it.type /\ m.name = it.name /\ m.prelude = it.prelude
        /\ m.block = s /\ m.value = it.value /\ m.important = it.important
    BY DEF Made
  <2>3. m \in ItemType
    BY <1>1
  <2> HIDE DEF w, m
  <2>4. w = m
    BY <2>1, <2>2, <2>3, ItemEqual
  <2> QED  BY <2>4 DEF w, m
<1>4. [it EXCEPT !["value"] = s] = made(it.prelude, it.block, s)
  <2> DEFINE w == [it EXCEPT !["value"] = s]
             m == made(it.prelude, it.block, s)
  <2>1. /\ w \in ItemType /\ w.type = it.type /\ w.name = it.name /\ w.prelude = it.prelude
        /\ w.block = it.block /\ w.value = s /\ w.important = it.important
    BY DEF ItemType
  <2>2. /\ m.type = it.type /\ m.name = it.name /\ m.prelude = it.prelude
        /\ m.block = it.block /\ m.value = s /\ m.important = it.important
    BY DEF Made
  <2>3. m \in ItemType
    BY <1>1
  <2> HIDE DEF w, m
  <2>4. w = m
    BY <2>1, <2>2, <2>3, ItemEqual
  <2> QED  BY <2>4 DEF w, m
<1> QED  BY <1>2, <1>3, <1>4

LEMMA NothingIsAList == <<>> \in Seq(Nat)
  OBVIOUS

LEMMA ItemIs ==
    ASSUME NEW type \in {"none", "rule", "declaration"}, NEW name \in Nat
    PROVE  /\ Item(type, name) = Made(type, name, <<>>, <<>>, <<>>, FALSE)
           /\ Item(type, name) \in ItemType /\ Item(type, name).name = name
           /\ Item(type, name).type = type
<1>1. Item(type, name) = Made(type, name, <<>>, <<>>, <<>>, FALSE)
  BY DEF Item, Made
<1>2. Item(type, name) \in ItemType
  BY <1>1, MadeType, NothingIsAList
<1> QED  BY <1>1, <1>2 DEF Made

LEMMA NoItemIs == NoItem \in ItemType /\ NoItem.name = 0 /\ NoItem.type = "none"
<1>1. 0 \in Nat
  OBVIOUS
<1> QED  BY <1>1, ItemIs DEF NoItem

LEMMA KeptIs ==
    ASSUME item \in ItemType, here \in Nat
    PROVE  LET p == item.prelude
               b == item.block
               v == item.value
               made(x, y, z) == Made(item.type, item.name, x, y, z, item.important)
           IN /\ field = "prelude" => Kept = made(Append(p, here), b, v)
              /\ field = "block" => Kept = made(p, Append(b, here), v)
              /\ field = "value" => Kept = made(p, b, Append(v, here))
              /\ field \in {"prelude", "block", "value"} =>
                    Kept \in ItemType /\ Kept.name = item.name /\ Kept.type = item.type
<1> DEFINE p == item.prelude
           b == item.block
           v == item.value
           made(x, y, z) == Made(item.type, item.name, x, y, z, item.important)
<1>1. Append(p, here) \in Seq(Nat) /\ Append(b, here) \in Seq(Nat) /\ Append(v, here) \in Seq(Nat)
  BY ItemFields, AppendProperties
<1>2. ASSUME field = "prelude" PROVE Kept = made(Append(p, here), b, v)
  <2>1. \A s \in Seq(Nat) : [item EXCEPT !["prelude"] = s] = made(s, b, v)
    BY ItemExcept
  <2>2. Kept = [item EXCEPT !["prelude"] = Append(p, here)]
    BY <1>2 DEF Kept, ItemType
  <2> QED  BY <1>1, <2>1, <2>2
<1>3. ASSUME field = "block" PROVE Kept = made(p, Append(b, here), v)
  <2>1. \A s \in Seq(Nat) : [item EXCEPT !["block"] = s] = made(p, s, v)
    BY ItemExcept
  <2>2. Kept = [item EXCEPT !["block"] = Append(b, here)]
    BY <1>3 DEF Kept, ItemType
  <2> QED  BY <1>1, <2>1, <2>2
<1>4. ASSUME field = "value" PROVE Kept = made(p, b, Append(v, here))
  <2>1. \A s \in Seq(Nat) : [item EXCEPT !["value"] = s] = made(p, b, s)
    BY ItemExcept
  <2>2. Kept = [item EXCEPT !["value"] = Append(v, here)]
    BY <1>4 DEF Kept, ItemType
  <2> QED  BY <1>1, <2>1, <2>2
<1>5. \A x, y, z : made(x, y, z).name = item.name /\ made(x, y, z).type = item.type
  BY DEF Made
<1>6. \A x, y, z \in Seq(Nat) : made(x, y, z) \in ItemType
  BY ItemFields, MadeType
<1>7. p \in Seq(Nat) /\ b \in Seq(Nat) /\ v \in Seq(Nat)
  BY ItemFields
<1>8. field \in {"prelude", "block", "value"} =>
         \E x, y, z \in Seq(Nat) : Kept = made(x, y, z)
  <2> HIDE DEF made, p, b, v
  <2> QED  BY <1>1, <1>2, <1>3, <1>4, <1>7
<1> HIDE DEF made, p, b, v
<1>9. field \in {"prelude", "block", "value"} =>
         Kept \in ItemType /\ Kept.name = item.name /\ Kept.type = item.type
  BY <1>5, <1>6, <1>8
<1> QED  BY <1>2, <1>3, <1>4, <1>9 DEF made, p, b, v

-----------------------------------------------------------------------------
\* The types.
TypeInv ==
    /\ tokens \in Seq(Kinds)
    /\ pos \in 0..Len(tokens)
    /\ marks \in Seq(Nat)
    /\ fn \in {"blockPart", "atRule", "qualifiedRule", "declaration", "done"}
    /\ trial \in BOOLEAN
    /\ ends \in Stacks
    /\ item \in ItemType /\ item.name <= Len(tokens)
    /\ field \in {"prelude", "block", "value"}
    /\ parts \in Seq(ItemType)

\* The token at hand.
LEMMA KindIs ==
    ASSUME tokens \in Seq(Kinds), pos \in 0..Len(tokens)
    PROVE  /\ Len(tokens) \in Nat /\ pos \in Nat /\ here = pos + 1 /\ here - 1 = pos
           /\ here \in 1..(Len(tokens) + 1) /\ here \in Nat /\ here \in Nat \ {0}
           /\ Kind = "EOF" <=> here = Len(tokens) + 1
           /\ Kind # "EOF" => /\ here \in 1..Len(tokens) /\ Kind = tokens[here] /\ Kind \in Kinds
                              /\ here + 1 \in 1..(Len(tokens) + 1) /\ here \in 0..Len(tokens)
<1>1. Len(tokens) \in Nat /\ pos \in Nat /\ here = pos + 1 /\ here - 1 = pos
      /\ here \in 1..(Len(tokens) + 1) /\ here \in Nat /\ here \in Nat \ {0}
  BY DEF here
<1>2. CASE here = Len(tokens) + 1
  <2>1. ~(here <= Len(tokens))
    BY <1>1, <1>2
  <2>2. Kind = "EOF"
    BY <2>1 DEF Kind, KindAt, EOF
  <2> QED  BY <1>1, <1>2, <2>2
<1>3. CASE here # Len(tokens) + 1
  <2>1. here <= Len(tokens) /\ here \in 1..Len(tokens) /\ here + 1 \in 1..(Len(tokens) + 1)
        /\ here \in 0..Len(tokens)
    BY <1>1, <1>3
  <2>2. Kind = tokens[here]
    BY <2>1 DEF Kind, KindAt
  <2>3. tokens[here] \in Kinds
    BY <2>1
  <2>4. "EOF" \notin Kinds
    BY DEF Kinds, Names
  <2> QED  BY <1>1, <1>3, <2>1, <2>2, <2>3, <2>4
<1> QED  BY <1>2, <1>3

\* whitespace stops at the first token that is no white space, or behind the last.
LEMMA WhitespaceStops ==
    ASSUME tokens \in Seq(Kinds), NEW p \in 1..(Len(tokens) + 1)
    PROVE  /\ whitespace(p) \in p..(Len(tokens) + 1)
           /\ whitespace(p) <= Len(tokens) => tokens[whitespace(p)] # "ws"
           /\ \A r \in p..(whitespace(p) - 1) : r \in 1..Len(tokens) /\ tokens[r] = "ws"
<1> DEFINE N == Len(tokens)
           Stops == {x \in p..(N + 1) : KindAt(x) # "ws"}
           P(x) == KindAt(x) # "ws" /\ \A r \in p..(x - 1) : KindAt(r) = "ws"
<1>1. N \in Nat /\ N + 1 \in p..(N + 1) /\ p \in Nat \ {0}
  OBVIOUS
<1>2. KindAt(N + 1) = "EOF" /\ \A x \in 1..N : KindAt(x) = tokens[x]
  BY <1>1 DEF KindAt, EOF
<1>3. N + 1 \in Stops /\ Stops \subseteq Nat
  BY <1>1, <1>2
<1>4. PICK x \in Stops : \A y \in Stops : x <= y
  <2> HIDE DEF Stops
  <2> QED  BY <1>3, LeastExists
<1>5. x \in p..(N + 1) /\ P(x)
  <2>1. \A r \in p..(x - 1) : r \in p..(N + 1) /\ ~(x <= r)
    BY <1>1
  <2> QED  BY <1>4, <2>1
<1> DEFINE q == whitespace(p)
<1>6. q = CHOOSE y \in p..(N + 1) : P(y)
  BY DEF whitespace
<1>7. q \in p..(N + 1) /\ P(q)
  <2> HIDE DEF P, N, q
  <2> QED  BY <1>5, <1>6
<1>8. \A r \in p..(q - 1) : r \in 1..N
  <2> HIDE DEF q
  <2> QED  BY <1>1, <1>7
<1>9. q <= N => q \in 1..N
  <2> HIDE DEF q
  <2> QED  BY <1>1, <1>7
<1> HIDE DEF q, N
<1>10. q <= N => tokens[q] # "ws"
  BY <1>2, <1>7, <1>9
<1>11. \A r \in p..(q - 1) : tokens[r] = "ws"
  BY <1>2, <1>7, <1>8
<1> QED  BY <1>7, <1>8, <1>10, <1>11 DEF q, N

\* A name with a colon behind it, and what follows the colon.
LEMMA DeclarationStarts ==
    ASSUME tokens \in Seq(Kinds), NEW i \in 1..Len(tokens), LooksLikeDeclaration(i)
    PROVE  LET colon == whitespace(i + 1)
               start == whitespace(colon + 1)
           IN /\ colon \in (i + 1)..Len(tokens) /\ colon + 1 \in 1..(Len(tokens) + 1)
              /\ tokens[colon] = ":"
              /\ start \in (colon + 1)..(Len(tokens) + 1) /\ start - 1 \in i..Len(tokens)
              /\ start \in Nat \ {0}
<1> DEFINE colon == whitespace(i + 1)
           start == whitespace(colon + 1)
<1>1. Len(tokens) \in Nat /\ i + 1 \in 1..(Len(tokens) + 1)
  OBVIOUS
<1>2. colon \in (i + 1)..(Len(tokens) + 1)
  BY <1>1, WhitespaceStops
<1>3. KindAt(colon) = ":"
  BY DEF LooksLikeDeclaration
<1> HIDE DEF colon
<1>4. colon <= Len(tokens) /\ tokens[colon] = ":"
  BY <1>3 DEF KindAt, EOF
<1>5. colon \in (i + 1)..Len(tokens) /\ colon + 1 \in 1..(Len(tokens) + 1)
  BY <1>1, <1>2, <1>4
<1>6. start \in (colon + 1)..(Len(tokens) + 1)
  BY <1>5, WhitespaceStops
<1> HIDE DEF start
<1>7. start - 1 \in i..Len(tokens) /\ start \in Nat \ {0}
  BY <1>1, <1>5, <1>6
<1> QED  BY <1>4, <1>5, <1>6, <1>7 DEF colon, start

LEMMA StartsHere ==
    ASSUME tokens \in Seq(Kinds), pos \in 0..Len(tokens), Kind # "EOF"
    PROVE  StartsDeclaration <=> LooksLikeDeclaration(here)
BY KindIs DEF StartsDeclaration, LooksLikeDeclaration

\* Where declaration reads on behind the name, the colon and the white space.
LEMMA BehindColon ==
    ASSUME tokens \in Seq(Kinds), pos \in 0..Len(tokens), StartsDeclaration
    PROVE  /\ Kind # "EOF" /\ LooksLikeDeclaration(here)
           /\ AfterColon \in 0..Len(tokens) /\ here <= AfterColon
<1>1. Kind # "EOF"
  BY DEF StartsDeclaration, Names
<1>2. here \in 1..Len(tokens) /\ LooksLikeDeclaration(here) /\ Len(tokens) \in Nat
  BY <1>1, KindIs, StartsHere
<1> DEFINE a == whitespace(whitespace(here + 1) + 1) - 1
<1>3. a \in here..Len(tokens)
  BY <1>2, DeclarationStarts
<1>4. AfterColon = a
  BY DEF AfterColon
<1> HIDE DEF a
<1> QED  BY <1>1, <1>2, <1>3, <1>4

\* The value without the white space at its end, and the declaration that has it.
LEMMA TrimmedIs ==
    ASSUME NEW v \in Seq(Nat)
    PROVE  \E m \in 0..Len(v) :
               /\ Trimmed(v) = SubSeq(v, 1, m) /\ Trimmed(v) \in Seq(Nat) /\ Len(Trimmed(v)) = m
               /\ \A j \in (m + 1)..Len(v) : tokens[v[j]] = "ws"
               /\ m # 0 => tokens[v[m]] # "ws"
<1> DEFINE N == Len(v)
           E == {i \in 0..N : \A j \in (i + 1)..N : tokens[v[j]] = "ws"}
<1>1. N \in Nat /\ N \in E /\ E \in SUBSET Nat /\ E # {}
  <2>1. N \in Nat /\ N \in 0..N /\ \A j : j \notin (N + 1)..N
    OBVIOUS
  <2>2. N \in E
    BY <2>1
  <2>3. E \subseteq Nat
    OBVIOUS
  <2> HIDE DEF E
  <2> QED  BY <2>1, <2>2, <2>3
<1>2. PICK x \in E : \A y \in E : x <= y
  <2> HIDE DEF E
  <2> QED  BY <1>1, LeastExists
<1>3. x \in 0..N /\ \A j \in (x + 1)..N : tokens[v[j]] = "ws"
  OBVIOUS
<1>4. ASSUME x # 0 PROVE tokens[v[x]] # "ws"
  <2> SUFFICES ASSUME tokens[v[x]] = "ws" PROVE FALSE
    OBVIOUS
  <2>1. x - 1 \in 0..N /\ \A j \in ((x - 1) + 1)..N : j = x \/ j \in (x + 1)..N
    BY <1>1, <1>3, <1>4
  <2>2. x - 1 \in E
    BY <1>3, <2>1
  <2>3. ~(x <= x - 1)
    BY <1>3
  <2> HIDE DEF E
  <2> QED  BY <1>2, <2>2, <2>3
<1>5. Min(E) = x
  <2> HIDE DEF E
  <2>1. \A y \in E : y \in Nat
    BY <1>1
  <2>2. \A y \in E : (\A z \in E : y <= z) => y = x
    BY <1>2, <2>1
  <2> QED  BY <1>2, <2>2 DEF Min
<1>6. Trimmed(v) = SubSeq(v, 1, x)
  BY <1>5, Zenon DEF Trimmed
<1>7. SubSeq(v, 1, x) \in Seq(Nat) /\ Len(SubSeq(v, 1, x)) = x
  <2> HIDE DEF E
  <2>1. 1 \in 1..(N + 1) /\ x \in (1 - 1)..N /\ x - 1 + 1 = x
    BY <1>1, <1>3
  <2> QED  BY <2>1, SubSeqProperties
<1> HIDE DEF E
<1> QED  BY <1>3, <1>4, <1>6, <1>7

\* Without the flag, and trimmed again.
Unflagged(v) == Trimmed(SubSeq(v, 1, Len(v) - 2))

LEMMA FinishedIs ==
    ASSUME item \in ItemType
    PROVE  LET v == Trimmed(item.value)
               finished(x, important) ==
                   Made(item.type, item.name, item.prelude, item.block, x, important)
           IN /\ IsImportant(v) => Unflagged(v) \in Seq(Nat) /\ Finished = finished(Unflagged(v), TRUE)
              /\ ~IsImportant(v) => Finished = finished(v, item.important)
              /\ Finished \in ItemType /\ Finished.name = item.name
<1> DEFINE v == Trimmed(item.value)
           finished(x, important) ==
               Made(item.type, item.name, item.prelude, item.block, x, important)
<1>1. v \in Seq(Nat)
  BY ItemFields, TrimmedIs
<1>2. \A x \in Seq(Nat), important \in BOOLEAN :
         finished(x, important) \in ItemType /\ finished(x, important).name = item.name
  <2>1. \A x, important : finished(x, important).name = item.name
    BY DEF Made
  <2> QED  BY <2>1, ItemFields, MadeType
<1>3. ASSUME IsImportant(v) PROVE Unflagged(v) \in Seq(Nat)
  <2>1. Len(v) \in Nat /\ Len(v) >= 2
    BY <1>1, <1>3 DEF IsImportant
  <2> DEFINE m == Len(v) - 2
  <2>2. 1 \in 1..(Len(v) + 1) /\ m \in (1 - 1)..Len(v)
    BY <2>1
  <2>3. SubSeq(v, 1, m) \in Seq(Nat)
    BY <1>1, <2>2, SubSeqProperties
  <2> HIDE DEF v
  <2> QED  BY <2>3, TrimmedIs DEF Unflagged
<1>4. ASSUME NEW x \in Seq(Nat)
      PROVE  /\ [item EXCEPT !.value = x, !.important = TRUE] = finished(x, TRUE)
             /\ [item EXCEPT !.value = x] = finished(x, item.important)
  <2> DEFINE a == [item EXCEPT !.value = x, !.important = TRUE]
             b == [item EXCEPT !.value = x]
             c == finished(x, TRUE)
             d == finished(x, item.important)
  <2>1. /\ a \in ItemType /\ a.type = item.type /\ a.name = item.name /\ a.prelude = item.prelude
        /\ a.block = item.block /\ a.value = x /\ a.important = TRUE
    BY DEF ItemType
  <2>2. /\ b \in ItemType /\ b.type = item.type /\ b.name = item.name /\ b.prelude = item.prelude
        /\ b.block = item.block /\ b.value = x /\ b.important = item.important
    BY DEF ItemType
  <2>3. c \in ItemType /\ d \in ItemType
    BY <1>2, ItemFields
  <2>4. /\ c.type = item.type /\ c.name = item.name /\ c.prelude = item.prelude
        /\ c.block = item.block /\ c.value = x /\ c.important = TRUE
        /\ d.type = item.type /\ d.name = item.name /\ d.prelude = item.prelude
        /\ d.block = item.block /\ d.value = x /\ d.important = item.important
    BY DEF Made
  <2> HIDE DEF a, b, c, d
  <2>5. a = c
    BY <2>1, <2>3, <2>4, ItemEqual
  <2>6. b = d
    BY <2>2, <2>3, <2>4, ItemEqual
  <2> QED  BY <2>5, <2>6 DEF a, b, c, d
<1>5. IsImportant(v) => Finished = finished(Unflagged(v), TRUE)
  <2>1. IsImportant(v) => Finished = [item EXCEPT !.value = Unflagged(v), !.important = TRUE]
    BY Zenon DEF Finished, Unflagged
  <2> HIDE DEF v, finished
  <2> QED  BY <1>3, <1>4, <2>1
<1>6. ~IsImportant(v) => Finished = finished(v, item.important)
  <2>1. ~IsImportant(v) => Finished = [item EXCEPT !.value = v]
    BY Zenon DEF Finished
  <2> HIDE DEF v, finished
  <2> QED  BY <1>1, <1>4, <2>1
<1>7. Finished \in ItemType /\ Finished.name = item.name
  <2>1. item.important \in BOOLEAN
    BY ItemFields
  <2> HIDE DEF v, finished
  <2> QED  BY <1>1, <1>2, <1>3, <1>5, <1>6, <2>1
<1> QED  BY <1>3, <1>5, <1>6, <1>7

\* A part is returned.
LEMMA Returns ==
    ASSUME TypeInv, NEW part \in ItemType, Return(part)
    PROVE  /\ parts' = Append(parts, part) /\ parts' \in Seq(ItemType)
           /\ fn' = "blockPart" /\ item' = NoItem /\ item' \in ItemType /\ item'.name = 0
<1>1. Append(parts, part) \in Seq(ItemType)
  BY AppendProperties DEF TypeInv
<1> QED  BY <1>1, NoItemIs DEF Return

LEMMA EndsOpen ==
    ASSUME ends \in Stacks
    PROVE  /\ Opens(Kind) => /\ <<EndOf(Kind)>> \in Stacks /\ <<EndOf(Kind)>> # <<>>
                             /\ Append(ends, EndOf(Kind)) \in Stacks
                             /\ Append(ends, EndOf(Kind)) # <<>>
           /\ <<>> \in Stacks /\ <<EndOf("{")>> \in Stacks
           /\ ends # <<>> => /\ Front(ends) \in Stacks /\ Last(ends) \in Closers
                             /\ Len(ends) = 1 <=> Front(ends) = <<>>
<1>1. \A end \in Closers : <<end>> \in Stacks
  BY DEF Stacks
<1>2. Opens(Kind) => EndOf(Kind) \in Closers
  BY EndsAreClosers
<1>3. EndOf("{") \in Closers
  BY EndsAreClosers DEF Opens
<1>4. Opens(Kind) => Append(ends, EndOf(Kind)) \in Stacks /\ Append(ends, EndOf(Kind)) # <<>>
  BY <1>2, StackPushed
<1>5. ASSUME ends # <<>>
      PROVE  /\ Front(ends) \in Stacks /\ Last(ends) \in Closers
             /\ Len(ends) = 1 <=> Front(ends) = <<>>
  <2>1. ends \in Seq(Closers)
    BY DEF Stacks
  <2>2. Len(ends) \in Nat \ {0}
    BY <1>5, <2>1
  <2>3. 1 \in 1..(Len(ends) + 1) /\ Len(ends) - 1 \in (1 - 1)..Len(ends)
        /\ (Len(ends) - 1) - 1 + 1 = Len(ends) - 1
    BY <2>2
  <2>4. Front(ends) \in Seq(Closers) /\ Len(Front(ends)) = Len(ends) - 1
    BY <2>1, <2>3, SubSeqProperties DEF Front
  <2>5. Len(Front(ends)) = 0 <=> Front(ends) = <<>>
    BY <2>4
  <2>6. Len(ends) = 1 <=> Len(Front(ends)) = 0
    BY <2>2, <2>4
  <2> QED  BY <1>5, <2>5, <2>6, StackTop
<1>6. <<>> \in Stacks
  BY DEF Stacks
<1> QED  BY <1>1, <1>2, <1>3, <1>4, <1>5, <1>6, Zenon

-----------------------------------------------------------------------------
LEMMA TypeInit == Init => TypeInv
<1> SUFFICES ASSUME Init PROVE TypeInv
  OBVIOUS
<1>1. tokens \in Seq(Kinds) /\ Len(tokens) \in Nat
  BY ContentsAssumption DEF Init
<1>2. item \in ItemType /\ item.name = 0
  BY NoItemIs DEF Init
<1>3. <<>> \in Stacks /\ <<>> \in Seq(Nat) /\ <<>> \in Seq(ItemType)
  BY DEF Stacks
<1>4. pos = 0 /\ marks = <<>> /\ parts = <<>> /\ ends = <<>> /\ fn = "blockPart"
      /\ field = "prelude" /\ trial \in BOOLEAN
  BY DEF Init
<1>5. item.name <= Len(tokens) /\ pos \in 0..Len(tokens)
  BY <1>1, <1>2, <1>4
<1> QED  BY <1>1, <1>2, <1>3, <1>4, <1>5 DEF TypeInv

\* The marks that are left are in order, and the last of a declaration leads to its name.
MarkInv ==
    /\ \A i \in 1..Len(marks) : marks[i] <= pos
    /\ \A i, j \in 1..Len(marks) : i <= j => marks[i] <= marks[j]
    /\ fn = "declaration" => marks # <<>> /\ Last(marks) = item.name - 1 /\ item.name # 0

LEMMA MarkInit == Init => MarkInv
BY DEF Init, MarkInv

\* The last mark is taken.
LEMMA MarkTaken ==
    ASSUME TypeInv, MarkInv, marks # <<>>
    PROVE  /\ Last(marks) \in 0..Len(tokens) /\ Front(marks) \in Seq(Nat)
           /\ \A i \in 1..Len(Front(marks)) :
                  Front(marks)[i] <= Last(marks) /\ Front(marks)[i] <= pos
           /\ \A i, j \in 1..Len(Front(marks)) : i <= j => Front(marks)[i] <= Front(marks)[j]
<1> DEFINE n == Len(marks)
           m == n - 1
<1>1. marks \in Seq(Nat) /\ n \in Nat \ {0} /\ pos \in 0..Len(tokens)
  BY DEF TypeInv
<1>2. m \in Nat /\ n \in 1..n /\ \A i \in 1..m : i \in 1..n /\ i <= n
  BY <1>1
<1>3. Last(marks) = marks[n] /\ marks[n] \in Nat /\ marks[n] <= pos
  BY <1>1, <1>2 DEF Last, MarkInv
<1>4. 1 \in 1..(n + 1) /\ m \in (1 - 1)..n /\ m - 1 + 1 = m /\ \A i \in 1..m : 1 + i - 1 = i
  BY <1>1
<1>5. /\ Front(marks) \in Seq(Nat) /\ Len(Front(marks)) = m
      /\ \A i \in 1..m : Front(marks)[i] = marks[i]
  <2>1. /\ SubSeq(marks, 1, m) \in Seq(Nat) /\ Len(SubSeq(marks, 1, m)) = m - 1 + 1
        /\ \A i \in 1..(m - 1 + 1) : SubSeq(marks, 1, m)[i] = marks[1 + i - 1]
    <3> HIDE DEF n, m
    <3> QED  BY <1>1, <1>4, SubSeqProperties DEF n
  <2> QED  BY <1>4, <2>1 DEF Front
<1> HIDE DEF m
<1>6. \A i \in 1..m : Front(marks)[i] <= marks[n] /\ Front(marks)[i] <= pos
  BY <1>2, <1>5 DEF MarkInv
<1>7. \A i, j \in 1..m : i <= j => Front(marks)[i] <= Front(marks)[j]
  BY <1>2, <1>5 DEF MarkInv
<1>8. marks[n] \in 0..Len(tokens)
  BY <1>1, <1>3
<1> QED  BY <1>3, <1>5, <1>6, <1>7, <1>8

\* A declaration leaves one mark or two, each before its name.
LEMMA MarksLeft ==
    ASSUME TypeInv, MarkInv
    PROVE  LET more == marks \o TrialMarks
           IN /\ more \in Seq(Nat) /\ more # <<>> /\ Last(more) = pos
              /\ \A i \in 1..Len(more) : more[i] <= pos
              /\ \A i, j \in 1..Len(more) : i <= j => more[i] <= more[j]
<1> DEFINE more == marks \o TrialMarks
           n == Len(marks)
           k == Len(TrialMarks)
<1>1. marks \in Seq(Nat) /\ n \in Nat /\ pos \in Nat
  BY DEF TypeInv
<1>2. /\ TrialMarks \in Seq(Nat) /\ k \in {1, 2}
      /\ \A i \in 1..k : TrialMarks[i] = pos
  <2>1. /\ <<pos>> \in Seq(Nat) /\ Len(<<pos>>) = 1 /\ \A i \in 1..1 : <<pos>>[i] = pos
        /\ <<pos, pos>> \in Seq(Nat) /\ Len(<<pos, pos>>) = 2
        /\ \A i \in 1..2 : <<pos, pos>>[i] = pos
    BY <1>1
  <2>2. TrialMarks = <<pos>> \/ TrialMarks = <<pos, pos>>
    BY DEF TrialMarks
  <2> QED  BY <2>1, <2>2
<1> HIDE DEF k
<1>3. /\ more \in Seq(Nat) /\ Len(more) = n + k
      /\ \A i \in 1..(n + k) : more[i] = IF i <= n THEN marks[i] ELSE TrialMarks[i - n]
  BY <1>1, <1>2, ConcatProperties DEF k
<1> HIDE DEF more, n
<1>4. \A i \in 1..(n + k) : \/ i \in 1..n /\ more[i] = marks[i]
                            \/ i > n /\ more[i] = pos
  <2> SUFFICES ASSUME NEW i \in 1..(n + k)
               PROVE  (i \in 1..n /\ more[i] = marks[i]) \/ (i > n /\ more[i] = pos)
    OBVIOUS
  <2>1. CASE i <= n
    BY <1>1, <1>3, <2>1
  <2>2. CASE ~(i <= n)
    <3>1. i - n \in 1..k /\ i > n
      BY <1>1, <1>2, <2>2
    <3> QED  BY <1>2, <1>3, <2>2, <3>1
  <2> QED  BY <2>1, <2>2
<1>5. \A i \in 1..n : marks[i] <= pos /\ \A j \in 1..n : i <= j => marks[i] <= marks[j]
  BY DEF MarkInv, n
<1>6. \A i \in 1..(n + k) : more[i] <= pos
  BY <1>1, <1>4, <1>5
<1>7. \A i, j \in 1..(n + k) : i <= j => more[i] <= more[j]
  <2> SUFFICES ASSUME NEW i \in 1..(n + k), NEW j \in 1..(n + k), i <= j
               PROVE  more[i] <= more[j]
    OBVIOUS
  <2>1. CASE j \in 1..n /\ more[j] = marks[j]
    <3>1. i \in 1..n /\ ~(i > n)
      BY <1>1, <1>2, <2>1
    <3> QED  BY <1>4, <1>5, <2>1, <3>1
  <2>2. CASE j > n /\ more[j] = pos
    BY <1>6, <2>2
  <2> QED  BY <1>4, <2>1, <2>2
<1>8. more # <<>> /\ Last(more) = pos
  <2>1. n + k \in 1..(n + k) /\ n + k > n /\ Len(more) # 0
    BY <1>1, <1>2, <1>3
  <2>2. more[n + k] = pos
    BY <1>1, <1>2, <1>4, <2>1
  <2>3. more # <<>>
    BY <2>1
  <2> QED  BY <1>3, <2>2, <2>3 DEF Last
<1> QED  BY <1>3, <1>6, <1>7, <1>8 DEF more

TypeMarks == TypeInv /\ MarkInv

\* What the steps that leave the marks alone and go on need.
LEMMA MarksStay ==
    ASSUME TypeMarks, marks' = marks, pos' \in Nat, pos <= pos',
           fn' = "declaration" => fn = "declaration" /\ item'.name = item.name
    PROVE  MarkInv'
<1>1. marks \in Seq(Nat) /\ pos \in Nat /\ Len(marks) \in Nat
  BY DEF TypeMarks, TypeInv
<1>2. \A i \in 1..Len(marks) : marks[i] \in Nat /\ marks[i] <= pos
  BY <1>1 DEF TypeMarks, MarkInv
<1>3. \A i \in 1..Len(marks) : marks[i] <= pos'
  BY <1>1, <1>2
<1> QED  BY <1>3 DEF TypeMarks, MarkInv

LEMMA TypeSkips ==
    ASSUME TypeMarks, SkipSeparator \/ EndOfContents \/ StartAtRule \/ StartQualifiedRule
    PROVE  TypeMarks'
<1>1. TypeInv /\ Len(tokens) \in Nat /\ pos \in Nat /\ pos \in 0..Len(tokens) /\ here = pos + 1
      /\ (Kind # "EOF" => here \in 0..Len(tokens)) /\ here \in Nat
  BY KindIs DEF TypeMarks, TypeInv
<1>2. CASE SkipSeparator
  <2>1. Kind # "EOF" /\ pos' = here /\ marks' = marks /\ fn' = "blockPart"
    BY <1>2 DEF SkipSeparator, IsSeparator
  <2>2. TypeInv'
    BY <1>1, <1>2, <2>1 DEF SkipSeparator, TypeInv
  <2>3. pos' \in Nat /\ pos <= pos'
    BY <1>1, <2>1
  <2> QED  BY <2>1, <2>2, <2>3, MarksStay DEF TypeMarks
<1>3. CASE EndOfContents
  <2>1. pos' = pos /\ marks' = marks /\ fn' = "done"
    BY <1>3 DEF EndOfContents
  <2>2. TypeInv'
    BY <1>1, <1>3, <2>1 DEF EndOfContents, TypeInv
  <2>3. pos' \in Nat /\ pos <= pos'
    BY <1>1, <2>1
  <2> QED  BY <2>1, <2>2, <2>3, MarksStay DEF TypeMarks
<1>4. CASE StartAtRule
  <2>1. Kind # "EOF" /\ pos' = here /\ marks' = marks /\ fn' = "atRule"
        /\ item' = Item("rule", here)
    BY <1>4 DEF StartAtRule
  <2>2. item' \in ItemType /\ item'.name = here
    BY <1>1, <2>1, ItemIs
  <2>3. item'.name <= Len(tokens) /\ pos' \in 0..Len(tokens)
    BY <1>1, <2>1, <2>2
  <2>4. TypeInv'
    BY <1>1, <1>4, <2>1, <2>2, <2>3 DEF StartAtRule, TypeInv
  <2>5. pos' \in Nat /\ pos <= pos'
    BY <1>1, <2>1
  <2> QED  BY <2>1, <2>4, <2>5, MarksStay DEF TypeMarks
<1>5. CASE StartQualifiedRule
  <2>1. pos' = pos /\ marks' = marks /\ fn' = "qualifiedRule" /\ item' = Item("rule", 0)
    BY <1>5 DEF StartQualifiedRule
  <2>2. item' \in ItemType /\ item'.name = 0
    BY <2>1, ItemIs
  <2>3. item'.name <= Len(tokens)
    BY <1>1, <2>2
  <2>4. TypeInv'
    BY <1>1, <1>5, <2>1, <2>2, <2>3 DEF StartQualifiedRule, TypeInv
  <2>5. pos' \in Nat /\ pos <= pos'
    BY <1>1, <2>1
  <2> QED  BY <2>1, <2>4, <2>5, MarksStay DEF TypeMarks
<1> QED  BY <1>2, <1>3, <1>4, <1>5

LEMMA TypeStartDeclaration ==
    ASSUME TypeMarks, StartDeclaration
    PROVE  TypeMarks'
<1>1. TypeInv /\ MarkInv /\ Len(tokens) \in Nat /\ pos \in Nat /\ pos \in 0..Len(tokens)
      /\ here = pos + 1 /\ here \in Nat
  BY KindIs DEF TypeMarks, TypeInv
<1>2. Kind # "EOF" /\ AfterColon \in 0..Len(tokens) /\ here <= AfterColon
  BY BehindColon DEF StartDeclaration, TypeMarks, TypeInv
<1>3. here \in 1..Len(tokens)
  BY <1>2, KindIs DEF TypeMarks, TypeInv
<1>4. item' = Item("declaration", here) /\ pos' = AfterColon /\ marks' = marks \o TrialMarks
      /\ fn' = "declaration"
  BY DEF StartDeclaration
<1>5. item' \in ItemType /\ item'.name = here
  BY <1>1, <1>4, ItemIs
<1>6. /\ marks' \in Seq(Nat) /\ marks' # <<>> /\ Last(marks') = pos
      /\ \A i \in 1..Len(marks') : marks'[i] <= pos
      /\ \A i, j \in 1..Len(marks') : i <= j => marks'[i] <= marks'[j]
  BY <1>1, <1>4, MarksLeft
<1>7. TypeInv'
  <2>1. item'.name <= Len(tokens)
    BY <1>3, <1>5
  <2> QED  BY <1>1, <1>2, <1>4, <1>5, <1>6, <2>1 DEF StartDeclaration, TypeInv
<1>8. MarkInv'
  <2>1. \A i \in 1..Len(marks') : marks'[i] \in Nat
    BY <1>6
  <2>2. pos <= pos' /\ pos' \in Nat
    BY <1>1, <1>2, <1>4
  <2>3. \A i \in 1..Len(marks') : marks'[i] <= pos'
    BY <1>1, <1>6, <2>1, <2>2
  <2>4. pos = item'.name - 1 /\ item'.name # 0
    BY <1>1, <1>5
  <2> QED  BY <1>6, <2>3, <2>4 DEF MarkInv
<1> QED  BY <1>7, <1>8 DEF TypeMarks

\* A rule or a declaration ends or goes on: the marks stay.
LEMMA TypeReads ==
    ASSUME TypeMarks, EndAtRule \/ EndQualifiedRule \/ StartBlock \/ ListValue \/ BlockValue
    PROVE  TypeMarks'
<1>1. TypeInv /\ Len(tokens) \in Nat /\ pos \in Nat /\ pos \in 0..Len(tokens) /\ here = pos + 1
      /\ (Kind # "EOF" => here \in 0..Len(tokens)) /\ here \in Nat /\ ends \in Stacks
      /\ item \in ItemType /\ field \in {"prelude", "block", "value"} /\ item.name \in Nat
  BY KindIs, ItemFields DEF TypeMarks, TypeInv
<1>2. Kept \in ItemType /\ Kept.name = item.name
  BY <1>1, KeptIs
<1>3. pos' \in {pos, here} /\ (pos' = pos \/ Kind # "EOF") /\ marks' = marks /\ tokens' = tokens
      /\ trial' = trial
  BY DEF EndAtRule, EndQualifiedRule, StartBlock, ListValue, BlockValue, EOF, StopsList
<1>4. pos' \in 0..Len(tokens) /\ pos' \in Nat /\ pos <= pos'
  BY <1>1, <1>3
<1>5. CASE EndAtRule
  <2>1. Return(item) /\ ends' = ends /\ field' = field
    BY <1>5 DEF EndAtRule
  <2>2. parts' \in Seq(ItemType) /\ fn' = "blockPart" /\ item' \in ItemType /\ item'.name = 0
    BY <1>1, <2>1, Returns
  <2>3. TypeInv'
    BY <1>1, <1>3, <1>4, <2>1, <2>2 DEF TypeInv
  <2> QED  BY <1>3, <1>4, <2>2, <2>3, MarksStay DEF TypeMarks
<1>6. CASE EndQualifiedRule
  <2>1. fn' = "blockPart" /\ item' = NoItem /\ ends' = ends /\ field' = field /\ parts' = parts
    BY <1>6 DEF EndQualifiedRule
  <2>2. item' \in ItemType /\ item'.name = 0
    BY <2>1, NoItemIs
  <2>3. TypeInv'
    BY <1>1, <1>3, <1>4, <2>1, <2>2 DEF TypeInv
  <2> QED  BY <1>3, <1>4, <2>1, <2>3, MarksStay DEF TypeMarks
<1>7. CASE StartBlock
  <2>1. /\ item' = [item EXCEPT !.block = <<here>>] /\ ends' = <<EndOf("{")>> /\ field' = "block"
        /\ fn' = fn /\ parts' = parts
    BY <1>7 DEF StartBlock
  <2>2. <<here>> \in Seq(Nat)
    BY <1>1
  <2>3. item' \in ItemType /\ item'.name = item.name
    BY <1>1, <2>1, <2>2 DEF ItemType
  <2>4. ends' \in Stacks
    BY <1>1, <2>1, EndsOpen
  <2>5. TypeInv'
    BY <1>1, <1>3, <1>4, <2>1, <2>3, <2>4 DEF TypeInv
  <2> QED  BY <1>3, <1>4, <2>1, <2>3, <2>5, MarksStay DEF TypeMarks
<1>8. CASE ListValue
  <2>1. item' = Kept /\ ends' = (IF Opens(Kind) THEN <<EndOf(Kind)>> ELSE <<>>)
        /\ fn' = fn /\ field' = field /\ parts' = parts
    BY <1>8 DEF ListValue
  <2>2. ends' \in Stacks
    BY <1>1, <2>1, EndsOpen
  <2>3. TypeInv'
    BY <1>1, <1>2, <1>3, <1>4, <2>1, <2>2 DEF TypeInv
  <2> QED  BY <1>2, <1>3, <1>4, <2>1, <2>3, MarksStay DEF TypeMarks
<1>9. CASE BlockValue
  <2>1. item' = Kept /\ ends' = (IF Opens(Kind) THEN Append(ends, EndOf(Kind)) ELSE ends)
        /\ fn' = fn /\ field' = field /\ parts' = parts
    BY <1>9 DEF BlockValue
  <2>2. ends' \in Stacks
    BY <1>1, <2>1, EndsOpen
  <2>3. TypeInv'
    BY <1>1, <1>2, <1>3, <1>4, <2>1, <2>2 DEF TypeInv
  <2> QED  BY <1>2, <1>3, <1>4, <2>1, <2>3, MarksStay DEF TypeMarks
<1> QED  BY <1>5, <1>6, <1>7, <1>8, <1>9

LEMMA TypeCloses ==
    ASSUME TypeMarks, CloseBlock
    PROVE  TypeMarks'
<1> DEFINE closed == IF Kind = EOF THEN item ELSE Kept
<1>1. TypeInv /\ Len(tokens) \in Nat /\ pos \in Nat /\ pos \in 0..Len(tokens) /\ here = pos + 1
      /\ (Kind # "EOF" => here \in 0..Len(tokens)) /\ here \in Nat /\ ends \in Stacks
      /\ item \in ItemType /\ field \in {"prelude", "block", "value"} /\ item.name \in Nat
  BY KindIs, ItemFields DEF TypeMarks, TypeInv
<1>2. closed \in ItemType /\ closed.name = item.name
  BY <1>1, KeptIs
<1>3. /\ ends # <<>> /\ ends' = Front(ends) /\ marks' = marks /\ tokens' = tokens /\ trial' = trial
      /\ field' = field /\ pos' = IF Kind = EOF THEN pos ELSE here
  BY DEF CloseBlock, InBlock
<1>4. Return(closed) \/ (item' = closed /\ fn' = fn /\ parts' = parts)
  BY DEF CloseBlock
<1>5. ends' \in Stacks /\ pos' \in 0..Len(tokens) /\ pos' \in Nat /\ pos <= pos'
  <2>1. ends' \in Stacks
    BY <1>1, <1>3, EndsOpen
  <2>2. pos' = pos \/ (pos' = here /\ here \in 0..Len(tokens))
    BY <1>1, <1>3 DEF EOF
  <2> QED  BY <1>1, <2>1, <2>2
<1> HIDE DEF closed
<1>6. /\ parts' \in Seq(ItemType) /\ item' \in ItemType /\ item'.name <= Len(tokens)
      /\ fn' \in {fn, "blockPart"} /\ (fn' = "blockPart" \/ item'.name = item.name)
  <2>1. CASE Return(closed)
    <3>1. parts' \in Seq(ItemType) /\ fn' = "blockPart" /\ item' \in ItemType /\ item'.name = 0
      BY <1>1, <1>2, <2>1, Returns
    <3> QED  BY <1>1, <3>1
  <2>2. CASE item' = closed /\ fn' = fn /\ parts' = parts
    BY <1>1, <1>2, <2>2 DEF TypeInv
  <2> QED  BY <1>4, <2>1, <2>2
<1>7. TypeInv'
  BY <1>1, <1>3, <1>5, <1>6 DEF TypeInv
<1> QED  BY <1>3, <1>5, <1>6, <1>7, MarksStay DEF TypeMarks

LEMMA TypeDeclares ==
    ASSUME TypeMarks, EndDeclaration
    PROVE  TypeMarks'
<1>1. TypeInv /\ MarkInv /\ Len(tokens) \in Nat /\ pos \in Nat /\ item \in ItemType
  BY KindIs DEF TypeMarks, TypeInv
<1>2. fn = "declaration" /\ marks # <<>> /\ trial' = FALSE /\ ends' = ends /\ tokens' = tokens
  BY <1>1 DEF EndDeclaration, MarkInv
<1>3. /\ Last(marks) \in 0..Len(tokens) /\ Front(marks) \in Seq(Nat)
      /\ \A i \in 1..Len(Front(marks)) : Front(marks)[i] <= Last(marks) /\ Front(marks)[i] <= pos
      /\ \A i, j \in 1..Len(Front(marks)) : i <= j => Front(marks)[i] <= Front(marks)[j]
  BY <1>1, <1>2, MarkTaken
<1>4. CASE IsValid(Finished)
  <2>1. /\ Return(Finished) /\ pos' = pos /\ field' = field
        /\ marks' = Front(marks) \/ marks' = marks
    BY <1>4 DEF EndDeclaration
  <2>2. Finished \in ItemType
    BY <1>1, FinishedIs
  <2>3. parts' \in Seq(ItemType) /\ fn' = "blockPart" /\ item' \in ItemType /\ item'.name = 0
    BY <1>1, <2>1, <2>2, Returns
  <2>4. item'.name <= Len(tokens) /\ marks' \in Seq(Nat)
    BY <1>1, <1>3, <2>1, <2>3 DEF TypeInv
  <2>5. TypeInv'
    BY <1>1, <1>2, <2>1, <2>3, <2>4 DEF TypeInv
  <2>6. MarkInv'
    <3>1. CASE marks' = Front(marks)
      BY <1>3, <2>1, <2>3, <3>1 DEF MarkInv
    <3>2. CASE marks' = marks
      BY <1>1, <2>1, <2>3, <3>2 DEF MarkInv
    <3> QED  BY <2>1, <3>1, <3>2
  <2> QED  BY <2>5, <2>6 DEF TypeMarks
<1>5. CASE ~IsValid(Finished)
  <2>1. /\ fn' = "qualifiedRule" /\ item' = Item("rule", 0) /\ field' = "prelude"
        /\ pos' = Last(marks) /\ marks' = Front(marks) /\ parts' = parts
    BY <1>5 DEF EndDeclaration
  <2>2. item' \in ItemType /\ item'.name = 0
    BY <2>1, ItemIs
  <2>3. item'.name <= Len(tokens)
    BY <1>1, <2>2
  <2>4. TypeInv'
    BY <1>1, <1>2, <1>3, <2>1, <2>2, <2>3 DEF TypeInv
  <2>5. MarkInv'
    BY <1>3, <2>1 DEF MarkInv
  <2> QED  BY <2>4, <2>5 DEF TypeMarks
<1> QED  BY <1>4, <1>5

LEMMA TypeNext == TypeMarks /\ [Next]_vars => TypeMarks'
<1> SUFFICES ASSUME TypeMarks, [Next]_vars PROVE TypeMarks'
  OBVIOUS
<1>1. CASE UNCHANGED vars
  BY <1>1 DEF vars, TypeMarks, TypeInv, MarkInv
<1> QED  BY <1>1, TypeSkips, TypeStartDeclaration, TypeReads, TypeCloses, TypeDeclares DEF Next

LEMMA TypeInvType == TypeMarks => TypeOK
<1> SUFFICES ASSUME TypeMarks PROVE TypeOK
  OBVIOUS
<1>1. TypeInv /\ MarkInv /\ item.name \in Nat /\ item.type \in {"none", "rule", "declaration"}
      /\ marks \in Seq(Nat) /\ Len(tokens) \in Nat
  BY ItemFields DEF TypeMarks, TypeInv
<1>2. \A i \in 1..Len(marks) : marks[i] \in 0..pos
  <2>1. \A i \in 1..Len(marks) : marks[i] \in Nat /\ marks[i] <= pos
    BY <1>1 DEF MarkInv
  <2>2. pos \in Nat
    BY <1>1 DEF TypeInv
  <2> QED  BY <2>1, <2>2
<1>3. item.name \in 0..Len(tokens)
  BY <1>1 DEF TypeInv
<1> QED  BY <1>1, <1>2, <1>3 DEF TypeOK, TypeInv, Stacks, Closers

\* The tokens are consumed within the text, and no mark is behind what has been read: none that
\* a declaration leaves behind is lost sight of when the parser goes back to the one before it.
THEOREM BlockTypes == Spec => []TypeOK
<1>1. Init => TypeMarks
  BY TypeInit, MarkInit DEF TypeMarks
<1> QED  BY <1>1, TypeNext, TypeInvType, PTL DEF Spec

\* What is read a second time is read from the name on: the mark that declaration left is the
\* last one, before its name.
THEOREM RetriedFromTheName == Spec => RetriesFromTheName
<1>1. Init => TypeMarks
  BY TypeInit, MarkInit DEF TypeMarks
<1>2. TypeMarks /\ [Next]_vars =>
         [fn = "declaration" /\ fn' = "qualifiedRule" => pos' = item.name - 1]_vars
  <2> SUFFICES ASSUME TypeMarks, Next, fn = "declaration", fn' = "qualifiedRule"
               PROVE  pos' = item.name - 1
    OBVIOUS
  <2>1. ~SkipSeparator /\ ~EndOfContents /\ ~StartAtRule /\ ~StartDeclaration
        /\ ~StartQualifiedRule /\ ~EndAtRule /\ ~EndQualifiedRule /\ ~StartBlock
        /\ ~ListValue /\ ~BlockValue
    BY DEF SkipSeparator, EndOfContents, StartAtRule, StartDeclaration, StartQualifiedRule,
           EndAtRule, EndQualifiedRule, StartBlock, ListValue, BlockValue
  <2>2. ~CloseBlock
    BY DEF CloseBlock, Return
  <2>3. EndDeclaration
    BY <2>1, <2>2 DEF Next
  <2>4. pos' = Last(marks)
    BY <2>3 DEF EndDeclaration, Return
  <2> QED  BY <2>4 DEF TypeMarks, MarkInv
<1> QED  BY <1>1, <1>2, TypeNext, PTL DEF Spec, RetriesFromTheName

-----------------------------------------------------------------------------
\* The loop of ValueLength does not look behind the value it finds.
LEMMA LoopGoesOn ==
    ASSUME NEW S, NEW ks \in Seq(S)
    PROVE  \A i \in 1..(Len(ks) + 1), stack \in Stacks :
               LET r == StackLoop(ks)[<<i, stack>>]
               IN /\ r.n \in Int /\ r.n >= i - 1
                  /\ stack # <<>> /\ r.ok => i <= Len(ks) /\ r.n >= i
<1> DEFINE N == Len(ks)
           f == StackLoop(ks)
           D == 1..(N + 1)
           rank == [j \in D |-> N + 1 - j]
           Good(i) == \A stack \in Stacks :
                         /\ f[<<i, stack>>].n \in Int /\ f[<<i, stack>>].n >= i - 1
                         /\ stack # <<>> /\ f[<<i, stack>>].ok => i <= N /\ f[<<i, stack>>].n >= i
           G == {i \in D : Good(i)}
<1>1. N \in Nat /\ rank \in [D -> Nat]
  OBVIOUS
<1>2. ASSUME NEW i \in D, \A l \in D : rank[l] < rank[i] => l \in G
      PROVE  i \in G
  <2> SUFFICES ASSUME NEW stack \in Stacks
               PROVE  /\ f[<<i, stack>>].n \in Int /\ f[<<i, stack>>].n >= i - 1
                      /\ stack # <<>> /\ f[<<i, stack>>].ok => i <= N /\ f[<<i, stack>>].n >= i
    OBVIOUS
  <2>1. f[<<i, stack>>] = LoopStep(ks, i, stack, f) /\ i \in Nat
    BY LoopPass
  <2> HIDE DEF f
  <2>2. CASE stack = <<>> \/ i > N
    <3>1. f[<<i, stack>>] = [n |-> i - 1, ok |-> stack = <<>>]
      BY <2>1, <2>2, Zenon DEF LoopStep
    <3>2. f[<<i, stack>>].n = i - 1 /\ f[<<i, stack>>].ok = (stack = <<>>)
      BY <3>1
    <3>3. i - 1 \in Int /\ i - 1 >= i - 1
      BY <1>1
    <3> QED  BY <3>2, <3>3
  <2>3. CASE ~(stack = <<>> \/ i > N)
    <3> DEFINE top == Nest(stack, ks[i])
    <3>1. f[<<i, stack>>] = f[<<i + 1, top>>]
      BY <2>1, <2>3, Zenon DEF LoopStep
    <3>2. top \in Stacks
      BY <2>3, NestType
    <3>3. i + 1 \in D /\ i \in D /\ i <= N
      BY <1>1, <2>3
    <3>4. rank[i + 1] < rank[i]
      BY <1>1, <3>3
    <3>5. Good(i + 1)
      <4> HIDE DEF D, rank, Good
      <4> QED  BY <1>2, <3>3, <3>4
    <3> HIDE DEF top
    <3>6. f[<<i + 1, top>>].n \in Int /\ f[<<i + 1, top>>].n >= (i + 1) - 1
      BY <3>2, <3>5
    <3> DEFINE x == f[<<i + 1, top>>].n
    <3>7. x \in Int /\ x >= (i + 1) - 1
      BY <3>6
    <3> HIDE DEF x
    <3>8. x >= i /\ x >= i - 1
      BY <1>1, <3>7
    <3> QED  BY <3>1, <3>3, <3>7, <3>8 DEF x
  <2> QED  BY <2>2, <2>3
<1>3. D \subseteq G
  <2> HIDE DEF D, G, rank
  <2> QED  BY <1>1, <1>2, RankInduction
<1>4. \A i \in D : Good(i)
  BY <1>3
<1> QED  BY <1>4

\* Of two slices that begin alike, both hold a value that is closed where they do.
LEMMA LoopsAgree ==
    ASSUME NEW S, NEW a \in Seq(S), NEW b \in Seq(S), b # <<>>, Len(b) <= Len(a),
           \A i \in 1..Len(b) : b[i] = a[i],
           ValueLength(a).ok = TRUE, ValueLength(a).n <= Len(b)
    PROVE  ValueLength(b) = ValueLength(a)
<1> DEFINE N == Len(b)
           f == StackLoop(a)
           g == StackLoop(b)
           D == 1..(N + 1)
           rank == [j \in D |-> N + 1 - j]
           Good(i) == \A stack \in Stacks :
                         f[<<i, stack>>].ok = TRUE /\ f[<<i, stack>>].n <= N =>
                             g[<<i, stack>>] = f[<<i, stack>>]
           G == {i \in D : Good(i)}
<1>1. N \in Nat /\ rank \in [D -> Nat] /\ Len(a) \in Nat /\ N # 0
  OBVIOUS
<1>2. ASSUME NEW i \in D, \A l \in D : rank[l] < rank[i] => l \in G
      PROVE  i \in G
  <2> SUFFICES ASSUME NEW stack \in Stacks, f[<<i, stack>>].ok = TRUE, f[<<i, stack>>].n <= N
               PROVE  g[<<i, stack>>] = f[<<i, stack>>]
    OBVIOUS
  <2>1. f[<<i, stack>>] = LoopStep(a, i, stack, f) /\ g[<<i, stack>>] = LoopStep(b, i, stack, g)
        /\ i \in Nat /\ i \in 1..(Len(a) + 1)
    BY <1>1, LoopPass
  <2>2. CASE stack = <<>>
    BY <2>1, <2>2, Zenon DEF LoopStep
  <2>3. CASE stack # <<>>
    <3>1. f[<<i, stack>>].n \in Int /\ f[<<i, stack>>].n >= i /\ i <= Len(a)
      BY <2>1, <2>3, LoopGoesOn
    <3> DEFINE x == f[<<i, stack>>].n
    <3>2. x \in Int /\ x >= i /\ x <= N
      BY <3>1
    <3> HIDE DEF x, f, g
    <3>3. i <= N /\ ~(i > N) /\ ~(i > Len(a)) /\ i \in 1..N /\ i + 1 \in D
      BY <1>1, <2>1, <3>1, <3>2
    <3> DEFINE top == Nest(stack, a[i])
    <3>4. f[<<i, stack>>] = f[<<i + 1, top>>] /\ g[<<i, stack>>] = g[<<i + 1, top>>]
      <4>1. b[i] = a[i]
        BY <3>3
      <4> QED  BY <2>1, <2>3, <3>3, <4>1, Zenon DEF LoopStep
    <3>5. top \in Stacks
      BY <2>3, NestType
    <3>6. rank[i + 1] < rank[i]
      BY <1>1, <3>3
    <3>7. Good(i + 1)
      <4> HIDE DEF D, rank, Good
      <4> QED  BY <1>2, <3>3, <3>6
    <3> HIDE DEF top
    <3> QED  BY <3>4, <3>5, <3>7
  <2> QED  BY <2>2, <2>3
<1>3. D \subseteq G
  <2> HIDE DEF D, G, rank
  <2> QED  BY <1>1, <1>2, RankInduction
<1>4. Good(2)
  <2>1. 2 \in D
    BY <1>1
  <2> HIDE DEF D, Good
  <2> QED  BY <1>3, <2>1
<1>5. a # <<>> /\ b[1] = a[1]
  BY <1>1
<1>6. CASE Opens(a[1])
  <2> DEFINE st == <<EndOf(a[1])>>
  <2>1. ValueLength(a) = f[<<2, st>>] /\ ValueLength(b) = g[<<2, st>>]
    BY <1>5, <1>6, LoopDef
  <2>2. st \in Stacks
    BY <1>6, EndsAreClosers DEF Stacks
  <2> HIDE DEF f, g, st
  <2> QED  BY <1>4, <2>1, <2>2
<1>7. CASE ~Opens(a[1])
  BY <1>5, <1>7, LoopDef
<1> QED  BY <1>6, <1>7

-----------------------------------------------------------------------------
\* A list between two elements.
LEMMA BetweenTwo ==
    ASSUME NEW S, NEW s \in Seq(S), NEW a \in S, NEW b \in S, NEW t, t = <<a>> \o s \o <<b>>
    PROVE  /\ t \in Seq(S) /\ Len(s) \in Nat /\ Len(t) = Len(s) + 2 /\ Len(t) \in Nat
           /\ t[1] = a /\ \A i \in 1..Len(s) : t[i + 1] = s[i]
<1> DEFINE n == Len(s)
           o == <<a>>
           c == <<b>>
           u == o \o s
<1>1. o \in Seq(S) /\ Len(o) = 1 /\ o[1] = a /\ c \in Seq(S) /\ Len(c) = 1 /\ n \in Nat
  OBVIOUS
<1> HIDE DEF o, c
<1>2. /\ u \in Seq(S) /\ Len(u) = 1 + n
      /\ \A i \in 1..(1 + n) : u[i] = IF i <= 1 THEN o[i] ELSE s[i - 1]
  <2>1. /\ u \in Seq(S) /\ Len(u) = Len(o) + Len(s)
        /\ \A i \in 1..(Len(o) + Len(s)) : u[i] = IF i <= Len(o) THEN o[i] ELSE s[i - Len(o)]
    BY <1>1, ConcatProperties
  <2> HIDE DEF u
  <2> QED  BY <1>1, <2>1
<1> HIDE DEF u
<1>3. /\ u \o c \in Seq(S) /\ Len(u \o c) = (1 + n) + 1
      /\ \A i \in 1..((1 + n) + 1) : (u \o c)[i] = IF i <= 1 + n THEN u[i] ELSE c[i - (1 + n)]
  <2> DEFINE w == u \o c
  <2>1. /\ w \in Seq(S) /\ Len(w) = Len(u) + Len(c)
        /\ \A i \in 1..(Len(u) + Len(c)) : w[i] = IF i <= Len(u) THEN u[i] ELSE c[i - Len(u)]
    BY <1>1, <1>2, ConcatProperties
  <2> HIDE DEF w
  <2>2. /\ w \in Seq(S) /\ Len(w) = (1 + n) + 1
        /\ \A i \in 1..((1 + n) + 1) : w[i] = IF i <= 1 + n THEN u[i] ELSE c[i - (1 + n)]
    BY <1>1, <1>2, <2>1
  <2> QED  BY <2>2 DEF w
<1>4. t = u \o c
  BY DEF u, o, c
<1>5. t[1] = a
  <2>1. 1 \in 1..(1 + n) /\ 1 \in 1..((1 + n) + 1) /\ 1 <= 1 + n
    BY <1>1
  <2> QED  BY <1>1, <1>2, <1>3, <1>4, <2>1
<1>6. ASSUME NEW i \in 1..n PROVE t[i + 1] = s[i]
  <2>1. i + 1 \in 1..(1 + n) /\ i + 1 \in 1..((1 + n) + 1) /\ i + 1 <= 1 + n /\ ~(i + 1 <= 1)
        /\ (i + 1) - 1 = i
    BY <1>1
  <2> QED  BY <1>2, <1>3, <1>4, <2>1
<1>7. (1 + n) + 1 = n + 2 /\ n + 2 \in Nat
  BY <1>1
<1> QED  BY <1>1, <1>3, <1>4, <1>5, <1>6, <1>7

\* The text between its braces, and the tokens in it that are no part of a block: from i on there
\* are values up to the brace that closes the block.
Braced == <<"{">> \o tokens \o <<"}">>

Good(i) == AreValues(Braced, i + 1, Len(tokens) + 1, "}")

LEMMA BracedIs ==
    ASSUME tokens \in Seq(Kinds)
    PROVE  /\ Braced \in Seq(Kinds) /\ Len(tokens) \in Nat /\ Len(Braced) = Len(tokens) + 2
           /\ Len(Braced) \in Nat /\ Opens(Braced[1]) /\ EndOf(Braced[1]) = "}"
           /\ \A i \in 1..Len(tokens) : Braced[i + 1] = tokens[i]
<1>1. "{" \in Kinds /\ "}" \in Kinds
  BY DEF Kinds
<1> DEFINE t == <<"{">> \o tokens \o <<"}">>
           Between(u, a) ==
               /\ u \in Seq(Kinds) /\ Len(tokens) \in Nat /\ Len(u) = Len(tokens) + 2
               /\ Len(u) \in Nat /\ u[1] = a /\ \A i \in 1..Len(tokens) : u[i + 1] = tokens[i]
<1>2. \A a, b \in Kinds : \A u : u = <<a>> \o tokens \o <<b>> => Between(u, a)
  <2> SUFFICES ASSUME NEW a \in Kinds, NEW b \in Kinds, NEW u, u = <<a>> \o tokens \o <<b>>
               PROVE  Between(u, a)
    BY Zenon
  <2> QED  BY BetweenTwo
<1>3. Between(t, "{")
  <2> HIDE DEF Between
  <2> QED  BY <1>1, <1>2, Zenon
<1>4. Opens("{") /\ EndOf("{") = "}"
  BY DEF Opens, EndOf
<1> QED  BY <1>3, <1>4, Zenon DEF Braced

\* All of a list.
LEMMA WholeSlice ==
    ASSUME NEW S, NEW ks \in Seq(S), Len(ks) # 0
    PROVE  SubSeq(ks, 1, Len(ks)) = ks
<1>1. 1 \in 1..Len(ks) /\ Len(ks) \in 1..Len(ks) /\ Len(ks) + 1 - 1 = Len(ks)
      /\ \A j \in 1..Len(ks) : 1 + j - 1 = j
  OBVIOUS
<1>2. /\ SubSeq(ks, 1, Len(ks)) \in Seq(S) /\ Len(SubSeq(ks, 1, Len(ks))) = Len(ks)
      /\ \A j \in 1..Len(ks) : SubSeq(ks, 1, Len(ks))[j] = ks[j]
  BY <1>1, SliceFrom
<1> QED  BY <1>2, SeqEqual

\* The block ends with the closing brace, so all of the text is values.
LEMMA GoodFirst ==
    ASSUME tokens \in Seq(Kinds), InsideBraces
    PROVE  Good(1)
<1> DEFINE ks == Braced
           n == Len(tokens)
           v == ValueLength(SubSeq(ks, 1, Len(ks)))
<1>1. ks \in Seq(Kinds) /\ n \in Nat /\ Len(ks) = n + 2 /\ Len(ks) \in Nat
  BY BracedIs
<1>2. v.n = n + 2 /\ v.ok = TRUE
  <2>1. SubSeq(ks, 1, Len(ks)) = ks
    <3> HIDE DEF ks
    <3>1. Len(ks) # 0
      BY <1>1
    <3> QED  BY <1>1, <3>1, WholeSlice
  <2>2. ValueLength(ks) = [n |-> n + 2, ok |-> TRUE]
    BY Zenon DEF InsideBraces, Braced
  <2>3. v = [n |-> n + 2, ok |-> TRUE]
    BY <2>1, <2>2, Zenon
  <2> HIDE DEF v, n
  <2> QED  BY <2>3
<1>3. Opens(ks[1]) /\ EndOf(ks[1]) = "}"
  BY BracedIs, Zenon
<1> HIDE DEF ks, n
<1>4. 1 \in 1..Len(ks) /\ Len(ks) \in 1..Len(ks) /\ Len(ks) = 1 + v.n - 1 /\ Len(ks) - 1 = n + 1
  <2> HIDE DEF v
  <2> QED  BY <1>1, <1>2
<1>5. IsClosedBlock(ks, 1, Len(ks))
  <2>1. Opens(ks[1])
    BY <1>3
  <2> HIDE DEF v
  <2>2. v = ValueLength(SubSeq(ks, 1, Len(ks)))
    BY DEF v
  <2>3. \A k \in 1..Len(ks) : IsClosedBlock(ks, 1, k) <=> k = 1 + v.n - 1
    BY <1>1, <1>2, <1>4, <2>1, <2>2, ValueLengthFinds
  <2> QED  BY <1>4, <2>3
<1>6. AreValues(ks, 1 + 1, Len(ks) - 1, EndOf(ks[1]))
  BY <1>5, Zenon DEF IsClosedBlock
<1> QED  BY <1>3, <1>4, <1>6, Zenon DEF Good, ks, n

\* What is known of a value that is not in a block: no brace closes it, and if it opens a block
\* it is closed, in the text.
IsWhole(i) ==
    /\ tokens[i] # "}" /\ EndOfValue(tokens, i) \in i..Len(tokens)
    /\ Opens(tokens[i]) =>
           /\ tokens[EndOfValue(tokens, i)] = EndOf(tokens[i])
           /\ ValueLength(SubSeq(tokens, i, Len(tokens))).ok = TRUE

LEMMA GoodNext ==
    ASSUME tokens \in Seq(Kinds), NEW i \in 1..Len(tokens), Good(i)
    PROVE  IsWhole(i) /\ Good(EndOfValue(tokens, i) + 1)
<1> DEFINE ks == Braced
           n == Len(tokens)
           e == EndOfValue(tokens, i)
<1>1. /\ ks \in Seq(Kinds) /\ n \in Nat /\ Len(ks) = n + 2 /\ ks[i + 1] = tokens[i]
      /\ \A j \in 1..n : ks[j + 1] = tokens[j]
  BY BracedIs
<1>2. /\ i + 1 \in 1..(Len(ks) + 1) /\ i + 1 \in 1..Len(ks) /\ n + 1 \in 0..Len(ks)
      /\ ~(i + 1 > n + 1) /\ n + 1 # Len(ks) /\ "}" \in Closers /\ n \in i..n
  BY <1>1 DEF Closers
<1> HIDE DEF ks
<1>3. /\ ks[i + 1] # "}"
      /\ IF Opens(ks[i + 1])
         THEN \E k \in (i + 1)..(n + 1) :
                 /\ \/ /\ k > i + 1 /\ ks[k] = EndOf(ks[i + 1])
                       /\ AreValues(ks, (i + 1) + 1, k - 1, EndOf(ks[i + 1]))
                    \/ k = Len(ks) /\ AreValues(ks, (i + 1) + 1, Len(ks), EndOf(ks[i + 1]))
                 /\ AreValues(ks, k + 1, n + 1, "}")
         ELSE AreValues(ks, (i + 1) + 1, n + 1, "}")
  <2>1. AreValues(ks, i + 1, n + 1, "}")
    BY DEF Good, ks
  <2> QED  BY <1>1, <1>2, <2>1, ValuesDef
<1>4. e \in i..n
  BY EndIsBehind
<1> HIDE DEF e
<1>5. CASE ~Opens(tokens[i])
  <2>1. e = i
    BY <1>5, EndOfValueIs DEF e
  <2>2. AreValues(ks, (e + 1) + 1, n + 1, "}")
    BY <1>1, <1>3, <1>5, <2>1
  <2> QED  BY <1>1, <1>3, <1>4, <1>5, <2>2 DEF Good, IsWhole, ks, e
<1>6. CASE Opens(tokens[i])
  <2>1. PICK k \in (i + 1)..(n + 1) :
           /\ \/ /\ k > i + 1 /\ ks[k] = EndOf(ks[i + 1])
                 /\ AreValues(ks, (i + 1) + 1, k - 1, EndOf(ks[i + 1]))
              \/ k = Len(ks) /\ AreValues(ks, (i + 1) + 1, Len(ks), EndOf(ks[i + 1]))
           /\ AreValues(ks, k + 1, n + 1, "}")
    BY <1>1, <1>3, <1>6
  <2>2. k # Len(ks) /\ k \in (i + 1)..Len(ks) /\ k - 1 \in 1..n /\ (k - 1) + 1 = k
    BY <1>1
  <2>3. IsClosedBlock(ks, i + 1, k) /\ ks[k] = EndOf(tokens[i])
    BY <1>1, <1>6, <2>1, <2>2 DEF IsClosedBlock
  <2> DEFINE a == SubSeq(ks, i + 1, Len(ks))
             b == SubSeq(tokens, i, n)
             v == ValueLength(a)
  <2>4. v.ok = TRUE /\ k = (i + 1) + v.n - 1 /\ v.n \in 2..(Len(ks) + 1 - (i + 1))
    <3> HIDE DEF v
    <3>1. v = ValueLength(SubSeq(ks, i + 1, Len(ks)))
      BY DEF v
    <3> QED  BY <1>1, <1>2, <1>6, <2>2, <2>3, <3>1, ValueLengthFinds
  <2>5. Len(ks) \in (i + 1)..Len(ks)
    <3>1. Len(ks) = n + 2
      BY <1>1
    <3> QED  BY <3>1
  <2>6. /\ a \in Seq(Kinds) /\ Len(a) = Len(ks) + 1 - (i + 1)
        /\ \A j \in 1..(Len(ks) + 1 - (i + 1)) : a[j] = ks[(i + 1) + j - 1]
    BY <1>1, <1>2, <2>5, SliceFrom
  <2>7. /\ b \in Seq(Kinds) /\ Len(b) = n + 1 - i /\ b # <<>>
        /\ \A j \in 1..(n + 1 - i) : b[j] = tokens[i + j - 1]
    BY <1>2, SliceFrom
  <2> HIDE DEF a, b, v
  <2>8. Len(b) <= Len(a) /\ v.n <= Len(b) /\ v.n \in Int
    <3>1. Len(ks) = n + 2 /\ Len(a) = Len(ks) + 1 - (i + 1) /\ Len(b) = n + 1 - i
          /\ k = (i + 1) + v.n - 1 /\ v.n \in 2..(Len(ks) + 1 - (i + 1)) /\ k \in (i + 1)..(n + 1)
      BY <1>1, <2>1, <2>4, <2>6, <2>7
    <3> HIDE DEF n
    <3>2. n \in Nat /\ i \in Nat
      BY <1>1
    <3> QED  BY <3>1, <3>2
  <2>9. \A j \in 1..Len(b) : b[j] = a[j]
    <3> SUFFICES ASSUME NEW j \in 1..Len(b) PROVE b[j] = a[j]
      OBVIOUS
    <3>1. j \in 1..(n + 1 - i) /\ j \in 1..(Len(ks) + 1 - (i + 1)) /\ i + j - 1 \in 1..n
          /\ (i + 1) + j - 1 = (i + j - 1) + 1
      BY <1>1, <2>7
    <3> QED  BY <1>1, <2>6, <2>7, <3>1
  <2>10. ValueLength(b) = v
    BY <2>4, <2>6, <2>7, <2>8, <2>9, LoopsAgree DEF v
  <2>11. e = i + v.n - 1
    BY <2>10, EndOfValueIs DEF e, b
  <2>12. e = k - 1
    BY <2>2, <2>4, <2>11
  <2>13. tokens[e] = EndOf(tokens[i]) /\ e + 1 = k
    BY <1>1, <2>2, <2>3, <2>12
  <2>14. Good(e + 1)
    BY <2>1, <2>13 DEF Good, ks
  <2>15. ValueLength(b).ok = TRUE
    BY <2>4, <2>10
  <2> QED  BY <1>1, <1>3, <1>4, <2>13, <2>14, <2>15 DEF IsWhole, b, e
<1> QED  BY <1>5, <1>6

-----------------------------------------------------------------------------
\* Where the values up to last start, from a position on: the recursion of ValuesBetween.
StartsStep(ks, last, i, from) ==
    IF i > last THEN {} ELSE {i} \cup from[EndOfValue(ks, i) + 1]

StartsLoop(ks, last, from) ==
    from = [i \in 1..(Len(ks) + 1) |-> StartsStep(ks, last, i, from)]

StartsFrom(ks, last) == CHOOSE from : StartsLoop(ks, last, from)

LEMMA StartsExist ==
    ASSUME NEW S, NEW ks \in Seq(S), NEW last \in 0..Len(ks)
    PROVE  \E from \in [1..(Len(ks) + 1) -> SUBSET Nat] : StartsLoop(ks, last, from)
<1> DEFINE N == Len(ks)
           T == SUBSET Nat
           G == [i \in 1..(N + 1) |-> [h \in [(i + 1)..(N + 1) -> T] |->
                                          StartsStep(ks, last, i, h)]]
<1>1. N \in Nat
  OBVIOUS
<1>2. ASSUME NEW i \in 1..(N + 1), ~(i > last)
      PROVE  EndOfValue(ks, i) + 1 \in (i + 1)..(N + 1)
  <2>1. i \in 1..N
    BY <1>2
  <2> QED  BY <2>1, EndIsBehind
<1>3. ASSUME NEW i \in 1..(N + 1), NEW h \in [(i + 1)..(N + 1) -> T]
      PROVE  G[i][h] \in T
  <2>1. G[i][h] = StartsStep(ks, last, i, h)
    OBVIOUS
  <2> HIDE DEF G
  <2>2. CASE i > last
    BY <2>1, <2>2 DEF StartsStep
  <2>3. CASE ~(i > last)
    <3>1. h[EndOfValue(ks, i) + 1] \in T /\ i \in Nat
      BY <1>2, <2>3
    <3> QED  BY <2>1, <2>3, <3>1 DEF StartsStep
  <2> QED  BY <2>2, <2>3
<1>4. PICK f : LooksAhead(f, N, T, G)
  <2> HIDE DEF G, N, T
  <2> QED  BY <1>1, <1>3, AheadExists
<1>5. ASSUME NEW i \in 1..(N + 1) PROVE f[i] = StartsStep(ks, last, i, f)
  <2> DEFINE h == [j \in (i + 1)..(N + 1) |-> f[j]]
  <2>1. f[i] = G[i][h] /\ h \in [(i + 1)..(N + 1) -> T]
    <3> HIDE DEF G, T
    <3> QED  BY <1>4 DEF LooksAhead
  <2>2. G[i][h] = StartsStep(ks, last, i, h)
    <3> HIDE DEF h, T
    <3> QED  BY <2>1
  <2>3. \A j \in (i + 1)..(N + 1) : h[j] = f[j]
    OBVIOUS
  <2> HIDE DEF h, G
  <2> QED  BY <1>2, <2>1, <2>2, <2>3 DEF StartsStep
<1>6. f \in [1..(N + 1) -> T]
  BY <1>4 DEF LooksAhead
<1> QED  BY <1>5, <1>6 DEF StartsLoop

LEMMA StartsDef ==
    ASSUME NEW S, NEW ks \in Seq(S), NEW last \in 0..Len(ks)
    PROVE  \A i \in 1..(Len(ks) + 1) :
              StartsFrom(ks, last)[i] =
                  IF i > last THEN {} ELSE {i} \cup StartsFrom(ks, last)[EndOfValue(ks, i) + 1]
<1> DEFINE f == StartsFrom(ks, last)
<1>1. StartsLoop(ks, last, f)
  <2>1. \E from : StartsLoop(ks, last, from)
    BY StartsExist
  <2> QED  BY <2>1, Zenon DEF StartsFrom
<1> HIDE DEF f
<1>2. \A i \in 1..(Len(ks) + 1) : f[i] = StartsStep(ks, last, i, f)
  BY <1>1 DEF StartsLoop
<1> QED  BY <1>2, Zenon DEF StartsStep, f

LEMMA ValuesBetweenIs ==
    ASSUME NEW first, NEW last
    PROVE  ValuesBetween(first, last)
               = {i \in StartsFrom(tokens, last)[first] : tokens[i] # "ws"}
  BY Zenon DEF ValuesBetween, StartsFrom, StartsLoop, StartsStep

\* W is where the values of a..(b - 1) start: they are closed, one begins where another ends,
\* and each token is in one.
Chain(W, a, b) ==
    /\ W \subseteq a..(b - 1) /\ a \in W \cup {b}
    /\ \A x \in W : IsWhole(x) /\ EndOfValue(tokens, x) \in x..(b - 1)
                    /\ EndOfValue(tokens, x) + 1 \in W \cup {b}
    /\ \A x \in W : \A y \in W \cup {b} : x < y => EndOfValue(tokens, x) < y
    /\ \A k \in a..(b - 1) : \E x \in W : x <= k /\ k <= EndOfValue(tokens, x)

LEMMA NoChain == \A b \in Nat : Chain({}, b, b)
  BY DEF Chain

LEMMA ChainMore ==
    ASSUME NEW a \in Nat, NEW b \in Nat, NEW e \in Nat, a <= e, e + 1 <= b, NEW V,
           e = EndOfValue(tokens, a), IsWhole(a), Chain(V, e + 1, b)
    PROVE  Chain({a} \cup V, a, b)
<1> DEFINE E(x) == EndOfValue(tokens, x)
           W == {a} \cup V
<1>1. /\ V \subseteq (e + 1)..(b - 1) /\ e + 1 \in V \cup {b}
      /\ \A x \in V : IsWhole(x) /\ E(x) \in x..(b - 1) /\ E(x) + 1 \in V \cup {b}
      /\ \A x \in V : \A y \in V \cup {b} : x < y => E(x) < y
      /\ \A k \in (e + 1)..(b - 1) : \E x \in V : x <= k /\ k <= E(x)
      /\ E(a) = e
  BY DEF Chain
<1> HIDE DEF E
<1>2. W \subseteq a..(b - 1) /\ a \in W \cup {b}
  BY <1>1
<1>3. \A x \in W : IsWhole(x) /\ E(x) \in x..(b - 1) /\ E(x) + 1 \in W \cup {b}
  BY <1>1
<1>4. ASSUME NEW x \in W, NEW y \in W \cup {b}, x < y PROVE E(x) < y
  <2>1. CASE x \in V
    <3>1. y # a
      BY <1>1, <1>4, <2>1
    <3> QED  BY <1>1, <1>4, <2>1, <3>1
  <2>2. CASE x \notin V
    <3>1. x = a /\ y \in V \cup {b}
      BY <1>4, <2>2
    <3>2. y >= e + 1 /\ y \in Nat
      BY <1>1, <3>1
    <3> QED  BY <1>1, <3>1, <3>2
  <2> QED  BY <2>1, <2>2
<1>5. ASSUME NEW k \in a..(b - 1) PROVE \E x \in W : x <= k /\ k <= E(x)
  <2>1. CASE k <= e
    <3>1. a \in W /\ a <= k /\ k <= E(a)
      BY <1>1, <2>1
    <3> QED  BY <3>1
  <2>2. CASE ~(k <= e)
    <3>1. k \in (e + 1)..(b - 1)
      BY <2>2
    <3> QED  BY <1>1, <3>1
  <2> QED  BY <2>1, <2>2
<1> QED  BY <1>2, <1>3, <1>4, <1>5, Zenon DEF Chain, E

\* The values up to the first one of some kinds, in a block.
LEMMA ChainTo ==
    ASSUME tokens \in Seq(Kinds), NEW a \in 1..(Len(tokens) + 1), Good(a), NEW kinds,
           NEW b \in 1..(Len(tokens) + 1), b = FirstValue(tokens, a, kinds)
    PROVE  Chain(StartsFrom(tokens, b - 1)[a], a, b)
<1> DEFINE N == Len(tokens)
           F == StartsFrom(tokens, b - 1)
           D == 1..(N + 1)
           rank == [j \in D |-> N + 1 - j]
           Fits(j) == Good(j) /\ b = FirstValue(tokens, j, kinds) => Chain(F[j], j, b)
           G == {j \in D : Fits(j)}
<1>1. N \in Nat /\ rank \in [D -> Nat] /\ b - 1 \in 0..N
  OBVIOUS
<1>2. \A i \in D : F[i] = IF i > b - 1 THEN {} ELSE {i} \cup F[EndOfValue(tokens, i) + 1]
  <2> HIDE DEF F
  <2> QED  BY <1>1, StartsDef DEF F
<1> HIDE DEF F
<1>3. ASSUME NEW j \in D, \A l \in D : rank[l] < rank[j] => l \in G
      PROVE  j \in G
  <2> SUFFICES ASSUME Good(j), b = FirstValue(tokens, j, kinds) PROVE Chain(F[j], j, b)
    OBVIOUS
  <2>1. FirstValue(tokens, j, kinds) = IF j > Len(tokens) \/ tokens[j] \in kinds THEN j
                                       ELSE FirstValue(tokens, EndOfValue(tokens, j) + 1, kinds)
    BY FirstValueDef
  <2>2. CASE j > Len(tokens) \/ tokens[j] \in kinds
    <3>1. b = j
      BY <2>1, <2>2
    <3>2. F[j] = {}
      <4>1. j > b - 1
        BY <3>1
      <4> QED  BY <1>2, <4>1
    <3>3. Chain({}, b, b)
      BY NoChain
    <3> QED  BY <3>1, <3>2, <3>3
  <2>3. CASE ~(j > Len(tokens) \/ tokens[j] \in kinds)
    <3> DEFINE e == EndOfValue(tokens, j)
    <3>1. j \in 1..N /\ b = FirstValue(tokens, e + 1, kinds)
      BY <2>1, <2>3
    <3>2. IsWhole(j) /\ Good(e + 1) /\ e \in j..N
      BY <3>1, GoodNext, EndIsBehind
    <3> HIDE DEF e
    <3>3. e + 1 \in D /\ rank[e + 1] < rank[j] /\ e \in Nat /\ j \in Nat /\ j <= e
      BY <1>1, <3>1, <3>2
    <3>4. Fits(e + 1)
      <4> HIDE DEF D, rank, Fits
      <4> QED  BY <1>3, <3>3
    <3>5. Chain(F[e + 1], e + 1, b)
      BY <3>1, <3>2, <3>4
    <3>6. FirstValue(tokens, e + 1, kinds) \in (e + 1)..(N + 1)
      BY <3>3, FirstValueType
    <3>7. e + 1 <= b /\ ~(j > b - 1)
      BY <3>1, <3>3, <3>6
    <3>8. F[j] = {j} \cup F[e + 1]
      BY <1>2, <3>7 DEF e
    <3>9. Chain({j} \cup F[e + 1], j, b)
      BY <3>2, <3>3, <3>5, <3>7, ChainMore DEF e
    <3> QED  BY <3>8, <3>9
  <2> QED  BY <2>2, <2>3
<1>4. D \subseteq G
  <2> HIDE DEF D, G, rank
  <2> QED  BY <1>1, <1>3, RankInduction
<1>5. Fits(a)
  BY <1>4
<1> QED  BY <1>5 DEF F

\* A value that ends with a token other than a closing one is that token.
LEMMA SingleEnd ==
    ASSUME tokens \in Seq(Kinds), NEW x \in 1..Len(tokens), IsWhole(x),
           tokens[EndOfValue(tokens, x)] \notin Closers
    PROVE  EndOfValue(tokens, x) = x
<1>1. ~Opens(tokens[x])
  BY EndsAreClosers DEF IsWhole
<1> QED  BY <1>1, EndOfValueIs

LEMMA NoClosers == "ws" \notin Closers /\ "!" \notin Closers /\ "important" \notin Closers
  BY DEF Closers

\* The white space at the start consists of values.
LEMMA SpaceIsValues ==
    ASSUME tokens \in Seq(Kinds), NEW a \in 1..(Len(tokens) + 1), NEW W, NEW b \in Nat,
           Chain(W, a, b), NEW start \in a..b,
           \A r \in a..(start - 1) : r \in 1..Len(tokens) /\ tokens[r] = "ws"
    PROVE  start \in W \cup {b}
<1> DEFINE n == start - a
           G == {d \in 0..n : a + d \in W \cup {b}}
<1>1. n \in Nat /\ a \in Nat /\ a + 0 = a
  OBVIOUS
<1>2. 0 \in G
  BY <1>1 DEF Chain
<1>3. ASSUME NEW d \in 0..(n - 1), d \in G PROVE d + 1 \in G
  <2> DEFINE x == a + d
  <2>1. x \in a..(start - 1) /\ x # b /\ d + 1 \in 0..n /\ x + 1 = a + (d + 1)
    BY <1>1
  <2>2. x \in W
    BY <1>3, <2>1
  <2> HIDE DEF x, n
  <2>3. x \in 1..Len(tokens) /\ tokens[x] = "ws"
    BY <2>1
  <2>4. EndOfValue(tokens, x) = x
    <3>1. ~Opens(tokens[x])
      BY <2>3 DEF Opens
    <3> QED  BY <2>3, <3>1, EndOfValueIs
  <2>5. x + 1 \in W \cup {b}
    BY <2>2, <2>4 DEF Chain
  <2> QED  BY <2>1, <2>5
<1>4. 0..n \subseteq G
  <2> HIDE DEF n, G
  <2> QED  BY <1>1, <1>2, <1>3, BoundedInduction
<1>5. n \in 0..n /\ a + n = start
  BY <1>1
<1> HIDE DEF n
<1>6. a + n \in W \cup {b}
  BY <1>4, <1>5
<1> QED  BY <1>5, <1>6

\* The value that ends with the last token before c that is no white space is the last one
\* before c that is none.
LastSolid(W, a, c, m, x) ==
    /\ x \in a..m /\ EndOfValue(tokens, x) = m /\ tokens[x] # "ws"
    /\ \A y \in W : y < c /\ tokens[y] # "ws" => y <= x
    /\ tokens[m] \notin Closers => x = m

LEMMA SolidEnd ==
    ASSUME tokens \in Seq(Kinds), NEW a \in 1..(Len(tokens) + 1), NEW b \in 1..(Len(tokens) + 1),
           NEW W, Chain(W, a, b), NEW c \in W \cup {b}, NEW m \in a..(c - 1),
           tokens[m] # "ws", \A k \in (m + 1)..(c - 1) : tokens[k] = "ws"
    PROVE  \E x \in W : LastSolid(W, a, c, m, x)
<1> DEFINE E(x) == EndOfValue(tokens, x)
<1>1. /\ W \subseteq a..(b - 1) /\ c \in a..b /\ m \in a..(b - 1)
      /\ \A x \in W : IsWhole(x) /\ E(x) \in x..(b - 1)
      /\ \A x \in W : \A y \in W \cup {b} : x < y => E(x) < y
  <2>1. /\ W \subseteq a..(b - 1) /\ a \in W \cup {b}
        /\ \A x \in W : IsWhole(x) /\ E(x) \in x..(b - 1)
        /\ \A x \in W : \A y \in W \cup {b} : x < y => E(x) < y
    BY DEF Chain
  <2>2. a \in Nat /\ b \in Nat /\ a <= b
    <3> HIDE DEF E
    <3> QED  BY <2>1
  <2>3. c \in a..b
    <3> HIDE DEF E
    <3> QED  BY <2>1, <2>2
  <2>4. m \in a..(b - 1)
    <3> HIDE DEF E
    <3> QED  BY <2>2, <2>3
  <2> QED  BY <2>1, <2>3, <2>4
<1>2. PICK x \in W : x <= m /\ m <= E(x)
  BY <1>1 DEF Chain
<1>3. x \in 1..Len(tokens) /\ IsWhole(x) /\ x \in a..m /\ x < c /\ E(x) < c /\ E(x) \in m..(c - 1)
  <2> HIDE DEF E
  <2>1. x \in 1..Len(tokens) /\ IsWhole(x) /\ x \in a..m /\ x < c
    BY <1>1, <1>2
  <2>2. E(x) < c
    BY <1>1, <2>1
  <2>3. E(x) \in m..(c - 1)
    BY <1>1, <1>2, <2>1, <2>2
  <2> QED  BY <2>1, <2>2, <2>3
<1>4. E(x) = m
  <2> SUFFICES ASSUME E(x) # m PROVE FALSE
    OBVIOUS
  <2>1. E(x) \in (m + 1)..(c - 1) /\ E(x) # x
    <3> HIDE DEF E
    <3> QED  BY <1>3
  <2>2. tokens[E(x)] = "ws"
    BY <2>1
  <2>3. E(x) = x
    BY <1>3, <2>2, SingleEnd, NoClosers
  <2> QED  BY <2>1, <2>3
<1>5. tokens[m] \notin Closers => x = m
  BY <1>3, <1>4, SingleEnd
<1>6. tokens[x] # "ws"
  <2> SUFFICES ASSUME tokens[x] = "ws" PROVE FALSE
    OBVIOUS
  <2>1. ~Opens(tokens[x])
    BY DEF Opens
  <2>2. E(x) = x
    BY <1>3, <2>1, EndOfValueIs
  <2> QED  BY <1>4, <2>2
<1>7. ASSUME NEW y \in W, y < c, tokens[y] # "ws" PROVE y <= x
  <2> SUFFICES ASSUME ~(y <= x) PROVE FALSE
    OBVIOUS
  <2>1. x < y /\ y \in Nat
    BY <1>1, <1>3
  <2>2. m < y
    BY <1>1, <1>4, <2>1
  <2>3. y \in (m + 1)..(c - 1)
    BY <1>1, <1>7, <2>1, <2>2
  <2> QED  BY <1>7, <2>3
<1> QED  BY <1>3, <1>4, <1>5, <1>6, <1>7 DEF LastSolid

\* Where a value ends in a slice that ends where one does.
LEMMA EndInSlice ==
    ASSUME tokens \in Seq(Kinds), NEW s \in 1..Len(tokens), NEW m \in s..Len(tokens),
           NEW x \in s..m, IsWhole(x), EndOfValue(tokens, x) <= m
    PROVE  EndOfValue(SubSeq(tokens, s, m), x - s + 1) = EndOfValue(tokens, x) - s + 1
<1> DEFINE ks == SubSeq(tokens, s, m)
           k == x - s + 1
           n == Len(tokens)
           e == EndOfValue(tokens, x)
           p == SubSeq(tokens, x, n)
           q == SubSeq(ks, k, Len(ks))
<1>1. ks \in Seq(Kinds) /\ Len(ks) = m + 1 - s /\ \A j \in 1..(m + 1 - s) : ks[j] = tokens[s + j - 1]
  BY SliceFrom
<1> HIDE DEF ks
<1>2. /\ n \in Nat /\ x \in 1..n /\ n \in x..n /\ s + k - 1 = x /\ k \in 1..(m + 1 - s)
      /\ Len(ks) \in k..Len(ks) /\ k \in 1..Len(ks) /\ Len(ks) + 1 - k = m + 1 - x
  BY <1>1
<1>3. p \in Seq(Kinds) /\ Len(p) = n + 1 - x /\ \A j \in 1..(n + 1 - x) : p[j] = tokens[x + j - 1]
  BY <1>2, SliceFrom
<1>4. /\ q \in Seq(Kinds) /\ Len(q) = m + 1 - x /\ q # <<>>
      /\ \A j \in 1..(m + 1 - x) : q[j] = ks[k + j - 1]
  <2> HIDE DEF k, q
  <2>1. /\ SubSeq(ks, k, Len(ks)) \in Seq(Kinds) /\ Len(SubSeq(ks, k, Len(ks))) = Len(ks) + 1 - k
        /\ SubSeq(ks, k, Len(ks)) # <<>>
        /\ \A j \in 1..(Len(ks) + 1 - k) : SubSeq(ks, k, Len(ks))[j] = ks[k + j - 1]
    BY <1>1, <1>2, SliceFrom
  <2> QED  BY <1>2, <2>1 DEF q
<1> HIDE DEF p, q, n, k
<1>5. Len(q) <= Len(p)
  <2>1. m \in Nat /\ x \in Nat /\ m <= n
    BY DEF n
  <2> QED  BY <1>2, <1>3, <1>4, <2>1
<1>6. \A j \in 1..Len(q) : q[j] = p[j]
  <2> SUFFICES ASSUME NEW j \in 1..Len(q) PROVE q[j] = p[j]
    OBVIOUS
  <2>1. /\ m \in Nat /\ x \in Nat /\ m <= n /\ s \in Nat /\ k \in Nat /\ k = x - s + 1 /\ x >= s
        /\ x <= m
    BY <1>2 DEF n, k
  <2>2. j \in 1..(m + 1 - x)
    BY <1>4
  <2>3. /\ j \in 1..(m + 1 - x) /\ j \in 1..(n + 1 - x) /\ k + j - 1 \in 1..(m + 1 - s)
        /\ s + (k + j - 1) - 1 = x + j - 1
    BY <1>2, <2>1, <2>2
  <2> QED  BY <1>1, <1>3, <1>4, <2>3
<1>7. /\ e = x + ValueLength(p).n - 1 /\ ValueLength(p).n \in 1..(n + 1 - x)
      /\ EndOfValue(ks, k) = k + ValueLength(q).n - 1
  <2>1. e = x + ValueLength(p).n - 1
    BY <1>2, EndOfValueIs DEF p, n
  <2>2. ValueLength(p).n \in 1..(n + 1 - x)
    BY <1>2, ValueLengthType DEF p, n
  <2>3. EndOfValue(ks, k) = k + ValueLength(q).n - 1
    BY <1>1, <1>2, EndOfValueIs DEF q
  <2> QED  BY <2>1, <2>2, <2>3
<1>8. ValueLength(p).ok = TRUE
  <2>1. CASE Opens(tokens[x])
    BY <2>1 DEF IsWhole, p, n
  <2>2. CASE ~Opens(tokens[x])
    BY <1>2, <2>2, ValueLengthOfToken DEF p, n
  <2> QED  BY <2>1, <2>2
<1> DEFINE w == ValueLength(p).n
<1>9. w <= Len(q)
  <2>1. e = x + w - 1 /\ w \in 1..(n + 1 - x) /\ e <= m
    BY <1>7
  <2> HIDE DEF w, e
  <2> QED  BY <1>2, <1>4, <2>1
<1>10. ValueLength(q) = ValueLength(p)
  BY <1>3, <1>4, <1>5, <1>6, <1>8, <1>9, LoopsAgree
<1>11. EndOfValue(ks, k) = k + w - 1 /\ e = x + w - 1 /\ w \in Int
  BY <1>7, <1>10
<1> HIDE DEF w, e
<1>12. k + w - 1 = e - s + 1
  BY <1>2, <1>11
<1> QED  BY <1>11, <1>12 DEF ks, k, e

-----------------------------------------------------------------------------
\* Where the values of a slice start: the list of ValueStarts, and the set of StartsFrom.
ListStep(ks, i, from) ==
    IF i > Len(ks) THEN <<>>
    ELSE <<i>> \o from[i + ValueLength(SubSeq(ks, i, Len(ks))).n]

ListLoop(ks, from) == from = [i \in 1..(Len(ks) + 1) |-> ListStep(ks, i, from)]

LEMMA ListExists ==
    ASSUME NEW S, NEW ks \in Seq(S)
    PROVE  \E from \in [1..(Len(ks) + 1) -> Seq(Nat)] : ListLoop(ks, from)
<1> DEFINE N == Len(ks)
           T == Seq(Nat)
           after(i) == i + ValueLength(SubSeq(ks, i, Len(ks))).n
           G == [i \in 1..(N + 1) |-> [h \in [(i + 1)..(N + 1) -> T] |-> ListStep(ks, i, h)]]
<1>1. N \in Nat
  OBVIOUS
<1>2. ASSUME NEW i \in 1..(N + 1), ~(i > N)
      PROVE  after(i) \in (i + 1)..(N + 1)
  <2> DEFINE v == ValueLength(SubSeq(ks, i, Len(ks)))
  <2>1. i \in 1..N
    BY <1>2
  <2>2. v.n \in 1..(N + 1 - i)
    BY <2>1, ValueLengthType
  <2> HIDE DEF v
  <2>3. i + v.n \in (i + 1)..(N + 1)
    BY <1>1, <2>1, <2>2
  <2> QED  BY <2>3 DEF v
<1>3. ASSUME NEW i \in 1..(N + 1), NEW h \in [(i + 1)..(N + 1) -> T]
      PROVE  G[i][h] \in T
  <2>1. G[i][h] = ListStep(ks, i, h)
    OBVIOUS
  <2> HIDE DEF G
  <2>2. CASE i > N
    BY <2>1, <2>2 DEF ListStep
  <2>3. CASE ~(i > N)
    <3>1. h[after(i)] \in T
      <4> HIDE DEF after
      <4> QED  BY <1>2, <2>3
    <3>2. <<i>> \in T
      OBVIOUS
    <3> DEFINE t == h[after(i)]
    <3>3. t \in Seq(Nat)
      BY <3>1
    <3> HIDE DEF t
    <3>4. <<i>> \o t \in T
      BY <3>2, <3>3, ConcatProperties
    <3> QED  BY <2>1, <2>3, <3>4, Zenon DEF ListStep, t, after
  <2> QED  BY <2>2, <2>3
<1>4. PICK f : LooksAhead(f, N, T, G)
  <2> HIDE DEF G, N, T
  <2> QED  BY <1>1, <1>3, AheadExists
<1>5. ASSUME NEW i \in 1..(N + 1) PROVE f[i] = ListStep(ks, i, f)
  <2> DEFINE h == [j \in (i + 1)..(N + 1) |-> f[j]]
  <2>1. f[i] = G[i][h] /\ h \in [(i + 1)..(N + 1) -> T]
    <3> HIDE DEF G, T
    <3> QED  BY <1>4 DEF LooksAhead
  <2>2. G[i][h] = ListStep(ks, i, h)
    <3> HIDE DEF h, T
    <3> QED  BY <2>1
  <2>3. \A j \in (i + 1)..(N + 1) : h[j] = f[j]
    OBVIOUS
  <2> HIDE DEF h, G
  <2>4. CASE i > N
    BY <2>1, <2>2, <2>4 DEF ListStep
  <2>5. CASE ~(i > N)
    <3>1. h[after(i)] = f[after(i)]
      <4> HIDE DEF after
      <4> QED  BY <1>2, <2>3, <2>5
    <3> QED  BY <2>1, <2>2, <3>1, <2>5, Zenon DEF ListStep, after
  <2> QED  BY <2>4, <2>5
<1>6. f \in [1..(N + 1) -> T]
  BY <1>4 DEF LooksAhead
<1>7. ListLoop(ks, f)
  BY <1>5, <1>6 DEF ListLoop
<1> QED  BY <1>6, <1>7

LEMMA OneMore ==
    ASSUME NEW i \in Nat, NEW t \in Seq(Nat)
    PROVE  <<i>> \o t \in Seq(Nat) /\ ToSet(<<i>> \o t) = {i} \cup ToSet(t)
<1> DEFINE o == <<i>>
           u == o \o t
<1>1. o \in Seq(Nat) /\ Len(o) = 1 /\ o[1] = i /\ Len(t) \in Nat
  OBVIOUS
<1> HIDE DEF o
<1>2. /\ u \in Seq(Nat) /\ Len(u) = Len(o) + Len(t)
      /\ \A j \in 1..(Len(o) + Len(t)) : u[j] = IF j <= Len(o) THEN o[j] ELSE t[j - Len(o)]
  BY <1>1, ConcatProperties
<1> HIDE DEF u
<1> DEFINE n == Len(t)
<1>3. Len(u) = 1 + n /\ \A j \in 1..(1 + n) : u[j] = IF j <= 1 THEN o[j] ELSE t[j - 1]
  BY <1>1, <1>2
<1>4. DOMAIN u = 1..(1 + n) /\ DOMAIN t = 1..n /\ n \in Nat
  BY <1>1, <1>2, <1>3
<1> HIDE DEF n
<1>5. ToSet(u) \subseteq {i} \cup ToSet(t)
  <2> SUFFICES ASSUME NEW j \in 1..(1 + n) PROVE u[j] \in {i} \cup ToSet(t)
    BY <1>4 DEF ToSet
  <2>1. CASE j = 1
    BY <1>1, <1>3, <2>1
  <2>2. CASE j # 1
    <3>1. j - 1 \in 1..n /\ ~(j <= 1)
      BY <1>4, <2>2
    <3> QED  BY <1>3, <1>4, <3>1 DEF ToSet
  <2> QED  BY <2>1, <2>2
<1>6. {i} \cup ToSet(t) \subseteq ToSet(u)
  <2>1. 1 \in 1..(1 + n) /\ u[1] = i
    BY <1>1, <1>3, <1>4
  <2>2. i \in ToSet(u)
    BY <1>4, <2>1 DEF ToSet
  <2>3. ASSUME NEW j \in 1..n PROVE t[j] \in ToSet(u)
    <3>1. j + 1 \in 1..(1 + n) /\ ~(j + 1 <= 1) /\ (j + 1) - 1 = j
      BY <1>4
    <3>2. u[j + 1] = t[j]
      BY <1>3, <3>1
    <3> QED  BY <1>4, <3>1, <3>2 DEF ToSet
  <2> QED  BY <1>4, <2>2, <2>3 DEF ToSet
<1> QED  BY <1>2, <1>5, <1>6 DEF u, o

LEMMA ListedStarts ==
    ASSUME NEW S, NEW ks \in Seq(S)
    PROVE  ToSet(ValueStarts(ks)) = StartsFrom(ks, Len(ks))[1]
<1> DEFINE N == Len(ks)
           f == CHOOSE from : ListLoop(ks, from)
           F == StartsFrom(ks, N)
           D == 1..(N + 1)
           rank == [j \in D |-> N + 1 - j]
           Same(j) == f[j] \in Seq(Nat) /\ ToSet(f[j]) = F[j]
           G == {j \in D : Same(j)}
<1>1. N \in Nat /\ rank \in [D -> Nat] /\ N \in 0..Len(ks)
  OBVIOUS
<1>2. ListLoop(ks, f)
  <2>1. \E from : ListLoop(ks, from)
    BY ListExists
  <2> QED  BY <2>1, Zenon
<1>3. ValueStarts(ks) = f[1]
  BY Zenon DEF ValueStarts, ListLoop, ListStep
<1> HIDE DEF f
<1>4. \A i \in D : f[i] = ListStep(ks, i, f)
  BY <1>2 DEF ListLoop
<1>5. \A i \in D : F[i] = IF i > N THEN {} ELSE {i} \cup F[EndOfValue(ks, i) + 1]
  <2> HIDE DEF F
  <2> QED  BY <1>1, StartsDef DEF F
<1> HIDE DEF F
<1>6. ASSUME NEW j \in D, \A l \in D : rank[l] < rank[j] => l \in G
      PROVE  j \in G
  <2>1. CASE j > N
    <3>1. f[j] = <<>> /\ F[j] = {}
      BY <1>4, <1>5, <2>1 DEF ListStep
    <3>2. ToSet(<<>>) = {} /\ <<>> \in Seq(Nat)
      BY NothingIsAList DEF ToSet
    <3>3. Same(j)
      BY <3>1, <3>2, Zenon
    <3> HIDE DEF Same
    <3> QED  BY <3>3
  <2>2. CASE ~(j > N)
    <3> DEFINE v == ValueLength(SubSeq(ks, j, Len(ks)))
               e == EndOfValue(ks, j)
    <3>1. j \in 1..N /\ j \in Nat
      BY <2>2
    <3>2. e = j + v.n - 1 /\ e \in j..N
      BY <3>1, EndOfValueIs
    <3>3. v.n \in 1..(N + 1 - j)
      BY <3>1, ValueLengthType
    <3>4. f[j] = <<j>> \o f[j + v.n]
      BY <1>4, <2>2, Zenon DEF ListStep
    <3>5. F[j] = {j} \cup F[e + 1]
      BY <1>5, <2>2
    <3> HIDE DEF v, e
    <3>6. j + v.n = e + 1 /\ e + 1 \in D /\ rank[e + 1] < rank[j]
      BY <1>1, <3>1, <3>2, <3>3
    <3>7. Same(e + 1)
      <4> HIDE DEF D, rank, Same
      <4> QED  BY <1>6, <3>6
    <3>8. f[j] = <<j>> \o f[e + 1]
      BY <3>4, <3>6
    <3> QED  BY <3>1, <3>5, <3>7, <3>8, OneMore
  <2> QED  BY <2>1, <2>2
<1>7. D \subseteq G
  <2> HIDE DEF D, G, rank
  <2> QED  BY <1>1, <1>6, RankInduction
<1>8. 1 \in D
  BY <1>1
<1> QED  BY <1>3, <1>7, <1>8 DEF F

\* The values of a stretch of a chain are the values of its slice.
Stretch(W, first, last) == {w \in W : first <= w /\ w <= last}

LEMMA SliceStarts ==
    ASSUME tokens \in Seq(Kinds), NEW a \in 1..(Len(tokens) + 1), NEW b \in 1..(Len(tokens) + 1),
           NEW W, Chain(W, a, b), NEW s \in 1..Len(tokens), s \in W, NEW m \in s..(b - 1),
           m + 1 \in W \cup {b}
    PROVE  LET ks == SubSeq(tokens, s, m)
           IN /\ ks \in Seq(Kinds) /\ Len(ks) = m + 1 - s
              /\ \A j \in 1..(m + 1 - s) : ks[j] = tokens[s + j - 1]
              /\ StartsFrom(ks, Len(ks))[1] = {y - s + 1 : y \in Stretch(W, s, m)}
<1> DEFINE ks == SubSeq(tokens, s, m)
           N == Len(tokens)
           L == m + 1 - s
           F == StartsFrom(ks, L)
           E(x) == EndOfValue(tokens, x)
           R(x) == {y - s + 1 : y \in Stretch(W, x, m)}
           D == {x \in W \cup {b} : s <= x /\ x <= m + 1}
           rank == [x \in D |-> m + 1 - x]
           G == {x \in D : F[x - s + 1] = R(x)}
<1>1. /\ W \subseteq a..(b - 1)
      /\ \A x \in W : IsWhole(x) /\ E(x) \in x..(b - 1) /\ E(x) + 1 \in W \cup {b}
      /\ \A x \in W : \A y \in W \cup {b} : x < y => E(x) < y
  BY DEF Chain
<1>2. /\ N \in Nat /\ a \in Nat /\ a >= 1 /\ b \in Nat /\ b <= N + 1 /\ s \in Nat /\ m \in Nat
      /\ s <= m /\ m <= b - 1 /\ m <= N /\ m \in s..N /\ L \in Nat /\ s >= 1
  OBVIOUS
<1>3. ks \in Seq(Kinds) /\ Len(ks) = L /\ \A j \in 1..L : ks[j] = tokens[s + j - 1]
  BY <1>2, SliceFrom
<1>4. \A i \in 1..(L + 1) : F[i] = IF i > L THEN {} ELSE {i} \cup F[EndOfValue(ks, i) + 1]
  <2>1. L \in 0..Len(ks)
    BY <1>2, <1>3
  <2> HIDE DEF F, ks
  <2> QED  BY <1>3, <2>1, StartsDef DEF F
<1>5. \A x \in W \cup {b} : x \in Nat
  <2> HIDE DEF E
  <2> QED  BY <1>1, <1>2
<1> HIDE DEF F, E, N
<1>6. rank \in [D -> Nat]
  <2>1. \A x \in D : m + 1 - x \in Nat
    BY <1>2, <1>5
  <2> HIDE DEF D
  <2> QED  BY <2>1
<1>7. ASSUME NEW x \in D, \A l \in D : rank[l] < rank[x] => l \in G
      PROVE  x \in G
  <2> HIDE DEF ks, L, R
  <2>1. x \in Nat /\ s <= x /\ x <= m + 1 /\ x \in W \cup {b} /\ x - s + 1 \in 1..(L + 1)
    BY <1>2, <1>5 DEF L
  <2>2. CASE x = m + 1
    <3>1. x - s + 1 > L
      BY <1>2, <2>2 DEF L
    <3>2. F[x - s + 1] = {}
      BY <1>4, <2>1, <3>1
    <3>3. Stretch(W, x, m) = {}
      <4>1. \A w \in W : ~(x <= w /\ w <= m)
        BY <1>2, <1>5, <2>2
      <4> QED  BY <4>1 DEF Stretch
    <3>4. R(x) = {}
      BY <3>3 DEF R
    <3> QED  BY <3>2, <3>4
  <2>3. CASE x # m + 1
    <3>1. x \in s..m /\ x \in W /\ ~(x - s + 1 > L) /\ x <= m /\ x < m + 1 /\ x \in 1..N
      BY <1>2, <2>1, <2>3 DEF L
    <3>2. IsWhole(x) /\ E(x) \in x..(b - 1) /\ E(x) + 1 \in W \cup {b} /\ E(x) < m + 1
      BY <1>1, <3>1
    <3>3. E(x) \in Nat /\ x <= E(x) /\ E(x) <= m
      BY <1>2, <2>1, <3>2
    <3>4. EndOfValue(ks, x - s + 1) = E(x) - s + 1
      <4>1. s \in 1..Len(tokens) /\ m \in s..Len(tokens)
        BY <1>2 DEF N
      <4>2. EndOfValue(tokens, x) <= m
        BY <3>3 DEF E
      <4> QED  BY <3>1, <3>2, <4>1, <4>2, EndInSlice DEF E, ks
    <3> DEFINE e == E(x)
    <3>5. e + 1 \in D /\ rank[e + 1] < rank[x] /\ (e - s + 1) + 1 = (e + 1) - s + 1
      BY <1>2, <2>1, <3>2, <3>3
    <3>6. F[(e + 1) - s + 1] = R(e + 1)
      <4>1. e + 1 \in G
        <5> HIDE DEF D, rank, G, e
        <5> QED  BY <1>7, <3>5
      <4> QED  BY <4>1
    <3>7. F[x - s + 1] = {x - s + 1} \cup R(e + 1)
      <4>1. F[x - s + 1] = {x - s + 1} \cup F[EndOfValue(ks, x - s + 1) + 1]
        BY <1>4, <2>1, <3>1
      <4> HIDE DEF e
      <4> QED  BY <3>4, <3>5, <3>6, <4>1 DEF e
    <3>8. Stretch(W, x, m) = {x} \cup Stretch(W, e + 1, m)
      <4>1. ASSUME NEW w \in W, x <= w, w <= m, w # x PROVE e + 1 <= w
        <5>1. x < w /\ w \in Nat
          BY <1>5, <2>1, <4>1
        <5>2. e < w
          BY <1>1, <3>1, <5>1
        <5> QED  BY <3>3, <5>1, <5>2
      <4>2. \A w \in W : e + 1 <= w => x <= w
        BY <1>5, <2>1, <3>3
      <4> HIDE DEF e
      <4>3. x \in W /\ x <= x /\ x <= m
        BY <2>1, <3>1
      <4>4. \A w : w \in Stretch(W, x, m) <=> w \in {x} \cup Stretch(W, e + 1, m)
        BY <4>1, <4>2, <4>3, Zenon DEF Stretch
      <4> QED  BY <4>4, Zenon
    <3>9. R(x) = {x - s + 1} \cup R(e + 1)
      <4> HIDE DEF e
      <4> QED  BY <3>8 DEF R
    <3> QED  BY <3>7, <3>9
  <2> QED  BY <2>2, <2>3
<1>8. D \subseteq G
  <2> HIDE DEF D, G, rank
  <2> QED  BY <1>6, <1>7, RankInduction
<1>9. s \in D /\ s - s + 1 = 1
  BY <1>2
<1>10. F[1] = R(s)
  <2>1. F[s - s + 1] = R(s)
    BY <1>8, <1>9
  <2> HIDE DEF R
  <2> QED  BY <1>9, <2>1
<1> HIDE DEF ks, L, R
<1>11. StartsFrom(ks, Len(ks))[1] = R(s)
  BY <1>3, <1>10 DEF F
<1> QED  BY <1>3, <1>11 DEF ks, L, R

LEMMA KindsAtPositions ==
    ASSUME tokens \in Seq(Kinds), NEW s \in 1..Len(tokens), NEW m \in s..Len(tokens)
    PROVE  KindsAt(Positions(s, m)) = SubSeq(tokens, s, m)
<1> DEFINE ps == Positions(s, m)
           L == m + 1 - s
           ks == SubSeq(tokens, s, m)
<1>1. s \in Nat \ {0} /\ m \in Nat /\ s <= m + 1 /\ L \in Nat /\ s >= 1 /\ m <= Len(tokens)
      /\ Len(tokens) \in Nat
  OBVIOUS
<1>2. ps \in Seq(Nat) /\ Len(ps) = L /\ \A i \in 1..L : ps[i] = s + i - 1
  BY <1>1, PositionsType
<1>3. ks \in Seq(Kinds) /\ Len(ks) = L /\ \A j \in 1..L : ks[j] = tokens[s + j - 1]
  BY SliceFrom
<1> HIDE DEF ps, ks
<1>4. KindsAt(ps) = [i \in 1..L |-> tokens[ps[i]]]
  BY <1>2 DEF KindsAt
<1>5. \A i \in 1..L : tokens[ps[i]] = ks[i]
  BY <1>2, <1>3
<1>6. ks = [i \in 1..L |-> ks[i]]
  BY <1>3
<1>7. KindsAt(ps) = ks
  BY <1>4, <1>5, <1>6
<1> QED  BY <1>7 DEF ps, ks

-----------------------------------------------------------------------------
\* The values that are no white space, and whether one of a kind is alone among them.
Solid(W) == {w \in W : tokens[w] # "ws"}

Alone(Z, kind) == \A p \in Z : tokens[p] = kind => Z = {p}

IsCustom(d) == tokens[d.name] = "custom"

LEMMA ValidIs ==
    ASSUME tokens \in Seq(Kinds), NEW a \in 1..(Len(tokens) + 1), NEW b \in 1..(Len(tokens) + 1),
           NEW W, Chain(W, a, b), NEW s \in 1..Len(tokens), s \in W, NEW m \in s..(b - 1),
           m + 1 \in W \cup {b}, NEW d, d.value = Positions(s, m)
    PROVE  IsValid(d) <=> (~IsCustom(d) => Alone(Solid(Stretch(W, s, m)), "{"))
<1> DEFINE ks == SubSeq(tokens, s, m)
           L == m + 1 - s
           Z == Stretch(W, s, m)
           K == Solid(Z)
           solid == {p \in ToSet(ValueStarts(ks)) : ks[p] # "ws"}
<1>1. /\ ks \in Seq(Kinds) /\ Len(ks) = L /\ \A j \in 1..L : ks[j] = tokens[s + j - 1]
      /\ StartsFrom(ks, Len(ks))[1] = {y - s + 1 : y \in Z}
  BY SliceStarts
<1>2. ToSet(ValueStarts(ks)) = {y - s + 1 : y \in Z}
  <2> HIDE DEF ks
  <2> QED  BY <1>1, ListedStarts
<1>3. KindsAt(d.value) = ks
  <2>1. m \in s..Len(tokens)
    OBVIOUS
  <2> QED  BY <2>1, KindsAtPositions
<1>4. \A y \in Z : y \in Nat /\ y - s + 1 \in 1..L /\ s + (y - s + 1) - 1 = y
  <2>1. W \subseteq a..(b - 1)
    BY DEF Chain
  <2> QED  BY <2>1 DEF Stretch
<1> HIDE DEF ks, L
<1>5. \A y \in Z : ks[y - s + 1] = tokens[y]
  BY <1>1, <1>4
<1>6. solid = {y - s + 1 : y \in K}
  <2> HIDE DEF Z
  <2> QED  BY <1>2, <1>5 DEF Solid
<1>7. ASSUME NEW kind
      PROVE  (\A p, q \in solid : ks[p] = kind => q = p) <=> Alone(K, kind)
  <2>1. K \subseteq Z
    BY DEF Solid
  <2> HIDE DEF K, Z, solid
  <2>2. ASSUME \A p, q \in solid : ks[p] = kind => q = p, NEW y \in K, tokens[y] = kind
        PROVE  K = {y}
    <3> SUFFICES ASSUME NEW z \in K PROVE z = y
      BY <2>2
    <3>1. y - s + 1 \in solid /\ z - s + 1 \in solid /\ ks[y - s + 1] = kind
      BY <1>5, <1>6, <2>1, <2>2
    <3>2. z - s + 1 = y - s + 1
      BY <2>2, <3>1
    <3> QED  BY <1>4, <2>1, <3>2
  <2>3. ASSUME Alone(K, kind), NEW p \in solid, NEW q \in solid, ks[p] = kind PROVE q = p
    <3>1. PICK y \in K : p = y - s + 1
      BY <1>6
    <3>2. PICK z \in K : q = z - s + 1
      BY <1>6
    <3>3. tokens[y] = kind
      BY <1>5, <2>1, <2>3, <3>1
    <3>4. z = y
      BY <2>3, <3>3 DEF Alone
    <3> QED  BY <3>1, <3>2, <3>4
  <2> QED  BY <2>2, <2>3 DEF Alone
<1> HIDE DEF K
<1>8. IsValid(d) <=> (tokens[d.name] # "custom" => \A p, q \in solid : ks[p] = "{" => q = p)
  BY <1>3, Zenon DEF IsValid
<1> HIDE DEF solid, Z
<1>9. (\A p, q \in solid : ks[p] = "{" => q = p) <=> Alone(K, "{")
  BY <1>7, Zenon
<1> QED  BY <1>8, <1>9, Zenon DEF IsCustom, K, Z

LEMMA ValidNothing ==
    ASSUME NEW d, d.value = <<>>
    PROVE  IsValid(d)
<1>1. KindsAt(d.value) = <<>>
  BY DEF KindsAt
<1> DEFINE o == <<>>
<1>2. o \in Seq(Kinds) /\ Len(o) = 0 /\ 0 \in 0..Len(o) /\ 1 \in 1..(Len(o) + 1) /\ 1 > 0
  OBVIOUS
<1>3. ToSet(ValueStarts(<<>>)) = StartsFrom(<<>>, 0)[1]
  BY <1>2, ListedStarts
<1>4. StartsFrom(<<>>, 0)[1] = {}
  <2>1. \A ks \in Seq(Kinds) : \A l \in 0..Len(ks) : \A i \in 1..(Len(ks) + 1) :
           StartsFrom(ks, l)[i] =
               IF i > l THEN {} ELSE {i} \cup StartsFrom(ks, l)[EndOfValue(ks, i) + 1]
    BY StartsDef
  <2> HIDE DEF o
  <2>2. StartsFrom(o, 0)[1] = {}
    BY <1>2, <2>1, Zenon
  <2> QED  BY <2>2 DEF o
<1>5. {p \in ToSet(ValueStarts(<<>>)) : <<>>[p] # "ws"} = {}
  BY <1>3, <1>4
<1> QED  BY <1>1, <1>5, Zenon DEF IsValid

-----------------------------------------------------------------------------
\* A list of positions without the white space at its end.
LEMMA TrimmedPositions ==
    ASSUME NEW s \in Nat \ {0}, NEW l \in Nat, s <= l + 1
    PROVE  \E m \in (s - 1)..l : /\ Trimmed(Positions(s, l)) = Positions(s, m)
                                 /\ \A k \in (m + 1)..l : tokens[k] = "ws"
                                 /\ m >= s => tokens[m] # "ws"
<1> DEFINE v == Positions(s, l)
<1>1. v \in Seq(Nat) /\ Len(v) = l + 1 - s /\ \A i \in 1..(l + 1 - s) : v[i] = s + i - 1
  BY PositionsType
<1> HIDE DEF v
<1>2. PICK c \in 0..Len(v) :
        /\ Trimmed(v) = SubSeq(v, 1, c) /\ Trimmed(v) \in Seq(Nat) /\ Len(Trimmed(v)) = c
        /\ \A j \in (c + 1)..Len(v) : tokens[v[j]] = "ws"
        /\ c # 0 => tokens[v[c]] # "ws"
  BY <1>1, TrimmedIs
<1> DEFINE m == s + c - 1
<1>3. m \in (s - 1)..l /\ c \in Nat /\ c = m + 1 - s /\ m \in Nat /\ s <= m + 1
  BY <1>1
<1>4. Positions(s, m) \in Seq(Nat) /\ Len(Positions(s, m)) = c
      /\ \A i \in 1..c : Positions(s, m)[i] = s + i - 1
  <2> HIDE DEF m
  <2> QED  BY <1>3, PositionsType
<1>5. Trimmed(v) = Positions(s, m)
  <2>1. \A i \in 1..c : SubSeq(v, 1, c)[i] = s + i - 1
    <3>1. \A i \in 1..Len(v) : v[i] \in Nat
      BY <1>1
    <3>2. 1 \in Int /\ c \in Int /\ c - 1 + 1 = c /\ \A i \in 1..c : 1 + i - 1 = i /\ i \in 1..Len(v)
      BY <1>1
    <3>3. \A i \in 1..(c - 1 + 1) : SubSeq(v, 1, c)[i] = v[1 + i - 1]
      BY <3>1, <3>2, SubSeqProperties
    <3> QED  BY <1>1, <3>2, <3>3
  <2> HIDE DEF m
  <2> QED  BY <1>2, <1>4, <2>1, SeqEqual
<1>6. ASSUME NEW k \in (m + 1)..l PROVE tokens[k] = "ws"
  <2>1. k + 1 - s \in (c + 1)..Len(v) /\ k + 1 - s \in 1..(l + 1 - s) /\ s + (k + 1 - s) - 1 = k
    BY <1>1, <1>3
  <2>2. v[k + 1 - s] = k
    BY <1>1, <2>1
  <2> QED  BY <1>2, <2>1, <2>2
<1>7. ASSUME m >= s PROVE tokens[m] # "ws"
  <2>1. c # 0 /\ c \in 1..(l + 1 - s) /\ s + c - 1 = m
    BY <1>1, <1>3, <1>7
  <2>2. v[c] = m
    BY <1>1, <2>1
  <2> QED  BY <1>2, <2>1, <2>2
<1> HIDE DEF m
<1> QED  BY <1>3, <1>5, <1>6, <1>7 DEF v

\* The tokens of the values of a set, from the first to the last.
Ends(Z) == IF Z = {} THEN <<>> ELSE Positions(Min(Z), EndOfValue(tokens, Max(Z)))

\* What is left of the values from start on, up to c, without the white space at the end.
SolidTo(W, c) == {w \in Solid(W) : w < c}

LastLeft(W, b, start, Z, m, x) ==
    /\ m + 1 \in W \cup {b} /\ start \in W /\ start \in 1..Len(tokens) /\ m \in start..(b - 1)
    /\ Z # {} /\ Min(Z) = start /\ Max(Z) = x /\ EndOfValue(tokens, x) = m
    /\ x \in Z /\ (\A y \in Z : start <= y /\ y <= x)
    /\ Z = Solid(Stretch(W, start, m))
    /\ tokens[m] \notin Closers => x = m

LEMMA LeftUpTo ==
    ASSUME tokens \in Seq(Kinds), NEW a \in 1..(Len(tokens) + 1), NEW b \in 1..(Len(tokens) + 1),
           NEW W, Chain(W, a, b), NEW start \in a..b, start \in W \cup {b},
           \A r \in a..(start - 1) : tokens[r] = "ws",
           start <= Len(tokens) => tokens[start] # "ws",
           NEW c \in W \cup {b}, start <= c
    PROVE  LET v == Trimmed(Positions(start, c - 1))
               Z == SolidTo(W, c)
           IN \/ Z = {} /\ v = <<>>
              \/ \E m \in start..(c - 1), x \in W :
                    v = Positions(start, m) /\ LastLeft(W, b, start, Z, m, x)
<1> DEFINE N == Len(tokens)
           E(x) == EndOfValue(tokens, x)
           v == Trimmed(Positions(start, c - 1))
           Z == SolidTo(W, c)
<1>1. /\ W \subseteq a..(b - 1)
      /\ \A x \in W : E(x) \in x..(b - 1) /\ E(x) + 1 \in W \cup {b}
  BY DEF Chain
<1> HIDE DEF E
<1>2. N \in Nat /\ a \in Nat /\ a >= 1 /\ b \in Nat /\ b <= N + 1 /\ start \in Nat /\ start <= b
      /\ a <= start
  OBVIOUS
<1>3. c \in Nat /\ c <= b /\ c >= 1 /\ c - 1 \in Nat /\ start <= (c - 1) + 1 /\ start \in Nat \ {0}
  BY <1>1, <1>2
<1>4. \A w \in W : w \in Nat /\ a <= w /\ w <= N /\ w < b
  BY <1>1, <1>2
<1>5. PICK m \in (start - 1)..(c - 1) :
         /\ v = Positions(start, m)
         /\ \A k \in (m + 1)..(c - 1) : tokens[k] = "ws"
         /\ m >= start => tokens[m] # "ws"
  BY <1>3, TrimmedPositions
<1>6. \A y \in Z : y \in W /\ tokens[y] # "ws" /\ y < c /\ start <= y
  <2>1. \A y \in Z : y \in W /\ tokens[y] # "ws" /\ y < c
    BY DEF SolidTo, Solid
  <2>2. \A y \in W : ~(start <= y) => y \in a..(start - 1)
    BY <1>2, <1>4
  <2> QED  BY <2>1, <2>2
<1>7. CASE m = start - 1
  <2>1. v = <<>>
    BY <1>3, <1>5, <1>7, NoPositions
  <2>2. c = start
    <3> SUFFICES ASSUME c # start PROVE FALSE
      OBVIOUS
    <3>1. start \in (m + 1)..(c - 1) /\ start <= N
      BY <1>2, <1>3, <1>7
    <3> QED  BY <1>5, <3>1
  <2>3. Z = {}
    <3> HIDE DEF Z
    <3>1. ASSUME NEW y \in Z PROVE FALSE
      <4>1. y < start /\ start <= y /\ y \in Nat
        BY <1>4, <1>6, <2>2
      <4> QED  BY <1>2, <4>1
    <3> QED  BY <3>1
  <2> QED  BY <2>1, <2>3
<1>8. CASE m # start - 1
  <2>1. m \in start..(c - 1) /\ m >= start /\ m \in a..(c - 1) /\ m \in start..(b - 1) /\ m \in Nat
        /\ start < c /\ start # b /\ start <= N /\ start \in 1..N
    BY <1>2, <1>3, <1>8
  <2>2. start \in W /\ tokens[start] # "ws" /\ tokens[m] # "ws"
    BY <1>5, <2>1
  <2>3. PICK x \in W : /\ x \in a..m /\ EndOfValue(tokens, x) = m /\ tokens[x] # "ws"
                       /\ \A y \in W : y < c /\ tokens[y] # "ws" => y <= x
                       /\ tokens[m] \notin Closers => x = m
    <3>1. m \in a..(c - 1) /\ tokens[m] # "ws" /\ \A k \in (m + 1)..(c - 1) : tokens[k] = "ws"
      BY <1>5, <2>1, <2>2
    <3>2. PICK x \in W : LastSolid(W, a, c, m, x)
      BY <3>1, SolidEnd
    <3> QED  BY <3>2 DEF LastSolid
  <2>4. x < c /\ x \in Nat /\ x <= m /\ m < c
    BY <1>3, <2>1, <2>3
  <2>5. x \in Z /\ start \in Z
    BY <2>1, <2>2, <2>3, <2>4 DEF SolidTo, Solid
  <2>6. \A y \in Z : start <= y /\ y <= x /\ y \in Nat
    <3> HIDE DEF Z
    <3> QED  BY <1>4, <1>6, <2>3
  <2>7. m + 1 \in W \cup {b}
    BY <1>1, <2>3 DEF E
  <2>8. Z = Solid(Stretch(W, start, m))
    <3>1. \A y \in W : y <= m => y < c
      BY <1>4, <2>4
    <3>2. \A y \in Z : y <= m
      <4> HIDE DEF Z
      <4> QED  BY <2>4, <2>6
    <3>3. \A y : y \in Z <=> y \in Solid(Stretch(W, start, m))
      BY <1>6, <3>1, <3>2, Zenon DEF SolidTo, Solid, Stretch
    <3> QED  BY <3>3, Zenon
  <2> HIDE DEF Z, v
  <2>9. Min(Z) = start
    <3>1. \A y \in Z : (\A z \in Z : y <= z) => y = start
      BY <1>2, <2>5, <2>6
    <3> QED  BY <2>5, <2>6, <3>1 DEF Min
  <2>10. Max(Z) = x
    <3>1. \A y \in Z : x >= y
      BY <2>4, <2>6
    <3>2. \A y \in Z : (\A z \in Z : y >= z) => y = x
      BY <2>4, <2>5, <2>6
    <3> QED  BY <2>5, <3>1, <3>2 DEF Max
  <2>11. v = Positions(start, m) /\ LastLeft(W, b, start, Z, m, x)
    BY <1>5, <2>1, <2>2, <2>3, <2>5, <2>6, <2>7, <2>8, <2>9, <2>10 DEF LastLeft
  <2>12. m \in start..(c - 1)
    BY <2>1
  <2>13. \E m_ \in start..(c - 1), x_ \in W :
            v = Positions(start, m_) /\ LastLeft(W, b, start, Z, m_, x_)
    BY <2>11, <2>12, Zenon
  <2> QED  BY <2>13, Zenon DEF Z, v
<1> QED  BY <1>7, <1>8, Zenon

-----------------------------------------------------------------------------
\* Values that are white space are passed one by one.
LEMMA SpaceSkipped ==
    ASSUME tokens \in Seq(Kinds), NEW a \in 1..(Len(tokens) + 1), Good(a),
           NEW start \in a..(Len(tokens) + 1),
           \A r \in a..(start - 1) : r \in 1..Len(tokens) /\ tokens[r] = "ws"
    PROVE  /\ Good(start)
           /\ \A kinds : "ws" \notin kinds =>
                 FirstValue(tokens, a, kinds) = FirstValue(tokens, start, kinds)
<1> DEFINE n == start - a
           P(x) == /\ Good(x)
                   /\ \A kinds : "ws" \notin kinds =>
                         FirstValue(tokens, a, kinds) = FirstValue(tokens, x, kinds)
           G == {d \in 0..n : P(a + d)}
<1>1. n \in Nat /\ a \in Nat /\ a + 0 = a /\ 0 \in 0..n
  OBVIOUS
<1>2. 0 \in G
  BY <1>1
<1>3. ASSUME NEW d \in 0..(n - 1), d \in G PROVE d + 1 \in G
  <2> DEFINE x == a + d
  <2>1. x \in a..(start - 1) /\ d + 1 \in 0..n /\ x + 1 = a + (d + 1)
    BY <1>1
  <2>2. P(x)
    BY <1>3
  <2> HIDE DEF x, n
  <2>3. x \in 1..Len(tokens) /\ tokens[x] = "ws" /\ x \in 1..(Len(tokens) + 1) /\ ~(x > Len(tokens))
    BY <2>1
  <2>4. EndOfValue(tokens, x) = x
    <3>1. ~Opens(tokens[x])
      BY <2>3 DEF Opens
    <3> QED  BY <2>3, <3>1, EndOfValueIs
  <2>5. Good(x + 1)
    BY <2>2, <2>3, <2>4, GoodNext
  <2>6. ASSUME NEW kinds, "ws" \notin kinds
        PROVE  FirstValue(tokens, a, kinds) = FirstValue(tokens, x + 1, kinds)
    <3>1. FirstValue(tokens, x, kinds) =
             IF x > Len(tokens) \/ tokens[x] \in kinds THEN x
             ELSE FirstValue(tokens, EndOfValue(tokens, x) + 1, kinds)
      BY <2>3, FirstValueDef
    <3> QED  BY <2>2, <2>3, <2>4, <2>6, <3>1
  <2>7. P(x + 1)
    BY <2>5, <2>6
  <2> HIDE DEF P
  <2> QED  BY <2>1, <2>7
<1>4. 0..n \subseteq G
  <2> HIDE DEF n, G
  <2> QED  BY <1>1, <1>2, <1>3, BoundedInduction
<1>5. n \in 0..n /\ a + n = start
  BY <1>1
<1> HIDE DEF n
<1>6. P(a + n)
  BY <1>4, <1>5
<1> HIDE DEF P
<1>7. P(start)
  BY <1>5, <1>6
<1> QED  BY <1>7 DEF P

\* The parts of a declaration: behind its colon, the token that ends its value, the value.
BehindName(i) == whitespace(i + 1) + 1

ValueFrom(i) == whitespace(BehindName(i))

StopAt(i) == FirstValue(tokens, BehindName(i), {";"})

AllStarts(i) == StartsFrom(tokens, StopAt(i) - 1)[BehindName(i)]

IsFlag(Z) ==
    Z # {} /\ Max(Z) - 1 \in Z /\ tokens[Max(Z) - 1] = "!" /\ tokens[Max(Z)] = "important"

Unflag(Z) == IF IsFlag(Z) THEN Z \ {Max(Z) - 1, Max(Z)} ELSE Z

LEMMA DeclarationParts ==
    ASSUME tokens \in Seq(Kinds), NEW i \in 1..Len(tokens), LooksLikeDeclaration(i), Good(i)
    PROVE  /\ BehindName(i) \in (i + 1)..(Len(tokens) + 1) /\ Good(BehindName(i))
           /\ ValueFrom(i) \in BehindName(i)..StopAt(i) /\ Good(ValueFrom(i))
           /\ ValueFrom(i) \in 1..(Len(tokens) + 1) /\ ValueFrom(i) - 1 \in i..Len(tokens)
           /\ StopAt(i) = FirstValue(tokens, ValueFrom(i), {";"})
           /\ StopAt(i) \in 1..(Len(tokens) + 1)
           /\ ValueFrom(i) <= Len(tokens) => tokens[ValueFrom(i)] # "ws"
           /\ \A r \in BehindName(i)..(ValueFrom(i) - 1) : r \in 1..Len(tokens) /\ tokens[r] = "ws"
<1> DEFINE N == Len(tokens)
           colon == whitespace(i + 1)
<1>1. N \in Nat /\ i + 1 \in 1..(N + 1) /\ i \in 1..N
  OBVIOUS
<1>2. /\ colon \in (i + 1)..N /\ colon + 1 \in 1..(N + 1) /\ tokens[colon] = ":"
      /\ ValueFrom(i) \in (colon + 1)..(N + 1) /\ ValueFrom(i) - 1 \in i..N
      /\ ValueFrom(i) \in 1..(N + 1)
  BY DeclarationStarts DEF ValueFrom, BehindName
<1>3. \A r \in (i + 1)..(colon - 1) : r \in 1..N /\ tokens[r] = "ws"
  BY <1>1, WhitespaceStops
<1>4. Good(i + 1)
  <2>1. ~Opens(tokens[i])
    BY DEF LooksLikeDeclaration, Names, Opens
  <2>2. EndOfValue(tokens, i) = i
    BY <2>1, EndOfValueIs
  <2> QED  BY <2>2, GoodNext
<1> HIDE DEF colon
<1>5. Good(colon)
  <2>1. colon \in (i + 1)..(N + 1)
    BY <1>2
  <2> QED  BY <1>1, <1>3, <1>4, <2>1, SpaceSkipped
<1>6. Good(colon + 1)
  <2>1. ~Opens(tokens[colon])
    BY <1>2 DEF Opens
  <2>2. colon \in 1..N
    BY <1>1, <1>2
  <2>3. EndOfValue(tokens, colon) = colon
    BY <2>1, <2>2, EndOfValueIs
  <2> QED  BY <1>5, <2>2, <2>3, GoodNext
<1>7. BehindName(i) = colon + 1
  BY DEF BehindName, colon
<1>8. /\ ValueFrom(i) <= N => tokens[ValueFrom(i)] # "ws"
      /\ \A r \in (colon + 1)..(ValueFrom(i) - 1) : r \in 1..N /\ tokens[r] = "ws"
  BY <1>2, <1>7, WhitespaceStops DEF ValueFrom
<1>9. Good(ValueFrom(i)) /\ StopAt(i) = FirstValue(tokens, ValueFrom(i), {";"})
  <2>1. "ws" \notin {";"}
    OBVIOUS
  <2>2. Good(ValueFrom(i)) /\ \A kinds : "ws" \notin kinds =>
                 FirstValue(tokens, colon + 1, kinds) = FirstValue(tokens, ValueFrom(i), kinds)
    BY <1>2, <1>6, <1>8, SpaceSkipped
  <2> QED  BY <1>7, <2>1, <2>2, Zenon DEF StopAt
<1>10. StopAt(i) \in ValueFrom(i)..(N + 1)
  <2>1. \A kinds : FirstValue(tokens, ValueFrom(i), kinds) \in ValueFrom(i)..(N + 1)
    BY <1>2, FirstValueType
  <2> QED  BY <1>9, <2>1, Zenon
<1> HIDE DEF N
<1>11. StopAt(i) \in 1..(N + 1) /\ ValueFrom(i) \in (colon + 1)..StopAt(i)
       /\ colon + 1 \in (i + 1)..(N + 1)
  BY <1>1, <1>2, <1>10
<1> QED  BY <1>2, <1>6, <1>7, <1>8, <1>9, <1>11 DEF N

LEMMA DeclarationMade ==
    ASSUME NEW i \in Nat, NEW value \in Seq(Nat), NEW flag \in BOOLEAN
    PROVE  [Item("declaration", i) EXCEPT !.important = flag, !.value = value]
               = Made("declaration", i, <<>>, <<>>, value, flag)
<1> DEFINE it == Item("declaration", i)
           a == [it EXCEPT !.important = flag, !.value = value]
           c == Made("declaration", i, <<>>, <<>>, value, flag)
<1>1. /\ it \in ItemType /\ it.type = "declaration" /\ it.name = i /\ it.prelude = <<>>
      /\ it.block = <<>>
  BY ItemIs DEF Made
<1> HIDE DEF it
<1>2. /\ a \in ItemType /\ a.type = it.type /\ a.name = it.name /\ a.prelude = it.prelude
      /\ a.block = it.block /\ a.value = value /\ a.important = flag
  BY <1>1 DEF ItemType
<1>3. c \in ItemType
  BY MadeType, NothingIsAList
<1>4. /\ c.type = "declaration" /\ c.name = i /\ c.prelude = <<>> /\ c.block = <<>>
      /\ c.value = value /\ c.important = flag
  BY DEF Made
<1> HIDE DEF a, c
<1>5. a = c
  BY <1>1, <1>2, <1>3, <1>4, ItemEqual
<1> QED  BY <1>5 DEF a, c, it

LEMMA DeclarationIs ==
    ASSUME NEW i \in Nat, Ends(Unflag(Solid(AllStarts(i)))) \in Seq(Nat)
    PROVE  LET Z == Solid(AllStarts(i))
               kept == Unflag(Z)
           IN /\ DeclarationAt(i).ok = (tokens[i] # "custom" => Alone(kept, "{"))
              /\ DeclarationAt(i).next = StopAt(i)
              /\ DeclarationAt(i).part
                    = Made("declaration", i, <<>>, <<>>, Ends(kept), IsFlag(Z))
<1> DEFINE Z == Solid(AllStarts(i))
           kept == Unflag(Z)
           starts == ValuesBetween(BehindName(i), StopAt(i) - 1)
           flag == starts # {} /\ LET p == Max(starts)
                                  IN /\ p - 1 \in starts /\ tokens[p - 1] = "!"
                                     /\ tokens[p] = "important"
           left == IF flag THEN starts \ {Max(starts) - 1, Max(starts)} ELSE starts
           ok == tokens[i] # "custom" => \A p \in left : tokens[p] = "{" => left = {p}
           value == IF left = {} THEN <<>> ELSE Positions(Min(left), EndOfValue(tokens, Max(left)))
           part == [Item("declaration", i) EXCEPT !.important = flag, !.value = value]
<1>1. starts = Z
  BY ValuesBetweenIs, Zenon DEF Solid, AllStarts
<1>2. DeclarationAt(i) = [ok |-> ok, next |-> StopAt(i), part |-> part]
  BY Zenon DEF DeclarationAt, BehindName, StopAt
<1> HIDE DEF starts, Z
<1>3. flag = IsFlag(Z)
  BY <1>1, Zenon DEF IsFlag
<1>4. left = kept
  <2> HIDE DEF flag
  <2> QED  BY <1>1, <1>3, Zenon DEF Unflag
<1> HIDE DEF flag, left, kept
<1>5. ok = (tokens[i] # "custom" => Alone(kept, "{"))
  BY <1>4, Zenon DEF Alone
<1>6. value = Ends(kept)
  BY <1>4, Zenon DEF Ends
<1> HIDE DEF ok, value
<1>7. part = Made("declaration", i, <<>>, <<>>, Ends(kept), IsFlag(Z))
  <2>1. Ends(kept) \in Seq(Nat)
    BY Zenon DEF kept, Z
  <2>2. IsFlag(Z) \in BOOLEAN
    BY DEF IsFlag
  <2> DEFINE f == IsFlag(Z)
             w == Ends(kept)
  <2>3. \A x \in Seq(Nat), y \in BOOLEAN :
           [Item("declaration", i) EXCEPT !.important = y, !.value = x]
               = Made("declaration", i, <<>>, <<>>, x, y)
    BY DeclarationMade
  <2>4. part = [Item("declaration", i) EXCEPT !.important = f, !.value = w]
    BY <1>3, <1>6, Zenon
  <2> HIDE DEF f, w
  <2>5. f \in BOOLEAN /\ w \in Seq(Nat)
    BY <2>1, <2>2 DEF f, w
  <2>6. part = Made("declaration", i, <<>>, <<>>, w, f)
    BY <2>3, <2>4, <2>5, Zenon
  <2> QED  BY <2>6 DEF f, w
<1> HIDE DEF part
<1>8. /\ DeclarationAt(i).ok = ok /\ DeclarationAt(i).next = StopAt(i)
      /\ DeclarationAt(i).part = part
  BY <1>2
<1> QED  BY <1>5, <1>7, <1>8, Zenon DEF kept, Z

\* What is left of a value: its tokens, and whether it may be the value of a declaration.
LEMMA LeftIsValid ==
    ASSUME tokens \in Seq(Kinds), NEW a \in 1..(Len(tokens) + 1), NEW b \in 1..(Len(tokens) + 1),
           NEW W, Chain(W, a, b), NEW start \in a..b, start \in W \cup {b},
           \A r \in a..(start - 1) : tokens[r] = "ws",
           start <= Len(tokens) => tokens[start] # "ws",
           NEW c \in W \cup {b}, start <= c
    PROVE  LET v == Trimmed(Positions(start, c - 1))
               Z == SolidTo(W, c)
           IN /\ v = Ends(Z) /\ v \in Seq(Nat)
              /\ \A d : d.value = v => (IsValid(d) <=> (~IsCustom(d) => Alone(Z, "{")))
<1> DEFINE v == Trimmed(Positions(start, c - 1))
           Z == SolidTo(W, c)
<1>1. ASSUME Z = {}, v = <<>>
      PROVE  /\ v = Ends(Z) /\ v \in Seq(Nat)
             /\ \A d : d.value = v => (IsValid(d) <=> (~IsCustom(d) => Alone(Z, "{")))
  <2>1. Alone(Z, "{")
    BY <1>1, Zenon DEF Alone
  <2>2. \A d : d.value = v => IsValid(d)
    BY <1>1, ValidNothing, Zenon
  <2>3. v = Ends(Z)
    BY <1>1, Zenon DEF Ends
  <2>4. v \in Seq(Nat)
    BY <1>1, NothingIsAList, Zenon
  <2> QED  BY <2>1, <2>2, <2>3, <2>4, Zenon
<1>2. ASSUME NEW m \in start..(c - 1), NEW x \in W, v = Positions(start, m),
             LastLeft(W, b, start, Z, m, x)
      PROVE  /\ v = Ends(Z) /\ v \in Seq(Nat)
             /\ \A d : d.value = v => (IsValid(d) <=> (~IsCustom(d) => Alone(Z, "{")))
  <2>0. /\ m + 1 \in W \cup {b} /\ start \in W /\ start \in 1..Len(tokens) /\ m \in start..(b - 1)
        /\ Z # {} /\ Min(Z) = start /\ Max(Z) = x /\ EndOfValue(tokens, x) = m
        /\ Z = Solid(Stretch(W, start, m))
    BY <1>2, Zenon DEF LastLeft
  <2>1. v = Ends(Z)
    BY <1>2, <2>0, Zenon DEF Ends
  <2>2. v \in Seq(Nat)
    <3>1. start \in Nat \ {0} /\ m \in Nat /\ start <= m + 1
      BY <2>0
    <3> QED  BY <1>2, <3>1, PositionsType
  <2>3. ASSUME NEW d, d.value = v
        PROVE  IsValid(d) <=> (~IsCustom(d) => Alone(Z, "{"))
    <3>1. d.value = Positions(start, m)
      BY <1>2, <2>3
    <3>2. IsValid(d) <=> (~IsCustom(d) => Alone(Solid(Stretch(W, start, m)), "{"))
      <4> HIDE DEF v, Z
      <4> QED  BY <2>0, <3>1, ValidIs
    <3> QED  BY <2>0, <3>2, Zenon
  <2> QED  BY <2>1, <2>2, <2>3, Zenon
<1>3. \/ Z = {} /\ v = <<>>
      \/ \E m \in start..(c - 1), x \in W :
            v = Positions(start, m) /\ LastLeft(W, b, start, Z, m, x)
  BY LeftUpTo
<1> HIDE DEF v, Z
<1>4. /\ v = Ends(Z) /\ v \in Seq(Nat)
      /\ \A d : d.value = v => (IsValid(d) <=> (~IsCustom(d) => Alone(Z, "{")))
  BY <1>1, <1>2, <1>3, Zenon
<1> QED  BY <1>4, Zenon DEF v, Z

LEMMA PositionsCut ==
    ASSUME NEW s \in Nat \ {0}, NEW m \in Nat, s + 1 <= m
    PROVE  SubSeq(Positions(s, m), 1, Len(Positions(s, m)) - 2) = Positions(s, m - 2)
<1> DEFINE p == Positions(s, m)
           q == Positions(s, m - 2)
           L == m - 1 - s
<1>1. p \in Seq(Nat) /\ Len(p) = m + 1 - s /\ \A i \in 1..(m + 1 - s) : p[i] = s + i - 1
  BY PositionsType
<1>2. q \in Seq(Nat) /\ Len(q) = L /\ \A i \in 1..L : q[i] = s + i - 1
  <2>1. m - 2 \in Nat /\ s <= (m - 2) + 1 /\ (m - 2) + 1 - s = L
    OBVIOUS
  <2> DEFINE l == m - 2
  <2>2. l \in Nat /\ s <= l + 1 /\ l + 1 - s = L
    BY <2>1
  <2> HIDE DEF l
  <2>3. /\ Positions(s, l) \in Seq(Nat) /\ Len(Positions(s, l)) = l + 1 - s
        /\ \A i \in 1..(l + 1 - s) : Positions(s, l)[i] = s + i - 1
    BY <2>2, PositionsType
  <2> QED  BY <2>2, <2>3 DEF l
<1> HIDE DEF p, q
<1>3. Len(p) - 2 = L /\ L \in Nat /\ L \in Int /\ 1 \in Int /\ L - 1 + 1 = L
      /\ \A i \in 1..L : 1 + i - 1 = i /\ i \in 1..(m + 1 - s)
  BY <1>1
<1>4. \A i \in 1..L : p[i] \in Nat
  BY <1>1, <1>3
<1> HIDE DEF L
<1>5. /\ SubSeq(p, 1, L) \in Seq(Nat) /\ Len(SubSeq(p, 1, L)) = L
      /\ \A i \in 1..L : SubSeq(p, 1, L)[i] = p[1 + i - 1]
  <2>1. /\ SubSeq(p, 1, L) \in Seq(Nat) /\ Len(SubSeq(p, 1, L)) = IF 1 <= L THEN L - 1 + 1 ELSE 0
        /\ \A i \in 1..(L - 1 + 1) : SubSeq(p, 1, L)[i] = p[1 + i - 1]
    BY <1>3, <1>4, SubSeqProperties
  <2> QED  BY <1>3, <2>1
<1>6. SubSeq(p, 1, L) = q
  BY <1>1, <1>2, <1>3, <1>5, SeqEqual
<1> QED  BY <1>3, <1>6 DEF p, q

\* The flag at the end of a value.
IsFlagged(W, Z, start, m) ==
    /\ IsImportant(Positions(start, m)) <=> IsFlag(Z)
    /\ IsFlag(Z) => /\ m - 1 \in W /\ start <= m - 1
                    /\ Unflag(Z) = SolidTo(W, m - 1)
                    /\ Unflagged(Positions(start, m)) = Trimmed(Positions(start, (m - 1) - 1))

LEMMA Flagged ==
    ASSUME tokens \in Seq(Kinds), NEW a \in 1..(Len(tokens) + 1), NEW b \in 1..(Len(tokens) + 1),
           NEW W, Chain(W, a, b), NEW start \in a..b, start \in 1..Len(tokens),
           NEW m \in start..(b - 1), NEW x \in W, EndOfValue(tokens, x) = m,
           NEW Z, Z = SolidTo(W, b), x \in Z, Max(Z) = x,
           \A y \in Z : start <= y /\ y <= x,
           tokens[m] \notin Closers => x = m
    PROVE  IsFlagged(W, Z, start, m)
<1> DEFINE v == Positions(start, m)
           N == Len(tokens)
<1>1. /\ W \subseteq a..(b - 1) /\ a \in Nat /\ a >= 1 /\ b \in Nat /\ start \in Nat /\ a <= start
      /\ start <= m /\ m \in Nat /\ m < b /\ start \in Nat \ {0}
  <2>1. W \subseteq a..(b - 1)
    BY DEF Chain
  <2>2. a \in Nat /\ a >= 1 /\ b \in Nat
    OBVIOUS
  <2>3. start \in Nat /\ a <= start /\ start <= m /\ m \in Nat /\ m < b /\ start \in Nat \ {0}
    BY <2>2
  <2> QED  BY <2>1, <2>2, <2>3
<1>2. /\ v \in Seq(Nat) /\ Len(v) = m + 1 - start
      /\ \A i \in 1..(m + 1 - start) : v[i] = start + i - 1
  <2>1. start <= m + 1
    BY <1>1
  <2> QED  BY <1>1, <2>1, PositionsType
<1> HIDE DEF v
<1>3. \A y : y \in Z <=> y \in W /\ tokens[y] # "ws" /\ y < b
  BY Zenon DEF SolidTo, Solid
<1>4. Z # {}
  OBVIOUS
<1>5. IsImportant(v) <=> start <= m - 1 /\ tokens[m - 1] = "!" /\ tokens[m] = "important"
  <2> DEFINE n == Len(v)
  <2>1. n \in Nat /\ (n >= 2 <=> start <= m - 1)
    BY <1>1, <1>2
  <2>2. ASSUME n >= 2 PROVE v[n - 1] = m - 1 /\ v[n] = m
    <3>1. n - 1 \in 1..(m + 1 - start) /\ n \in 1..(m + 1 - start) /\ start + (n - 1) - 1 = m - 1
          /\ start + n - 1 = m
      BY <1>1, <1>2, <2>2
    <3> QED  BY <1>2, <3>1
  <2>3. IsImportant(v) <=> n >= 2 /\ tokens[v[n - 1]] = "!" /\ tokens[v[n]] = "important"
    BY DEF IsImportant
  <2> HIDE DEF n
  <2> QED  BY <2>1, <2>2, <2>3
<1>6. ASSUME start <= m - 1, tokens[m - 1] = "!", tokens[m] = "important"
      PROVE  x = m /\ IsFlag(Z)
  <2>1. x = m
    BY <1>6, NoClosers
  <2>2. m \in W \cup {b} /\ m - 1 \in a..(m - 1) /\ \A k \in ((m - 1) + 1)..(m - 1) : tokens[k] = "ws"
    BY <1>1, <1>6, <2>1
  <2>3. tokens[m - 1] # "ws"
    BY <1>6
  <2>4. PICK z \in W : LastSolid(W, a, m, m - 1, z)
    BY <2>2, <2>3, SolidEnd
  <2>5. z = m - 1
    BY <1>6, <2>4, NoClosers DEF LastSolid
  <2>6. m - 1 \in Z
    BY <1>1, <1>3, <2>3, <2>5
  <2> QED  BY <1>4, <1>6, <2>1, <2>6 DEF IsFlag
<1>7. ASSUME IsFlag(Z)
      PROVE  /\ x = m /\ m - 1 \in Z /\ m - 1 \in W /\ start <= m - 1
             /\ tokens[m - 1] = "!" /\ tokens[m] = "important"
  <2>1. x - 1 \in Z /\ tokens[x - 1] = "!" /\ tokens[x] = "important"
    BY <1>7 DEF IsFlag
  <2>2. ~Opens(tokens[x])
    BY <2>1 DEF Opens
  <2>3. x \in 1..Len(tokens)
    BY <1>1
  <2>4. EndOfValue(tokens, x) = x
    BY <2>2, <2>3, EndOfValueIs
  <2> QED  BY <1>3, <2>1, <2>4
<1>8. IsImportant(v) <=> IsFlag(Z)
  BY <1>5, <1>6, <1>7
<1>9. ASSUME IsFlag(Z)
      PROVE  /\ m - 1 \in W /\ start <= m - 1
             /\ Unflag(Z) = SolidTo(W, m - 1)
             /\ Unflagged(v) = Trimmed(Positions(start, (m - 1) - 1))
  <2>1. x = m /\ m - 1 \in W /\ start <= m - 1
    BY <1>7, <1>9
  <2>2. Unflag(Z) = Z \ {m - 1, m}
    BY <1>9, <2>1, Zenon DEF Unflag
  <2>3. Z \ {m - 1, m} = SolidTo(W, m - 1)
    <3>1. \A y \in Z : y \in Nat /\ y <= m
      BY <1>1, <1>3, <2>1
    <3>2. \A y \in W : y \in Nat /\ (y < m - 1 => y < b /\ y # m - 1 /\ y # m)
      BY <1>1
    <3>3. \A y \in Z : y # m - 1 /\ y # m => y < m - 1
      BY <1>1, <3>1
    <3>4. \A y : y \in Z \ {m - 1, m} <=> y \in SolidTo(W, m - 1)
      BY <1>3, <3>2, <3>3, Zenon DEF SolidTo, Solid
    <3> QED  BY <3>4, Zenon
  <2>4. start + 1 <= m /\ m - 2 = (m - 1) - 1
    BY <1>1, <2>1
  <2>5. SubSeq(v, 1, Len(v) - 2) = Positions(start, m - 2)
    BY <1>1, <2>4, PositionsCut DEF v
  <2> QED  BY <2>1, <2>2, <2>3, <2>4, <2>5 DEF Unflagged
<1> QED  BY <1>8, <1>9, Zenon DEF IsFlagged, v

\* The values of a declaration.
LEMMA ValuesOf ==
    ASSUME tokens \in Seq(Kinds), NEW i \in 1..Len(tokens), LooksLikeDeclaration(i), Good(i)
    PROVE  LET a == BehindName(i)
               b == StopAt(i)
               W == AllStarts(i)
               start == ValueFrom(i)
           IN /\ a \in 1..(Len(tokens) + 1) /\ b \in 1..(Len(tokens) + 1) /\ Chain(W, a, b)
              /\ start \in a..b /\ start \in W \cup {b}
              /\ \A r \in a..(start - 1) : tokens[r] = "ws"
              /\ start <= Len(tokens) => tokens[start] # "ws"
              /\ start <= b /\ b \in W \cup {b}
              /\ SolidTo(W, b) = Solid(W)
<1> DEFINE a == BehindName(i)
           b == StopAt(i)
           W == AllStarts(i)
           start == ValueFrom(i)
           kinds == {";"}
<1>1. /\ a \in (i + 1)..(Len(tokens) + 1) /\ Good(a) /\ start \in a..b
      /\ b \in 1..(Len(tokens) + 1)
      /\ start <= Len(tokens) => tokens[start] # "ws"
      /\ \A r \in a..(start - 1) : r \in 1..Len(tokens) /\ tokens[r] = "ws"
  BY DeclarationParts
<1>2. b = FirstValue(tokens, a, kinds) /\ W = StartsFrom(tokens, b - 1)[a]
  BY Zenon DEF StopAt, AllStarts
<1> HIDE DEF a, b, W, start, kinds
<1>3. a \in 1..(Len(tokens) + 1) /\ b \in Nat /\ start <= b /\ a \in Nat
  BY <1>1
<1>4. Chain(W, a, b)
  <2>1. Chain(StartsFrom(tokens, b - 1)[a], a, b)
    BY <1>1, <1>2, <1>3, ChainTo
  <2> QED  BY <1>2, <2>1
<1>5. start \in W \cup {b}
  BY <1>1, <1>3, <1>4, SpaceIsValues
<1>6. SolidTo(W, b) = Solid(W)
  <2>1. \A w \in W : w < b
    BY <1>3, <1>4 DEF Chain
  <2>2. \A w : w \in SolidTo(W, b) <=> w \in Solid(W)
    BY <2>1, Zenon DEF SolidTo, Solid
  <2> QED  BY <2>2, Zenon
<1>7. b \in W \cup {b} /\ \A r \in a..(start - 1) : tokens[r] = "ws"
  BY <1>1
<1> QED  BY <1>1, <1>3, <1>4, <1>5, <1>6, <1>7, Zenon DEF a, b, W, start

\* What the parser makes of a declaration, once its value is read, is what it is.
LEMMA Declared ==
    ASSUME tokens \in Seq(Kinds), NEW i \in 1..Len(tokens), LooksLikeDeclaration(i), Good(i),
           item = Made("declaration", i, <<>>, <<>>, Positions(ValueFrom(i), StopAt(i) - 1), FALSE)
    PROVE  /\ IsValid(Finished) <=> DeclarationAt(i).ok
           /\ Finished = DeclarationAt(i).part
           /\ DeclarationAt(i).next = StopAt(i)
<1> DEFINE a == BehindName(i)
           b == StopAt(i)
           W == AllStarts(i)
           start == ValueFrom(i)
           v == Trimmed(Positions(start, b - 1))
           Z == SolidTo(W, b)
           kept == Unflag(Z)
           made(value, flag) == Made("declaration", i, <<>>, <<>>, value, flag)
           Read(value) ==
               /\ value = Ends(kept) /\ value \in Seq(Nat)
               /\ IsFlag(Z) => Finished = made(value, TRUE)
               /\ ~IsFlag(Z) => Finished = made(value, FALSE)
               /\ \A d : d.value = value => (IsValid(d) <=> (~IsCustom(d) => Alone(kept, "{")))
<1>1. /\ a \in 1..(Len(tokens) + 1) /\ b \in 1..(Len(tokens) + 1) /\ Chain(W, a, b)
      /\ start \in a..b /\ start \in W \cup {b}
      /\ \A r \in a..(start - 1) : tokens[r] = "ws"
      /\ start <= Len(tokens) => tokens[start] # "ws"
      /\ start <= b /\ b \in W \cup {b} /\ Z = Solid(W)
  BY ValuesOf
<1> HIDE DEF a, b, W, start
<1>2. start \in Nat \ {0} /\ b - 1 \in Nat /\ start <= (b - 1) + 1 /\ i \in Nat
  BY <1>1
<1>3. Positions(start, b - 1) \in Seq(Nat)
  BY <1>2, PositionsType
<1>4. /\ item \in ItemType /\ item.type = "declaration" /\ item.name = i /\ item.prelude = <<>>
      /\ item.block = <<>> /\ item.value = Positions(start, b - 1) /\ item.important = FALSE
  <2>1. item = Made("declaration", i, <<>>, <<>>, Positions(start, b - 1), FALSE)
    BY DEF start, b
  <2>2. item \in ItemType
    BY <1>2, <1>3, <2>1, MadeType, NothingIsAList
  <2> QED  BY <2>1, <2>2 DEF Made
<1>5. /\ IsImportant(v) => /\ Unflagged(v) \in Seq(Nat)
                           /\ Finished = Made("declaration", i, <<>>, <<>>, Unflagged(v), TRUE)
      /\ ~IsImportant(v) => Finished = Made("declaration", i, <<>>, <<>>, v, FALSE)
  <2>1. LET w == Trimmed(item.value)
            finished(x, important) ==
                Made(item.type, item.name, item.prelude, item.block, x, important)
        IN /\ IsImportant(w) => Unflagged(w) \in Seq(Nat) /\ Finished = finished(Unflagged(w), TRUE)
           /\ ~IsImportant(w) => Finished = finished(w, item.important)
    BY <1>4, FinishedIs
  <2> QED  BY <1>4, <2>1, Zenon
<1>6. /\ v = Ends(Z) /\ v \in Seq(Nat)
      /\ \A d : d.value = v => (IsValid(d) <=> (~IsCustom(d) => Alone(Z, "{")))
  BY <1>1, LeftIsValid
<1>7. \/ Z = {} /\ v = <<>>
      \/ \E m \in start..(b - 1), x \in W :
            v = Positions(start, m) /\ LastLeft(W, b, start, Z, m, x)
  BY <1>1, LeftUpTo
<1> HIDE DEF v, Z
<1>8. ASSUME ~IsImportant(v), ~IsFlag(Z) PROVE Read(v)
  <2>1. kept = Z
    BY <1>8, Zenon DEF Unflag
  <2> HIDE DEF kept
  <2> QED  BY <1>5, <1>6, <1>8, <2>1, Zenon
<1>9. ASSUME Z = {}, v = <<>> PROVE Read(v)
  <2>1. ~IsImportant(v)
    BY <1>9 DEF IsImportant
  <2>2. ~IsFlag(Z)
    BY <1>9, Zenon DEF IsFlag
  <2> HIDE DEF Read
  <2> QED  BY <1>8, <2>1, <2>2
<1>10. ASSUME NEW m \in start..(b - 1), NEW x \in W, v = Positions(start, m),
              LastLeft(W, b, start, Z, m, x)
       PROVE  \E value : Read(value)
  <2>1. /\ start \in 1..Len(tokens) /\ EndOfValue(tokens, x) = m
        /\ Z = SolidTo(W, b) /\ x \in Z /\ Max(Z) = x /\ (\A y \in Z : start <= y /\ y <= x)
        /\ tokens[m] \notin Closers => x = m
    BY <1>10, Zenon DEF LastLeft, Z
  <2>2. /\ IsImportant(v) <=> IsFlag(Z)
        /\ IsFlag(Z) => /\ m - 1 \in W /\ start <= m - 1
                        /\ Unflag(Z) = SolidTo(W, m - 1)
                        /\ Unflagged(v) = Trimmed(Positions(start, (m - 1) - 1))
    <3> HIDE DEF Read, kept
    <3>1. IsFlagged(W, Z, start, m)
      BY <1>1, <2>1, Flagged
    <3> QED  BY <1>10, <3>1, Zenon DEF IsFlagged
  <2>3. CASE ~IsFlag(Z)
    <3> HIDE DEF Read
    <3> QED  BY <1>8, <2>2, <2>3
  <2>4. CASE IsFlag(Z)
    <3> DEFINE c == m - 1
               u == Trimmed(Positions(start, c - 1))
               Y == SolidTo(W, c)
    <3>1. c \in W \cup {b} /\ start <= c
      BY <2>2, <2>4
    <3>2. Unflagged(v) = u /\ kept = Y
      BY <2>2, <2>4, Zenon
    <3> HIDE DEF c
    <3>3. /\ u = Ends(Y) /\ u \in Seq(Nat)
          /\ \A d : d.value = u => (IsValid(d) <=> (~IsCustom(d) => Alone(Y, "{")))
      BY <1>1, <3>1, LeftIsValid
    <3> HIDE DEF kept, u, Y
    <3>4. Read(u)
      BY <1>5, <2>2, <2>4, <3>2, <3>3, Zenon
    <3> HIDE DEF Read
    <3> QED  BY <3>4, Zenon
  <2> QED  BY <2>3, <2>4
<1>11. PICK value : Read(value)
  <2> HIDE DEF Read
  <2> QED  BY <1>7, <1>8, <1>9, <1>10
<1> DEFINE f == IsFlag(Z)
<1>12. f \in BOOLEAN
  BY DEF IsFlag
<1>13. Z = Solid(AllStarts(i))
  BY <1>1 DEF W
<1>14. /\ DeclarationAt(i).ok = (tokens[i] # "custom" => Alone(kept, "{"))
       /\ DeclarationAt(i).next = StopAt(i)
       /\ DeclarationAt(i).part = made(Ends(kept), f)
  <2>1. Ends(Unflag(Solid(AllStarts(i)))) \in Seq(Nat)
    BY <1>11, <1>13
  <2> HIDE DEF Read
  <2>2. LET X == Solid(AllStarts(i))
            left == Unflag(X)
        IN /\ DeclarationAt(i).ok = (tokens[i] # "custom" => Alone(left, "{"))
           /\ DeclarationAt(i).next = StopAt(i)
           /\ DeclarationAt(i).part = Made("declaration", i, <<>>, <<>>, Ends(left), IsFlag(X))
    BY <1>2, <2>1, DeclarationIs, Zenon
  <2> QED  BY <1>13, <2>2, Zenon
<1> HIDE DEF kept
<1>15. Finished = made(value, f)
  <2>1. f = TRUE \/ f = FALSE
    BY <1>12
  <2>2. CASE f = TRUE
    <3>1. IsFlag(Z)
      BY <2>2
    <3> HIDE DEF f
    <3> QED  BY <1>11, <2>2, <3>1, Zenon
  <2>3. CASE f = FALSE
    <3>1. ~IsFlag(Z)
      BY <2>3
    <3> HIDE DEF f
    <3> QED  BY <1>11, <2>3, <3>1, Zenon
  <2> QED  BY <2>1, <2>2, <2>3
<1> HIDE DEF f
<1>16. Finished.name = i /\ Finished.value = value
  BY <1>15 DEF Made
<1>17. IsCustom(Finished) <=> tokens[i] = "custom"
  BY <1>16, Zenon DEF IsCustom
<1>18. IsValid(Finished) <=> (tokens[i] # "custom" => Alone(kept, "{"))
  BY <1>11, <1>16, <1>17, Zenon
<1>19. Finished = DeclarationAt(i).part
  BY <1>11, <1>14, <1>15, Zenon
<1> QED  BY <1>14, <1>18, <1>19, Zenon

-----------------------------------------------------------------------------
\* The recursion that Written is defined by: the parts from i on.
IsAt(i) == tokens[i] = "at"

FirstOf(i) == IF IsAt(i) THEN i + 1 ELSE i

StopOf(i) == FirstValue(tokens, FirstOf(i), {";", "{"})

HasBlock(i) == KindAt(StopOf(i)) = "{"

BlockOf(i) ==
    IF HasBlock(i) THEN Positions(StopOf(i), EndOfValue(tokens, StopOf(i))) ELSE <<>>

RuleAt(i) ==
    [Item("rule", IF IsAt(i) THEN i ELSE 0) EXCEPT
        !.prelude = Positions(FirstOf(i), StopOf(i) - 1), !.block = BlockOf(i)]

NextOf(i) ==
    IF StopOf(i) > Len(tokens) THEN Len(tokens) + 1 ELSE EndOfValue(tokens, StopOf(i)) + 1

Separates(i) == tokens[i] \in {"ws", ";"}

IsDeclaration(i) == LooksLikeDeclaration(i) /\ DeclarationAt(i).ok

IsRule(i) == IsAt(i) \/ HasBlock(i)

PartsStep(i, from) ==
    IF i > Len(tokens) THEN <<>>
    ELSE IF Separates(i) THEN from[i + 1]
    ELSE IF IsDeclaration(i) THEN <<DeclarationAt(i).part>> \o from[DeclarationAt(i).next]
    ELSE IF IsRule(i) THEN <<RuleAt(i)>> \o from[NextOf(i)]
    ELSE from[StopOf(i)]

PartsLoop(from) == from = [i \in 1..(Len(tokens) + 1) |-> PartsStep(i, from)]

PartsFrom == CHOOSE from : PartsLoop(from)

LEMMA WrittenIs == Written = PartsFrom[1]
BY Zenon DEF Written, PartsFrom, PartsLoop, PartsStep, Separates, IsDeclaration, IsRule, IsAt,
             HasBlock, RuleAt, BlockOf, NextOf, StopOf, FirstOf

\* A declaration, whatever its value, ends behind its name.
LEMMA NextIs == \A i : DeclarationAt(i).next = StopAt(i)
BY DEF DeclarationAt, StopAt, BehindName

\* Every part ends behind its beginning.
LEMMA PartEnds ==
    ASSUME tokens \in Seq(Kinds), NEW i \in 1..Len(tokens)
    PROVE  /\ FirstOf(i) \in i..(i + 1) /\ StopOf(i) \in FirstOf(i)..(Len(tokens) + 1)
           /\ FirstOf(i) \in 1..(Len(tokens) + 1) /\ StopOf(i) \in 1..(Len(tokens) + 1)
           /\ StopOf(i) \in i..(Len(tokens) + 1)
           /\ StopOf(i) <= Len(tokens) => StopOf(i) \in 1..Len(tokens)
           /\ ~IsRule(i) /\ ~Separates(i) => StopOf(i) \in (i + 1)..(Len(tokens) + 1)
           /\ NextOf(i) \in (i + 1)..(Len(tokens) + 1)
           /\ LooksLikeDeclaration(i) => DeclarationAt(i).next \in (i + 1)..(Len(tokens) + 1)
<1> DEFINE N == Len(tokens)
           first == FirstOf(i)
           stop == StopOf(i)
           next == NextOf(i)
           end == EndOfValue(tokens, stop)
<1>1. N \in Nat /\ first \in i..(i + 1) /\ (~IsAt(i) => first = i) /\ i \in 1..N
  BY DEF FirstOf
<1>2. first \in 1..(N + 1)
  BY <1>1
<1>3. stop \in first..(N + 1)
  <2> DEFINE kinds == {";", "{"}
  <2>1. stop = FirstValue(tokens, first, kinds)
    BY Zenon DEF StopOf
  <2> HIDE DEF kinds, stop, first
  <2> QED  BY <1>2, <2>1, FirstValueType
<1>4. stop <= N => tokens[stop] \in {";", "{"}
  <2> DEFINE kinds == {";", "{"}
  <2>1. stop = FirstValue(tokens, first, kinds)
    BY Zenon DEF StopOf
  <2> HIDE DEF kinds, stop, first
  <2>2. stop <= N => tokens[stop] \in kinds
    BY <1>2, <2>1, FirstValueType
  <2> QED  BY <2>2 DEF kinds
<1>5. stop <= N => end \in stop..N
  <2>1. stop <= N => stop \in 1..N
    <3> HIDE DEF first, stop
    <3> QED  BY <1>1, <1>2, <1>3
  <2> HIDE DEF stop
  <2> QED  BY <2>1, EndIsBehind
<1>6. next = IF stop > N THEN N + 1 ELSE end + 1
  BY Zenon DEF NextOf
<1>7. ~IsRule(i) /\ ~Separates(i) => stop # i
  <2> SUFFICES ASSUME ~IsRule(i), ~Separates(i), stop = i PROVE FALSE
    OBVIOUS
  <2>1. stop <= N
    <3> HIDE DEF stop
    <3> QED  BY <1>1
  <2>2. KindAt(stop) = tokens[stop]
    <3> HIDE DEF stop
    <3> QED  BY <2>1, Zenon DEF KindAt
  <2>3. tokens[stop] # "{"
    BY <2>2, Zenon DEF IsRule, HasBlock
  <2>4. tokens[stop] # ";"
    BY Zenon DEF Separates
  <2> HIDE DEF stop
  <2> QED  BY <1>4, <2>1, <2>3, <2>4, Zenon
<1>8. LooksLikeDeclaration(i) => DeclarationAt(i).next \in (i + 1)..(N + 1)
  <2> SUFFICES ASSUME LooksLikeDeclaration(i) PROVE StopAt(i) \in (i + 1)..(N + 1)
    BY NextIs
  <2> DEFINE b == BehindName(i)
             kinds == {";"}
  <2>1. b \in 1..(N + 1) /\ b \in (i + 1)..(N + 1)
    <3> DEFINE colon == whitespace(i + 1)
    <3>1. colon \in (i + 1)..N
      BY DeclarationStarts
    <3>2. b = colon + 1
      BY DEF BehindName
    <3> HIDE DEF colon, b
    <3> QED  BY <1>1, <3>1, <3>2
  <2>2. StopAt(i) = FirstValue(tokens, b, kinds)
    BY Zenon DEF StopAt
  <2> HIDE DEF kinds, b
  <2>3. StopAt(i) \in b..(N + 1)
    BY <2>1, <2>2, FirstValueType
  <2> QED  BY <1>1, <2>1, <2>3
<1> HIDE DEF first, stop, next, end, N
<1>9. /\ stop \in 1..(N + 1) /\ stop \in i..(N + 1) /\ (stop <= N => stop \in 1..N)
      /\ ~IsRule(i) /\ ~Separates(i) => stop \in (i + 1)..(N + 1)
      /\ next \in (i + 1)..(N + 1)
  BY <1>1, <1>2, <1>3, <1>5, <1>6, <1>7
<1> QED  BY <1>1, <1>2, <1>3, <1>8, <1>9 DEF first, stop, next, N

\* What parts there can be.
PartType ==
    ItemType \cup {DeclarationAt(i).part : i \in 1..Len(tokens)}
             \cup {RuleAt(i) : i \in 1..Len(tokens)}

LEMMA PartsStepType ==
    ASSUME tokens \in Seq(Kinds), NEW i \in 1..(Len(tokens) + 1),
           NEW h \in [(i + 1)..(Len(tokens) + 1) -> Seq(PartType)]
    PROVE  PartsStep(i, h) \in Seq(PartType)
<1>1. CASE i > Len(tokens)
  BY <1>1 DEF PartsStep
<1>2. CASE ~(i > Len(tokens))
  <2> DEFINE d == DeclarationAt(i).part
             nd == DeclarationAt(i).next
             r == RuleAt(i)
             nr == NextOf(i)
             s == StopOf(i)
             T == PartType
             D == (i + 1)..(Len(tokens) + 1)
  <2>1. i \in 1..Len(tokens) /\ i + 1 \in D
    BY <1>2
  <2>2. /\ ~IsRule(i) /\ ~Separates(i) => s \in D
        /\ nr \in D /\ (LooksLikeDeclaration(i) => nd \in D)
    BY <2>1, PartEnds
  <2>3. d \in T /\ r \in T
    BY <2>1, Zenon DEF PartType
  <2> HIDE DEF d, nd, r, nr, s, T, D
  <2>4. \A x \in D : h[x] \in Seq(T)
    BY DEF T, D
  <2>5. \A x \in D : <<d>> \o h[x] \in Seq(T) /\ <<r>> \o h[x] \in Seq(T)
    <3>1. <<d>> \in Seq(T) /\ <<r>> \in Seq(T)
      BY <2>3
    <3> QED  BY <2>4, <3>1, ConcatProperties
  <2>6. PartsStep(i, h) = IF Separates(i) THEN h[i + 1]
                          ELSE IF IsDeclaration(i) THEN <<d>> \o h[nd]
                          ELSE IF IsRule(i) THEN <<r>> \o h[nr] ELSE h[s]
    BY <1>2, Zenon DEF PartsStep, d, nd, r, nr, s
  <2>7. IsDeclaration(i) => LooksLikeDeclaration(i)
    BY Zenon DEF IsDeclaration
  <2>8. PartsStep(i, h) \in Seq(T)
    BY <2>1, <2>2, <2>4, <2>5, <2>6, <2>7, Zenon
  <2> QED  BY <2>8 DEF T
<1> QED  BY <1>1, <1>2

\* It asks only for the parts behind i.
LEMMA PartsStepAgrees ==
    ASSUME tokens \in Seq(Kinds), NEW i \in 1..(Len(tokens) + 1), NEW f, NEW h,
           \A j \in (i + 1)..(Len(tokens) + 1) : h[j] = f[j]
    PROVE  PartsStep(i, h) = PartsStep(i, f)
<1>1. CASE i > Len(tokens)
  BY <1>1, Zenon DEF PartsStep
<1>2. CASE ~(i > Len(tokens))
  <2> DEFINE D == (i + 1)..(Len(tokens) + 1)
  <2>1. i \in 1..Len(tokens) /\ i + 1 \in D
    BY <1>2
  <2>2. /\ ~IsRule(i) /\ ~Separates(i) => StopOf(i) \in D
        /\ NextOf(i) \in D /\ (LooksLikeDeclaration(i) => DeclarationAt(i).next \in D)
    BY <2>1, PartEnds
  <2>3. \A j \in D : h[j] = f[j]
    OBVIOUS
  <2> HIDE DEF D
  <2>4. h[i + 1] = f[i + 1] /\ h[NextOf(i)] = f[NextOf(i)]
    BY <2>1, <2>2, <2>3, Zenon
  <2>5. ~IsRule(i) /\ ~Separates(i) => h[StopOf(i)] = f[StopOf(i)]
    BY <2>2, <2>3, Zenon
  <2>6. IsDeclaration(i) => h[DeclarationAt(i).next] = f[DeclarationAt(i).next]
    BY <2>2, <2>3, Zenon DEF IsDeclaration
  <2> QED  BY <2>4, <2>5, <2>6, Zenon DEF PartsStep
<1> QED  BY <1>1, <1>2

LEMMA PartsExist ==
    ASSUME tokens \in Seq(Kinds)
    PROVE  \E from \in [1..(Len(tokens) + 1) -> Seq(PartType)] : PartsLoop(from)
<1> DEFINE N == Len(tokens)
           T == Seq(PartType)
           G == [i \in 1..(N + 1) |-> [h \in [(i + 1)..(N + 1) -> T] |-> PartsStep(i, h)]]
<1>1. N \in Nat
  OBVIOUS
<1>2. ASSUME NEW i \in 1..(N + 1), NEW h \in [(i + 1)..(N + 1) -> T]
      PROVE  G[i][h] \in T
  <2>1. G[i][h] = PartsStep(i, h)
    OBVIOUS
  <2> HIDE DEF G
  <2> QED  BY <2>1, PartsStepType
<1>3. PICK f : LooksAhead(f, N, T, G)
  <2> HIDE DEF G, N, T
  <2> QED  BY <1>1, <1>2, AheadExists
<1>4. ASSUME NEW i \in 1..(N + 1) PROVE f[i] = PartsStep(i, f)
  <2> DEFINE h == [j \in (i + 1)..(N + 1) |-> f[j]]
  <2>1. f[i] = G[i][h] /\ h \in [(i + 1)..(N + 1) -> T]
    <3> HIDE DEF G, T
    <3> QED  BY <1>3 DEF LooksAhead
  <2>2. G[i][h] = PartsStep(i, h)
    <3> HIDE DEF h, T
    <3> QED  BY <2>1
  <2>3. \A j \in (i + 1)..(N + 1) : h[j] = f[j]
    OBVIOUS
  <2>4. PartsStep(i, h) = PartsStep(i, f)
    <3> HIDE DEF h
    <3> QED  BY <2>3, PartsStepAgrees
  <2> QED  BY <2>1, <2>2, <2>4, Zenon
<1>5. f \in [1..(N + 1) -> T]
  BY <1>3 DEF LooksAhead
<1> QED  BY <1>4, <1>5 DEF PartsLoop

LEMMA PartsFromDef ==
    ASSUME tokens \in Seq(Kinds)
    PROVE  \A i \in 1..(Len(tokens) + 1) :
              PartsFrom[i] \in Seq(PartType) /\ PartsFrom[i] = PartsStep(i, PartsFrom)
<1> DEFINE f == PartsFrom
<1>1. PartsLoop(f)
  <2>1. \E from : PartsLoop(from)
    BY PartsExist
  <2> QED  BY <2>1, Zenon DEF PartsFrom
<1> HIDE DEF f
<1>2. \A i \in 1..(Len(tokens) + 1) : f[i] = PartsStep(i, f)
  BY <1>1 DEF PartsLoop
<1>3. \A i \in 1..(Len(tokens) + 1) : f[i] \in Seq(PartType)
  <2> DEFINE N == Len(tokens)
             D == 1..(N + 1)
             rank == [j \in D |-> N + 1 - j]
             G == {j \in D : f[j] \in Seq(PartType)}
  <2>1. rank \in [D -> Nat] /\ N \in Nat
    OBVIOUS
  <2>2. ASSUME NEW j \in D, \A l \in D : rank[l] < rank[j] => l \in G
        PROVE  j \in G
    <3> DEFINE h == [l \in (j + 1)..(N + 1) |-> f[l]]
    <3>1. \A l \in (j + 1)..(N + 1) : l \in D /\ rank[l] < rank[j]
      BY <2>1
    <3>2. h \in [(j + 1)..(N + 1) -> Seq(PartType)]
      <4> HIDE DEF D, rank
      <4>1. \A l \in (j + 1)..(N + 1) : l \in G
        BY <2>2, <3>1
      <4> QED  BY <4>1
    <3>3. f[j] = PartsStep(j, h)
      <4>1. \A l \in (j + 1)..(N + 1) : h[l] = f[l]
        OBVIOUS
      <4> HIDE DEF h
      <4> QED  BY <1>2, <4>1, PartsStepAgrees
    <3>4. f[j] \in Seq(PartType)
      <4> HIDE DEF h
      <4> QED  BY <3>2, <3>3, PartsStepType
    <3> QED  BY <3>4
  <2>3. D \subseteq G
    <3> HIDE DEF D, G, rank
    <3> QED  BY <2>1, <2>2, RankInduction
  <2> QED  BY <2>3
<1> QED  BY <1>2, <1>3 DEF f

\* The cases of a recursion, one by one.
LEMMA PartsAt ==
    ASSUME tokens \in Seq(Kinds), NEW i \in 1..Len(tokens)
    PROVE  LET f == PartsFrom
           IN /\ Separates(i) => f[i] = f[i + 1]
              /\ ~Separates(i) /\ IsDeclaration(i) =>
                    f[i] = <<DeclarationAt(i).part>> \o f[DeclarationAt(i).next]
              /\ ~Separates(i) /\ ~IsDeclaration(i) /\ IsRule(i) =>
                    f[i] = <<RuleAt(i)>> \o f[NextOf(i)]
              /\ ~Separates(i) /\ ~IsDeclaration(i) /\ ~IsRule(i) => f[i] = f[StopOf(i)]
<1>1. i \in 1..(Len(tokens) + 1) /\ ~(i > Len(tokens))
  OBVIOUS
<1>2. PartsFrom[i] = PartsStep(i, PartsFrom)
  BY <1>1, PartsFromDef
<1> QED  BY <1>1, <1>2, Zenon DEF PartsStep

LEMMA NoMoreParts ==
    ASSUME tokens \in Seq(Kinds), NEW i \in Nat, i = Len(tokens) + 1
    PROVE  PartsFrom[i] = <<>>
<1>1. i \in 1..(Len(tokens) + 1) /\ i > Len(tokens)
  OBVIOUS
<1>2. PartsFrom[i] = PartsStep(i, PartsFrom)
  BY <1>1, PartsFromDef
<1> QED  BY <1>1, <1>2, Zenon DEF PartsStep

\* The tokens stay, and so does all that is made of them.
LEMMA SameTokens ==
    ASSUME tokens' = tokens, NEW i
    PROVE  /\ LooksLikeDeclaration(i)' = LooksLikeDeclaration(i) /\ IsAt(i)' = IsAt(i)
           /\ Separates(i)' = Separates(i) /\ IsRule(i)' = IsRule(i) /\ HasBlock(i)' = HasBlock(i)
           /\ FirstOf(i)' = FirstOf(i) /\ StopOf(i)' = StopOf(i) /\ NextOf(i)' = NextOf(i)
           /\ RuleAt(i)' = RuleAt(i) /\ ValueFrom(i)' = ValueFrom(i) /\ StopAt(i)' = StopAt(i)
           /\ DeclarationAt(i)' = DeclarationAt(i) /\ IsDeclaration(i)' = IsDeclaration(i)
           /\ Good(i)' = Good(i)
<1>1. LooksLikeDeclaration(i)' = LooksLikeDeclaration(i)
  BY DEF LooksLikeDeclaration, KindAt, whitespace
<1>2. ValueFrom(i)' = ValueFrom(i) /\ StopAt(i)' = StopAt(i)
  BY DEF KindAt, whitespace, StopAt, BehindName, ValueFrom
<1>3. DeclarationAt(i)' = DeclarationAt(i)
  BY DEF KindAt, whitespace, DeclarationAt, ValuesBetween
<1>4. IsDeclaration(i)' = IsDeclaration(i)
  BY <1>1, <1>3 DEF IsDeclaration
<1>5. FirstOf(i)' = FirstOf(i) /\ StopOf(i)' = StopOf(i) /\ NextOf(i)' = NextOf(i)
  BY DEF NextOf, StopOf, FirstOf, IsAt
<1>6. IsRule(i)' = IsRule(i) /\ IsAt(i)' = IsAt(i) /\ HasBlock(i)' = HasBlock(i)
  BY DEF IsRule, StopOf, FirstOf, IsAt, HasBlock, KindAt
<1>7. RuleAt(i)' = RuleAt(i)
  BY DEF RuleAt, StopOf, FirstOf, IsAt, BlockOf, HasBlock, KindAt
<1>8. Separates(i)' = Separates(i) /\ Good(i)' = Good(i)
  BY DEF Separates, Good, Braced
<1> QED  BY <1>1, <1>2, <1>3, <1>4, <1>5, <1>6, <1>7, <1>8

LEMMA SameParts ==
    ASSUME tokens' = tokens
    PROVE  PartsFrom' = PartsFrom
<1>1. ASSUME NEW f PROVE PartsLoop(f)' = PartsLoop(f)
  <2> DEFINE g == [i \in 1..(Len(tokens) + 1) |-> PartsStep(i, f)]
  <2>1. \A i : PartsStep(i, f)' = PartsStep(i, f)
    <3> SUFFICES ASSUME NEW i PROVE PartsStep(i, f)' = PartsStep(i, f)
      OBVIOUS
    <3>1. /\ Separates(i)' = Separates(i) /\ IsRule(i)' = IsRule(i)
          /\ StopOf(i)' = StopOf(i) /\ NextOf(i)' = NextOf(i) /\ RuleAt(i)' = RuleAt(i)
          /\ DeclarationAt(i)' = DeclarationAt(i) /\ IsDeclaration(i)' = IsDeclaration(i)
      BY SameTokens
    <3> QED  BY <3>1 DEF PartsStep
  <2>2. g' = g
    BY <2>1
  <2> QED  BY <2>2 DEF PartsLoop
<1> QED  BY <1>1 DEF PartsFrom

\* A rule by all of its fields.
NameOf(i) == IF IsAt(i) THEN i ELSE 0

LEMMA RuleMade ==
    ASSUME tokens \in Seq(Kinds), NEW i \in 1..Len(tokens)
    PROVE  /\ RuleAt(i) = Made("rule", NameOf(i), Positions(FirstOf(i), StopOf(i) - 1), BlockOf(i),
                               <<>>, FALSE)
           /\ RuleAt(i) \in ItemType
           /\ BlockOf(i) \in Seq(Nat)
<1> DEFINE p == Positions(FirstOf(i), StopOf(i) - 1)
           b == BlockOf(i)
           name == NameOf(i)
<1>1. /\ FirstOf(i) \in 1..(Len(tokens) + 1) /\ StopOf(i) \in FirstOf(i)..(Len(tokens) + 1)
      /\ StopOf(i) \in 1..(Len(tokens) + 1)
      /\ StopOf(i) <= Len(tokens) => StopOf(i) \in 1..Len(tokens)
  BY PartEnds
<1>2. p \in Seq(Nat)
  <2> DEFINE first == FirstOf(i)
             last == StopOf(i) - 1
  <2>1. first \in Nat \ {0} /\ last \in Nat /\ first <= last + 1
    <3> DEFINE stop == StopOf(i)
    <3> HIDE DEF stop, first
    <3>1. first \in 1..(Len(tokens) + 1) /\ stop \in first..(Len(tokens) + 1)
      BY <1>1 DEF stop, first
    <3> QED  BY <3>1 DEF stop
  <2> HIDE DEF first, last
  <2>2. Positions(first, last) \in Seq(Nat)
    BY <2>1, PositionsType
  <2> QED  BY <2>2 DEF first, last
<1>3. b \in Seq(Nat)
  <2> DEFINE s == StopOf(i)
             e == EndOfValue(tokens, s)
  <2>1. CASE HasBlock(i)
    <3>1. s <= Len(tokens)
      <4>1. KindAt(s) = "{"
        BY <2>1, Zenon DEF HasBlock
      <4>2. EOF # "{"
        BY DEF EOF
      <4> HIDE DEF s
      <4> QED  BY <4>1, <4>2, Zenon DEF KindAt
    <3>2. s \in 1..Len(tokens)
      BY <1>1, <3>1
    <3> HIDE DEF s
    <3>3. e \in s..Len(tokens)
      BY <3>2, EndIsBehind
    <3> HIDE DEF e
    <3>4. s \in Nat \ {0} /\ e \in Nat /\ s <= e + 1
      BY <3>2, <3>3
    <3>5. Positions(s, e) \in Seq(Nat)
      BY <3>4, PositionsType
    <3>6. b = Positions(s, e)
      BY <2>1, Zenon DEF BlockOf, s, e
    <3> QED  BY <3>5, <3>6, Zenon
  <2>2. CASE ~HasBlock(i)
    <3>1. b = <<>>
      BY <2>2, Zenon DEF BlockOf
    <3> QED  BY <3>1, NothingIsAList, Zenon
  <2> QED  BY <2>1, <2>2
<1>4. name \in Nat
  BY DEF NameOf
<1>5. RuleAt(i) = [Item("rule", name) EXCEPT !.prelude = p, !.block = b]
  BY Zenon DEF RuleAt, NameOf
<1> HIDE DEF p, b, name
<1>6. /\ Item("rule", name) \in ItemType /\ Item("rule", name) = Made("rule", name, <<>>, <<>>, <<>>, FALSE)
  BY <1>4, ItemIs
<1> DEFINE it == Item("rule", name)
           m == Made("rule", name, p, b, <<>>, FALSE)
           w == [it EXCEPT !.prelude = p, !.block = b]
<1>7. m \in ItemType
  BY <1>2, <1>3, <1>4, MadeType, NothingIsAList
<1>8. /\ it \in ItemType /\ it.type = "rule" /\ it.name = name /\ it.value = <<>>
      /\ it.important = FALSE
  BY <1>6 DEF Made
<1>9. w = m
  <2> HIDE DEF it
  <2>1. /\ w \in ItemType /\ w.type = it.type /\ w.name = it.name /\ w.prelude = p
        /\ w.block = b /\ w.value = it.value /\ w.important = it.important
    BY <1>2, <1>3, <1>8 DEF ItemType
  <2>2. /\ m.type = "rule" /\ m.name = name /\ m.prelude = p
        /\ m.block = b /\ m.value = <<>> /\ m.important = FALSE
    BY DEF Made
  <2> HIDE DEF w, m
  <2> QED  BY <1>7, <1>8, <2>1, <2>2, ItemEqual
<1> HIDE DEF w
<1> QED  BY <1>3, <1>5, <1>7, <1>9 DEF p, b, name, w, it

-----------------------------------------------------------------------------
\* What blockPart, and what it calls, has read of the contents between braces.
All == PartsFrom

Declares == fn = "declaration"

Reading == fn \in {"atRule", "qualifiedRule", "declaration"}

\* The list that is read: where it begins, what stops it and where, and the part it is in.
BeginsAt(i) == IF Declares THEN ValueFrom(i) ELSE FirstOf(i)

Stops == IF Declares THEN {";"} ELSE {";", "{"}

StopsAt(i) == IF Declares THEN StopAt(i) ELSE StopOf(i)

ListField == IF Declares THEN "value" ELSE "prelude"

Holding(i, list) ==
    IF Declares THEN Made("declaration", i, <<>>, <<>>, list, FALSE)
    ELSE Made("rule", NameOf(i), list, <<>>, <<>>, FALSE)

\* The part that begins at i is being read, as what it is or looks like.
Reads(i) ==
    /\ Good(i) /\ ~Separates(i)
    /\ All[1] = parts \o All[i]
    /\ fn = "atRule" => IsAt(i)
    /\ fn = "qualifiedRule" => ~IsAt(i) /\ ~IsDeclaration(i)
    /\ fn = "declaration" => LooksLikeDeclaration(i)

\* In its list.
InListOf(i) ==
    /\ field = ListField
    /\ item = Holding(i, Positions(BeginsAt(i), pos))

\* In its list, between two values.
BetweenValues(i) ==
    /\ InListOf(i) /\ ends = <<>> /\ BeginsAt(i) <= here /\ Good(here)
    /\ StopsAt(i) = FirstValue(tokens, here, Stops)

\* In a block or function that begins at v.
Inside(v) ==
    /\ ends # <<>> /\ Opens(tokens[v]) /\ Good(v)
    /\ OpenAt(tokens, v, pos, ends)

InValueAt(i, v) ==
    /\ InListOf(i) /\ BeginsAt(i) <= v
    /\ tokens[v] \notin Stops
    /\ StopsAt(i) = FirstValue(tokens, v, Stops)
    /\ Inside(v)

InBlockAt(i, v) ==
    /\ ~Declares /\ field = "block"
    /\ v = StopOf(i) /\ HasBlock(i)
    /\ item = Made("rule", NameOf(i), Positions(FirstOf(i), v - 1), Positions(v, pos), <<>>, FALSE)
    /\ Inside(v)

PartInv ==
    /\ ~Reading => ends = <<>>
    /\ fn = "blockPart" => Good(here) /\ All[1] = parts \o All[here]
    /\ fn = "done" => All[1] = parts
    /\ Reading => \E i \in 1..Len(tokens) :
          /\ Reads(i)
          /\ BetweenValues(i) \/ \E v \in 1..pos : InValueAt(i, v) \/ InBlockAt(i, v)

\* The inductive invariant.
IInv == TypeMarks /\ (InsideBraces => PartInv)

\* The facts about a state that every step needs.
LEMMA StateFacts ==
    ASSUME TypeMarks
    PROVE  /\ tokens \in Seq(Kinds) /\ pos \in 0..Len(tokens) /\ ends \in Stacks
           /\ item \in ItemType /\ parts \in Seq(ItemType)
           /\ field \in {"prelude", "block", "value"}
           /\ parts \in Seq(PartType)
           /\ \A i \in 1..(Len(tokens) + 1) : All[i] \in Seq(PartType)
<1>1. TypeInv
  BY Zenon DEF TypeMarks
<1>2. /\ tokens \in Seq(Kinds) /\ pos \in 0..Len(tokens) /\ ends \in Stacks
      /\ item \in ItemType /\ parts \in Seq(ItemType)
      /\ field \in {"prelude", "block", "value"}
  BY <1>1, Zenon DEF TypeInv
<1>3. \A i \in 1..(Len(tokens) + 1) : All[i] \in Seq(PartType)
  BY <1>2, PartsFromDef DEF All
<1>4. parts \in Seq(PartType)
  <2>1. ItemType \subseteq PartType
    BY Zenon DEF PartType
  <2> QED  BY <1>2, <2>1
<1> QED  BY <1>2, <1>3, <1>4

LEMMA AllStays ==
    ASSUME tokens' = tokens
    PROVE  All' = All /\ PartType' = PartType /\ Good(here)' = Good(here')
<1>1. All' = All
  BY SameParts DEF All
<1>2. \A i : DeclarationAt(i)' = DeclarationAt(i) /\ RuleAt(i)' = RuleAt(i)
  BY SameTokens
<1>3. PartType' = PartType
  BY <1>2 DEF PartType
<1>4. Good(here)' = Good(here')
  <2>1. Braced' = Braced
    BY DEF Braced
  <2> QED  BY <2>1 DEF Good
<1> QED  BY <1>1, <1>3, <1>4

LEMMA OneMorePart ==
    ASSUME NEW P, NEW got \in Seq(P), NEW rest \in Seq(P), NEW r \in P
    PROVE  got \o (<<r>> \o rest) = Append(got, r) \o rest
<1>1. <<r>> \in Seq(P) /\ Append(got, r) = got \o <<r>>
  BY AppendIsConcat
<1>2. got \o (<<r>> \o rest) = (got \o <<r>>) \o rest
  BY <1>1, ConcatAssociative
<1> QED  BY <1>1, <1>2

\* A token that opens nothing, in contents that are values up to here.
LEMMA TokenHere ==
    ASSUME TypeMarks, Good(here)
    PROVE  /\ Kind # "}"
           /\ Kind # "EOF" => IsWhole(here) /\ Good(EndOfValue(tokens, here) + 1)
           /\ Kind # "EOF" /\ ~Opens(Kind) => EndOfValue(tokens, here) = here /\ Good(here + 1)
<1>1. tokens \in Seq(Kinds) /\ pos \in 0..Len(tokens)
  BY StateFacts
<1>2. Kind # "EOF" => here \in 1..Len(tokens) /\ Kind = tokens[here]
  BY <1>1, KindIs
<1>3. Kind # "EOF" => IsWhole(here) /\ Good(EndOfValue(tokens, here) + 1)
  BY <1>1, <1>2, GoodNext
<1>4. Kind # "EOF" /\ ~Opens(Kind) => EndOfValue(tokens, here) = here
  BY <1>1, <1>2, EndOfValueIs
<1>5. Kind # "}"
  <2>1. IsWhole(here) => tokens[here] # "}"
    BY Zenon DEF IsWhole
  <2>2. "EOF" # "}"
    OBVIOUS
  <2> QED  BY <1>2, <1>3, <2>1, <2>2, Zenon
<1> QED  BY <1>3, <1>4, <1>5, Zenon

LEMMA PartInit == Init /\ InsideBraces => PartInv
<1> SUFFICES ASSUME Init, InsideBraces PROVE PartInv
  OBVIOUS
<1>1. TypeMarks /\ parts = <<>> /\ fn = "blockPart" /\ ends = <<>> /\ here = 1
  BY TypeInit, MarkInit DEF Init, here, TypeMarks
<1>2. tokens \in Seq(Kinds) /\ \A i \in 1..(Len(tokens) + 1) : All[i] \in Seq(PartType)
  BY <1>1, StateFacts
<1>3. Good(1)
  BY <1>2, GoodFirst
<1>4. All[1] \in Seq(PartType)
  <2>1. 1 \in 1..(Len(tokens) + 1)
    BY <1>2
  <2> QED  BY <1>2, <2>1
<1>5. <<>> \o All[1] = All[1]
  BY <1>4
<1>6. ~Reading
  BY <1>1 DEF Reading
<1>7. Good(here)
  BY <1>1, <1>3, Zenon
<1> QED  BY <1>1, <1>5, <1>6, <1>7 DEF PartInv

-----------------------------------------------------------------------------
\* blockPart between parts.
LEMMA PartSkip ==
    ASSUME TypeMarks, PartInv, SkipSeparator
    PROVE  PartInv'
<1>1. /\ fn = "blockPart" /\ fn' = "blockPart" /\ tokens' = tokens /\ parts' = parts
      /\ ends' = ends /\ pos' = here /\ IsSeparator
  BY DEF SkipSeparator
<1>2. ends = <<>> /\ Good(here) /\ All[1] = parts \o All[here]
  BY <1>1 DEF PartInv, Reading
<1>3. tokens \in Seq(Kinds) /\ pos \in 0..Len(tokens)
  BY StateFacts
<1>4. Kind # "EOF" /\ ~Opens(Kind)
  BY <1>1 DEF IsSeparator, Opens
<1>5. here \in 1..Len(tokens) /\ Kind = tokens[here] /\ here' = here + 1
  BY <1>1, <1>3, <1>4, KindIs DEF here
<1>6. Separates(here)
  BY <1>1, <1>5, Zenon DEF Separates, IsSeparator
<1>7. All[here] = All[here + 1]
  <2>1. PartsFrom[here] = PartsFrom[here + 1]
    BY <1>3, <1>5, <1>6, PartsAt
  <2> QED  BY <2>1, Zenon DEF All
<1>8. Good(here + 1)
  BY <1>2, <1>4, TokenHere
<1>9. All' = All /\ Good(here)'
  <2>1. All' = All /\ Good(here)' = Good(here')
    BY <1>1, AllStays
  <2>2. Good(here')
    BY <1>5, <1>8, Zenon
  <2> QED  BY <2>1, <2>2
<1>10. All'[1] = parts' \o All'[here']
  BY <1>1, <1>2, <1>5, <1>7, <1>9, Zenon
<1> QED  BY <1>1, <1>2, <1>9, <1>10 DEF PartInv, Reading

LEMMA PartAtTheEnd ==
    ASSUME TypeMarks, PartInv, EndOfContents
    PROVE  PartInv'
<1>1. /\ fn = "blockPart" /\ fn' = "done" /\ tokens' = tokens /\ parts' = parts
      /\ ends' = ends
  BY DEF EndOfContents
<1>2. ends = <<>> /\ Good(here) /\ All[1] = parts \o All[here]
  BY <1>1 DEF PartInv, Reading
<1>3. Kind = "EOF"
  <2>1. Kind # "}"
    BY <1>2, TokenHere
  <2>2. Kind \in {EOF, "}"}
    BY DEF EndOfContents
  <2> QED  BY <2>1, <2>2, Zenon DEF EOF
<1>4. tokens \in Seq(Kinds) /\ pos \in 0..Len(tokens) /\ parts \in Seq(PartType)
  BY StateFacts
<1>5. here = Len(tokens) + 1 /\ here \in Nat
  BY <1>3, <1>4, KindIs
<1>6. All[here] = <<>>
  BY <1>4, <1>5, NoMoreParts DEF All
<1>7. parts \o <<>> = parts
  BY <1>4
<1>8. All' = All
  BY <1>1, AllStays
<1>9. All'[1] = parts'
  BY <1>1, <1>2, <1>6, <1>7, <1>8, Zenon
<1> QED  BY <1>1, <1>2, <1>9 DEF PartInv, Reading

\* A part begins: what is read of it, in the next state.
LEMMA ReadsNext ==
    ASSUME tokens' = tokens, parts' = parts, NEW i \in 1..Len(tokens), Good(i), ~Separates(i),
           All[1] = parts \o All[i],
           fn' = "atRule" => IsAt(i),
           fn' = "qualifiedRule" => ~IsAt(i) /\ ~IsDeclaration(i),
           fn' = "declaration" => LooksLikeDeclaration(i)
    PROVE  Reads(i)'
<1>1. /\ LooksLikeDeclaration(i)' = LooksLikeDeclaration(i) /\ IsAt(i)' = IsAt(i)
      /\ Separates(i)' = Separates(i) /\ IsDeclaration(i)' = IsDeclaration(i)
      /\ Good(i)' = Good(i)
  BY SameTokens
<1>2. All' = All
  BY AllStays
<1> QED  BY <1>1, <1>2 DEF Reads

LEMMA RuleBetween ==
    ASSUME tokens' = tokens, NEW i \in 1..Len(tokens), fn' \in {"atRule", "qualifiedRule"},
           ends' = <<>>, FirstOf(i) <= here', Good(here'), field' = "prelude",
           item' = Made("rule", NameOf(i), Positions(FirstOf(i), pos'), <<>>, <<>>, FALSE),
           StopOf(i) = FirstValue(tokens, here', {";", "{"})
    PROVE  BetweenValues(i)'
<1> DEFINE stops == {";", "{"}
<1>1. FirstOf(i)' = FirstOf(i) /\ StopOf(i)' = StopOf(i) /\ IsAt(i)' = IsAt(i)
  BY SameTokens
<1>2. NameOf(i)' = NameOf(i) /\ ~Declares'
  BY <1>1 DEF NameOf, Declares
<1>3. Good(here)'
  BY AllStays
<1>4. StopOf(i) = FirstValue(tokens, here', stops) /\ Stops' = stops
  BY <1>2, Zenon DEF Stops
<1> HIDE DEF stops
<1>5. /\ BeginsAt(i)' = FirstOf(i) /\ StopsAt(i)' = StopOf(i) /\ ListField' = "prelude"
  BY <1>1, <1>2 DEF BeginsAt, StopsAt, ListField
<1>6. InListOf(i)'
  BY <1>2, <1>5 DEF InListOf, Holding
<1> QED  BY <1>3, <1>4, <1>5, <1>6 DEF BetweenValues

LEMMA PartGoesOn ==
    ASSUME tokens' = tokens, Reading', NEW i \in 1..Len(tokens), Reads(i)', BetweenValues(i)'
    PROVE  PartInv'
BY DEF PartInv, Reading

LEMMA RuleBegins ==
    ASSUME TypeMarks, PartInv, StartAtRule \/ StartQualifiedRule
    PROVE  PartInv'
<1>1. /\ fn = "blockPart" /\ tokens' = tokens /\ parts' = parts
      /\ ends' = ends /\ field' = "prelude"
      /\ Kind \notin {EOF, "ws", ";"}
  BY DEF StartAtRule, StartQualifiedRule, IsSeparator, EOF
<1>2. ends = <<>> /\ Good(here) /\ All[1] = parts \o All[here]
  BY <1>1 DEF PartInv, Reading
<1>3. tokens \in Seq(Kinds) /\ pos \in 0..Len(tokens)
  BY StateFacts
<1>4. Kind # "EOF"
  BY <1>1, Zenon DEF EOF
<1>5. /\ here \in 1..Len(tokens) /\ Kind = tokens[here] /\ here \in Nat \ {0} /\ here - 1 = pos
      /\ here + 1 \in Nat \ {0} /\ (here + 1) - 1 = here /\ here \in Nat /\ 0 \in Nat
  BY <1>3, <1>4, KindIs
<1>6. ~Separates(here)
  BY <1>1, <1>5, Zenon DEF Separates
<1> DEFINE i == here
           stops == {";", "{"}
<1>7. StopOf(i) = FirstValue(tokens, FirstOf(i), stops)
  BY Zenon DEF StopOf
<1>8. CASE StartAtRule
  <2>1. /\ fn' = "atRule" /\ Kind = "at" /\ pos' = here /\ item' = Item("rule", here)
    BY <1>8 DEF StartAtRule
  <2>2. IsAt(here)
    BY <1>5, <2>1, Zenon DEF IsAt
  <2>3. FirstOf(i) = here + 1 /\ NameOf(i) = here /\ here' = here + 1
    BY <2>1, <2>2 DEF FirstOf, NameOf, here
  <2>4. ~Opens(Kind)
    BY <2>1 DEF Opens
  <2>5. Good(here + 1)
    BY <1>2, <1>4, <2>4, TokenHere
  <2>6. item' = Made("rule", here, <<>>, <<>>, <<>>, FALSE)
    BY <1>5, <2>1, ItemIs
  <2>7. Positions(here + 1, here) = <<>>
    <3>1. Positions(here + 1, (here + 1) - 1) = <<>>
      BY <1>5, NoPositions
    <3> QED  BY <1>5, <3>1
  <2>8. item' = Made("rule", NameOf(i), Positions(FirstOf(i), pos'), <<>>, <<>>, FALSE)
    BY <2>1, <2>3, <2>6, <2>7, Zenon
  <2>9. fn' # "qualifiedRule" /\ fn' # "declaration" /\ fn' \in {"atRule", "qualifiedRule"}
        /\ Reading'
    BY <2>1 DEF Reading
  <2>10. StopOf(i) = FirstValue(tokens, here', stops) /\ Good(here') /\ ends' = <<>>
    BY <1>1, <1>2, <1>7, <2>3, <2>5, Zenon
  <2>11. FirstOf(i) <= here'
    <3>1. here + 1 <= here + 1
      BY <1>5
    <3> QED  BY <2>3, <3>1, Zenon
  <2> HIDE DEF i
  <2>12. i \in 1..Len(tokens) /\ Good(i) /\ ~Separates(i) /\ All[1] = parts \o All[i] /\ IsAt(i)
    BY <1>2, <1>5, <1>6, <2>2, Zenon DEF i
  <2>13. PICK j \in 1..Len(tokens) : j = i
    BY <2>12, Zenon
  <2>14. Reads(j)'
    BY <1>1, <2>9, <2>12, <2>13, ReadsNext
  <2>15. BetweenValues(j)'
    BY <1>1, <2>8, <2>9, <2>10, <2>11, <2>13, RuleBetween
  <2> QED  BY <1>1, <2>9, <2>14, <2>15, PartGoesOn
<1>9. CASE StartQualifiedRule
  <2>1. /\ fn' = "qualifiedRule" /\ Kind # "at" /\ pos' = pos /\ item' = Item("rule", 0)
        /\ ~StartsDeclaration
    BY <1>9 DEF StartQualifiedRule
  <2>2. ~IsAt(here)
    BY <1>5, <2>1, Zenon DEF IsAt
  <2>3. ~IsDeclaration(here)
    <3>1. ~LooksLikeDeclaration(here)
      BY <1>3, <1>4, <2>1, StartsHere
    <3> QED  BY <3>1, Zenon DEF IsDeclaration
  <2>4. FirstOf(i) = here /\ NameOf(i) = 0 /\ here' = here
    BY <2>1, <2>2 DEF FirstOf, NameOf, here
  <2>5. item' = Made("rule", 0, <<>>, <<>>, <<>>, FALSE)
    BY <1>5, <2>1, ItemIs
  <2>6. Positions(here, pos) = <<>>
    BY <1>5, NoPositions
  <2>7. item' = Made("rule", NameOf(i), Positions(FirstOf(i), pos'), <<>>, <<>>, FALSE)
    BY <2>1, <2>4, <2>5, <2>6, Zenon
  <2>8. fn' # "atRule" /\ fn' # "declaration" /\ fn' \in {"atRule", "qualifiedRule"}
        /\ Reading'
    BY <2>1 DEF Reading
  <2>9. StopOf(i) = FirstValue(tokens, here', stops) /\ Good(here') /\ ends' = <<>>
    BY <1>1, <1>2, <1>7, <2>4, Zenon
  <2>10. FirstOf(i) <= here'
    <3>1. here <= here
      BY <1>5
    <3> QED  BY <2>4, <3>1, Zenon
  <2> HIDE DEF i
  <2>11. /\ i \in 1..Len(tokens) /\ Good(i) /\ ~Separates(i) /\ All[1] = parts \o All[i]
         /\ ~IsAt(i) /\ ~IsDeclaration(i)
    BY <1>2, <1>5, <1>6, <2>2, <2>3, Zenon DEF i
  <2>12. PICK j \in 1..Len(tokens) : j = i
    BY <2>11, Zenon
  <2>13. Reads(j)'
    BY <1>1, <2>8, <2>11, <2>12, ReadsNext
  <2>14. BetweenValues(j)'
    BY <1>1, <2>7, <2>8, <2>9, <2>10, <2>12, RuleBetween
  <2> QED  BY <1>1, <2>8, <2>13, <2>14, PartGoesOn
<1> QED  BY <1>8, <1>9

LEMMA DeclarationBegins ==
    ASSUME TypeMarks, PartInv, StartDeclaration
    PROVE  PartInv'
<1>1. /\ fn = "blockPart" /\ tokens' = tokens /\ parts' = parts /\ ends' = ends
      /\ field' = "value" /\ fn' = "declaration" /\ item' = Item("declaration", here)
      /\ pos' = AfterColon /\ StartsDeclaration
  BY DEF StartDeclaration
<1>2. ends = <<>> /\ Good(here) /\ All[1] = parts \o All[here]
  BY <1>1 DEF PartInv, Reading
<1>3. tokens \in Seq(Kinds) /\ pos \in 0..Len(tokens)
  BY StateFacts
<1>4. Kind # "EOF" /\ LooksLikeDeclaration(here)
  BY <1>1, <1>3, BehindColon
<1>5. /\ here \in 1..Len(tokens) /\ Kind = tokens[here] /\ here \in Nat
  BY <1>3, <1>4, KindIs
<1> DEFINE i == here
           from == ValueFrom(i)
           stop == StopAt(i)
           stops == {";"}
<1>6. ~Separates(i)
  <2>1. tokens[i] \in Names
    BY <1>4, Zenon DEF LooksLikeDeclaration
  <2>2. Names \cap {"ws", ";"} = {}
    BY DEF Names
  <2> HIDE DEF i
  <2> QED  BY <2>1, <2>2 DEF Separates
<1>7. item' = Made("declaration", i, <<>>, <<>>, <<>>, FALSE)
  BY <1>1, <1>5, ItemIs
<1>8. pos' = from - 1
  BY <1>1, Zenon DEF AfterColon, ValueFrom, BehindName
<1> HIDE DEF i
<1>9. i \in 1..Len(tokens) /\ LooksLikeDeclaration(i) /\ Good(i) /\ All[1] = parts \o All[i]
  BY <1>2, <1>4, <1>5 DEF i
<1>10. /\ from \in 1..(Len(tokens) + 1) /\ Good(from) /\ stop = FirstValue(tokens, from, stops)
  BY <1>3, <1>9, DeclarationParts
<1> HIDE DEF from, stop, stops
<1>11. here' = from /\ from \in Nat \ {0} /\ from <= from
  <2>1. here' = pos' + 1
    BY DEF here
  <2> QED  BY <1>8, <1>10, <2>1
<1>12. Positions(from, pos') = <<>>
  BY <1>8, <1>11, NoPositions
<1>13. PICK j \in 1..Len(tokens) : j = i
  BY <1>9, Zenon
<1>14. Reads(j)'
  <2>1. fn' # "atRule" /\ fn' # "qualifiedRule"
    BY <1>1
  <2> QED  BY <1>1, <1>6, <1>9, <1>13, <2>1, ReadsNext
<1>15. BetweenValues(j)'
  <2>1. ValueFrom(j)' = from /\ StopAt(j)' = stop
    BY <1>1, <1>13, SameTokens DEF from, stop
  <2>2. Declares'
    BY <1>1 DEF Declares
  <2>3. Stops' = stops
    BY <2>2, Zenon DEF Stops, stops
  <2>4. BeginsAt(j)' = from /\ StopsAt(j)' = stop /\ ListField' = "value"
    BY <2>1, <2>2 DEF BeginsAt, StopsAt, ListField
  <2>5. InListOf(j)'
    BY <1>1, <1>7, <1>12, <1>13, <2>2, <2>4 DEF InListOf, Holding
  <2>6. Good(here)' /\ ends' = <<>>
    BY <1>1, <1>2, <1>10, <1>11, AllStays
  <2>7. stop = FirstValue(tokens', here', stops)
    BY <1>1, <1>10, <1>11
  <2> QED  BY <1>11, <2>3, <2>4, <2>5, <2>6, <2>7 DEF BetweenValues
<1>16. Reading'
  BY <1>1 DEF Reading
<1> QED  BY <1>1, <1>14, <1>15, <1>16, PartGoesOn

-----------------------------------------------------------------------------
\* The list between two values: the value at hand is the one at which it stops, or not.
LEMMA ListState ==
    ASSUME PartInv, InList
    PROVE  Reading /\ \E i \in 1..Len(tokens) : Reads(i) /\ BetweenValues(i)
<1>1. Reading /\ ends = <<>>
  BY DEF InList, Reading
<1> QED  BY <1>1 DEF PartInv, InValueAt, InBlockAt, Inside

LEMMA BeginsType ==
    ASSUME tokens \in Seq(Kinds), Reading, NEW i \in 1..Len(tokens), Reads(i)
    PROVE  BeginsAt(i) \in Nat \ {0}
<1>1. CASE Declares
  <2>1. LooksLikeDeclaration(i) /\ Good(i)
    BY <1>1, Zenon DEF Declares, Reads
  <2>2. ValueFrom(i) \in 1..(Len(tokens) + 1)
    BY <2>1, DeclarationParts
  <2>3. BeginsAt(i) = ValueFrom(i)
    BY <1>1, Zenon DEF BeginsAt
  <2> QED  BY <2>2, <2>3
<1>2. CASE ~Declares
  <2>1. FirstOf(i) \in 1..(Len(tokens) + 1)
    BY PartEnds
  <2>2. BeginsAt(i) = FirstOf(i)
    BY <1>2, Zenon DEF BeginsAt
  <2> QED  BY <2>1, <2>2
<1> QED  BY <1>1, <1>2

LEMMA AtAValue ==
    ASSUME TypeMarks, Reading, NEW i \in 1..Len(tokens), Reads(i), BetweenValues(i)
    PROVE  /\ BeginsAt(i) \in Nat \ {0} /\ BeginsAt(i) <= here
           /\ Positions(BeginsAt(i), pos) \in Seq(Nat)
           /\ Append(Positions(BeginsAt(i), pos), here) = Positions(BeginsAt(i), here)
           /\ Kind = "EOF" \/ tokens[here] \in Stops => StopsAt(i) = here
           /\ ~(Kind = "EOF" \/ tokens[here] \in Stops) =>
                 StopsAt(i) = FirstValue(tokens, EndOfValue(tokens, here) + 1, Stops)
<1> DEFINE first == BeginsAt(i)
           stops == Stops
<1>1. tokens \in Seq(Kinds) /\ pos \in 0..Len(tokens)
  BY StateFacts
<1>2. /\ here \in 1..(Len(tokens) + 1) /\ pos \in Nat /\ here = pos + 1 /\ here \in Nat
      /\ Kind = "EOF" <=> here > Len(tokens)
  <2>1. /\ here \in 1..(Len(tokens) + 1) /\ pos \in Nat /\ here = pos + 1 /\ here \in Nat
        /\ Kind = "EOF" <=> here = Len(tokens) + 1
    BY <1>1, KindIs
  <2>2. here = Len(tokens) + 1 <=> here > Len(tokens)
    BY <1>1, <2>1
  <2> QED  BY <2>1, <2>2
<1>3. first \in Nat \ {0}
  BY <1>1, BeginsType
<1>4. first <= here /\ StopsAt(i) = FirstValue(tokens, here, stops)
  BY Zenon DEF BetweenValues
<1> HIDE DEF first, stops
<1>5. FirstValue(tokens, here, stops) = IF here > Len(tokens) \/ tokens[here] \in stops THEN here
                                        ELSE FirstValue(tokens, EndOfValue(tokens, here) + 1, stops)
  BY <1>1, <1>2, FirstValueDef
<1>6. first <= pos + 1
  BY <1>2, <1>4
<1>7. Positions(first, pos) \in Seq(Nat)
  BY <1>2, <1>3, <1>6, PositionsType
<1>8. Append(Positions(first, pos), here) = Positions(first, here)
  BY <1>2, <1>3, <1>6, PositionsGrow
<1> QED  BY <1>2, <1>3, <1>4, <1>5, <1>7, <1>8, Zenon DEF first, stops

\* What is held after one more token of the list.
LEMMA HoldingMore ==
    ASSUME TypeMarks, NEW i \in 1..Len(tokens), NEW list \in Seq(Nat), item = Holding(i, list),
           field = ListField
    PROVE  Kept = Holding(i, Append(list, here))
<1> DEFINE p == item.prelude
           b == item.block
           v == item.value
           made(x, y, z) == Made(item.type, item.name, x, y, z, item.important)
           more == Append(list, here)
<1>1. item \in ItemType /\ tokens \in Seq(Kinds) /\ pos \in 0..Len(tokens)
  BY StateFacts
<1>2. here \in Nat
  BY <1>1, KindIs
<1>3. /\ field = "prelude" => Kept = made(Append(p, here), b, v)
      /\ field = "value" => Kept = made(p, b, Append(v, here))
  BY <1>1, <1>2, KeptIs
<1>4. CASE Declares
  <2>1. item = Made("declaration", i, <<>>, <<>>, list, FALSE) /\ field = "value"
    BY <1>4, Zenon DEF Holding, ListField
  <2>2. /\ item.type = "declaration" /\ item.name = i /\ p = <<>> /\ b = <<>> /\ v = list
        /\ item.important = FALSE
    BY <2>1 DEF Made
  <2>3. Kept = Made("declaration", i, <<>>, <<>>, more, FALSE)
    BY <1>3, <2>1, <2>2, Zenon
  <2> QED  BY <1>4, <2>3, Zenon DEF Holding
<1>5. CASE ~Declares
  <2>1. item = Made("rule", NameOf(i), list, <<>>, <<>>, FALSE) /\ field = "prelude"
    BY <1>5, Zenon DEF Holding, ListField
  <2>2. /\ item.type = "rule" /\ item.name = NameOf(i) /\ p = list /\ b = <<>> /\ v = <<>>
        /\ item.important = FALSE
    BY <2>1 DEF Made
  <2>3. Kept = Made("rule", NameOf(i), more, <<>>, <<>>, FALSE)
    BY <1>3, <2>1, <2>2, Zenon
  <2> QED  BY <1>5, <2>3, Zenon DEF Holding
<1> QED  BY <1>4, <1>5

\* The part is complete, and what follows is left to blockPart.
LEMMA PartReturned ==
    ASSUME TypeMarks, tokens' = tokens, NEW i \in 1..Len(tokens), Reads(i),
           NEW r \in ItemType, Return(r), here' \in 1..(Len(tokens) + 1), Good(here'),
           All[i] = <<r>> \o All[here'], ends' = <<>>
    PROVE  PartInv'
<1>1. parts' = Append(parts, r) /\ fn' = "blockPart"
  BY Returns DEF TypeMarks
<1>2. All' = All /\ Good(here)'
  BY AllStays
<1>3. All[1] = parts \o All[i]
  BY DEF Reads
<1>4. parts \in Seq(PartType) /\ All[here'] \in Seq(PartType) /\ r \in PartType
  <2>1. r \in PartType
    BY Zenon DEF PartType
  <2> QED  BY <2>1, StateFacts
<1>5. parts \o (<<r>> \o All[here']) = Append(parts, r) \o All[here']
  BY <1>4, OneMorePart
<1>6. All'[1] = parts' \o All'[here']
  BY <1>1, <1>2, <1>3, <1>5, Zenon
<1> QED  BY <1>1, <1>2, <1>6 DEF PartInv, Reading

\* An at-rule and a name are told apart.
LEMMA AtIsNoName ==
    ASSUME NEW i, IsAt(i)
    PROVE  ~IsDeclaration(i)
<1>1. "at" \notin Names
  BY DEF Names
<1> QED  BY <1>1, Zenon DEF IsAt, IsDeclaration, LooksLikeDeclaration

LEMMA BlockNeeded ==
    ASSUME NEW i, ~HasBlock(i)
    PROVE  BlockOf(i) = <<>>
BY Zenon DEF BlockOf

LEMMA RuleWithoutBlockEnds ==
    ASSUME TypeMarks, PartInv, EndAtRule
    PROVE  PartInv'
<1>1. /\ InList /\ fn = "atRule" /\ Kind \in {EOF, ";", "}"} /\ Return(item)
      /\ tokens' = tokens /\ ends' = ends /\ ends = <<>>
      /\ pos' = IF Kind = ";" THEN here ELSE pos
  BY DEF EndAtRule, InList
<1>2. Reading /\ \E i \in 1..Len(tokens) : Reads(i) /\ BetweenValues(i)
  BY <1>1, ListState
<1>3. PICK i \in 1..Len(tokens) : Reads(i) /\ BetweenValues(i)
  BY <1>2
<1>4. /\ IsAt(i) /\ ~Declares /\ ~Separates(i)
      /\ InListOf(i) /\ Good(here)
  BY <1>1, <1>3 DEF Reads, BetweenValues, Declares
<1>5. /\ tokens \in Seq(Kinds) /\ pos \in 0..Len(tokens) /\ item \in ItemType
  BY StateFacts
<1>6. /\ Len(tokens) \in Nat /\ pos \in Nat /\ here = pos + 1 /\ here - 1 = pos
      /\ here \in 1..(Len(tokens) + 1)
      /\ Kind = "EOF" <=> here = Len(tokens) + 1
      /\ Kind # "EOF" => here \in 1..Len(tokens) /\ Kind = tokens[here]
                         /\ here + 1 \in 1..(Len(tokens) + 1)
  BY <1>5, KindIs
<1>7. Kind \in {"EOF", ";"} /\ Kind # "{" /\ ~Opens(Kind)
  <2>1. Kind # "}"
    BY <1>4, TokenHere
  <2>2. Kind = "EOF" \/ Kind = ";"
    BY <1>1, <2>1, Zenon DEF EOF
  <2>3. "EOF" # "{" /\ ";" # "{" /\ ~Opens("EOF") /\ ~Opens(";")
    BY DEF Opens
  <2> QED  BY <2>2, <2>3, Zenon
<1>8. StopOf(i) = here
  <2>1. Stops = {";", "{"} /\ StopsAt(i) = StopOf(i)
    BY <1>4, Zenon DEF Stops, StopsAt
  <2>2. Kind = "EOF" \/ tokens[here] = ";"
    BY <1>6, <1>7, Zenon
  <2>3. Kind = "EOF" \/ tokens[here] \in Stops
    BY <2>1, <2>2, Zenon
  <2>4. StopsAt(i) = here
    BY <1>2, <1>3, <2>3, AtAValue
  <2> QED  BY <2>1, <2>4
<1>9. ~HasBlock(i) /\ BlockOf(i) = <<>>
  <2>1. ~HasBlock(i)
    BY <1>7, <1>8, Zenon DEF HasBlock, Kind
  <2> QED  BY <2>1, BlockNeeded
<1>10. item = RuleAt(i)
  <2>1. item = Made("rule", NameOf(i), Positions(FirstOf(i), pos), <<>>, <<>>, FALSE)
    BY <1>4, Zenon DEF InListOf, Holding, BeginsAt
  <2>2. RuleAt(i) = Made("rule", NameOf(i), Positions(FirstOf(i), StopOf(i) - 1), BlockOf(i), <<>>, FALSE)
    BY <1>5, RuleMade
  <2>3. StopOf(i) - 1 = pos
    BY <1>6, <1>8
  <2> QED  BY <1>9, <2>1, <2>2, <2>3, Zenon
<1>11. here' = NextOf(i) /\ here' \in 1..(Len(tokens) + 1) /\ Good(here')
  <2>1. here' = pos' + 1
    BY DEF here
  <2>2. CASE Kind = "EOF"
    <3>1. pos' = pos
      BY <1>1, <2>2
    <3>2. StopOf(i) > Len(tokens) /\ NextOf(i) = Len(tokens) + 1
      <4>1. StopOf(i) > Len(tokens)
        BY <1>6, <1>8, <2>2
      <4> QED  BY <4>1, Zenon DEF NextOf
    <3>3. here' = here /\ here' = NextOf(i)
      BY <1>6, <2>1, <2>2, <3>1, <3>2
    <3> QED  BY <1>4, <1>6, <3>3, Zenon
  <2>3. CASE Kind # "EOF"
    <3>1. pos' = here
      BY <1>1, <1>7, <2>3
    <3>2. EndOfValue(tokens, here) = here /\ Good(here + 1)
      BY <1>4, <1>7, <2>3, TokenHere
    <3>3. ~(StopOf(i) > Len(tokens))
      BY <1>6, <1>8, <2>3
    <3>4. NextOf(i) = here + 1
      BY <1>8, <3>2, <3>3, Zenon DEF NextOf
    <3> QED  BY <1>6, <2>1, <2>3, <3>1, <3>2, <3>4, Zenon
  <2> QED  BY <2>2, <2>3
<1>12. All[i] = <<item>> \o All[here']
  <2>1. IsRule(i) /\ ~IsDeclaration(i)
    BY <1>4, AtIsNoName DEF IsRule
  <2>2. PartsFrom[i] = <<RuleAt(i)>> \o PartsFrom[NextOf(i)]
    BY <1>4, <1>5, <2>1, PartsAt
  <2> QED  BY <1>10, <1>11, <2>2, Zenon DEF All
<1>13. ends' = <<>>
  BY <1>1
<1> QED  BY <1>1, <1>3, <1>5, <1>11, <1>12, <1>13, PartReturned

LEMMA NoRuleEnds ==
    ASSUME TypeMarks, PartInv, EndQualifiedRule
    PROVE  PartInv'
<1>1. /\ InList /\ fn = "qualifiedRule" /\ Kind \in {EOF, ";", "}"} /\ fn' = "blockPart"
      /\ tokens' = tokens /\ ends' = ends /\ ends = <<>> /\ parts' = parts
      /\ pos' = IF Kind = "}" THEN here ELSE pos
  BY DEF EndQualifiedRule, InList
<1>2. Reading /\ \E i \in 1..Len(tokens) : Reads(i) /\ BetweenValues(i)
  BY <1>1, ListState
<1>3. PICK i \in 1..Len(tokens) : Reads(i) /\ BetweenValues(i)
  BY <1>2
<1>4. /\ ~IsAt(i) /\ ~IsDeclaration(i) /\ ~Declares /\ ~Separates(i) /\ Good(here)
      /\ All[1] = parts \o All[i]
  BY <1>1, <1>3 DEF Reads, BetweenValues, Declares
<1>5. tokens \in Seq(Kinds) /\ pos \in 0..Len(tokens)
  BY StateFacts
<1>6. Kind # "EOF" => Kind = tokens[here]
  BY <1>5, KindIs
<1>7. Kind \in {"EOF", ";"} /\ Kind # "{" /\ Kind # "}"
  <2>1. Kind # "}"
    BY <1>4, TokenHere
  <2>2. Kind = "EOF" \/ Kind = ";"
    BY <1>1, <2>1, Zenon DEF EOF
  <2>3. "EOF" # "{" /\ ";" # "{"
    OBVIOUS
  <2> QED  BY <2>1, <2>2, <2>3, Zenon
<1>8. StopOf(i) = here
  <2>1. Stops = {";", "{"} /\ StopsAt(i) = StopOf(i)
    BY <1>4, Zenon DEF Stops, StopsAt
  <2>2. Kind = "EOF" \/ tokens[here] = ";"
    BY <1>6, <1>7, Zenon
  <2>3. Kind = "EOF" \/ tokens[here] \in Stops
    BY <2>1, <2>2, Zenon
  <2>4. StopsAt(i) = here
    BY <1>2, <1>3, <2>3, AtAValue
  <2> QED  BY <2>1, <2>4
<1>9. ~IsRule(i)
  BY <1>4, <1>7, <1>8, Zenon DEF IsRule, HasBlock, Kind
<1>10. All[i] = All[here]
  <2>1. PartsFrom[i] = PartsFrom[StopOf(i)]
    BY <1>4, <1>5, <1>9, PartsAt
  <2> QED  BY <1>8, <2>1, Zenon DEF All
<1>11. here' = here
  BY <1>1, <1>7 DEF here
<1>12. All' = All /\ Good(here)'
  <2>1. All' = All /\ Good(here)' = Good(here')
    BY <1>1, AllStays
  <2> QED  BY <1>4, <1>11, <2>1, Zenon
<1>13. All'[1] = parts' \o All'[here'] /\ ends' = <<>>
  BY <1>1, <1>4, <1>10, <1>11, <1>12, Zenon
<1> QED  BY <1>1, <1>12, <1>13 DEF PartInv, Reading

-----------------------------------------------------------------------------
\* The same part goes on.
LEMMA SameList ==
    ASSUME tokens' = tokens, fn' = fn, NEW i
    PROVE  /\ BeginsAt(i)' = BeginsAt(i) /\ StopsAt(i)' = StopsAt(i) /\ Stops' = Stops
           /\ ListField' = ListField /\ Declares' = Declares
           /\ FirstOf(i)' = FirstOf(i) /\ StopOf(i)' = StopOf(i) /\ NameOf(i)' = NameOf(i)
           /\ HasBlock(i)' = HasBlock(i)
           /\ \A list : Holding(i, list)' = Holding(i, list)
<1>1. /\ FirstOf(i)' = FirstOf(i) /\ StopOf(i)' = StopOf(i) /\ IsAt(i)' = IsAt(i)
      /\ ValueFrom(i)' = ValueFrom(i) /\ StopAt(i)' = StopAt(i) /\ HasBlock(i)' = HasBlock(i)
  BY SameTokens
<1>2. Declares' = Declares
  BY DEF Declares
<1>3. NameOf(i)' = NameOf(i)
  BY <1>1 DEF NameOf
<1>4. \A list : Holding(i, list)' = Holding(i, list)
  <2> SUFFICES ASSUME NEW list PROVE Holding(i, list)' = Holding(i, list)
    OBVIOUS
  <2> DEFINE name == NameOf(i)
             d == Declares
             a == Made("declaration", i, <<>>, <<>>, list, FALSE)
             b == Made("rule", name, list, <<>>, <<>>, FALSE)
  <2>1. a' = a /\ b' = b /\ d' = d
    BY <1>2, <1>3 DEF Made
  <2>2. Holding(i, list) = (IF d THEN a ELSE b) /\ Holding(i, list)' = (IF d' THEN a' ELSE b')
    BY Zenon DEF Holding
  <2> HIDE DEF a, b, d
  <2> QED  BY <2>1, <2>2, Zenon
<1>5. Stops' = Stops /\ ListField' = ListField
  BY <1>2 DEF Stops, ListField
<1>6. BeginsAt(i)' = BeginsAt(i) /\ StopsAt(i)' = StopsAt(i)
  BY <1>1, <1>2 DEF BeginsAt, StopsAt
<1> QED  BY <1>1, <1>2, <1>3, <1>4, <1>5, <1>6

LEMMA SamePart ==
    ASSUME tokens' = tokens, fn' = fn, parts' = parts, Reading, NEW i \in 1..Len(tokens), Reads(i)
    PROVE  Reading' /\ Reads(i)'
<1>1. Reading'
  BY DEF Reading
<1>2. /\ LooksLikeDeclaration(i)' = LooksLikeDeclaration(i) /\ IsAt(i)' = IsAt(i)
      /\ Separates(i)' = Separates(i) /\ IsDeclaration(i)' = IsDeclaration(i)
      /\ Good(i)' = Good(i)
  BY SameTokens
<1>3. All' = All
  BY AllStays
<1> QED  BY <1>1, <1>2, <1>3 DEF Reads

LEMMA ValueGoesOn ==
    ASSUME tokens' = tokens, Reading', NEW i \in 1..Len(tokens), Reads(i)',
           NEW v \in 1..pos', InValueAt(i, v)' \/ InBlockAt(i, v)'
    PROVE  PartInv'
BY DEF PartInv, Reading

\* A list that goes on between two values.
LEMMA ListBetween ==
    ASSUME tokens' = tokens, fn' = fn, field' = field, NEW i \in 1..Len(tokens),
           field = ListField, item' = Holding(i, Positions(BeginsAt(i), pos')),
           ends' = <<>>, BeginsAt(i) <= here', Good(here'),
           StopsAt(i) = FirstValue(tokens, here', Stops)
    PROVE  BetweenValues(i)'
<1>1. /\ BeginsAt(i)' = BeginsAt(i) /\ StopsAt(i)' = StopsAt(i) /\ Stops' = Stops
      /\ ListField' = ListField
      /\ \A list : Holding(i, list)' = Holding(i, list)
  BY SameList
<1>2. Good(here)'
  BY AllStays
<1>3. InListOf(i)'
  <2> DEFINE list == Positions(BeginsAt(i), pos)
             held == Holding(i, list)
  <2>1. list' = Positions(BeginsAt(i), pos')
    BY <1>1
  <2>2. held' = Holding(i, Positions(BeginsAt(i), pos'))
    BY <1>1, <2>1 DEF Holding, Declares, NameOf, IsAt
  <2>3. InListOf(i)' <=> field' = ListField' /\ item' = held'
    BY Zenon DEF InListOf
  <2> QED  BY <1>1, <2>2, <2>3, Zenon
<1> QED  BY <1>1, <1>2, <1>3 DEF BetweenValues

\* A block or function begins at hand.
LEMMA InsideBegins ==
    ASSUME TypeMarks, Kind # "EOF", Opens(Kind), Good(here), tokens' = tokens, pos' = here,
           ends' = <<EndOf(Kind)>>, NEW v, v = here
    PROVE  Inside(v)'
<1>1. tokens \in Seq(Kinds) /\ pos \in 0..Len(tokens)
  BY StateFacts
<1>2. here \in 1..Len(tokens) /\ Kind = tokens[here]
  BY <1>1, KindIs
<1>3. OpenAt(tokens, v, v, <<EndOf(tokens[v])>>)
  BY <1>1, <1>2, OpenBegins
<1>4. Good(v)'
  <2>1. Good(v)' = Good(v)
    BY SameTokens
  <2> QED  BY <2>1
<1>5. ends' # <<>> /\ Opens(tokens[v]) /\ ends' = <<EndOf(tokens[v])>>
  BY <1>2
<1> QED  BY <1>3, <1>4, <1>5 DEF Inside

\* One value of the list, or what opens it.
LEMMA ListTakesValue ==
    ASSUME TypeMarks, PartInv, ListValue
    PROVE  PartInv'
<1>1. /\ InList /\ Kind \notin StopsList /\ pos' = here /\ item' = Kept /\ ends = <<>>
      /\ ends' = IF Opens(Kind) THEN <<EndOf(Kind)>> ELSE <<>>
      /\ tokens' = tokens /\ fn' = fn /\ field' = field /\ parts' = parts
  BY DEF ListValue, InList
<1>2. Reading /\ \E i \in 1..Len(tokens) : Reads(i) /\ BetweenValues(i)
  BY <1>1, ListState
<1>3. PICK i \in 1..Len(tokens) : Reads(i) /\ BetweenValues(i)
  BY <1>2
<1>4. tokens \in Seq(Kinds) /\ pos \in 0..Len(tokens)
  BY StateFacts
<1>5. Kind # "EOF"
  BY <1>1, Zenon DEF StopsList, EOF
<1>6. here \in 1..Len(tokens) /\ Kind = tokens[here] /\ here \in Nat
  BY <1>4, <1>5, KindIs
<1>7. tokens[here] \notin Stops
  <2>1. tokens[here] # ";"
    BY <1>1, <1>6, Zenon DEF StopsList
  <2>2. ~Declares => tokens[here] # "{"
    BY <1>1, <1>6, Zenon DEF StopsList, Declares
  <2> QED  BY <2>1, <2>2, Zenon DEF Stops
<1>8. /\ BeginsAt(i) \in Nat \ {0} /\ BeginsAt(i) <= here
      /\ Positions(BeginsAt(i), pos) \in Seq(Nat)
      /\ Append(Positions(BeginsAt(i), pos), here) = Positions(BeginsAt(i), here)
      /\ StopsAt(i) = FirstValue(tokens, EndOfValue(tokens, here) + 1, Stops)
  BY <1>2, <1>3, <1>5, <1>7, AtAValue
<1>9. /\ field = ListField /\ item = Holding(i, Positions(BeginsAt(i), pos)) /\ Good(here)
      /\ StopsAt(i) = FirstValue(tokens, here, Stops)
  BY <1>3, Zenon DEF BetweenValues, InListOf
<1>10. item' = Holding(i, Positions(BeginsAt(i), pos'))
  <2>1. Kept = Holding(i, Append(Positions(BeginsAt(i), pos), here))
    BY <1>8, <1>9, HoldingMore
  <2> QED  BY <1>1, <1>8, <2>1, Zenon
<1>11. Reading' /\ Reads(i)'
  BY <1>1, <1>2, <1>3, SamePart
<1>12. CASE ~Opens(Kind)
  <2>1. EndOfValue(tokens, here) = here /\ Good(here + 1)
    BY <1>5, <1>9, <1>12, TokenHere
  <2>2. here' = here + 1
    BY <1>1 DEF here
  <2>3. BeginsAt(i) <= here'
    <3> DEFINE first == BeginsAt(i)
    <3> HIDE DEF first
    <3>1. first \in Nat \ {0} /\ first <= here
      BY <1>8 DEF first
    <3>2. first <= here + 1
      BY <1>6, <3>1
    <3> QED  BY <2>2, <3>2 DEF first
  <2>4. /\ ends' = <<>> /\ Good(here') /\ StopsAt(i) = FirstValue(tokens, here', Stops)
    BY <1>1, <1>8, <1>12, <2>1, <2>2, Zenon
  <2>5. BetweenValues(i)'
    BY <1>1, <1>9, <1>10, <2>3, <2>4, ListBetween
  <2> QED  BY <1>1, <1>11, <2>5, PartGoesOn
<1>13. CASE Opens(Kind)
  <2>1. PICK v \in 1..pos' : v = here
    <3>1. here \in 1..here
      BY <1>6
    <3> QED  BY <1>1, <3>1, Zenon
  <2>2. Inside(v)'
    BY <1>1, <1>5, <1>9, <1>13, <2>1, InsideBegins
  <2>3. /\ BeginsAt(i)' = BeginsAt(i) /\ StopsAt(i)' = StopsAt(i) /\ Stops' = Stops
        /\ ListField' = ListField
        /\ \A list : Holding(i, list)' = Holding(i, list)
    BY <1>1, SameList
  <2>4. InListOf(i)'
    <3> DEFINE held == Holding(i, Positions(BeginsAt(i), pos))
    <3>1. held' = Holding(i, Positions(BeginsAt(i), pos'))
      BY <1>1, <2>3 DEF Holding, Declares, NameOf, IsAt
    <3>2. InListOf(i)' <=> field' = ListField' /\ item' = held'
      BY Zenon DEF InListOf
    <3> QED  BY <1>1, <1>9, <1>10, <2>3, <3>1, <3>2, Zenon
  <2>5. InValueAt(i, v)'
    BY <1>1, <1>7, <1>8, <1>9, <2>1, <2>2, <2>3, <2>4 DEF InValueAt
  <2> QED  BY <1>1, <1>11, <2>1, <2>5, ValueGoesOn
<1> QED  BY <1>12, <1>13

LEMMA BlockBegins ==
    ASSUME TypeMarks, PartInv, StartBlock
    PROVE  PartInv'
<1>1. /\ InList /\ fn # "declaration" /\ Kind = "{" /\ pos' = here /\ field' = "block"
      /\ item' = [item EXCEPT !.block = <<here>>] /\ ends' = <<EndOf("{")>> /\ ends = <<>>
      /\ tokens' = tokens /\ fn' = fn /\ parts' = parts
  BY DEF StartBlock, InList
<1>2. Reading /\ \E i \in 1..Len(tokens) : Reads(i) /\ BetweenValues(i)
  BY <1>1, ListState
<1>3. PICK i \in 1..Len(tokens) : Reads(i) /\ BetweenValues(i)
  BY <1>2
<1>4. tokens \in Seq(Kinds) /\ pos \in 0..Len(tokens) /\ item \in ItemType
  BY StateFacts
<1>5. Kind # "EOF" /\ Opens(Kind) /\ ends' = <<EndOf(Kind)>>
  BY <1>1 DEF Opens
<1>6. /\ here \in 1..Len(tokens) /\ Kind = tokens[here] /\ here \in Nat \ {0} /\ here - 1 = pos
      /\ here = pos + 1 /\ here \in Nat /\ pos \in Nat
  BY <1>4, <1>5, KindIs
<1>7. ~Declares
  BY <1>1 DEF Declares
<1>8. StopOf(i) = here /\ HasBlock(i)
  <2>1. Stops = {";", "{"} /\ StopsAt(i) = StopOf(i)
    BY <1>7, Zenon DEF Stops, StopsAt
  <2>2. tokens[here] \in Stops
    BY <1>1, <1>6, <2>1, Zenon
  <2>3. StopsAt(i) = here
    BY <1>2, <1>3, <2>2, AtAValue
  <2> QED  BY <1>1, <2>1, <2>3, Zenon DEF HasBlock, Kind
<1>9. /\ item = Made("rule", NameOf(i), Positions(FirstOf(i), pos), <<>>, <<>>, FALSE)
      /\ Good(here)
  BY <1>3, <1>7, Zenon DEF BetweenValues, InListOf, Holding, BeginsAt
<1>10. item' = Made("rule", NameOf(i), Positions(FirstOf(i), here - 1), Positions(here, here), <<>>, FALSE)
  <2> DEFINE p == Positions(FirstOf(i), pos)
             name == NameOf(i)
             one == Positions(here, here)
             m == Made("rule", name, p, one, <<>>, FALSE)
  <2>1. one = <<here>> /\ one \in Seq(Nat)
    <3>1. Append(Positions(here, pos), pos + 1) = Positions(here, pos + 1)
      <4>1. here <= pos + 1
        BY <1>6
      <4> QED  BY <1>6, <4>1, PositionsGrow
    <3>2. Positions(here, pos) = <<>>
      BY <1>6, NoPositions
    <3>3. Append(<<>>, here) = <<here>> /\ <<here>> \in Seq(Nat)
      BY <1>6
    <3> QED  BY <1>6, <3>1, <3>2, <3>3
  <2> HIDE DEF p, name, one
  <2>2. /\ item.type = "rule" /\ item.name = name /\ item.prelude = p /\ item.value = <<>>
        /\ item.important = FALSE
    BY <1>9 DEF Made, p, name
  <2>3. name \in Nat /\ p \in Seq(Nat)
    BY <1>4, <2>2, ItemFields
  <2>4. m \in ItemType
    BY <2>1, <2>3, MadeType, NothingIsAList
  <2>5. /\ item' \in ItemType /\ item'.type = item.type /\ item'.name = item.name
        /\ item'.prelude = item.prelude /\ item'.block = <<here>> /\ item'.value = item.value
        /\ item'.important = item.important
    BY <1>1, <1>4, <2>1 DEF ItemType
  <2>6. /\ m.type = "rule" /\ m.name = name /\ m.prelude = p /\ m.block = one /\ m.value = <<>>
        /\ m.important = FALSE
    BY DEF Made
  <2> HIDE DEF m
  <2>7. item' = m
    BY <2>1, <2>2, <2>4, <2>5, <2>6, ItemEqual
  <2> QED  BY <1>6, <2>7, Zenon DEF m, p, name, one
<1>11. PICK v \in 1..pos' : v = here
  <2>1. here \in 1..here
    BY <1>6
  <2> QED  BY <1>1, <2>1, Zenon
<1>12. Inside(v)'
  BY <1>1, <1>5, <1>9, <1>11, InsideBegins
<1>13. Reading' /\ Reads(i)'
  BY <1>1, <1>2, <1>3, SamePart
<1>14. InBlockAt(i, v)'
  <2>1. /\ FirstOf(i)' = FirstOf(i) /\ StopOf(i)' = StopOf(i) /\ NameOf(i)' = NameOf(i)
        /\ HasBlock(i)' = HasBlock(i) /\ Declares' = Declares
    BY <1>1, SameList
  <2> QED  BY <1>1, <1>7, <1>8, <1>10, <1>11, <1>12, <2>1 DEF InBlockAt
<1> QED  BY <1>1, <1>11, <1>13, <1>14, ValueGoesOn

-----------------------------------------------------------------------------
\* In a block or function: it goes on as the values of the contents say.
LEMMA BlockState ==
    ASSUME PartInv, ends # <<>>
    PROVE  /\ Reading
           /\ \E i \in 1..Len(tokens) : Reads(i)
                 /\ \E v \in 1..pos : InValueAt(i, v) \/ InBlockAt(i, v)
BY DEF PartInv, BetweenValues

LEMMA InsideAt ==
    ASSUME TypeMarks, NEW v \in 1..pos, Inside(v)
    PROVE  /\ v \in 1..Len(tokens) /\ pos \in v..Len(tokens) /\ v \in Nat \ {0} /\ v <= pos + 1
           /\ ends # <<>> /\ IsWhole(v) /\ Good(EndOfValue(tokens, v) + 1)
<1>1. tokens \in Seq(Kinds) /\ pos \in 0..Len(tokens)
  BY StateFacts
<1>2. v \in 1..Len(tokens) /\ pos \in v..Len(tokens) /\ v \in Nat \ {0} /\ v <= pos + 1
  BY <1>1
<1>3. ends # <<>> /\ Good(v)
  BY DEF Inside
<1>4. IsWhole(v) /\ Good(EndOfValue(tokens, v) + 1)
  BY <1>1, <1>2, <1>3, GoodNext
<1> QED  BY <1>2, <1>3, <1>4

\* It is closed: the contents do not end in it.
LEMMA InsideIsClosed ==
    ASSUME TypeMarks, NEW v \in 1..pos, Inside(v)
    PROVE  Kind # "EOF"
<1> SUFFICES ASSUME Kind = "EOF" PROVE FALSE
  OBVIOUS
<1>1. tokens \in Seq(Kinds) /\ pos \in 0..Len(tokens) /\ ends \in Stacks
  BY StateFacts
<1>2. v \in 1..Len(tokens) /\ pos \in v..Len(tokens) /\ ends # <<>> /\ IsWhole(v)
  BY InsideAt
<1>3. OpenAt(tokens, v, pos, ends) /\ Opens(tokens[v])
  BY DEF Inside
<1>4. pos = Len(tokens) /\ pos \in pos..Len(tokens)
  <2>1. here = Len(tokens) + 1 /\ here = pos + 1 /\ Len(tokens) \in Nat /\ pos \in Nat
    BY <1>1, KindIs
  <2> QED  BY <2>1
<1>5. ValueLength(SubSeq(tokens, v, pos)) = [n |-> pos + 1 - v, ok |-> ends = <<>>]
  BY <1>1, <1>2, <1>3, <1>4, OpenStops
<1>6. (ends = <<>>) = FALSE
  BY <1>2
<1>7. ValueLength(SubSeq(tokens, v, Len(tokens))).ok = FALSE
  <2>1. \A a, b : [n |-> a, ok |-> b].ok = b
    OBVIOUS
  <2>2. pos = Len(tokens)
    BY <1>4
  <2>3. ValueLength(SubSeq(tokens, v, pos)).ok = (ends = <<>>)
    BY <1>5, <2>1, Zenon
  <2> QED  BY <1>6, <2>2, <2>3, Zenon
<1>8. ValueLength(SubSeq(tokens, v, Len(tokens))).ok = TRUE
  BY <1>2, <1>3, Zenon DEF IsWhole
<1> QED  BY <1>7, <1>8

\* One token further.
LEMMA InsideGoesOn ==
    ASSUME TypeMarks, NEW v \in 1..pos, Inside(v)
    PROVE  /\ OpenAt(tokens, v, here, Nest(ends, Kind)) /\ Nest(ends, Kind) \in Stacks
           /\ here \in v..Len(tokens)
<1>1. tokens \in Seq(Kinds) /\ pos \in 0..Len(tokens) /\ ends \in Stacks
  BY StateFacts
<1>2. v \in 1..Len(tokens) /\ pos \in v..Len(tokens) /\ ends # <<>>
  BY InsideAt
<1>3. OpenAt(tokens, v, pos, ends)
  BY DEF Inside
<1>4. Kind # "EOF"
  BY InsideIsClosed
<1>5. here = pos + 1 /\ Kind = tokens[here] /\ here \in 1..Len(tokens) /\ pos \in Nat
  BY <1>1, <1>4, KindIs
<1>6. pos < Len(tokens) /\ here \in v..Len(tokens)
  BY <1>1, <1>2, <1>5
<1>7. OpenAt(tokens, v, pos + 1, Nest(ends, tokens[pos + 1]))
  BY <1>1, <1>2, <1>3, <1>6, OpenGoesOn
<1>8. Nest(ends, Kind) \in Stacks
  BY <1>1, <1>2, NestType
<1> QED  BY <1>5, <1>6, <1>7, <1>8

LEMMA InsideTakesToken ==
    ASSUME TypeMarks, NEW v \in 1..pos, Inside(v), tokens' = tokens, pos' = here,
           ends' = Nest(ends, Kind), ends' # <<>>
    PROVE  Inside(v)'
<1>1. OpenAt(tokens, v, here, Nest(ends, Kind))
  BY InsideGoesOn
<1>2. Opens(tokens[v]) /\ Good(v)
  BY DEF Inside
<1>3. Good(v)'
  BY <1>2, SameTokens
<1> QED  BY <1>1, <1>2, <1>3 DEF Inside

\* The value ends here.
LEMMA ClosedHere ==
    ASSUME TypeMarks, Nest(ends, Kind) = <<>>, NEW v \in 1..pos, Inside(v)
    PROVE  /\ EndOfValue(tokens, v) = here /\ Good(here + 1) /\ here + 1 \in 1..(Len(tokens) + 1)
<1> DEFINE stack == Nest(ends, Kind)
<1>1. tokens \in Seq(Kinds) /\ pos \in 0..Len(tokens)
  BY StateFacts
<1>2. /\ v \in 1..Len(tokens) /\ Good(EndOfValue(tokens, v) + 1)
      /\ OpenAt(tokens, v, here, stack) /\ stack \in Stacks /\ here \in v..Len(tokens)
      /\ stack = <<>>
  BY InsideAt, InsideGoesOn
<1> HIDE DEF stack
<1>3. Len(tokens) \in here..Len(tokens)
  BY <1>1, <1>2
<1>4. ValueLength(SubSeq(tokens, v, Len(tokens))) = [n |-> here + 1 - v, ok |-> stack = <<>>]
  BY <1>1, <1>2, <1>3, OpenStops
<1>5. EndOfValue(tokens, v) = here
  BY <1>1, <1>2, <1>4, EndFound
<1>6. here + 1 \in 1..(Len(tokens) + 1)
  BY <1>1, <1>2
<1> QED  BY <1>2, <1>5, <1>6

\* What is held after one more token.
LEMMA InListMore ==
    ASSUME TypeMarks, Reading, NEW i \in 1..Len(tokens), Reads(i), InListOf(i),
           BeginsAt(i) <= here
    PROVE  /\ Kept = Holding(i, Positions(BeginsAt(i), here)) /\ field = ListField
           /\ BeginsAt(i) <= here + 1
<1> DEFINE first == BeginsAt(i)
           list == Positions(first, pos)
<1>1. tokens \in Seq(Kinds) /\ pos \in 0..Len(tokens)
  BY StateFacts
<1>2. first \in Nat \ {0} /\ first <= here
  BY <1>1, BeginsType
<1>3. item = Holding(i, list) /\ field = ListField
  BY DEF InListOf
<1> HIDE DEF first
<1>4. here = pos + 1 /\ pos \in Nat
  BY <1>1, KindIs
<1>5. first <= pos + 1 /\ first <= here + 1
  BY <1>2, <1>4
<1>6. list \in Seq(Nat) /\ Append(list, here) = Positions(first, here)
  BY <1>2, <1>4, <1>5, PositionsType, PositionsGrow
<1> HIDE DEF list
<1>7. Kept = Holding(i, Append(list, here))
  BY <1>3, <1>6, HoldingMore
<1> QED  BY <1>3, <1>5, <1>6, <1>7, Zenon DEF first

LEMMA InBlockMore ==
    ASSUME TypeMarks, NEW i \in 1..Len(tokens), NEW v \in 1..pos, Inside(v), InBlockAt(i, v)
    PROVE  /\ Kept = Made("rule", NameOf(i), Positions(FirstOf(i), v - 1), Positions(v, here),
                          <<>>, FALSE)
           /\ Kept \in ItemType /\ item \in ItemType
<1> DEFINE p == Positions(FirstOf(i), v - 1)
           name == NameOf(i)
           b == Positions(v, pos)
<1>1. tokens \in Seq(Kinds) /\ pos \in 0..Len(tokens) /\ item \in ItemType
  BY StateFacts
<1>2. here = pos + 1 /\ pos \in Nat /\ here \in Nat
  BY <1>1, KindIs
<1>3. item = Made("rule", name, p, b, <<>>, FALSE) /\ field = "block"
  BY DEF InBlockAt
<1>4. v \in Nat \ {0} /\ v <= pos + 1
  BY InsideAt
<1>5. Append(b, here) = Positions(v, here)
  BY <1>2, <1>4, PositionsGrow
<1> HIDE DEF p, name, b
<1>6. /\ item.type = "rule" /\ item.name = name /\ item.prelude = p /\ item.block = b
      /\ item.value = <<>> /\ item.important = FALSE
  BY <1>3 DEF Made
<1>7. /\ Kept = Made(item.type, item.name, item.prelude, Append(item.block, here), item.value,
                     item.important)
      /\ Kept \in ItemType
  BY <1>1, <1>2, <1>3, KeptIs
<1> QED  BY <1>1, <1>5, <1>6, <1>7, Zenon DEF p, name, b

\* The block or function goes on, with another token.
LEMMA ValueTakesToken ==
    ASSUME TypeMarks, PartInv, ends # <<>>, item' = Kept, pos' = here,
           ends' = Nest(ends, Kind), ends' # <<>>,
           tokens' = tokens, fn' = fn, field' = field, parts' = parts
    PROVE  PartInv'
<1>1. /\ Reading
      /\ \E i \in 1..Len(tokens) : Reads(i)
            /\ \E v \in 1..pos : InValueAt(i, v) \/ InBlockAt(i, v)
  BY BlockState
<1>2. PICK i \in 1..Len(tokens) :
         Reads(i) /\ \E v \in 1..pos : InValueAt(i, v) \/ InBlockAt(i, v)
  BY <1>1
<1>3. PICK v \in 1..pos : InValueAt(i, v) \/ InBlockAt(i, v)
  BY <1>2
<1>4. Inside(v)
  BY <1>3 DEF InValueAt, InBlockAt
<1>5. Inside(v)'
  BY <1>4, InsideTakesToken
<1>6. Reading' /\ Reads(i)'
  BY <1>1, <1>2, SamePart
<1>7. tokens \in Seq(Kinds) /\ pos \in 0..Len(tokens) /\ v \in 1..Len(tokens)
      /\ pos \in v..Len(tokens) /\ here = pos + 1
  BY <1>4, StateFacts, InsideAt, KindIs
<1>8. PICK w \in 1..pos' : w = v
  <2>1. v \in 1..here
    BY <1>7
  <2> QED  BY <2>1, Zenon
<1>9. /\ BeginsAt(i)' = BeginsAt(i) /\ StopsAt(i)' = StopsAt(i) /\ Stops' = Stops
      /\ ListField' = ListField /\ Declares' = Declares
      /\ FirstOf(i)' = FirstOf(i) /\ StopOf(i)' = StopOf(i) /\ NameOf(i)' = NameOf(i)
      /\ HasBlock(i)' = HasBlock(i)
      /\ \A list : Holding(i, list)' = Holding(i, list)
  BY SameList
<1>10. CASE InValueAt(i, v)
  <2>1. /\ InListOf(i) /\ BeginsAt(i) <= v /\ tokens[v] \notin Stops
        /\ StopsAt(i) = FirstValue(tokens, v, Stops)
    BY <1>10 DEF InValueAt
  <2>2. BeginsAt(i) <= here
    <3> DEFINE first == BeginsAt(i)
    <3>1. first \in Nat \ {0} /\ first <= v
      BY <1>1, <1>2, <1>7, <2>1, BeginsType
    <3> HIDE DEF first
    <3>2. first <= here
      BY <1>7, <3>1
    <3> QED  BY <3>2 DEF first
  <2>3. Kept = Holding(i, Positions(BeginsAt(i), here)) /\ field = ListField
    BY <1>1, <1>2, <2>1, <2>2, InListMore
  <2>4. InListOf(i)'
    <3> DEFINE held == Holding(i, Positions(BeginsAt(i), pos))
    <3>1. held' = Holding(i, Positions(BeginsAt(i), pos'))
      BY <1>9 DEF Holding, Declares, NameOf, IsAt
    <3>2. InListOf(i)' <=> field' = ListField' /\ item' = held'
      BY Zenon DEF InListOf
    <3> QED  BY <1>9, <2>3, <3>1, <3>2, Zenon
  <2>5. InValueAt(i, v)'
    BY <1>5, <1>9, <2>1, <2>4 DEF InValueAt
  <2> QED  BY <1>6, <1>8, <2>5, ValueGoesOn
<1>11. CASE InBlockAt(i, v)
  <2>1. ~Declares /\ field = "block" /\ v = StopOf(i) /\ HasBlock(i)
    BY <1>11 DEF InBlockAt
  <2>2. Kept = Made("rule", NameOf(i), Positions(FirstOf(i), v - 1), Positions(v, here), <<>>, FALSE)
    BY <1>4, <1>11, InBlockMore
  <2>3. InBlockAt(i, v)'
    BY <1>5, <1>9, <2>1, <2>2 DEF InBlockAt
  <2> QED  BY <1>6, <1>8, <2>3, ValueGoesOn
<1> QED  BY <1>3, <1>10, <1>11

LEMMA PartInBlock ==
    ASSUME TypeMarks, PartInv, BlockValue
    PROVE  PartInv'
<1>1. /\ ends # <<>> /\ Kind \notin {EOF, Last(ends)} /\ item' = Kept /\ pos' = here
      /\ tokens' = tokens /\ fn' = fn /\ field' = field /\ parts' = parts
      /\ ends' = IF Opens(Kind) THEN Append(ends, EndOf(Kind)) ELSE ends
  BY DEF BlockValue, InBlock
<1>2. ends' = Nest(ends, Kind)
  BY <1>1 DEF Nest
<1>3. ends' # <<>>
  <2>1. ends \in Stacks
    BY StateFacts
  <2>2. Opens(Kind) => Append(ends, EndOf(Kind)) # <<>>
    BY <2>1, EndsOpen
  <2> QED  BY <1>1, <2>2, Zenon
<1> QED  BY <1>1, <1>2, <1>3, ValueTakesToken

LEMMA PartClosesBlock ==
    ASSUME TypeMarks, PartInv, CloseBlock
    PROVE  PartInv'
<1>1. /\ Reading
      /\ \E i \in 1..Len(tokens) : Reads(i)
            /\ \E v \in 1..pos : InValueAt(i, v) \/ InBlockAt(i, v)
  BY BlockState DEF CloseBlock, InBlock
<1>2. PICK i \in 1..Len(tokens) :
         Reads(i) /\ \E v \in 1..pos : InValueAt(i, v) \/ InBlockAt(i, v)
  BY <1>1
<1>3. PICK v \in 1..pos : InValueAt(i, v) \/ InBlockAt(i, v)
  BY <1>2
<1>4. Inside(v)
  BY <1>3 DEF InValueAt, InBlockAt
<1>5. Kind # "EOF"
  BY <1>4, InsideIsClosed
<1>6. /\ ends # <<>> /\ Kind = Last(ends) /\ ends' = Front(ends) /\ pos' = here
      /\ tokens' = tokens /\ field' = field
      /\ IF Len(ends) = 1 /\ field = "block" THEN Return(Kept)
         ELSE item' = Kept /\ fn' = fn /\ parts' = parts
  BY <1>5 DEF CloseBlock, InBlock, EOF
<1>7. Nest(ends, Kind) = Front(ends)
  BY <1>6 DEF Nest
<1>8. Len(ends) = 1 <=> Front(ends) = <<>>
  <2>1. ends \in Stacks
    BY StateFacts
  <2> QED  BY <1>6, <2>1, EndsOpen
<1>9. CASE Front(ends) # <<>>
  <2>1. item' = Kept /\ fn' = fn /\ parts' = parts
    BY <1>6, <1>8, <1>9
  <2> QED  BY <1>6, <1>7, <1>9, <2>1, ValueTakesToken
<1>10. CASE Front(ends) = <<>>
  <2>1. EndOfValue(tokens, v) = here /\ Good(here + 1) /\ here + 1 \in 1..(Len(tokens) + 1)
    BY <1>4, <1>7, <1>10, ClosedHere
  <2>2. here' = here + 1
    BY <1>6 DEF here
  <2>3. tokens \in Seq(Kinds) /\ pos \in 0..Len(tokens) /\ v \in 1..Len(tokens)
        /\ pos \in v..Len(tokens) /\ here = pos + 1
    BY <1>4, StateFacts, InsideAt, KindIs
  <2>4. CASE InValueAt(i, v)
    <3>1. /\ InListOf(i) /\ BeginsAt(i) <= v /\ tokens[v] \notin Stops
          /\ StopsAt(i) = FirstValue(tokens, v, Stops)
      BY <2>4 DEF InValueAt
    <3>2. BeginsAt(i) <= here
      <4> DEFINE first == BeginsAt(i)
      <4>1. first \in Nat \ {0} /\ first <= v
        BY <1>1, <1>2, <2>3, <3>1, BeginsType
      <4> HIDE DEF first
      <4>2. first <= here
        BY <2>3, <4>1
      <4> QED  BY <4>2 DEF first
    <3>3. Kept = Holding(i, Positions(BeginsAt(i), here)) /\ field = ListField
          /\ BeginsAt(i) <= here + 1
      BY <1>1, <1>2, <3>1, <3>2, InListMore
    <3>4. StopsAt(i) = FirstValue(tokens, here + 1, Stops)
      <4> DEFINE stops == Stops
      <4> HIDE DEF stops
      <4>1. v \in 1..(Len(tokens) + 1) /\ ~(v > Len(tokens))
        BY <2>3
      <4>2. FirstValue(tokens, v, stops) = IF v > Len(tokens) \/ tokens[v] \in stops THEN v
                                           ELSE FirstValue(tokens, EndOfValue(tokens, v) + 1, stops)
        BY <2>3, <4>1, FirstValueDef
      <4> QED  BY <2>1, <3>1, <4>1, <4>2, Zenon DEF stops
    <3>5. field # "block"
      BY <3>3 DEF ListField
    <3>6. item' = Kept /\ fn' = fn /\ parts' = parts
      BY <1>6, <3>5
    <3>7. Reading' /\ Reads(i)'
      BY <1>1, <1>2, <1>6, <3>6, SamePart
    <3>8. /\ item' = Holding(i, Positions(BeginsAt(i), pos')) /\ ends' = <<>>
          /\ BeginsAt(i) <= here' /\ Good(here')
          /\ StopsAt(i) = FirstValue(tokens, here', Stops)
      BY <1>6, <1>10, <2>1, <2>2, <3>3, <3>4, <3>6, Zenon
    <3>9. BetweenValues(i)'
      BY <1>6, <3>3, <3>6, <3>8, ListBetween
    <3> QED  BY <1>6, <3>7, <3>9, PartGoesOn
  <2>5. CASE InBlockAt(i, v)
    <3>1. ~Declares /\ field = "block" /\ v = StopOf(i) /\ HasBlock(i)
      BY <2>5 DEF InBlockAt
    <3>2. /\ Kept = Made("rule", NameOf(i), Positions(FirstOf(i), v - 1), Positions(v, here),
                         <<>>, FALSE)
          /\ Kept \in ItemType
      BY <1>4, <2>5, InBlockMore
    <3>3. Return(Kept)
      BY <1>6, <1>8, <1>10, <3>1
    <3>4. Kept = RuleAt(i)
      <4>1. RuleAt(i) = Made("rule", NameOf(i), Positions(FirstOf(i), StopOf(i) - 1), BlockOf(i), <<>>, FALSE)
        BY <2>3, RuleMade
      <4>2. BlockOf(i) = Positions(v, here)
        BY <2>1, <3>1, Zenon DEF BlockOf
      <4> QED  BY <3>1, <3>2, <4>1, <4>2, Zenon
    <3>5. NextOf(i) = here + 1
      <4>1. ~(v > Len(tokens))
        BY <2>3
      <4> QED  BY <2>1, <3>1, <4>1, Zenon DEF NextOf
    <3>6. ~Separates(i) /\ ~IsDeclaration(i)
      <4>1. fn = "atRule" \/ fn = "qualifiedRule"
        BY <1>1, <3>1 DEF Reading, Declares
      <4> QED  BY <1>2, <4>1, AtIsNoName DEF Reads
    <3>7. All[i] = <<Kept>> \o All[here']
      <4>1. IsRule(i)
        BY <3>1 DEF IsRule
      <4>2. PartsFrom[i] = <<RuleAt(i)>> \o PartsFrom[NextOf(i)]
        BY <2>3, <3>6, <4>1, PartsAt
      <4> QED  BY <2>2, <3>4, <3>5, <4>2, Zenon DEF All
    <3>8. ends' = <<>> /\ here' \in 1..(Len(tokens) + 1) /\ Good(here')
      BY <1>6, <1>10, <2>1, <2>2, Zenon
    <3> QED  BY <1>2, <1>6, <3>2, <3>3, <3>7, <3>8, PartReturned
  <2> QED  BY <1>3, <2>4, <2>5
<1> QED  BY <1>9, <1>10

-----------------------------------------------------------------------------
\* A declaration whose value is read: it is one, or what was read is read again as a rule.
LEMMA ValueRead ==
    ASSUME TypeMarks, PartInv, EndDeclaration
    PROVE  \E i \in 1..Len(tokens) :
              /\ Reads(i) /\ LooksLikeDeclaration(i) /\ ~IsAt(i) /\ item.name = i
              /\ Good(here) /\ DeclarationAt(i).next = here
              /\ IsValid(Finished) <=> DeclarationAt(i).ok
              /\ Finished = DeclarationAt(i).part
<1>1. InList /\ fn = "declaration" /\ Kind \in StopsList
  BY DEF EndDeclaration
<1>2. Reading /\ \E i \in 1..Len(tokens) : Reads(i) /\ BetweenValues(i)
  BY <1>1, ListState
<1>3. PICK i \in 1..Len(tokens) : Reads(i) /\ BetweenValues(i)
  BY <1>2
<1>4. /\ LooksLikeDeclaration(i) /\ Declares /\ Good(i) /\ InListOf(i) /\ Good(here)
  BY <1>1, <1>3 DEF Reads, BetweenValues, Declares
<1>5. tokens \in Seq(Kinds) /\ pos \in 0..Len(tokens)
  BY StateFacts
<1>6. pos \in Nat /\ here - 1 = pos /\ (Kind # "EOF" => Kind = tokens[here])
  BY <1>5, KindIs
<1>7. Kind \in {"EOF", ";"}
  <2>1. Kind # "}"
    BY <1>4, TokenHere
  <2>2. StopsList = {EOF, ";", "}"} \cup {}
    BY <1>1, Zenon DEF StopsList
  <2>3. Kind = "EOF" \/ Kind = ";" \/ Kind = "}"
    BY <1>1, <2>2, Zenon DEF EOF
  <2> QED  BY <2>1, <2>3, Zenon
<1>8. StopAt(i) = here
  <2>1. Stops = {";"} /\ StopsAt(i) = StopAt(i)
    BY <1>4, Zenon DEF Stops, StopsAt
  <2>2. Kind = "EOF" \/ tokens[here] = ";"
    BY <1>6, <1>7, Zenon
  <2>3. Kind = "EOF" \/ tokens[here] \in Stops
    BY <2>1, <2>2, Zenon
  <2>4. StopsAt(i) = here
    BY <1>2, <1>3, <2>3, AtAValue
  <2> QED  BY <2>1, <2>4
<1>9. item = Made("declaration", i, <<>>, <<>>, Positions(ValueFrom(i), pos), FALSE)
  BY <1>4, Zenon DEF InListOf, Holding, BeginsAt
<1>10. item.name = i
  BY <1>9 DEF Made
<1>11. item = Made("declaration", i, <<>>, <<>>, Positions(ValueFrom(i), StopAt(i) - 1), FALSE)
  BY <1>6, <1>8, <1>9, Zenon
<1>12. /\ IsValid(Finished) <=> DeclarationAt(i).ok
       /\ Finished = DeclarationAt(i).part
       /\ DeclarationAt(i).next = StopAt(i)
  BY <1>4, <1>5, <1>11, Declared
<1>13. ~IsAt(i)
  <2>1. "at" \notin Names
    BY DEF Names
  <2> QED  BY <1>4, <2>1, Zenon DEF LooksLikeDeclaration, IsAt
<1>14. /\ Reads(i) /\ LooksLikeDeclaration(i) /\ ~IsAt(i) /\ item.name = i
       /\ Good(here) /\ DeclarationAt(i).next = here
       /\ IsValid(Finished) <=> DeclarationAt(i).ok
       /\ Finished = DeclarationAt(i).part
  BY <1>3, <1>4, <1>8, <1>10, <1>12, <1>13, Zenon
<1> QED  BY <1>14

LEMMA PartDeclares ==
    ASSUME TypeMarks, PartInv, EndDeclaration
    PROVE  PartInv'
<1>1. fn = "declaration" /\ tokens' = tokens /\ ends' = ends /\ ends = <<>>
  BY DEF EndDeclaration, InList
<1>2. PICK i \in 1..Len(tokens) :
          /\ Reads(i) /\ LooksLikeDeclaration(i) /\ ~IsAt(i) /\ item.name = i
          /\ Good(here) /\ DeclarationAt(i).next = here
          /\ IsValid(Finished) <=> DeclarationAt(i).ok
          /\ Finished = DeclarationAt(i).part
  BY ValueRead
<1>3. /\ tokens \in Seq(Kinds) /\ pos \in 0..Len(tokens) /\ item \in ItemType
      /\ here \in 1..(Len(tokens) + 1)
  BY StateFacts, KindIs
<1>4. Good(i) /\ ~Separates(i) /\ All[1] = parts \o All[i] /\ i \in Nat \ {0}
  BY <1>2 DEF Reads
<1>5. CASE IsValid(Finished)
  <2>1. Return(Finished) /\ pos' = pos
    BY <1>5 DEF EndDeclaration
  <2>2. Finished \in ItemType
    BY <1>3, FinishedIs
  <2>3. here' = here
    BY <2>1 DEF here
  <2>4. All[i] = <<Finished>> \o All[here]
    <3>1. IsDeclaration(i)
      BY <1>2, <1>5 DEF IsDeclaration
    <3>2. PartsFrom[i] = <<DeclarationAt(i).part>> \o PartsFrom[DeclarationAt(i).next]
      BY <1>3, <1>4, <3>1, PartsAt
    <3> QED  BY <1>2, <3>2, Zenon DEF All
  <2>5. here' \in 1..(Len(tokens) + 1) /\ Good(here') /\ All[i] = <<Finished>> \o All[here']
    BY <1>2, <1>3, <2>3, <2>4, Zenon
  <2>6. ends' = <<>>
    BY <1>1
  <2> QED  BY <1>1, <1>2, <2>1, <2>2, <2>5, <2>6, PartReturned
<1>6. CASE ~IsValid(Finished)
  <2>1. /\ fn' = "qualifiedRule" /\ item' = Item("rule", 0) /\ field' = "prelude"
        /\ pos' = Last(marks) /\ parts' = parts
    BY <1>6 DEF EndDeclaration
  <2>2. pos' = i - 1
    BY <1>1, <1>2, <2>1 DEF TypeMarks, MarkInv
  <2>3. here' = i
    <3>1. here' = pos' + 1
      BY DEF here
    <3> QED  BY <1>4, <2>2, <3>1
  <2>4. FirstOf(i) = i /\ NameOf(i) = 0
    BY <1>2 DEF FirstOf, NameOf
  <2>5. Positions(i, pos') = <<>>
    BY <1>4, <2>2, NoPositions
  <2>6. item' = Made("rule", NameOf(i), Positions(FirstOf(i), pos'), <<>>, <<>>, FALSE)
    <3>1. item' = Made("rule", 0, <<>>, <<>>, <<>>, FALSE)
      BY <2>1, ItemIs
    <3> QED  BY <2>4, <2>5, <3>1
  <2>7. StopOf(i) = FirstValue(tokens, here', {";", "{"})
    BY <2>3, <2>4, Zenon DEF StopOf
  <2>8. FirstOf(i) <= here' /\ Good(here') /\ ends' = <<>>
    BY <1>1, <1>4, <2>3, <2>4
  <2>9. fn' \in {"atRule", "qualifiedRule"}
    BY <2>1
  <2>10. BetweenValues(i)'
    BY <1>1, <2>1, <2>6, <2>7, <2>8, <2>9, RuleBetween
  <2>11. ~IsDeclaration(i)
    BY <1>2, <1>6 DEF IsDeclaration
  <2>12. Reads(i)'
    <3>1. fn' # "atRule" /\ fn' # "declaration"
      BY <2>1
    <3> QED  BY <1>1, <1>2, <1>4, <2>1, <2>11, <3>1, ReadsNext
  <2>13. Reading'
    BY <2>1 DEF Reading
  <2> QED  BY <1>1, <2>10, <2>12, <2>13, PartGoesOn
<1> QED  BY <1>5, <1>6

-----------------------------------------------------------------------------
\* Every step keeps the invariant, and at the end it is what is claimed.
LEMMA TokensStay == [Next]_vars => tokens' = tokens
BY DEF Next, vars, SkipSeparator, EndOfContents, StartAtRule, StartDeclaration, StartQualifiedRule,
       EndAtRule, EndQualifiedRule, StartBlock, ListValue, BlockValue, CloseBlock, EndDeclaration

LEMMA PartStutters ==
    ASSUME PartInv, UNCHANGED vars
    PROVE  PartInv'
<1>1. /\ tokens' = tokens /\ pos' = pos /\ fn' = fn /\ ends' = ends /\ item' = item
      /\ field' = field /\ parts' = parts
  BY DEF vars
<1>2. All' = All /\ Good(here)' = Good(here') /\ here' = here
  BY <1>1, AllStays DEF here
<1>3. Reading' = Reading
  BY <1>1 DEF Reading
<1>4. ASSUME NEW i \in 1..Len(tokens), Reading, Reads(i),
             BetweenValues(i) \/ \E v \in 1..pos : InValueAt(i, v) \/ InBlockAt(i, v)
      PROVE  /\ Reads(i)'
             /\ BetweenValues(i)' \/ \E v \in 1..pos : InValueAt(i, v)' \/ InBlockAt(i, v)'
  <2>1. /\ BeginsAt(i)' = BeginsAt(i) /\ StopsAt(i)' = StopsAt(i) /\ Stops' = Stops
        /\ ListField' = ListField /\ Declares' = Declares
        /\ FirstOf(i)' = FirstOf(i) /\ StopOf(i)' = StopOf(i) /\ NameOf(i)' = NameOf(i)
        /\ HasBlock(i)' = HasBlock(i)
        /\ \A list : Holding(i, list)' = Holding(i, list)
    BY <1>1, SameList
  <2>2. Reads(i)'
    BY <1>1, <1>4, SamePart
  <2>3. InListOf(i)' = InListOf(i)
    BY <1>1, <2>1 DEF InListOf, Holding
  <2>4. BetweenValues(i) => BetweenValues(i)'
    BY <1>1, <1>2, <2>1, <2>3 DEF BetweenValues
  <2>5. ASSUME NEW v \in 1..pos PROVE Inside(v)' = Inside(v)
    <3>1. Good(v)' = Good(v)
      BY <1>1, SameTokens
    <3> QED  BY <1>1, <3>1 DEF Inside
  <2>6. \A v \in 1..pos : InValueAt(i, v) => InValueAt(i, v)'
    BY <1>1, <2>1, <2>3, <2>5 DEF InValueAt
  <2>7. \A v \in 1..pos : InBlockAt(i, v) => InBlockAt(i, v)'
    BY <1>1, <2>1, <2>5 DEF InBlockAt
  <2> QED  BY <1>4, <2>2, <2>4, <2>6, <2>7
<1>5. fn = "blockPart" => Good(here)' /\ All'[1] = parts' \o All'[here']
  BY <1>1, <1>2 DEF PartInv
<1>6. (fn = "done" => All'[1] = parts') /\ (~Reading => ends' = <<>>)
  BY <1>1, <1>2 DEF PartInv
<1> QED  BY <1>1, <1>3, <1>4, <1>5, <1>6 DEF PartInv

LEMMA PartNext ==
    ASSUME TypeMarks, PartInv, [Next]_vars
    PROVE  PartInv'
<1>1. CASE UNCHANGED vars
  BY <1>1, PartStutters
<1>2. CASE SkipSeparator
  BY <1>2, PartSkip
<1>3. CASE EndOfContents
  BY <1>3, PartAtTheEnd
<1>4. CASE StartAtRule \/ StartQualifiedRule
  BY <1>4, RuleBegins
<1>5. CASE StartDeclaration
  BY <1>5, DeclarationBegins
<1>6. CASE EndAtRule
  BY <1>6, RuleWithoutBlockEnds
<1>7. CASE EndQualifiedRule
  BY <1>7, NoRuleEnds
<1>8. CASE StartBlock
  BY <1>8, BlockBegins
<1>9. CASE ListValue
  BY <1>9, ListTakesValue
<1>10. CASE BlockValue
  BY <1>10, PartInBlock
<1>11. CASE CloseBlock
  BY <1>11, PartClosesBlock
<1>12. CASE EndDeclaration
  BY <1>12, PartDeclares
<1> QED  BY <1>1, <1>2, <1>3, <1>4, <1>5, <1>6, <1>7, <1>8, <1>9, <1>10, <1>11, <1>12 DEF Next

\* A block is the declarations and rules that CSS says it is.  blockPart skips what separates them,
\* tells a declaration by its name and colon alone, reads it to the end and only then decides, and
\* goes back to its name if it is none; what all of that returns are the parts that the reference
\* finds by trying a declaration at every token, for every text between two braces.
THEOREM PartsAreTheText == Spec => []PartsAreAsWritten
<1>1. Init => IInv
  BY TypeInit, MarkInit, PartInit DEF IInv, TypeMarks
<1>2. IInv /\ [Next]_vars => IInv'
  <2> SUFFICES ASSUME TypeMarks, InsideBraces => PartInv, [Next]_vars PROVE IInv'
    BY DEF IInv
  <2>1. TypeMarks'
    BY TypeNext
  <2>2. InsideBraces' = InsideBraces
    BY TokensStay DEF InsideBraces
  <2>3. InsideBraces => PartInv'
    BY PartNext
  <2> QED  BY <2>1, <2>2, <2>3 DEF IInv
<1>3. IInv => PartsAreAsWritten
  <2> SUFFICES ASSUME IInv, fn = "done", InsideBraces PROVE parts = Written
    BY DEF PartsAreAsWritten
  <2>1. All[1] = parts
    BY DEF IInv, PartInv
  <2> QED  BY <2>1, WrittenIs DEF All
<1> QED  BY <1>1, <1>2, <1>3, PTL DEF Spec
=============================================================================
