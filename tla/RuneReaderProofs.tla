--------------------------- MODULE RuneReaderProofs ---------------------------
(***************************************************************************)
(* Theorems about RuneReader, for every set of sources.                    *)
(***************************************************************************)
EXTENDS RuneReader, Lemmas, SequenceTheorems, TLAPS

\* What peek has read never exceeds what was asked for by more than the rune
\* behind a carriage return.
FreshIsBounded ==
    /\ pc = "idle" => fresh = <<>>
    /\ fresh # <<>> => Len(fresh) <= Missing + 1
    /\ pc = "filling" => want >= 1
    /\ op = "read" => want <= 1

\* The window part of ArraysFit; the rest of it follows.
WindowFits == wpos <= LookAhead /\ rpos <= wpos

\* The inductive invariant.
IInv == TypeOK /\ WindowFits /\ FreshIsBounded /\ UnreadHasRoom

\* A slot made of a rune and its size.
LEMMA SlotType == \A rune \in Runes, size \in Nat : Slot(rune, size) \in Slots
  BY DEF Slot, Slots

\* Filtering a raw rune other than a carriage return gives a slot.
LEMMA FilterType ==
    \A r \in RawRunes : Slot(Filter(r), Size(r)) \in Slots /\ Size(r) \in Nat
<1> TAKE r \in RawRunes
<1>1. Size(r) \in Nat /\ Filter(r) \in Runes
  BY DEF Size, Filter, Runes, RawRunes
<1> QED  BY <1>1, SlotType

\* A carriage return and the rune behind it give one slot or two.
LEMMA AfterCRType ==
    \A r \in RawRunes : AfterCR(r) \in Seq(Slots) /\ Len(AfterCR(r)) \in 1..2
<1> TAKE r \in RawRunes
<1>1. Size(r) \in Nat /\ 1 + Size(r) \in Nat /\ r \in Runes /\ "LF" \in Runes
  BY FilterType DEF Runes, RawRunes
<1>2. /\ Slot("LF", 1 + Size(r)) \in Slots /\ Slot("LF", 1) \in Slots
      /\ Slot(r, Size(r)) \in Slots
  BY <1>1, SlotType
<1> QED  BY <1>2 DEF AfterCR

\* What the invariant implies about the arrays peek indexes.
LEMMA IInvArraysFit == IInv => ArraysFit
<1> SUFFICES ASSUME IInv PROVE ArraysFit
  OBVIOUS
<1> DEFINE w == Len(window)
           f == Len(fresh)
<1>1. /\ w \in Nat /\ f \in Nat /\ rpos \in Nat /\ want \in 0..3
      /\ rpos <= w /\ w <= 4
      /\ fresh # <<>> => f <= want - (w - rpos) + 1
      /\ fresh = <<>> => f = 0
  BY DEF IInv, TypeOK, WindowFits, FreshIsBounded, Missing, wpos, LookAhead
<1>2. PopCount(Len(fresh)) = IF w + f > 4 THEN w + f - 4 ELSE 0
  BY DEF PopCount, wpos, LookAhead
<1> HIDE DEF w, f
<1>3. f <= 4 /\ (IF w + f > 4 THEN w + f - 4 ELSE 0) <= rpos
  BY <1>1
<1> QED  BY <1>1, <1>2, <1>3 DEF ArraysFit, LookAhead, wpos, w, f

\* The invariant holds at the start.
LEMMA InitIInv == Init => IInv
<1> SUFFICES ASSUME Init PROVE IInv
  OBVIOUS
<1>1. TypeOK
  <2>1. src \in Seq(RawRunes) /\ Len(src) \in Nat
    BY SourcesAssumption DEF Init
  <2>2. <<>> \in Seq(Slots)
    OBVIOUS
  <2>3. taken \in 0..Len(src) /\ rpos \in Nat /\ want \in 0..3 /\ cursor \in Int
    <3>1. taken = 0 /\ rpos = 0 /\ want = 0 /\ cursor = 0
      BY DEF Init
    <3> QED  BY <2>1, <3>1
  <2>4. failed \in BOOLEAN /\ mayUnread \in BOOLEAN
    BY DEF Init
  <2> QED  BY <2>1, <2>2, <2>3, <2>4 DEF Init, TypeOK, LookAhead
<1>2. WindowFits /\ UnreadHasRoom
  BY DEF Init, WindowFits, UnreadHasRoom, wpos, LookAhead
<1>3. FreshIsBounded
  BY DEF Init, FreshIsBounded
<1> QED  BY <1>1, <1>2, <1>3 DEF IInv

\* A step of the loop that adds at most one rune more than is missing.
LEMMA FillKeepsIInv ==
    ASSUME IInv, Filling,
           NEW more \in Seq(Slots), Len(more) \in 1..2,
           fresh' = fresh \o more,
           taken' \in 0..Len(src),
           failed' \in BOOLEAN,
           UNCHANGED <<src, window, rpos, pc, op, want, seen, mayUnread, cursor>>
    PROVE  IInv'
<1>1. fresh \in Seq(Slots) /\ fresh' \in Seq(Slots)
  BY ConcatProperties DEF IInv, TypeOK
<1>2. Len(fresh') = Len(fresh) + Len(more)
  BY <1>1, ConcatProperties
<1>3. TypeOK'
  BY <1>1 DEF IInv, TypeOK
<1>4. Missing' = Missing /\ Missing \in Int
  BY DEF Missing, wpos, IInv, TypeOK
<1>5. Len(fresh') <= Missing' + 1
  BY <1>1, <1>2, <1>4 DEF Filling
<1>6. FreshIsBounded'
  BY <1>5 DEF FreshIsBounded, IInv, Filling
<1> QED  BY <1>3, <1>6 DEF IInv, WindowFits, UnreadHasRoom, wpos

\* What a return of peek makes of the window: how many slots leave, the window
\* after it, the read position in it, and how many of its slots peek returns.
Popped == PopCount(Len(fresh))
NewWindow == SubSeq(window, Popped + 1, wpos) \o fresh
ReadAt == rpos - Popped
Ahead == IF ReadAt + want <= Len(NewWindow) THEN want ELSE Len(NewWindow) - ReadAt
Step == IF op = "read" THEN Ahead ELSE 0

\* The end of peek: popping makes room for exactly what is pushed, and the read
\* position moves with it.
LEMMA ReturnFits ==
    ASSUME IInv
    PROVE  /\ Popped \in 0..Len(window) /\ Popped <= rpos
           /\ SubSeq(window, Popped + 1, wpos) \in Seq(Slots)
           /\ NewWindow \in Seq(Slots) /\ Len(NewWindow) <= LookAhead
           /\ ReadAt \in 0..Len(NewWindow)
           /\ Ahead \in 0..want /\ ReadAt + Ahead <= Len(NewWindow)
           /\ Step \in 0..1 /\ ReadAt + Step <= Len(NewWindow)
           /\ want = 1 /\ rpos >= 1 => ReadAt >= 1
           /\ Len(fresh) >= Missing => Ahead = want
<1> DEFINE w == Len(window)
           f == Len(fresh)
           n == Len(NewWindow)
<1>1. /\ w \in Nat /\ f \in Nat /\ rpos \in Nat /\ want \in 0..3
      /\ rpos <= w /\ w <= 4
      /\ f <= want - (w - rpos) + 1 \/ f = 0
      /\ op = "read" => want <= 1
      /\ window \in Seq(Slots) /\ fresh \in Seq(Slots)
  BY DEF IInv, TypeOK, WindowFits, FreshIsBounded, Missing, wpos, LookAhead
<1>2. Popped = IF w + f > 4 THEN w + f - 4 ELSE 0
  BY DEF Popped, PopCount, wpos, LookAhead
<1>3. Popped \in 0..w /\ Popped <= rpos
  <2> HIDE DEF w, f
  <2> QED  BY <1>1, <1>2
<1> DEFINE kept == SubSeq(window, Popped + 1, wpos)
<1>4. kept \in Seq(Slots) /\ Len(kept) = w - Popped
  <2>1. \A i \in (Popped + 1)..w : window[i] \in Slots
    BY <1>1, <1>3
  <2> QED  BY <1>1, <1>3, <2>1, SubSeqProperties DEF wpos
<1>5. NewWindow \in Seq(Slots) /\ n = w - Popped + f
  <2> HIDE DEF kept
  <2>1. NewWindow = kept \o fresh
    BY DEF NewWindow, kept
  <2> QED  BY <1>1, <1>3, <1>4, <2>1, ConcatProperties
<1> HIDE DEF w, f, n
<1>6. n \in Nat /\ n <= 4 /\ ReadAt \in 0..n
  <2>1. n \in Nat /\ n <= 4
    BY <1>1, <1>2, <1>3, <1>5
  <2>2. ReadAt = rpos - Popped
    BY DEF ReadAt
  <2> QED  BY <1>1, <1>3, <1>5, <2>1, <2>2
<1>7. Ahead = IF ReadAt + want <= n THEN want ELSE n - ReadAt
  BY DEF Ahead, n
<1>8. Ahead \in 0..want /\ ReadAt + Ahead <= n
  BY <1>1, <1>6, <1>7
<1>9. Step \in 0..1 /\ ReadAt + Step <= n
  BY <1>1, <1>6, <1>8 DEF Step
<1>10. want = 1 /\ rpos >= 1 => ReadAt >= 1
  BY <1>1, <1>2 DEF ReadAt
<1>11. f >= Missing => Ahead = want
  <2>1. Missing = want - (w - rpos)
    BY DEF Missing, wpos, w
  <2>2. f >= Missing => ReadAt + want <= n
    BY <1>1, <1>3, <1>5, <2>1 DEF ReadAt
  <2> QED  BY <1>7, <2>2
<1> QED  BY <1>3, <1>4, <1>5, <1>6, <1>8, <1>9, <1>10, <1>11 DEF w, f, n, LookAhead

\* A return in these terms.
LEMMA ReturnMoves ==
    ASSUME Return
    PROVE  /\ window' = NewWindow
           /\ base' = AddLocation(base, SubSeq(window, 1, Popped))
           /\ rpos' = ReadAt + Step
           /\ cursor' = cursor + Step
           /\ seen' = SubSeq(NewWindow, ReadAt + 1, ReadAt + Ahead)
           /\ mayUnread' = (Step = 1 \/ (op = "peek" /\ want = 1 /\ mayUnread))
           /\ pc' = "idle" /\ fresh' = <<>>
           /\ UNCHANGED <<src, taken, failed, op, want>>
  BY DEF Return, Popped, NewWindow, ReadAt, Ahead, Step

\* A return keeps the invariant.
LEMMA ReturnKeepsIInv == IInv /\ Return => IInv'
<1> SUFFICES ASSUME IInv, Return PROVE IInv'
  OBVIOUS
<1>1. seen' \in Seq(Slots)
  <2>1. \A i \in (ReadAt + 1)..(ReadAt + Ahead) : NewWindow[i] \in Slots
    BY ReturnFits
  <2>2. ReadAt + 1 \in Int /\ ReadAt + Ahead \in Int
    BY ReturnFits DEF IInv, TypeOK
  <2> QED  BY <2>1, <2>2, ReturnMoves, SubSeqProperties
<1>2. rpos' \in Nat /\ rpos' <= Len(NewWindow) /\ cursor' \in Int
  BY ReturnFits, ReturnMoves DEF IInv, TypeOK
<1>3. mayUnread' \in BOOLEAN
  BY ReturnMoves
<1>4. TypeOK'
  BY <1>1, <1>2, <1>3, ReturnFits, ReturnMoves DEF IInv, TypeOK
<1>5. WindowFits'
  BY <1>2, ReturnFits, ReturnMoves DEF WindowFits, wpos
<1>6. FreshIsBounded'
  BY ReturnMoves DEF IInv, FreshIsBounded
<1>7. UnreadHasRoom'
  <2>1. mayUnread' => Step = 1 \/ (want = 1 /\ mayUnread)
    BY ReturnMoves, Zenon
  <2>2. mayUnread => rpos >= 1
    BY DEF IInv, UnreadHasRoom
  <2>3. mayUnread' => rpos' >= 1
    BY <2>1, <2>2, ReturnFits, ReturnMoves DEF IInv, TypeOK
  <2> QED  BY <2>3 DEF UnreadHasRoom
<1> QED  BY <1>4, <1>5, <1>6, <1>7 DEF IInv

\* Every step of the reader keeps the invariant.
LEMMA NextIInv == IInv /\ [Next]_vars => IInv'
<1> SUFFICES ASSUME IInv, [Next]_vars PROVE IInv'
  OBVIOUS
<1>1. ASSUME NEW o \in {"read", "peek"}, NEW n \in 1..3, o = "read" => n = 1,
             Call(o, n)
      PROVE  IInv'
  <2>1. TypeOK' /\ WindowFits' /\ UnreadHasRoom'
    BY <1>1 DEF Call, IInv, TypeOK, WindowFits, UnreadHasRoom, wpos, LookAhead
  <2>2. FreshIsBounded'
    BY <1>1 DEF Call, FreshIsBounded
  <2> QED  BY <2>1, <2>2 DEF IInv
<1>2. CASE ReadRune
  BY <1>1, <1>2 DEF ReadRune
<1>3. CASE Peek
  BY <1>1, <1>3 DEF Peek, LookAhead
<1>4. CASE FillRune
  <2>1. src[taken + 1] \in RawRunes /\ taken + 1 \in 0..Len(src)
    BY <1>4 DEF FillRune, IInv, TypeOK
  <2> DEFINE more == <<Slot(Filter(src[taken + 1]), Size(src[taken + 1]))>>
  <2>2. more \in Seq(Slots) /\ Len(more) \in 1..2
    BY <2>1, FilterType
  <2>3. fresh' = fresh \o more
    BY <1>4, <2>1, FilterType, AppendIsConcat DEF FillRune, IInv, TypeOK
  <2> HIDE DEF more
  <2>4. failed' \in BOOLEAN /\ taken' \in 0..Len(src)
    BY <1>4, <2>1 DEF FillRune, IInv, TypeOK
  <2> QED  BY <1>4, <2>2, <2>3, <2>4, FillKeepsIInv DEF FillRune
<1>5. CASE FillAfterCR
  <2>1. src[taken + 2] \in RawRunes /\ taken + 2 \in 0..Len(src)
    BY <1>5 DEF FillAfterCR, IInv, TypeOK
  <2> DEFINE more == AfterCR(src[taken + 2])
  <2>2. more \in Seq(Slots) /\ Len(more) \in 1..2
    BY <2>1, AfterCRType
  <2>3. fresh' = fresh \o more
    BY <1>5 DEF FillAfterCR
  <2> HIDE DEF more
  <2>4. failed' \in BOOLEAN /\ taken' \in 0..Len(src)
    BY <1>5, <2>1 DEF FillAfterCR, IInv, TypeOK
  <2> QED  BY <1>5, <2>2, <2>3, <2>4, FillKeepsIInv DEF FillAfterCR
<1>6. CASE FillLastCR
  <2> DEFINE more == <<Slot("LF", 1)>>
  <2>1. Slot("LF", 1) \in Slots
    BY SlotType DEF Runes, RawRunes
  <2>2. more \in Seq(Slots) /\ Len(more) \in 1..2
    BY <2>1
  <2>3. fresh' = fresh \o more
    BY <1>6, <2>1, AppendIsConcat DEF FillLastCR, IInv, TypeOK
  <2> HIDE DEF more
  <2>4. failed' \in BOOLEAN /\ taken' \in 0..Len(src)
    BY <1>6 DEF FillLastCR, IInv, TypeOK
  <2> QED  BY <1>6, <2>2, <2>3, <2>4, FillKeepsIInv DEF FillLastCR
<1>7. CASE FillEnd
  BY <1>7 DEF FillEnd, IInv, TypeOK, WindowFits, FreshIsBounded, UnreadHasRoom,
              Missing, wpos
<1>8. CASE Return
  BY <1>8, ReturnKeepsIInv
<1>9. CASE UnreadRune
  <2>1. rpos \in Nat /\ rpos >= 1 /\ rpos' = rpos - 1
    BY <1>9 DEF UnreadRune, IInv, TypeOK, UnreadHasRoom
  <2>2. TypeOK'
    <3>1. <<>> \in Seq(Slots) /\ cursor' \in Int /\ rpos' \in Nat
      BY <1>9, <2>1 DEF UnreadRune, IInv, TypeOK
    <3> QED  BY <1>9, <3>1 DEF UnreadRune, IInv, TypeOK
  <2>3. WindowFits'
    BY <1>9, <2>1 DEF UnreadRune, IInv, TypeOK, WindowFits, wpos
  <2>4. FreshIsBounded' /\ UnreadHasRoom'
    BY <1>9 DEF UnreadRune, IInv, FreshIsBounded, UnreadHasRoom
  <2> QED  BY <2>2, <2>3, <2>4 DEF IInv
<1>10. CASE UNCHANGED vars
  BY <1>10 DEF vars, IInv, TypeOK, WindowFits, FreshIsBounded, UnreadHasRoom,
               Missing, wpos
<1> QED  BY <1>2, <1>3, <1>4, <1>5, <1>6, <1>7, <1>8, <1>9, <1>10 DEF Next

-----------------------------------------------------------------------------
\* The locations addLocation computes.
Locations == [line : Nat, offset : Nat]

\* A location stays one behind a rune.
LEMMA PastType == \A x \in Locations, t \in Slots : Past(x, t) \in Locations
  BY DEF Past, Locations, Slots

\* addLocation walks through the slots, one location after another.
LEMMA LocationsAlong ==
    ASSUME NEW loc \in Locations, NEW s \in Seq(Slots)
    PROVE  \E f \in [0..Len(s) -> Locations] :
              /\ f[0] = loc
              /\ \A i \in 1..Len(s) : f[i] = Past(f[i - 1], s[i])
              /\ AddLocation(loc, s) = f[Len(s)]
<1> DEFINE n == Len(s)
           G == [i \in 1..n |-> [x \in Locations |-> Past(x, s[i])]]
           at == CHOOSE g : g = [i \in 0..n |->
                                   IF i = 0 THEN loc ELSE Past(g[i - 1], s[i])]
<1>1. n \in Nat /\ \A i \in 1..n : s[i] \in Slots
  OBVIOUS
<1>2. \A i \in 1..n, x \in Locations : G[i][x] \in Locations
  BY <1>1, PastType
<1>3. PICK f \in [0..n -> Locations] :
          f[0] = loc /\ \A i \in 1..n : f[i] = G[i][f[i - 1]]
  <2> HIDE DEF n, G
  <2>1. PICK f : Iterates(f, n, Locations, loc, G)
    BY <1>1, <1>2, RecursionExists
  <2> QED  BY <2>1 DEF Iterates
<1>4. \A i \in 1..n : f[i - 1] \in Locations /\ f[i] = Past(f[i - 1], s[i])
  <2> TAKE i \in 1..n
  <2>1. i - 1 \in 0..n
    OBVIOUS
  <2>2. f[i - 1] \in Locations
    BY <2>1
  <2> QED  BY <1>3, <2>2
<1>5. f = [i \in 0..n |-> IF i = 0 THEN loc ELSE Past(f[i - 1], s[i])]
  <2>1. \A i \in 0..n : f[i] = IF i = 0 THEN loc ELSE Past(f[i - 1], s[i])
    <3> HIDE DEF n, G
    <3> QED  BY <1>1, <1>3, <1>4
  <2> HIDE DEF n
  <2> QED  BY <2>1
<1>6. at = [i \in 0..n |-> IF i = 0 THEN loc ELSE Past(at[i - 1], s[i])]
  <2> HIDE DEF n
  <2> QED  BY <1>5, Zenon
<1>7. AddLocation(loc, s) = at[n]
  BY DEF AddLocation
<1> HIDE DEF at, G
<1>8. \A i \in 0..n : at[i] = IF i = 0 THEN loc ELSE Past(at[i - 1], s[i])
  <2> HIDE DEF n
  <2> QED BY <1>6
<1> DEFINE S == {i \in 0..n : at[i] = f[i]}
<1>9. 0..n \subseteq S
  <2>1. 0 \in S
    BY <1>1, <1>3, <1>8
  <2>2. ASSUME NEW i \in 0..(n - 1), i \in S PROVE i + 1 \in S
    <3>1. i + 1 \in 1..n /\ at[i] = f[i] /\ (i + 1) - 1 = i
      BY <1>1, <2>2
    <3>2. at[i + 1] = Past(at[i], s[i + 1]) /\ f[i + 1] = Past(f[i], s[i + 1])
      <4> HIDE DEF n, S
      <4> QED BY <1>4, <1>8, <3>1
    <3> QED  BY <3>1, <3>2
  <2> HIDE DEF S, n
  <2> QED  BY <1>1, <2>1, <2>2, BoundedInduction
<1>10. at[n] = f[n]
  BY <1>1, <1>9
<1> QED  BY <1>3, <1>4, <1>7, <1>10

\* Walking through two stretches of slots is walking through both in one.
LEMMA AddLocationConcat ==
    ASSUME NEW loc \in Locations, NEW s \in Seq(Slots), NEW t \in Seq(Slots)
    PROVE  /\ AddLocation(loc, s) \in Locations
           /\ AddLocation(AddLocation(loc, s), t) = AddLocation(loc, s \o t)
<1> DEFINE m == Len(s)
           n == Len(t)
           mid == AddLocation(loc, s)
<1>1. PICK f \in [0..m -> Locations] :
          /\ f[0] = loc /\ \A i \in 1..m : f[i] = Past(f[i - 1], s[i])
          /\ mid = f[m]
  BY LocationsAlong
<1>2. m \in Nat /\ n \in Nat /\ mid \in Locations
  BY <1>1
<1>3. PICK g \in [0..n -> Locations] :
          /\ g[0] = mid /\ \A i \in 1..n : g[i] = Past(g[i - 1], t[i])
          /\ AddLocation(mid, t) = g[n]
  <2> HIDE DEF mid
  <2> QED  BY <1>2, LocationsAlong
<1>4. /\ s \o t \in Seq(Slots) /\ Len(s \o t) = m + n
      /\ \A i \in 1..(m + n) : (s \o t)[i] = IF i <= m THEN s[i] ELSE t[i - m]
  BY ConcatProperties
<1>5. PICK h \in [0..(m + n) -> Locations] :
          /\ h[0] = loc /\ \A i \in 1..(m + n) : h[i] = Past(h[i - 1], (s \o t)[i])
          /\ AddLocation(loc, s \o t) = h[m + n]
  <2>1. PICK h \in [0..Len(s \o t) -> Locations] :
          /\ h[0] = loc
          /\ \A i \in 1..Len(s \o t) : h[i] = Past(h[i - 1], (s \o t)[i])
          /\ AddLocation(loc, s \o t) = h[Len(s \o t)]
    BY <1>4, LocationsAlong
  <2> HIDE DEF m, n
  <2> QED  BY <1>4, <2>1
<1> HIDE DEF m, n, mid
<1>6. h[m] = f[m]
  <2> DEFINE S == {i \in 0..m : h[i] = f[i]}
  <2>1. 0 \in S
    BY <1>1, <1>2, <1>5
  <2>2. ASSUME NEW i \in 0..(m - 1), i \in S PROVE i + 1 \in S
    <3>1. i + 1 \in 1..m /\ i + 1 \in 1..(m + n) /\ (i + 1) - 1 = i /\ h[i] = f[i]
      BY <1>2, <2>2
    <3>2. (s \o t)[i + 1] = s[i + 1]
      BY <1>2, <1>4, <3>1
    <3>3. h[i + 1] = Past(h[i], s[i + 1]) /\ f[i + 1] = Past(f[i], s[i + 1])
      <4> HIDE DEF S
      <4> QED  BY <1>1, <1>5, <3>1, <3>2
    <3> QED  BY <3>1, <3>3
  <2>3. 0..m \subseteq S
    <3> HIDE DEF S
    <3> QED  BY <1>2, <2>1, <2>2, BoundedInduction
  <2> QED  BY <1>2, <2>3
<1>7. h[m + n] = g[n]
  <2> DEFINE S == {i \in 0..n : h[m + i] = g[i]}
  <2>1. 0 \in S
    BY <1>1, <1>2, <1>3, <1>6
  <2>2. ASSUME NEW i \in 0..(n - 1), i \in S PROVE i + 1 \in S
    <3>1. /\ i + 1 \in 1..n /\ m + (i + 1) \in 1..(m + n) /\ (i + 1) - 1 = i
          /\ m + (i + 1) - 1 = m + i /\ h[m + i] = g[i]
          /\ ~(m + (i + 1) <= m) /\ m + (i + 1) - m = i + 1
      BY <1>2, <2>2
    <3>2. (s \o t)[m + (i + 1)] = t[i + 1]
      BY <1>2, <1>4, <3>1
    <3>3. h[m + (i + 1)] = Past(h[m + i], t[i + 1]) /\ g[i + 1] = Past(g[i], t[i + 1])
      <4> HIDE DEF S
      <4> DEFINE k == m + (i + 1)
      <4>1. k \in 1..(m + n) /\ k - 1 = m + i /\ (s \o t)[k] = t[i + 1]
        BY <1>2, <3>1, <3>2
      <4>2. g[i + 1] = Past(g[i], t[i + 1])
        <5>1. g[i + 1] = Past(g[(i + 1) - 1], t[i + 1])
          BY <1>3, <3>1
        <5> QED  BY <3>1, <5>1
      <4>3. h[k] = Past(h[m + i], t[i + 1])
        <5> HIDE DEF k
        <5>1. h[k] = Past(h[k - 1], (s \o t)[k])
          BY <1>5, <4>1
        <5> QED  BY <4>1, <5>1
      <4> QED  BY <4>2, <4>3
    <3> QED  BY <3>1, <3>3
  <2>3. 0..n \subseteq S
    <3> HIDE DEF S
    <3> QED  BY <1>2, <2>1, <2>2, BoundedInduction
  <2> QED  BY <1>2, <2>3
<1> QED  BY <1>2, <1>3, <1>5, <1>7 DEF mid

-----------------------------------------------------------------------------
\* What the source from i on becomes, given what the source behind i becomes.
FilteredNext(f, i) ==
    IF i > Len(src) THEN <<>>
    ELSE IF CRLFAt(i) THEN <<Slot("LF", 2)>> \o f[i + 2]
    ELSE <<Slot(Preprocessed[src[i]], Size(src[i]))>> \o f[i + 1]

\* A step of the reference consumes a rune of the source or two and gives a slot.
LEMMA FilteredNextType ==
    ASSUME src \in Seq(RawRunes), NEW f, NEW i \in 1..(Len(src) + 1),
           \A j \in (i + 1)..(Len(src) + 1) : f[j] \in Seq(Slots)
    PROVE  FilteredNext(f, i) \in Seq(Slots)
<1>1. CASE i > Len(src)
  BY <1>1 DEF FilteredNext
<1>2. CASE i <= Len(src) /\ CRLFAt(i)
  <2>1. Slot("LF", 2) \in Slots
    BY SlotType DEF Runes, RawRunes
  <2>2. i + 2 \in (i + 1)..(Len(src) + 1)
    BY <1>2 DEF CRLFAt
  <2>3. f[i + 2] \in Seq(Slots) /\ <<Slot("LF", 2)>> \in Seq(Slots)
    BY <2>1, <2>2
  <2>4. <<Slot("LF", 2)>> \o f[i + 2] \in Seq(Slots)
    BY <2>3, ConcatProperties
  <2> QED  BY <1>2, <2>4 DEF FilteredNext
<1>3. CASE i <= Len(src) /\ ~CRLFAt(i)
  <2> DEFINE slot == Slot(Preprocessed[src[i]], Size(src[i]))
  <2>1. src[i] \in RawRunes
    BY <1>3
  <2>2. Preprocessed[src[i]] \in Runes /\ Size(src[i]) \in Nat
    BY <2>1 DEF Preprocessed, Runes, RawRunes, Size, Replacement
  <2>3. slot \in Slots
    BY <2>2, SlotType
  <2>4. i + 1 \in (i + 1)..(Len(src) + 1)
    BY <1>3
  <2>5. f[i + 1] \in Seq(Slots) /\ <<slot>> \in Seq(Slots)
    <3> HIDE DEF slot
    <3> QED  BY <2>3, <2>4
  <2>6. <<slot>> \o f[i + 1] \in Seq(Slots)
    BY <2>5, ConcatProperties
  <2> QED  BY <1>3, <2>6 DEF FilteredNext
<1> QED  BY <1>1, <1>2, <1>3

\* The reference is defined at every place of the source.
LEMMA FilteredFromDef ==
    ASSUME src \in Seq(RawRunes), NEW i \in 1..(Len(src) + 1)
    PROVE  /\ FilteredFrom[i] = FilteredNext(FilteredFrom, i)
           /\ FilteredFrom[i] \in Seq(Slots)
<1> DEFINE n == Len(src)
           Partial(f, k) == f = [j \in (n + 1 - k)..(n + 1) |-> FilteredNext(f, j)]
<1>1. n \in Nat
  OBVIOUS
<1>2. \E f : Partial(f, 0)
  <2> DEFINE f == [j \in (n + 1)..(n + 1) |-> <<>>]
  <2>1. \A j \in (n + 1)..(n + 1) : FilteredNext(f, j) = <<>>
    BY DEF FilteredNext
  <2>2. f = [j \in (n + 1)..(n + 1) |-> FilteredNext(f, j)]
    BY <2>1
  <2>3. n + 1 - 0 = n + 1
    BY <1>1
  <2>4. Partial(f, 0)
    <3> HIDE DEF f, n
    <3> QED  BY <2>2, <2>3
  <2> HIDE DEF Partial, f
  <2> QED  BY <2>4
<1>3. ASSUME NEW k \in 0..(n - 1), \E f : Partial(f, k)
      PROVE  \E f : Partial(f, k + 1)
  <2>1. PICK f : Partial(f, k)
    BY <1>3
  <2> DEFINE first == n - k
             g == [j \in first..(n + 1) |->
                      IF j = first THEN FilteredNext(f, first) ELSE f[j]]
  <2>2. \A j \in first..(n + 1) : FilteredNext(g, j) = FilteredNext(f, j)
    <3> TAKE j \in first..(n + 1)
    <3>1. CASE j > n
      BY <3>1 DEF FilteredNext
    <3>2. CASE j <= n
      <4>1. j + 1 \in first..(n + 1) /\ j + 1 # first
        BY <1>1, <3>2
      <4>2. g[j + 1] = f[j + 1]
        BY <4>1
      <4>3. CRLFAt(j) => g[j + 2] = f[j + 2]
        <5>1. CRLFAt(j) => j + 2 \in first..(n + 1) /\ j + 2 # first
          BY <1>1 DEF CRLFAt
        <5> QED  BY <5>1
      <4> HIDE DEF g
      <4> QED  BY <4>2, <4>3 DEF FilteredNext
    <3> QED  BY <1>1, <3>1, <3>2
  <2>3. \A j \in first..(n + 1) : g[j] = FilteredNext(f, j)
    <3>1. \A j \in first..(n + 1) : j # first => j \in (n + 1 - k)..(n + 1)
      BY <1>1
    <3>2. \A j \in (n + 1 - k)..(n + 1) : f[j] = FilteredNext(f, j)
      BY <2>1
    <3> QED  BY <3>1, <3>2
  <2>4. g = [j \in first..(n + 1) |-> FilteredNext(g, j)]
    <3>1. g = [j \in first..(n + 1) |-> FilteredNext(f, j)]
      BY <2>3
    <3> HIDE DEF g
    <3> QED  BY <2>2, <3>1
  <2>5. n + 1 - (k + 1) = first
    BY <1>1
  <2>6. Partial(g, k + 1)
    <3> HIDE DEF g, first
    <3> QED  BY <2>4, <2>5
  <2> HIDE DEF Partial
  <2> QED  BY <2>6
<1>4. \E f : Partial(f, n)
  <2> DEFINE S == {k \in 0..n : \E f : Partial(f, k)}
  <2> HIDE DEF Partial
  <2>1. 0 \in S
    BY <1>1, <1>2
  <2>2. ASSUME NEW k \in 0..(n - 1), k \in S PROVE k + 1 \in S
    BY <1>1, <1>3, <2>2
  <2>3. 0..n \subseteq S
    <3> HIDE DEF S, n
    <3> QED  BY <1>1, <2>1, <2>2, BoundedInduction
  <2> QED  BY <1>1, <2>3
<1>5. FilteredFrom = [j \in 1..(n + 1) |-> FilteredNext(FilteredFrom, j)]
  <2> DEFINE P(f) == f = [j \in 1..(n + 1) |-> FilteredNext(f, j)]
  <2>1. PICK filter : P(filter)
    <3>1. n + 1 - n = 1
      BY <1>1
    <3> HIDE DEF n
    <3> QED  BY <1>4, <3>1
  <2>2. FilteredFrom = CHOOSE f : P(f)
    BY DEF FilteredFrom, FilteredNext
  <2>3. P(CHOOSE f : P(f))
    <3> HIDE DEF P
    <3> QED  BY <2>1, Zenon
  <2> HIDE DEF P
  <2>4. P(FilteredFrom)
    BY <2>2, <2>3
  <2> QED  BY <2>4 DEF P
<1>6. \A j \in 1..(n + 1) : FilteredFrom[j] = FilteredNext(FilteredFrom, j)
  BY <1>5
<1>7. \A j \in 1..(n + 1) : FilteredFrom[j] \in Seq(Slots)
  <2> DEFINE S == {k \in 0..n : \A j \in (n + 1 - k)..(n + 1) :
                                    FilteredFrom[j] \in Seq(Slots)}
  <2>1. 0 \in S
    <3>1. n + 1 \in 1..(n + 1) /\ \A j \in (n + 1 - 0)..(n + 1) : j = n + 1
      BY <1>1
    <3>2. FilteredFrom[n + 1] = <<>>
      <4>1. n + 1 > n
        BY <1>1
      <4>2. FilteredNext(FilteredFrom, n + 1) = <<>>
        BY <4>1 DEF FilteredNext
      <4> HIDE DEF n
      <4> QED  BY <1>6, <3>1, <4>2
    <3>3. FilteredFrom[n + 1] \in Seq(Slots)
      BY <3>2
    <3> QED  BY <1>1, <3>1, <3>3
  <2>2. ASSUME NEW k \in 0..(n - 1), k \in S PROVE k + 1 \in S
    <3>1. n - k \in 1..(n + 1) /\ n + 1 - (k + 1) = n - k /\ (n - k) + 1 = n + 1 - k
      BY <1>1
    <3>2. \A j \in ((n - k) + 1)..(n + 1) : FilteredFrom[j] \in Seq(Slots)
      BY <2>2, <3>1
    <3>3. FilteredFrom[n - k] \in Seq(Slots)
      BY <1>6, <3>1, <3>2, FilteredNextType
    <3>4. \A j \in (n - k)..(n + 1) : j = n - k \/ j \in ((n - k) + 1)..(n + 1)
      BY <1>1
    <3>5. \A j \in (n - k)..(n + 1) : FilteredFrom[j] \in Seq(Slots)
      BY <3>2, <3>3, <3>4
    <3> QED  BY <1>1, <3>1, <3>5
  <2>3. 0..n \subseteq S
    <3> HIDE DEF S, n
    <3> QED  BY <1>1, <2>1, <2>2, BoundedInduction
  <2>4. n \in S /\ n + 1 - n = 1
    BY <1>1, <2>3
  <2> QED  BY <2>4
<1> QED  BY <1>6, <1>7

-----------------------------------------------------------------------------
\* What follows a sequence and what it is followed by do not change what it holds.
LEMMA SubSeqWithin ==
    ASSUME NEW S, NEW p \in Seq(S), NEW w \in Seq(S), NEW x \in Seq(S),
           NEW a \in 1..(Len(w) + 1), NEW b \in 0..Len(w)
    PROVE  SubSeq((p \o w) \o x, Len(p) + a, Len(p) + b) = SubSeq(w, a, b)
<1> DEFINE k == Len(p)
           m == Len(w)
           pw == p \o w
           all == pw \o x
           l == SubSeq(all, k + a, k + b)
           r == SubSeq(w, a, b)
<1>1. k \in Nat /\ m \in Nat /\ Len(x) \in Nat
  OBVIOUS
<1>2. pw \in Seq(S) /\ Len(pw) = k + m /\ \A i \in 1..m : pw[k + i] = w[i]
  <2>1. pw \in Seq(S) /\ Len(pw) = k + m
    BY ConcatProperties
  <2>2. \A i \in 1..(k + m) : pw[i] = IF i <= k THEN p[i] ELSE w[i - k]
    BY ConcatProperties
  <2>3. ASSUME NEW i \in 1..m PROVE pw[k + i] = w[i]
    <3> DEFINE j == k + i
    <3>1. j \in 1..(k + m) /\ ~(j <= k) /\ j - k = i
      BY <1>1
    <3> HIDE DEF j, pw, k, m
    <3>2. pw[j] = w[i]
      BY <2>2, <3>1
    <3> QED  BY <3>2 DEF j
  <2> QED  BY <2>1, <2>3
<1> HIDE DEF pw, k, m
<1>3. /\ all \in Seq(S) /\ Len(all) = (k + m) + Len(x)
      /\ \A i \in 1..m : all[k + i] = w[i]
  <2>1. all \in Seq(S) /\ Len(all) = (k + m) + Len(x)
    BY <1>2, ConcatProperties
  <2>2. \A i \in 1..(Len(pw) + Len(x)) : i <= Len(pw) => all[i] = pw[i]
    BY <1>2, ConcatProperties
  <2>3. ASSUME NEW i \in 1..m PROVE all[k + i] = w[i]
    <3>1. k + i \in 1..(Len(pw) + Len(x)) /\ k + i <= Len(pw)
      BY <1>1, <1>2
    <3> HIDE DEF all
    <3> QED  BY <1>2, <2>2, <3>1
  <2> QED  BY <2>1, <2>3
<1> HIDE DEF all
<1>4. a \in 1..(m + 1) /\ b \in 0..m
  BY DEF m
<1>5. /\ l \in Seq(S) /\ Len(l) = IF a <= b THEN b - a + 1 ELSE 0
      /\ \A i \in 1..(b - a + 1) : l[i] = all[k + (a + i - 1)]
  <2>1. \A i \in (k + a)..(k + b) : all[i] \in S
    BY <1>1, <1>3, <1>4
  <2>2. k + a \in Int /\ k + b \in Int
    BY <1>1, <1>4
  <2>3. /\ l \in Seq(S)
        /\ Len(l) = IF k + a <= k + b THEN (k + b) - (k + a) + 1 ELSE 0
        /\ \A i \in 1..((k + b) - (k + a) + 1) : l[i] = all[(k + a) + i - 1]
    BY <2>1, <2>2, SubSeqProperties
  <2> HIDE DEF l
  <2> QED  BY <1>1, <1>4, <2>3
<1>6. /\ r \in Seq(S) /\ Len(r) = IF a <= b THEN b - a + 1 ELSE 0
      /\ \A i \in 1..(b - a + 1) : r[i] = w[a + i - 1]
  <2>1. \A i \in a..b : w[i] \in S
    BY <1>1, <1>4 DEF m
  <2> QED  BY <1>4, <2>1, SubSeqProperties
<1> HIDE DEF l, r
<1>7. \A i \in 1..Len(l) : l[i] = r[i]
  <2> TAKE i \in 1..Len(l)
  <2>1. i \in 1..(b - a + 1) /\ a + i - 1 \in 1..m
    BY <1>1, <1>4, <1>5
  <2> QED  BY <1>3, <1>5, <1>6, <2>1
<1>8. l = r
  BY <1>5, <1>6, <1>7, SeqEqual
<1> QED  BY <1>8 DEF l, r, all, pw, k

\* A prefix that reaches into the second of three sequences.
LEMMA PrefixInto ==
    ASSUME NEW S, NEW p \in Seq(S), NEW w \in Seq(S), NEW x \in Seq(S),
           NEW b \in 0..Len(w)
    PROVE  SubSeq((p \o w) \o x, 1, Len(p) + b) = p \o SubSeq(w, 1, b)
<1> DEFINE q == SubSeq(w, 1, b)
           y == SubSeq(w, b + 1, Len(w)) \o x
<1>1. q \in Seq(S) /\ SubSeq(w, b + 1, Len(w)) \in Seq(S) /\ Len(q) = b
  <2>1. \A i \in 1..b : w[i] \in S
    OBVIOUS
  <2>2. \A i \in (b + 1)..Len(w) : w[i] \in S
    OBVIOUS
  <2>3. Len(q) = b
    BY <2>1, SubSeqProperties
  <2> QED  BY <2>1, <2>2, <2>3, SubSeqProperties
<1>2. q \o SubSeq(w, b + 1, Len(w)) = w
  <2>1. SubSeq(w, 1, b) \o SubSeq(w, b + 1, Len(w)) = SubSeq(w, 1, Len(w))
    <3>1. 1 \in 1..(Len(w) + 1) /\ b \in (1 - 1)..Len(w) /\ Len(w) \in b..Len(w)
      OBVIOUS
    <3> QED  BY <3>1, ConcatAdjacentSubSeq
  <2> QED  BY <2>1, SubSeqFull
<1> DEFINE v == SubSeq(w, b + 1, Len(w))
<1> HIDE DEF q, v
<1>3. (p \o w) \o x = (p \o q) \o (v \o x)
  <2>1. v \in Seq(S) /\ q \in Seq(S)
    BY <1>1 DEF v
  <2>2. (p \o (q \o v)) \o x = (p \o q) \o (v \o x)
    BY <2>1
  <2>3. q \o v = w
    BY <1>2 DEF v
  <2> QED  BY <2>2, <2>3
<1>4. p \o q \in Seq(S) /\ v \o x \in Seq(S) /\ Len(p \o q) = Len(p) + b
  BY <1>1, ConcatProperties DEF v
<1> DEFINE t == p \o q
<1>5. SubSeq(t \o (v \o x), 1, Len(t)) = t
  <2>1. CASE t = <<>>
    <3>1. Len(t) = 0
      BY <2>1
    <3>2. SubSeq(t \o (v \o x), 1, 0) = <<>>
      BY SubSeqEmpty
    <3> QED  BY <2>1, <3>1, <3>2
  <2>2. CASE t # <<>>
    <3>1. 1 \in 1..Len(t) /\ Len(t) \in 1..Len(t)
      BY <1>4, <2>2, EmptySeq
    <3> HIDE DEF t
    <3>2. SubSeq(t \o (v \o x), 1, Len(t)) = SubSeq(t, 1, Len(t))
      BY <1>4, <3>1, SubSeqOfConcat1 DEF t
    <3>3. SubSeq(t, 1, Len(t)) = t
      BY <1>4, SubSeqFull DEF t
    <3> QED  BY <3>2, <3>3
  <2> QED  BY <2>1, <2>2
<1> QED  BY <1>3, <1>4, <1>5 DEF q

\* Two slots in front of others, one after the other or both at once.
LEMMA PairConcat ==
    \A a, b \in Slots, x \in Seq(Slots) : <<a>> \o (<<b>> \o x) = <<a, b>> \o x
<1> TAKE a, b \in Slots, x \in Seq(Slots)
<1>1. <<a>> \o <<b>> = <<a, b>>
  <2> DEFINE s == <<a>>
             t == <<b>>
             u == <<a, b>>
  <2>1. /\ s \in Seq(Slots) /\ t \in Seq(Slots) /\ u \in Seq(Slots) /\ Len(s) = 1 /\ Len(t) = 1
        /\ Len(u) = 2 /\ s[1] = a /\ t[1] = b /\ u[1] = a /\ u[2] = b
    OBVIOUS
  <2> HIDE DEF s, t, u
  <2>2. s \o t \in Seq(Slots) /\ Len(s \o t) = Len(s) + Len(t)
    BY <2>1, ConcatProperties
  <2>3. \A i \in 1..(Len(s) + Len(t)) :
            (s \o t)[i] = IF i <= Len(s) THEN s[i] ELSE t[i - Len(s)]
    BY <2>1, ConcatProperties
  <2>4. Len(s \o t) = 2 /\ (s \o t)[1] = a /\ (s \o t)[2] = b
    BY <2>1, <2>2, <2>3
  <2>5. \A i \in 1..Len(s \o t) : (s \o t)[i] = u[i]
    BY <2>1, <2>4
  <2>6. s \o t = u
    BY <2>1, <2>2, <2>4, <2>5, SeqEqual
  <2> QED  BY <2>6 DEF s, t, u
<1>2. (<<a>> \o <<b>>) \o x = <<a>> \o (<<b>> \o x)
  <2> DEFINE s == <<a>>
             t == <<b>>
  <2>1. s \in Seq(Slots) /\ t \in Seq(Slots)
    OBVIOUS
  <2> HIDE DEF s, t
  <2>2. (s \o t) \o x = s \o (t \o x)
    BY <2>1, ConcatAssociative
  <2> QED  BY <2>2 DEF s, t
<1> QED  BY <1>1, <1>2
-----------------------------------------------------------------------------
\* The reader is somewhere in the filtered stream: what it has popped, what is in
\* the window, what peek has read and what the rest of the source becomes are
\* the whole of it, and base is where the window starts.
Aligned ==
    CRsAreIsolated =>
        \E p \in Seq(Slots) :
            /\ ((p \o window) \o fresh) \o FilteredFrom[taken + 1] = Filtered
            /\ Len(p) + rpos = cursor
            /\ base = AddLocation(Start, p)

\* The underlying reader ends where the source ends.
EndsAtEnd == failed => taken = Len(src)

\* The inductive invariant of the stream.
StreamInv == IInv /\ EndsAtEnd /\ Aligned

\* The reference and the assumption speak of the source only.
LEMMA SourceOnly ==
    src' = src => /\ FilteredFrom' = FilteredFrom /\ Filtered' = Filtered
                  /\ CRsAreIsolated' = CRsAreIsolated
<1> SUFFICES ASSUME src' = src
             PROVE  /\ FilteredFrom' = FilteredFrom /\ Filtered' = Filtered
                    /\ CRsAreIsolated' = CRsAreIsolated
  OBVIOUS
<1>1. \A i : CRLFAt(i)' = CRLFAt(i)
  BY DEF CRLFAt
<1>2. FilteredFrom' = FilteredFrom
  BY <1>1 DEF FilteredFrom, CRLFAt
<1> QED  BY <1>2 DEF Filtered, CRsAreIsolated

\* What a pass of the loop adds is what the reference makes of the runes it takes.
LEMMA FillRuneIsFiltered ==
    ASSUME IInv, FillRune
    PROVE  LET more == <<Slot(Filter(src[taken + 1]), Size(src[taken + 1]))>>
           IN FilteredFrom[taken + 1] = more \o FilteredFrom[taken' + 1]
<1>1. /\ taken + 1 \in 1..(Len(src) + 1) /\ src \in Seq(RawRunes) /\ taken' = taken + 1
      /\ ~(taken + 1 > Len(src)) /\ src[taken + 1] # "CR" /\ src[taken + 1] \in RawRunes
  BY DEF IInv, TypeOK, FillRune
<1>2. ~CRLFAt(taken + 1)
  BY <1>1 DEF CRLFAt
<1>3. Preprocessed[src[taken + 1]] = Filter(src[taken + 1])
  BY <1>1 DEF Preprocessed, Filter, RawRunes
<1>4. FilteredFrom[taken + 1] = FilteredNext(FilteredFrom, taken + 1)
  BY <1>1, FilteredFromDef
<1> QED  BY <1>1, <1>2, <1>3, <1>4 DEF FilteredNext

\* The same for a carriage return and the rune behind it, where that rune needs no
\* filtering itself.
LEMMA FillAfterCRIsFiltered ==
    ASSUME IInv, FillAfterCR, CRsAreIsolated
    PROVE  FilteredFrom[taken + 1] = AfterCR(src[taken + 2]) \o FilteredFrom[taken' + 1]
<1>1. /\ taken + 1 \in 1..(Len(src) + 1) /\ taken + 2 \in 1..(Len(src) + 1)
      /\ src \in Seq(RawRunes) /\ taken' = taken + 2 /\ taken + 1 \in 1..(Len(src) - 1)
      /\ ~(taken + 1 > Len(src)) /\ ~(taken + 2 > Len(src))
      /\ src[taken + 1] = "CR" /\ src[taken + 2] \in RawRunes
      /\ (taken + 1) + 1 = taken + 2 /\ (taken + 1) + 2 = (taken + 2) + 1
      /\ (taken + 2) + 1 \in 1..(Len(src) + 1)
  BY DEF IInv, TypeOK, FillAfterCR
<1>2. src[taken + 2] \notin {"CR", "FF", "NUL"}
  <2>1. src[(taken + 1) + 1] \notin {"CR", "FF", "NUL"}
    BY <1>1 DEF CRsAreIsolated
  <2> QED  BY <1>1, <2>1
<1>3. FilteredFrom[taken + 1] = FilteredNext(FilteredFrom, taken + 1)
  BY <1>1, FilteredFromDef
<1>4. FilteredFrom[taken + 2] = FilteredNext(FilteredFrom, taken + 2)
  BY <1>1, FilteredFromDef
<1> DEFINE rest == FilteredFrom[taken' + 1]
<1>5. rest \in Seq(Slots) /\ rest = FilteredFrom[(taken + 2) + 1]
  BY <1>1, FilteredFromDef
<1>6. CASE src[taken + 2] = "LF"
  <2>1. CRLFAt(taken + 1)
    <3>1. src[(taken + 1) + 1] = "LF"
      BY <1>1, <1>6
    <3> QED  BY <1>1, <3>1 DEF CRLFAt
  <2>2. FilteredFrom[taken + 1] = <<Slot("LF", 2)>> \o FilteredFrom[(taken + 1) + 2]
    BY <1>1, <1>3, <2>1 DEF FilteredNext
  <2>3. AfterCR(src[taken + 2]) = <<Slot("LF", 2)>>
    BY <1>6 DEF AfterCR, Size
  <2> QED  BY <1>1, <2>2, <2>3
<1>7. CASE src[taken + 2] # "LF"
  <2> DEFINE r2 == src[taken + 2]
             one == Slot("LF", 1)
             two == Slot(r2, Size(r2))
  <2>1. ~CRLFAt(taken + 1) /\ ~CRLFAt(taken + 2)
    <3>1. src[(taken + 1) + 1] # "LF"
      BY <1>1, <1>7
    <3> QED  BY <1>1, <1>2, <3>1 DEF CRLFAt
  <2>2. FilteredFrom[taken + 1] = <<one>> \o FilteredFrom[taken + 2]
    <3>1. Preprocessed["CR"] = "LF" /\ Size("CR") = 1
      BY DEF Preprocessed, RawRunes, Size
    <3>2. FilteredFrom[taken + 1] =
             <<Slot(Preprocessed["CR"], Size("CR"))>> \o FilteredFrom[taken + 2]
      BY <1>1, <1>3, <2>1 DEF FilteredNext
    <3> QED  BY <3>1, <3>2
  <2>3. FilteredFrom[taken + 2] = <<two>> \o rest
    <3>1. Preprocessed[r2] = r2
      BY <1>1, <1>2 DEF Preprocessed, RawRunes
    <3>2. FilteredFrom[taken + 2] =
             <<Slot(Preprocessed[r2], Size(r2))>> \o FilteredFrom[(taken + 2) + 1]
      BY <1>1, <1>4, <2>1 DEF FilteredNext
    <3> QED  BY <1>5, <3>1, <3>2
  <2>4. AfterCR(r2) = <<one, two>>
    BY <1>7 DEF AfterCR
  <2>5. one \in Slots /\ two \in Slots
    BY <1>1, FilterType, SlotType DEF Runes, RawRunes
  <2> HIDE DEF one, two, rest, r2
  <2>6. <<one>> \o (<<two>> \o rest) = <<one, two>> \o rest
    BY <1>5, <2>5, PairConcat, Zenon
  <2> QED  BY <2>2, <2>3, <2>4, <2>6 DEF rest, r2
<1> QED  BY <1>6, <1>7

\* The same for a carriage return at the end.
LEMMA FillLastCRIsFiltered ==
    ASSUME IInv, FillLastCR
    PROVE  FilteredFrom[taken + 1] = <<Slot("LF", 1)>> \o FilteredFrom[taken' + 1]
<1>1. /\ taken + 1 \in 1..(Len(src) + 1) /\ src \in Seq(RawRunes) /\ taken' = taken + 1
      /\ ~(taken + 1 > Len(src)) /\ taken + 1 = Len(src) /\ src[taken + 1] = "CR"
  BY DEF IInv, TypeOK, FillLastCR
<1>2. ~CRLFAt(taken + 1)
  BY <1>1 DEF CRLFAt
<1>3. Preprocessed["CR"] = "LF" /\ Size("CR") = 1
  BY DEF Preprocessed, RawRunes, Size
<1>4. FilteredFrom[taken + 1] = FilteredNext(FilteredFrom, taken + 1)
  BY <1>1, FilteredFromDef
<1>5. FilteredFrom[taken + 1] =
         <<Slot(Preprocessed["CR"], Size("CR"))>> \o FilteredFrom[(taken + 1) + 1]
  BY <1>1, <1>2, <1>4 DEF FilteredNext
<1> QED  BY <1>1, <1>3, <1>5

\* What the loop adds to the fresh runes leaves the rest of the source.
LEMMA FillKeepsAligned ==
    ASSUME NEW more \in Seq(Slots)
    PROVE  /\ StreamInv
           /\ fresh' = fresh \o more
           /\ CRsAreIsolated => FilteredFrom[taken + 1] = more \o FilteredFrom[taken' + 1]
           /\ taken' + 1 \in 1..(Len(src) + 1)
           /\ UNCHANGED <<src, window, rpos, base, cursor>>
           => Aligned'
<1>0. SUFFICES
        ASSUME StreamInv, fresh' = fresh \o more,
               CRsAreIsolated => FilteredFrom[taken + 1] = more \o FilteredFrom[taken' + 1],
               taken' + 1 \in 1..(Len(src) + 1),
               UNCHANGED <<src, window, rpos, base, cursor>>
        PROVE  Aligned'
  OBVIOUS
<1>1. FilteredFrom' = FilteredFrom /\ Filtered' = Filtered
      /\ CRsAreIsolated' = CRsAreIsolated
  BY <1>0, SourceOnly
<1>b. SUFFICES ASSUME CRsAreIsolated
             PROVE  \E p \in Seq(Slots) :
                        /\ ((p \o window) \o fresh') \o FilteredFrom[taken' + 1] = Filtered
                        /\ Len(p) + rpos = cursor
                        /\ base = AddLocation(Start, p)
  BY <1>0, <1>1 DEF Aligned
<1>2. PICK p \in Seq(Slots) :
            /\ ((p \o window) \o fresh) \o FilteredFrom[taken + 1] = Filtered
            /\ Len(p) + rpos = cursor
            /\ base = AddLocation(Start, p)
  BY <1>0, <1>b DEF StreamInv, Aligned
<1> DEFINE rest == FilteredFrom[taken' + 1]
           pw == p \o window
<1>3. rest \in Seq(Slots)
  BY <1>0, FilteredFromDef DEF StreamInv, IInv, TypeOK
<1>4. window \in Seq(Slots) /\ fresh \in Seq(Slots)
  BY <1>0 DEF StreamInv, IInv, TypeOK
<1>5. pw \in Seq(Slots)
  BY <1>4, ConcatProperties
<1> HIDE DEF rest, pw
<1>9. ASSUME NEW a \in Seq(Slots), NEW m \in Seq(Slots), NEW r \in Seq(Slots)
      PROVE  (a \o (fresh \o m)) \o r = (a \o fresh) \o (m \o r)
  BY <1>4
<1>6. (pw \o (fresh \o more)) \o rest = (pw \o fresh) \o (more \o rest)
  <2>1. more \in Seq(Slots)
    OBVIOUS
  <2> QED  BY <1>3, <1>5, <1>9, <2>1
<1>7. FilteredFrom[taken + 1] = more \o rest
  BY <1>0, <1>b DEF rest
<1>8. ((p \o window) \o fresh') \o FilteredFrom[taken' + 1] = Filtered
  BY <1>0, <1>2, <1>6, <1>7 DEF pw, rest
<1> QED  BY <1>2, <1>8

\* Popping from the front moves the slots from the window to what lies behind it.
LEMMA ReturnKeepsAligned ==
    ASSUME StreamInv, Return, CRsAreIsolated
    PROVE  \E p \in Seq(Slots) :
              /\ (p \o NewWindow) \o FilteredFrom[taken + 1] = Filtered
              /\ Len(p) + ReadAt = cursor
              /\ base' = AddLocation(Start, p)
<1>1. PICK p \in Seq(Slots) :
            /\ ((p \o window) \o fresh) \o FilteredFrom[taken + 1] = Filtered
            /\ Len(p) + rpos = cursor
            /\ base = AddLocation(Start, p)
  BY DEF StreamInv, Aligned
<1> DEFINE rest == FilteredFrom[taken + 1]
           gone == SubSeq(window, 1, Popped)
           kept == SubSeq(window, Popped + 1, wpos)
<1>2. rest \in Seq(Slots) /\ window \in Seq(Slots) /\ fresh \in Seq(Slots)
  <2>1. taken + 1 \in 1..(Len(src) + 1) /\ src \in Seq(RawRunes)
    BY DEF StreamInv, IInv, TypeOK
  <2> QED  BY <2>1, FilteredFromDef DEF StreamInv, IInv, TypeOK
<1>3. Popped \in 0..Len(window) /\ kept \in Seq(Slots) /\ wpos = Len(window)
  BY ReturnFits DEF StreamInv, wpos
<1>4. gone \in Seq(Slots) /\ Len(gone) = Popped
  <2>1. \A i \in 1..Popped : window[i] \in Slots
    BY <1>2, <1>3
  <2> QED  BY <1>3, <2>1, SubSeqProperties
<1>5. gone \o kept = window
  <2>1. /\ 1 \in 1..(Len(window) + 1) /\ Popped \in (1 - 1)..Len(window)
        /\ Len(window) \in Popped..Len(window)
    BY <1>3
  <2>2. SubSeq(window, 1, Popped) \o SubSeq(window, Popped + 1, Len(window))
           = SubSeq(window, 1, Len(window))
    BY <1>2, <2>1, ConcatAdjacentSubSeq
  <2> QED  BY <1>2, <1>3, <2>2, SubSeqFull
<1>6. NewWindow = kept \o fresh
  BY DEF NewWindow
<1>7. base' = AddLocation(Start, p \o gone)
  <2>1. Start \in Locations
    BY DEF Start, Locations
  <2>2. AddLocation(AddLocation(Start, p), gone) = AddLocation(Start, p \o gone)
    <3> HIDE DEF gone
    <3> QED  BY <1>4, <2>1, AddLocationConcat
  <2> QED  BY <1>1, <2>2, ReturnMoves
<1> HIDE DEF rest, gone, kept
<1> DEFINE q == p \o gone
<1>8. q \in Seq(Slots) /\ Len(q) = Len(p) + Popped
  BY <1>4, ConcatProperties
<1>9. (q \o (kept \o fresh)) \o rest = ((p \o (gone \o kept)) \o fresh) \o rest
  BY <1>2, <1>3, <1>4
<1> HIDE DEF q
<1>10. (q \o NewWindow) \o rest = Filtered
  BY <1>1, <1>5, <1>6, <1>9 DEF rest
<1>11. Len(q) + ReadAt = cursor
  <2>1. Popped \in Int /\ rpos \in Int /\ Len(p) \in Int
    BY <1>2, <1>3 DEF StreamInv, IInv, TypeOK
  <2> QED  BY <1>1, <1>8, <2>1 DEF ReadAt
<1>12. base' = AddLocation(Start, q)
  BY <1>7 DEF q
<1> QED  BY <1>8, <1>10, <1>11, <1>12 DEF rest

\* Every step keeps the reader somewhere in the filtered stream.
LEMMA NextStreamInv == StreamInv /\ [Next]_vars => StreamInv'
<1>0. SUFFICES ASSUME StreamInv, [Next]_vars PROVE StreamInv'
  OBVIOUS
<1>1. IInv /\ IInv'
  BY <1>0, NextIInv DEF StreamInv
<1>2. EndsAtEnd'
  <2>1. CASE FillRune \/ FillAfterCR
    BY <1>0, <2>1 DEF FillRune, FillAfterCR, Filling, EndsAtEnd
  <2>2. CASE FillLastCR \/ FillEnd
    BY <1>0, <2>2 DEF FillLastCR, FillEnd, EndsAtEnd
  <2>3. CASE ReadRune \/ Peek \/ UnreadRune \/ Return \/ UNCHANGED vars
    <3>1. UNCHANGED <<failed, taken, src>>
      BY <2>3 DEF ReadRune, Peek, Call, UnreadRune, Return, vars
    <3> QED  BY <1>0, <3>1 DEF StreamInv, EndsAtEnd
  <2> QED  BY <1>0, <2>1, <2>2, <2>3 DEF Next
<1>3. Aligned'
  <2>1. CASE FillRune
    <3> DEFINE more == <<Slot(Filter(src[taken + 1]), Size(src[taken + 1]))>>
    <3>1. src[taken + 1] \in RawRunes /\ taken' + 1 \in 1..(Len(src) + 1)
      BY <1>1, <2>1 DEF FillRune, IInv, TypeOK
    <3>2. more \in Seq(Slots)
      BY <3>1, FilterType
    <3>3. fresh' = fresh \o more
      BY <1>1, <2>1, <3>1, FilterType, AppendIsConcat DEF FillRune, IInv, TypeOK
    <3>4. FilteredFrom[taken + 1] = more \o FilteredFrom[taken' + 1]
      BY <1>1, <2>1, FillRuneIsFiltered
    <3> HIDE DEF more
    <3>5. UNCHANGED <<src, window, rpos, base, cursor>>
      BY <2>1 DEF FillRune
    <3> QED  BY <1>0, <3>1, <3>2, <3>3, <3>4, <3>5, FillKeepsAligned
  <2>2. CASE FillAfterCR
    <3> DEFINE more == AfterCR(src[taken + 2])
    <3>1. src[taken + 2] \in RawRunes /\ taken' + 1 \in 1..(Len(src) + 1)
      BY <1>1, <2>2 DEF FillAfterCR, IInv, TypeOK
    <3>2. more \in Seq(Slots)
      BY <3>1, AfterCRType
    <3>3. fresh' = fresh \o more
      BY <2>2 DEF FillAfterCR
    <3>4. CRsAreIsolated => FilteredFrom[taken + 1] = more \o FilteredFrom[taken' + 1]
      BY <1>1, <2>2, FillAfterCRIsFiltered
    <3> HIDE DEF more
    <3>5. UNCHANGED <<src, window, rpos, base, cursor>>
      BY <2>2 DEF FillAfterCR
    <3> QED  BY <1>0, <3>1, <3>2, <3>3, <3>4, <3>5, FillKeepsAligned
  <2>3. CASE FillLastCR
    <3> DEFINE more == <<Slot("LF", 1)>>
    <3>1. Slot("LF", 1) \in Slots /\ taken' + 1 \in 1..(Len(src) + 1)
      BY <1>1, <2>3, SlotType DEF FillLastCR, IInv, TypeOK, Runes, RawRunes
    <3>2. more \in Seq(Slots)
      BY <3>1
    <3>3. fresh' = fresh \o more
      BY <1>1, <2>3, <3>1, AppendIsConcat DEF FillLastCR, IInv, TypeOK
    <3>4. FilteredFrom[taken + 1] = more \o FilteredFrom[taken' + 1]
      BY <1>1, <2>3, FillLastCRIsFiltered
    <3> HIDE DEF more
    <3>5. UNCHANGED <<src, window, rpos, base, cursor>>
      BY <2>3 DEF FillLastCR
    <3> QED  BY <1>0, <3>1, <3>2, <3>3, <3>4, <3>5, FillKeepsAligned
  <2>4. CASE Return
    <3>0. SUFFICES ASSUME CRsAreIsolated'
                  PROVE  \E p \in Seq(Slots) :
                            /\ ((p \o window') \o fresh') \o FilteredFrom'[taken' + 1]
                                  = Filtered'
                            /\ Len(p) + rpos' = cursor'
                            /\ base' = AddLocation(Start, p)
      BY DEF Aligned, AddLocation, Start, Past
    <3>1. /\ FilteredFrom' = FilteredFrom /\ Filtered' = Filtered
          /\ CRsAreIsolated' = CRsAreIsolated
      BY <2>4, ReturnMoves, SourceOnly
    <3>2. PICK p \in Seq(Slots) :
              /\ (p \o NewWindow) \o FilteredFrom[taken + 1] = Filtered
              /\ Len(p) + ReadAt = cursor
              /\ base' = AddLocation(Start, p)
      BY <1>0, <2>4, <3>0, <3>1, ReturnKeepsAligned
    <3>3. (p \o NewWindow) \o <<>> = p \o NewWindow
      <4>1. p \o NewWindow \in Seq(Slots)
        BY <1>1, ReturnFits, ConcatProperties
      <4> QED  BY <4>1, ConcatEmptySeq
    <3>4. Len(p) + (ReadAt + Step) = cursor + Step
      <4>1. ReadAt \in Int /\ Step \in Int /\ Len(p) \in Int
        BY <1>1, ReturnFits DEF IInv, TypeOK
      <4> QED  BY <3>2, <4>1
    <3>5. ((p \o window') \o fresh') \o FilteredFrom'[taken' + 1] = Filtered'
      BY <2>4, <3>1, <3>2, <3>3, ReturnMoves
    <3>6. Len(p) + rpos' = cursor'
      BY <2>4, <3>4, ReturnMoves
    <3> QED  BY <3>2, <3>5, <3>6
  <2>5. CASE UnreadRune
    <3>1. rpos' = rpos - 1 /\ cursor' = cursor - 1 /\ rpos \in Int /\ cursor \in Int
      BY <1>1, <2>5 DEF UnreadRune, IInv, TypeOK, UnreadHasRoom
    <3>2. UNCHANGED <<src, window, fresh, taken, base>>
      BY <2>5 DEF UnreadRune
    <3>3. /\ FilteredFrom' = FilteredFrom /\ Filtered' = Filtered
          /\ CRsAreIsolated' = CRsAreIsolated
      BY <3>2, SourceOnly
    <3>4. \A p \in Seq(Slots) : Len(p) + rpos = cursor => Len(p) + rpos' = cursor'
      BY <3>1
    <3>5. SUFFICES ASSUME CRsAreIsolated'
                   PROVE  \E p \in Seq(Slots) :
                            /\ ((p \o window') \o fresh') \o FilteredFrom'[taken' + 1]
                                  = Filtered'
                            /\ Len(p) + rpos' = cursor'
                            /\ base' = AddLocation(Start, p)
      BY DEF Aligned, AddLocation, Start, Past
    <3>6. PICK p \in Seq(Slots) :
              /\ ((p \o window) \o fresh) \o FilteredFrom[taken + 1] = Filtered
              /\ Len(p) + rpos = cursor
              /\ base = AddLocation(Start, p)
      BY <1>0, <3>3, <3>5 DEF StreamInv, Aligned
    <3>7. Len(p) + rpos' = cursor'
      BY <3>4, <3>6
    <3> QED  BY <3>2, <3>3, <3>6, <3>7
  <2>6. CASE ReadRune \/ Peek \/ FillEnd \/ UNCHANGED vars
    <3>1. UNCHANGED <<src, window, taken, base, rpos, cursor>> /\ fresh' = fresh
      BY <1>1, <2>6 DEF FillEnd, ReadRune, Peek, Call, vars, IInv, FreshIsBounded
    <3>2. /\ FilteredFrom' = FilteredFrom /\ Filtered' = Filtered
          /\ CRsAreIsolated' = CRsAreIsolated
      BY <3>1, SourceOnly
    <3>3. SUFFICES ASSUME CRsAreIsolated'
                   PROVE  \E p \in Seq(Slots) :
                            /\ ((p \o window') \o fresh') \o FilteredFrom'[taken' + 1]
                                  = Filtered'
                            /\ Len(p) + rpos' = cursor'
                            /\ base' = AddLocation(Start, p)
      BY DEF Aligned, AddLocation, Start, Past
    <3>4. PICK p \in Seq(Slots) :
              /\ ((p \o window) \o fresh) \o FilteredFrom[taken + 1] = Filtered
              /\ Len(p) + rpos = cursor
              /\ base = AddLocation(Start, p)
      BY <1>0, <3>2, <3>3 DEF StreamInv, Aligned
    <3> QED  BY <3>1, <3>2, <3>4
  <2> QED  BY <1>0, <2>1, <2>2, <2>3, <2>4, <2>5, <2>6 DEF Next
<1> QED  BY <1>1, <1>2, <1>3 DEF StreamInv

\* At the start nothing has been read, and the whole stream is ahead.
LEMMA InitStreamInv == Init => StreamInv
<1>0. SUFFICES ASSUME Init PROVE StreamInv
  OBVIOUS
<1>1. IInv
  BY <1>0, InitIInv
<1>2. EndsAtEnd
  BY <1>0 DEF Init, EndsAtEnd
<1>3. Aligned
  <2>1. window = <<>> /\ fresh = <<>> /\ taken = 0 /\ rpos = 0 /\ cursor = 0 /\ base = Start
    BY <1>0 DEF Init
  <2>2. FilteredFrom[1] \in Seq(Slots)
    <3>1. src \in Seq(RawRunes) /\ 1 \in 1..(Len(src) + 1)
      BY <1>1 DEF IInv, TypeOK
    <3> QED  BY <3>1, FilteredFromDef
  <2> DEFINE p == <<>>
  <2>3. ((p \o <<>>) \o <<>>) \o FilteredFrom[1] = FilteredFrom[1]
    BY <2>2, ConcatEmptySeq, EmptySeq
  <2>4. p \in Seq(Slots) /\ Len(p) + 0 = 0
    OBVIOUS
  <2>5. AddLocation(Start, p) = Start
    <3>1. Start \in Locations
      BY DEF Start, Locations
    <3>2. PICK f \in [0..Len(p) -> Locations] : f[0] = Start /\ AddLocation(Start, p) = f[Len(p)]
      BY <2>4, <3>1, LocationsAlong
    <3> QED  BY <3>2
  <2> HIDE DEF p
  <2>6. ((p \o window) \o fresh) \o FilteredFrom[taken + 1] = Filtered
    BY <2>1, <2>3 DEF Filtered, p
  <2>7. Len(p) + rpos = cursor /\ base = AddLocation(Start, p)
    BY <2>1, <2>4, <2>5
  <2> QED  BY <2>4, <2>6, <2>7 DEF Aligned
<1> QED  BY <1>1, <1>2, <1>3 DEF StreamInv

\* What has been read is the popped slots and the read part of the window.
LEMMA StreamInvLocationIsExact == StreamInv => LocationIsExact
<1>0. SUFFICES ASSUME StreamInv, CRsAreIsolated
              PROVE  Location = AddLocation(Start, SubSeq(Filtered, 1, cursor))
  BY DEF LocationIsExact
<1>1. PICK p \in Seq(Slots) :
            /\ ((p \o window) \o fresh) \o FilteredFrom[taken + 1] = Filtered
            /\ Len(p) + rpos = cursor
            /\ base = AddLocation(Start, p)
  BY <1>0 DEF StreamInv, Aligned
<1>2. window \in Seq(Slots) /\ fresh \in Seq(Slots) /\ rpos \in 0..Len(window)
  BY <1>0 DEF StreamInv, IInv, TypeOK, WindowFits, wpos
<1> DEFINE rest == FilteredFrom[taken + 1]
           tail == fresh \o rest
           read == SubSeq(window, 1, rpos)
<1>3. rest \in Seq(Slots)
  <2>1. taken + 1 \in 1..(Len(src) + 1) /\ src \in Seq(RawRunes)
    BY <1>0 DEF StreamInv, IInv, TypeOK
  <2> QED  BY <2>1, FilteredFromDef
<1> HIDE DEF rest
<1>4. tail \in Seq(Slots)
  BY <1>2, <1>3, ConcatProperties
<1>5. ((p \o window) \o fresh) \o rest = (p \o window) \o tail
  <2>1. p \o window \in Seq(Slots)
    BY <1>2, ConcatProperties
  <2> QED  BY <1>2, <1>3, <2>1, ConcatAssociative
<1> HIDE DEF tail
<1>6. SubSeq(Filtered, 1, cursor) = p \o read
  <2>1. SubSeq((p \o window) \o tail, 1, Len(p) + rpos) = p \o SubSeq(window, 1, rpos)
    BY <1>2, <1>4, PrefixInto
  <2> QED  BY <1>1, <1>5, <2>1 DEF rest
<1>7. read \in Seq(Slots)
  <2>1. \A i \in 1..rpos : window[i] \in Slots
    BY <1>2
  <2> QED  BY <1>2, <2>1, SubSeqProperties
<1> HIDE DEF read
<1>8. AddLocation(AddLocation(Start, p), read) = AddLocation(Start, p \o read)
  <2>1. Start \in Locations
    BY DEF Start, Locations
  <2> QED  BY <1>7, <2>1, AddLocationConcat
<1> QED  BY <1>1, <1>6, <1>8 DEF Location, read

\* What a call returns is what stands in the stream at its place.
LEMMA StreamInvReturnsNext ==
    StreamInv /\ Return /\ CRsAreIsolated => ReturnsNext
<1>0. SUFFICES ASSUME StreamInv, Return, CRsAreIsolated PROVE ReturnsNext
  OBVIOUS
<1>1. PICK p \in Seq(Slots) :
            /\ (p \o NewWindow) \o FilteredFrom[taken + 1] = Filtered
            /\ Len(p) + ReadAt = cursor
  BY <1>0, ReturnKeepsAligned
<1> DEFINE rest == FilteredFrom[taken + 1]
           n == Len(NewWindow)
           end == IF cursor + want <= Len(Filtered) THEN cursor + want ELSE Len(Filtered)
<1>2. /\ NewWindow \in Seq(Slots) /\ n \in Nat /\ ReadAt \in 0..n
      /\ Ahead \in 0..want /\ ReadAt + Ahead <= n /\ want \in 0..3
      /\ Len(fresh) >= Missing => Ahead = want
      /\ Ahead = IF ReadAt + want <= n THEN want ELSE n - ReadAt
  BY <1>0, ReturnFits DEF StreamInv, IInv, TypeOK, LookAhead, Ahead
<1>3. rest \in Seq(Slots) /\ (taken = Len(src) => rest = <<>>)
  <2>1. taken + 1 \in 1..(Len(src) + 1) /\ src \in Seq(RawRunes) /\ Len(src) \in Nat
    BY <1>0 DEF StreamInv, IInv, TypeOK
  <2>2. taken = Len(src) => taken + 1 > Len(src)
    BY <2>1
  <2>3. rest = FilteredNext(FilteredFrom, taken + 1) /\ rest \in Seq(Slots)
    BY <2>1, FilteredFromDef
  <2> QED  BY <2>2, <2>3 DEF FilteredNext
<1> HIDE DEF rest
<1>4. Len(Filtered) = (Len(p) + n) + Len(rest) /\ Len(p) \in Nat /\ Len(rest) \in Nat
  <2>1. p \o NewWindow \in Seq(Slots) /\ Len(p \o NewWindow) = Len(p) + n
    BY <1>2, ConcatProperties
  <2>2. Len((p \o NewWindow) \o rest) = Len(p \o NewWindow) + Len(rest)
    BY <1>3, <2>1, ConcatProperties
  <2> QED  BY <1>1, <1>3, <2>1, <2>2 DEF rest
<1>5. end = Len(p) + (ReadAt + Ahead)
  <2>1. CASE ReadAt + want <= n
    <3>1. Ahead = want
      BY <1>2, <2>1
    <3>2. cursor + want <= Len(Filtered)
      <4> HIDE DEF n
      <4> QED  BY <1>1, <1>2, <1>4, <2>1
    <3> HIDE DEF n
    <3> QED  BY <1>1, <1>2, <1>4, <3>1, <3>2
  <2>2. CASE ~(ReadAt + want <= n)
    <3>1. Ahead = n - ReadAt /\ Ahead # want
      <4> HIDE DEF n
      <4> QED  BY <1>2, <2>2
    <3>2. failed
      BY <1>0, <1>2, <3>1 DEF Return
    <3>3. rest = <<>> /\ Len(rest) = 0
      BY <1>0, <1>3, <3>2 DEF StreamInv, EndsAtEnd
    <3> HIDE DEF n
    <3>4. Len(Filtered) = Len(p) + n /\ ~(cursor + want <= Len(Filtered))
      BY <1>1, <1>2, <1>4, <2>2, <3>3
    <3> QED  BY <1>1, <1>2, <1>4, <3>1, <3>4
  <2> QED  BY <2>1, <2>2
<1> HIDE DEF end
<1>6. SubSeq(Filtered, cursor + 1, end) = SubSeq(NewWindow, ReadAt + 1, ReadAt + Ahead)
  <2>1. ReadAt + 1 \in 1..(n + 1) /\ ReadAt + Ahead \in 0..n
    BY <1>2
  <2>2. SubSeq((p \o NewWindow) \o rest, Len(p) + (ReadAt + 1), Len(p) + (ReadAt + Ahead))
           = SubSeq(NewWindow, ReadAt + 1, ReadAt + Ahead)
    <3> DEFINE a == ReadAt + 1
               b == ReadAt + Ahead
    <3> HIDE DEF n, a, b
    <3>1. a \in 1..(Len(NewWindow) + 1) /\ b \in 0..Len(NewWindow)
      BY <2>1 DEF n, a, b
    <3>2. SubSeq((p \o NewWindow) \o rest, Len(p) + a, Len(p) + b)
             = SubSeq(NewWindow, a, b)
      BY <1>2, <1>3, <3>1, SubSeqWithin
    <3> QED  BY <3>2 DEF a, b
  <2>3. Len(p) + (ReadAt + 1) = cursor + 1
    BY <1>1, <1>2, <1>4
  <2> QED  BY <1>1, <1>5, <2>2, <2>3 DEF rest
<1>7. seen' = SubSeq(Filtered, cursor + 1, end)
  BY <1>0, <1>6, ReturnMoves
<1> QED  BY <1>7 DEF ReturnsNext, end

\* For every source and every sequence of calls, the two arrays of four that
\* peek fills are never indexed out of bounds, and popping never passes the read
\* position.
THEOREM ArraysAlwaysFit == Spec => []ArraysFit
  BY InitIInv, NextIInv, IInvArraysFit, PTL DEF Spec

\* For every source, the rune the Scanner may give back is still in the window:
\* the error UnreadRune returns, which the Scanner ignores, never occurs.
THEOREM UnreadNeverFails == Spec => []UnreadHasRoom
<1>1. IInv => UnreadHasRoom
  BY DEF IInv
<1> QED  BY <1>1, InitIInv, NextIInv, PTL DEF Spec

\* Every variable stays in its type, rpos among them, which is only ever
\* decremented after a read.
THEOREM ReaderTypes == Spec => []TypeOK
<1>1. IInv => TypeOK
  BY DEF IInv
<1> QED  BY <1>1, InitIInv, NextIInv, PTL DEF Spec

\* For every source in which no carriage return precedes a rune that needs
\* filtering, the location the reader reports counts the lines and bytes of
\* exactly the runes read, whatever was read ahead, popped or unread.
THEOREM LocationAlwaysExact == Spec => []LocationIsExact
  BY InitStreamInv, NextStreamInv, StreamInvLocationIsExact, PTL DEF Spec

\* For the same sources, every ReadRune and every peek returns the filtered code
\* points at its place of the stream.
THEOREM ReadsTheStream == Spec => ReadsIsolatedRunes
<1>1. StreamInv /\ [Next]_vars => [Return /\ CRsAreIsolated => ReturnsNext]_vars
  BY StreamInvReturnsNext
<1> QED  BY <1>1, InitStreamInv, NextStreamInv, PTL DEF Spec, ReadsIsolatedRunes
=============================================================================
