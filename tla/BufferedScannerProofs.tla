------------------------ MODULE BufferedScannerProofs ------------------------
(***************************************************************************)
(* Theorems about BufferedScanner, for every set of sources.               *)
(***************************************************************************)
EXTENDS BufferedScanner, SequenceTheorems, TLAPS

\* The inductive invariant: the three invariants the runs check.
IInv == TypeOK /\ BufferIsWindow /\ OnlyReachableTokens

\* discardUnreachableBuffer keeps a slice in bounds, and afterwards the oldest
\* mark, or with none the position, is at the first token.
LEMMA DiscardKeepsBounds ==
    ASSUME NEW b \in TokenSlices(Kinds),
           b.marks # <<>> => b.marks[1] = 0
    PROVE  LET d == DiscardUnreachable(b) IN
              /\ d \in TokenSlices(Kinds)
              /\ d.marks = b.marks
              /\ IF d.marks = <<>> THEN d.pos = 0 ELSE d.marks[1] = 0
<1>1. CASE b.marks = <<>>
  <2>1. SubSeq(b.tokens, b.pos + 1, Len(b.tokens)) \in Seq(Kinds)
    BY SubSeqProperties DEF TokenSlices
  <2> QED  BY <1>1, <2>1 DEF DiscardUnreachable, TokenSlices
<1>2. CASE b.marks # <<>>
  BY <1>2 DEF DiscardUnreachable
<1> QED  BY <1>1, <1>2

\* discardUnreachableBuffer moves the position by as many tokens as it drops,
\* and the tokens it keeps stay in order.
LEMMA DiscardKeepsUnread ==
    ASSUME NEW b \in TokenSlices(Kinds)
    PROVE  LET d == DiscardUnreachable(b)
               gone == Len(b.tokens) - Len(d.tokens)
           IN /\ gone \in Nat
              /\ gone + d.pos = b.pos
              /\ b.marks # <<>> => d = b
              /\ \A i \in 1..Len(d.tokens) : d.tokens[i] = b.tokens[gone + i]
<1>1. CASE b.marks = <<>>
  <2>1. /\ Len(SubSeq(b.tokens, b.pos + 1, Len(b.tokens)))
              = Len(b.tokens) - b.pos
        /\ \A i \in 1..Len(b.tokens) - b.pos :
              SubSeq(b.tokens, b.pos + 1, Len(b.tokens))[i] = b.tokens[b.pos + i]
    BY SubSeqProperties DEF TokenSlices
  <2> QED  BY <1>1, <2>1 DEF DiscardUnreachable, TokenSlices
<1>2. CASE b.marks # <<>>
  BY <1>2 DEF DiscardUnreachable, TokenSlices
<1> QED  BY <1>1, <1>2

\* Popping a mark keeps a slice in bounds and the oldest mark in its place.
LEMMA UnmarkedKeepsBounds ==
    ASSUME NEW b \in TokenSlices(Kinds), b.marks # <<>>
    PROVE  /\ Unmarked(b) \in TokenSlices(Kinds)
           /\ Restored(b) \in TokenSlices(Kinds)
           /\ Unmarked(b).tokens = b.tokens /\ Restored(b).tokens = b.tokens
           /\ Unmarked(b).pos = b.pos
           /\ Restored(b).pos = b.marks[Len(b.marks)]
           /\ Unmarked(b).marks = SubSeq(b.marks, 1, Len(b.marks) - 1)
           /\ Restored(b).marks = Unmarked(b).marks
           /\ Unmarked(b).marks # <<>> => Unmarked(b).marks[1] = b.marks[1]
<1> DEFINE m == SubSeq(b.marks, 1, Len(b.marks) - 1)
           top == b.marks[Len(b.marks)]
           r == [b EXCEPT !.pos = top]
<1>1. b.marks \in Seq(Nat) /\ Len(b.marks) \in Nat /\ Len(b.marks) > 0
  BY EmptySeq DEF TokenSlices
<1>2. m \in Seq(Nat) /\ Len(m) = Len(b.marks) - 1
  BY <1>1, SubSeqProperties
<1>3. \A i \in 1..Len(m) : m[i] = b.marks[i]
  BY <1>1, <1>2, SubSeqProperties
<1>4. top \in Nat /\ top <= Len(b.tokens)
  BY <1>1 DEF TokenSlices
<1>5. r \in TokenSlices(Kinds) /\ r.marks = b.marks /\ r.tokens = b.tokens
      /\ r.pos = top
  BY <1>4 DEF TokenSlices
<1>6. m # <<>> => 1 \in 1..Len(m)
  BY <1>2
<1>7. ASSUME NEW c \in TokenSlices(Kinds), c.marks = b.marks
      PROVE  /\ Unmarked(c) \in TokenSlices(Kinds)
             /\ Unmarked(c).marks = m
             /\ Unmarked(c).tokens = c.tokens
             /\ Unmarked(c).pos = c.pos
  <2>1. Unmarked(c) = [c EXCEPT !.marks = m]
    BY <1>7 DEF Unmarked
  <2>2. \A i \in 1..Len(m) : m[i] <= Len(c.tokens)
    BY <1>1, <1>2, <1>3, <1>7 DEF TokenSlices
  <2> HIDE DEF m
  <2> QED  BY <1>2, <2>1, <2>2 DEF TokenSlices
<1>8. /\ Unmarked(b) \in TokenSlices(Kinds)
      /\ Unmarked(b).marks = m
      /\ Unmarked(b).tokens = b.tokens
      /\ Unmarked(b).pos = b.pos
  BY <1>7
<1>9. /\ Restored(b) \in TokenSlices(Kinds)
      /\ Restored(b).marks = m
      /\ Restored(b).tokens = b.tokens
      /\ Restored(b).pos = top
  BY <1>5, <1>7 DEF Restored
<1>10. m # <<>> => m[1] = b.marks[1]
  BY <1>3, <1>6
<1> QED  BY <1>8, <1>9, <1>10

\* A step that replaces the buffer by a slice of the same tokens and discards
\* what became unreachable keeps the invariant.
LEMMA DiscardKeepsIInv ==
    ASSUME IInv,
           NEW b \in TokenSlices(Kinds),
           b.tokens = buffer.tokens,
           b.marks # <<>> => b.marks[1] = 0,
           buffer' = DiscardUnreachable(b),
           UNCHANGED <<input, scanned>>
    PROVE  /\ buffer' \in TokenSlices(Kinds)
           /\ BufferIsWindow'
           /\ OnlyReachableTokens'
<1> DEFINE gone == Len(b.tokens) - Len(buffer'.tokens)
<1>1. buffer' \in TokenSlices(Kinds) /\ OnlyReachableTokens'
  BY DiscardKeepsBounds DEF OnlyReachableTokens
<1>2. /\ gone \in Nat
      /\ \A i \in 1..Len(buffer'.tokens) :
            buffer'.tokens[i] = b.tokens[gone + i]
  BY DiscardKeepsUnread
<1>3. /\ scanned \in Nat /\ scanned' = scanned /\ input' = input
      /\ Len(buffer.tokens) \in Nat
      /\ Len(buffer'.tokens) \in Nat
      /\ gone = Len(buffer.tokens) - Len(buffer'.tokens)
  BY <1>1 DEF IInv, TypeOK, TokenSlices
<1> HIDE DEF gone
<1>4. Base' = Base + gone /\ Base \in Int /\ gone \in Nat
  <2> DEFINE before == Len(buffer.tokens)
             after == Len(buffer'.tokens)
  <2>1. Base = scanned - before /\ Base' = scanned - after
    BY DEF Base
  <2>2. /\ scanned \in Nat /\ before \in Nat /\ after \in Nat
        /\ gone = before - after
    BY <1>3
  <2> HIDE DEF before, after
  <2> QED  BY <1>2, <2>1, <2>2
<1>5. \A i \in 1..Len(buffer'.tokens) : gone + i \in 1..Len(buffer.tokens)
  <2> DEFINE before == Len(buffer.tokens)
             after == Len(buffer'.tokens)
  <2>1. before \in Nat /\ after \in Nat /\ gone = before - after /\ gone \in Nat
    BY <1>3, <1>4
  <2> HIDE DEF before, after
  <2>2. \A i \in 1..after : gone + i \in 1..before
    BY <2>1
  <2> QED  BY <2>2 DEF before, after
<1>6. BufferIsWindow'
  <2>1. Base' >= 0
    BY <1>2, <1>3, <1>4 DEF IInv, BufferIsWindow, Base
  <2>2. ASSUME NEW i \in 1..Len(buffer'.tokens)
        PROVE  buffer'.tokens[i] = input'[Base' + i].kind
    <3>1. buffer'.tokens[i] = input[Base + (gone + i)].kind
      BY <1>2, <1>5 DEF IInv, BufferIsWindow
    <3>2. Base + (gone + i) = Base' + i
      BY <1>4
    <3> QED  BY <3>1, <3>2
  <2> QED  BY <2>1, <2>2 DEF BufferIsWindow
<1> QED  BY <1>1, <1>6
\* Reading a token of the buffer keeps the slice in bounds.
LEMMA AdvanceKeepsBounds ==
    ASSUME NEW b \in TokenSlices(Kinds), HasUnread(b)
    PROVE  /\ Advance(b) \in TokenSlices(Kinds)
           /\ Advance(b).tokens = b.tokens
           /\ Advance(b).marks = b.marks
           /\ Advance(b).pos = b.pos + 1
           /\ Unread(b) \in Kinds
  BY DEF Advance, HasUnread, Unread, TokenSlices

\* Keeping a scanned token keeps the slice in bounds.
LEMMA RememberKeepsBounds ==
    ASSUME NEW b \in TokenSlices(Kinds), NEW kind \in Kinds
    PROVE  Remember(b, kind) \in TokenSlices(Kinds)
<1>1. CASE b.marks = <<>>
  BY <1>1 DEF Remember
<1>2. CASE b.marks # <<>>
  <2> DEFINE longer == Append(b.tokens, kind)
             n == Len(b.tokens) + 1
             r == Remember(b, kind)
  <2>1. r = [b EXCEPT !.tokens = longer, !.pos = n]
    BY <1>2 DEF Remember
  <2>2. /\ b \in [tokens : Seq(Kinds), pos : Nat, marks : Seq(Nat)]
        /\ longer \in Seq(Kinds)
        /\ Len(longer) = n
        /\ n \in Nat
    BY DEF TokenSlices
  <2>3. \A i \in 1..Len(b.marks) : b.marks[i] <= n
    BY DEF TokenSlices
  <2> HIDE DEF longer, n, r
  <2>4. /\ r \in [tokens : Seq(Kinds), pos : Nat, marks : Seq(Nat)]
        /\ r.tokens = longer
        /\ r.pos = n
        /\ r.marks = b.marks
    BY <2>1, <2>2
  <2>5. r \in TokenSlices(Kinds)
    BY <2>2, <2>3, <2>4 DEF TokenSlices
  <2> QED  BY <2>5 DEF r
<1> QED  BY <1>1, <1>2

\* The invariant holds at the start.
LEMMA InitIInv == Init => IInv
<1> SUFFICES ASSUME Init PROVE IInv
  OBVIOUS
<1>1. TypeOK
  BY SourcesAssumption DEF Init, TypeOK, EmptySlice, TokenSlices
<1>2. BufferIsWindow /\ OnlyReachableTokens
  BY DEF Init, BufferIsWindow, OnlyReachableTokens, EmptySlice, Base
<1> QED  BY <1>1, <1>2 DEF IInv

\* Every call keeps the invariant.
LEMMA NextIInv == IInv /\ [Next]_vars => IInv'
<1> SUFFICES ASSUME IInv, [Next]_vars PROVE IInv'
  OBVIOUS
<1>0. /\ buffer \in TokenSlices(Kinds)
      /\ buffer.marks # <<>> => buffer.marks[1] = 0
  BY DEF IInv, TypeOK, OnlyReachableTokens
<1>1. CASE ReplayToken
  <2> DEFINE b == Advance(buffer)
  <2>1. /\ b \in TokenSlices(Kinds)
        /\ b.tokens = buffer.tokens
        /\ b.marks = buffer.marks
        /\ Unread(buffer) \in Kinds
    BY <1>0, <1>1, AdvanceKeepsBounds DEF ReplayToken
  <2>2. buffer' = DiscardUnreachable(b) /\ UNCHANGED <<input, scanned>>
    BY <1>1 DEF ReplayToken
  <2> HIDE DEF b
  <2>3. /\ buffer' \in TokenSlices(Kinds)
        /\ BufferIsWindow'
        /\ OnlyReachableTokens'
    BY <1>0, <2>1, <2>2, DiscardKeepsIInv
  <2> QED  BY <1>1, <2>1, <2>3 DEF IInv, TypeOK, ReplayToken
<1>2. CASE ScanToken
  <2> DEFINE kind == input[scanned + 1].kind
  <2>0. /\ scanned \in Nat /\ scanned + 1 \in 1..Len(input)
        /\ input \in Seq(Lexemes)
    BY <1>2 DEF ScanToken, IInv, TypeOK
  <2>1a. input[scanned + 1] \in Lexemes
    BY <2>0
  <2>1. /\ kind \in Kinds
        /\ scanned \in Nat
        /\ scanned' = scanned + 1
        /\ scanned' \in 0..Len(input)
        /\ buffer' = Remember(buffer, kind)
        /\ answer' = kind
        /\ err' \in {"nil", "EOF", "parse"}
        /\ UNCHANGED <<input, unclosed>>
    BY <1>2, <2>0, <2>1a DEF ScanToken, Lexemes
  <2> HIDE DEF kind
  <2>2. buffer' \in TokenSlices(Kinds)
    BY <1>0, <2>1, RememberKeepsBounds
  <2>3. TypeOK'
    BY <2>1, <2>2 DEF IInv, TypeOK
  <2>4. Len(buffer.tokens) \in Nat /\ buffer.tokens \in Seq(Kinds)
    BY <1>0 DEF TokenSlices
  <2>5. CASE buffer.marks = <<>>
    <3>1. buffer' = buffer
      BY <2>1, <2>5 DEF Remember
    <3>2. Len(buffer.tokens) = 0
      BY <1>0, <1>2, <2>5 DEF ScanToken, HasUnread, IInv, OnlyReachableTokens, TokenSlices
    <3> QED  BY <2>1, <2>3, <2>5, <3>1, <3>2
             DEF IInv, BufferIsWindow, OnlyReachableTokens, Base
  <2>6. CASE buffer.marks # <<>>
    <3>1. /\ buffer'.tokens = Append(buffer.tokens, kind)
          /\ buffer'.marks = buffer.marks
      BY <1>0, <2>1, <2>6 DEF Remember, TokenSlices
    <3>2. Len(buffer'.tokens) = Len(buffer.tokens) + 1
      BY <2>4, <3>1, <2>1
    <3>3. Base' = Base /\ Base \in Int
      BY <2>1, <2>4, <3>2 DEF Base
    <3>4. ASSUME NEW i \in 1..Len(buffer'.tokens)
          PROVE  buffer'.tokens[i] = input'[Base' + i].kind
      <4>1. CASE i \in 1..Len(buffer.tokens)
        <5>1. buffer'.tokens[i] = buffer.tokens[i]
          BY <2>1, <2>4, <3>1, <4>1
        <5>2. buffer.tokens[i] = input[Base + i].kind
          BY <4>1 DEF IInv, BufferIsWindow
        <5> QED  BY <2>1, <3>3, <5>1, <5>2
      <4>2. CASE i = Len(buffer.tokens) + 1
        <5>1. buffer'.tokens[i] = kind
          BY <2>1, <2>4, <3>1, <4>2
        <5>2. Base + i = scanned + 1
          <6> DEFINE n == Len(buffer.tokens)
          <6>1. n \in Nat /\ scanned \in Nat /\ i = n + 1 /\ Base = scanned - n
            BY <2>1, <2>4, <4>2 DEF Base
          <6> HIDE DEF n
          <6> QED  BY <6>1
        <5> QED  BY <2>1, <3>3, <5>1, <5>2 DEF kind
      <4> QED  BY <2>4, <3>2, <4>1, <4>2
    <3>5. BufferIsWindow'
      BY <3>3, <3>4 DEF IInv, BufferIsWindow
    <3>6. OnlyReachableTokens'
      BY <1>0, <2>6, <3>1 DEF OnlyReachableTokens
    <3> QED  BY <2>3, <3>5, <3>6 DEF IInv
  <2> QED  BY <2>5, <2>6
<1>3. CASE ScanEnd
  BY <1>3 DEF ScanEnd, IInv, TypeOK, BufferIsWindow, OnlyReachableTokens, Base
<1>4. CASE Mark
  <2>1. /\ buffer.marks \in Seq(Nat) /\ buffer.tokens \in Seq(Kinds)
        /\ buffer.pos \in Nat /\ buffer.pos <= Len(buffer.tokens)
        /\ \A i \in 1..Len(buffer.marks) : buffer.marks[i] <= Len(buffer.tokens)
    BY <1>0 DEF TokenSlices
  <2>2. buffer' = [buffer EXCEPT !.marks = Append(buffer.marks, buffer.pos)]
    BY <1>4 DEF Mark, Marked
  <2>3. /\ buffer'.tokens = buffer.tokens /\ buffer'.pos = buffer.pos
        /\ buffer'.marks = Append(buffer.marks, buffer.pos)
    BY <1>0, <2>2 DEF TokenSlices
  <2>4. /\ Append(buffer.marks, buffer.pos) \in Seq(Nat)
        /\ Append(buffer.marks, buffer.pos) # <<>>
        /\ \A i \in 1..Len(Append(buffer.marks, buffer.pos)) :
              Append(buffer.marks, buffer.pos)[i] <= Len(buffer.tokens)
        /\ Append(buffer.marks, buffer.pos)[1]
              = IF buffer.marks = <<>> THEN buffer.pos ELSE buffer.marks[1]
    BY <2>1, AppendProperties
  <2>5. buffer' \in TokenSlices(Kinds)
    BY <1>0, <2>2, <2>3, <2>4 DEF TokenSlices
  <2>6. OnlyReachableTokens'
    BY <2>3, <2>4 DEF OnlyReachableTokens, IInv
  <2>7. BufferIsWindow'
    BY <1>4, <2>3 DEF Mark, IInv, BufferIsWindow, Base
  <2> QED  BY <1>4, <2>5, <2>6, <2>7 DEF Mark, IInv, TypeOK
<1>5. CASE RestoreMark
  <2> DEFINE b == Restored(buffer)
  <2>1. /\ b \in TokenSlices(Kinds)
        /\ b.tokens = buffer.tokens
        /\ b.marks # <<>> => b.marks[1] = 0
    BY <1>0, <1>5, UnmarkedKeepsBounds DEF RestoreMark
  <2>2. buffer' = DiscardUnreachable(b) /\ UNCHANGED <<input, scanned>>
    BY <1>5 DEF RestoreMark
  <2> HIDE DEF b
  <2>3. /\ buffer' \in TokenSlices(Kinds)
        /\ BufferIsWindow'
        /\ OnlyReachableTokens'
    BY <2>1, <2>2, DiscardKeepsIInv
  <2> QED  BY <1>5, <2>3 DEF IInv, TypeOK, RestoreMark
<1>6. CASE DiscardMark
  <2> DEFINE b == Unmarked(buffer)
  <2>1. /\ b \in TokenSlices(Kinds)
        /\ b.tokens = buffer.tokens
        /\ b.marks # <<>> => b.marks[1] = 0
    BY <1>0, <1>6, UnmarkedKeepsBounds DEF DiscardMark
  <2>2. buffer' = DiscardUnreachable(b) /\ UNCHANGED <<input, scanned>>
    BY <1>6 DEF DiscardMark
  <2> HIDE DEF b
  <2>3. /\ buffer' \in TokenSlices(Kinds)
        /\ BufferIsWindow'
        /\ OnlyReachableTokens'
    BY <2>1, <2>2, DiscardKeepsIInv
  <2> QED  BY <1>6, <2>3 DEF IInv, TypeOK, DiscardMark
<1>7. CASE UNCHANGED vars
  BY <1>7 DEF vars, IInv, TypeOK, BufferIsWindow, OnlyReachableTokens, Base
<1> QED  BY <1>1, <1>2, <1>3, <1>4, <1>5, <1>6, <1>7 DEF Next

\* The three parts of the invariant together, from which each follows.
LEMMA BufferInvariant == Spec => []IInv
<1>1. Init => IInv
  BY InitIInv
<1>2. IInv /\ [Next]_vars => IInv'
  BY NextIInv
<1> QED  BY <1>1, <1>2, PTL DEF Spec

\* Position and marks stay in bounds: tokenSlice never indexes out of range.
THEOREM BufferTypes == Spec => []TypeOK
<1>1. IInv => TypeOK
  BY DEF IInv
<1> QED  BY <1>1, BufferInvariant, PTL

\* The buffer stays the part of the source scanned last, in the order of the source:
\* what is dropped and what is kept never leaves a gap behind a mark.
THEOREM BufferStaysAWindow == Spec => []BufferIsWindow
<1>1. IInv => BufferIsWindow
  BY DEF IInv
<1> QED  BY <1>1, BufferInvariant, PTL

\* bufferedScanner holds no token that cannot be asked for: the buffer starts at the
\* oldest mark, or at the position if there is none.
THEOREM NothingPilesUp == Spec => []OnlyReachableTokens
<1>1. IInv => OnlyReachableTokens
  BY DEF IInv
<1> QED  BY <1>1, BufferInvariant, PTL

-----------------------------------------------------------------------------
(***************************************************************************)
(* The refinement of TokenStream.  The mapping moves the marks of the      *)
(* buffer by Base; the lemmas say what that does to the stack operations.  *)
(***************************************************************************)
Shifted(m, base) == [i \in 1..Len(m) |-> base + m[i]]

\* Moving every mark moves the mark a push adds.
LEMMA ShiftedPush ==
    ASSUME NEW m \in Seq(Nat), NEW base \in Int, NEW x \in Nat
    PROVE  Shifted(Append(m, x), base) = Append(Shifted(m, base), base + x)
<1> DEFINE l == Shifted(Append(m, x), base)
           r == Append(Shifted(m, base), base + x)
<1>0. Len(m) \in Nat
  OBVIOUS
<1>1. Shifted(m, base) \in Seq(Int) /\ Len(Shifted(m, base)) = Len(m)
  BY DEF Shifted
<1>2. l \in Seq(Int) /\ Len(l) = Len(m) + 1
  BY AppendProperties DEF Shifted
<1>3. r \in Seq(Int) /\ Len(r) = Len(m) + 1
  BY <1>1, AppendProperties
<1>4. ASSUME NEW i \in 1..Len(m) + 1 PROVE l[i] = r[i]
  <2>1. CASE i \in 1..Len(m)
    BY <1>1, <2>1, AppendProperties DEF Shifted
  <2>2. CASE i = Len(m) + 1
    BY <1>1, <2>2, AppendProperties DEF Shifted
  <2>3. i \in 1..Len(m) \/ i = Len(m) + 1
    BY <1>0
  <2> QED  BY <2>1, <2>2, <2>3
<1> QED  BY <1>2, <1>3, <1>4, SeqEqual

\* Moving every mark commutes with popping one.
LEMMA ShiftedPop ==
    ASSUME NEW m \in Seq(Nat), NEW base \in Int, m # <<>>
    PROVE  /\ Shifted(m, base) # <<>>
           /\ Shifted(m, base)[Len(Shifted(m, base))] = base + m[Len(m)]
           /\ Shifted(SubSeq(m, 1, Len(m) - 1), base)
                = SubSeq(Shifted(m, base), 1, Len(Shifted(m, base)) - 1)
<1> DEFINE s == Shifted(m, base)
           l == Shifted(SubSeq(m, 1, Len(m) - 1), base)
           r == SubSeq(s, 1, Len(m) - 1)
<1>1. s \in Seq(Int) /\ Len(s) = Len(m) /\ Len(m) \in Nat /\ Len(m) > 0
  BY EmptySeq DEF Shifted
<1>2. /\ SubSeq(m, 1, Len(m) - 1) \in Seq(Nat)
      /\ Len(SubSeq(m, 1, Len(m) - 1)) = Len(m) - 1
      /\ \A i \in 1..Len(m) - 1 : SubSeq(m, 1, Len(m) - 1)[i] = m[i]
  BY <1>1, SubSeqProperties
<1>3. l \in Seq(Int) /\ Len(l) = Len(m) - 1
  BY <1>1, <1>2 DEF Shifted
<1>4. r \in Seq(Int) /\ Len(r) = Len(m) - 1
  BY <1>1, SubSeqProperties
<1>5. ASSUME NEW i \in 1..Len(m) - 1 PROVE l[i] = r[i]
  <2>1. r[i] = s[i]
    BY <1>1, SubSeqProperties
  <2> QED  BY <1>1, <1>2, <2>1 DEF Shifted
<1>6. l = r
  BY <1>3, <1>4, <1>5, SeqEqual
<1>7. s[Len(s)] = base + m[Len(m)]
  BY <1>1 DEF Shifted
<1> QED  BY <1>1, <1>6, <1>7, EmptySeq

\* What a client sees of a call that replaces the buffer by a slice b of the
\* same tokens and discards what became unreachable: the position and the marks
\* of b, seen from where the buffer started.
LEMMA DiscardIsHidden ==
    ASSUME IInv,
           NEW b \in TokenSlices(Kinds),
           b.tokens = buffer.tokens,
           buffer' = DiscardUnreachable(b),
           scanned' = scanned
    PROVE  /\ StreamPos' = Base + b.pos
           /\ StreamMarks' = Shifted(b.marks, Base)
<1> DEFINE gone == Len(b.tokens) - Len(buffer'.tokens)
<1>1. buffer' \in TokenSlices(Kinds) /\ buffer'.marks = b.marks
  <2>1. CASE b.marks = <<>>
    <3>1. SubSeq(b.tokens, b.pos + 1, Len(b.tokens)) \in Seq(Kinds)
      BY SubSeqProperties DEF TokenSlices
    <3> QED  BY <2>1, <3>1 DEF DiscardUnreachable, TokenSlices
  <2>2. CASE b.marks # <<>>
    BY <2>2 DEF DiscardUnreachable
  <2> QED  BY <2>1, <2>2
<1>2. /\ gone \in Nat
      /\ gone + buffer'.pos = b.pos
      /\ b.marks # <<>> => buffer' = b
  BY DiscardKeepsUnread
<1>3. /\ scanned \in Nat
      /\ Len(buffer.tokens) \in Nat
      /\ Len(buffer'.tokens) \in Nat
      /\ gone = Len(buffer.tokens) - Len(buffer'.tokens)
  BY <1>1 DEF IInv, TypeOK, TokenSlices
<1>4. b.pos \in Nat /\ buffer'.pos \in Nat
  BY <1>1 DEF TokenSlices
<1> HIDE DEF gone
<1>5. Base' = Base + gone /\ Base \in Int
  <2> DEFINE before == Len(buffer.tokens)
             after == Len(buffer'.tokens)
  <2>1. Base = scanned - before /\ Base' = scanned - after
    BY DEF Base
  <2>2. /\ scanned \in Nat /\ before \in Nat /\ after \in Nat
        /\ gone = before - after
    BY <1>3
  <2> HIDE DEF before, after
  <2> QED  BY <2>1, <2>2
<1>6. StreamPos' = Base + b.pos
  BY <1>2, <1>4, <1>5 DEF StreamPos
<1>7. CASE b.marks = <<>>
  <2>1. StreamMarks' = <<>> /\ Shifted(b.marks, Base) = <<>>
    BY <1>1, <1>7 DEF StreamMarks, Shifted
  <2> QED  BY <1>6, <2>1
<1>8. CASE b.marks # <<>>
  <2>1. gone = 0 /\ Base' = Base
    BY <1>2, <1>3, <1>5, <1>8
  <2>2. StreamMarks' = Shifted(b.marks, Base)
    BY <1>1, <2>1 DEF StreamMarks, Shifted
  <2> QED  BY <1>6, <2>2
<1> QED  BY <1>7, <1>8

\* Every call of a bufferedScanner is the call of the interface it implements.
LEMMA NextRefines == IInv /\ [Next]_vars => [Stream!StreamStep]_Stream!streamVars
<1> SUFFICES ASSUME IInv, [Next]_vars
             PROVE  Stream!StreamStep \/ UNCHANGED Stream!streamVars
  OBVIOUS
<1>0. /\ buffer \in TokenSlices(Kinds)
      /\ StreamMarks = Shifted(buffer.marks, Base)
      /\ buffer.marks \in Seq(Nat) /\ buffer.pos \in Nat
      /\ Len(buffer.tokens) \in Nat /\ scanned \in Nat /\ Base \in Int
      /\ Base = scanned - Len(buffer.tokens)
      /\ buffer.pos <= Len(buffer.tokens)
      /\ Len(input) \in Nat /\ scanned <= Len(input)
  BY DEF IInv, TypeOK, TokenSlices, StreamMarks, Shifted, Base
<1>1. CASE ReplayToken
  <2> DEFINE b == Advance(buffer)
  <2>1. /\ b \in TokenSlices(Kinds)
        /\ b.tokens = buffer.tokens
        /\ b.marks = buffer.marks
        /\ b.pos = buffer.pos + 1
    BY <1>0, <1>1, AdvanceKeepsBounds DEF ReplayToken
  <2>2. buffer' = DiscardUnreachable(b) /\ scanned' = scanned /\ input' = input
    BY <1>1 DEF ReplayToken
  <2> HIDE DEF b
  <2>3. StreamPos' = Base + b.pos /\ StreamMarks' = Shifted(b.marks, Base)
    BY <2>1, <2>2, DiscardIsHidden
  <2>4. StreamPos' = StreamPos + 1 /\ StreamMarks' = StreamMarks
    BY <1>0, <2>1, <2>3 DEF StreamPos
  <2>5. buffer.pos + 1 \in 1..Len(buffer.tokens)
    BY <1>0, <1>1 DEF ReplayToken, HasUnread
  <2>6. answer' = input[Base + (buffer.pos + 1)].kind
    BY <1>1, <2>5 DEF ReplayToken, Unread, IInv, BufferIsWindow
  <2>7. StreamPos < Len(input) /\ Base + (buffer.pos + 1) = StreamPos + 1
    BY <1>0, <2>5 DEF StreamPos
  <2>8. answer' = Stream!KindAt(StreamPos)
    BY <2>6, <2>7 DEF Stream!KindAt
  <2> QED  BY <2>2, <2>4, <2>7, <2>8 DEF Stream!StreamStep, Stream!StreamNext
<1>2. CASE ScanToken
  <2> DEFINE kind == input[scanned + 1].kind
  <2>1. /\ buffer.pos = Len(buffer.tokens)
        /\ scanned < Len(input)
        /\ buffer' = Remember(buffer, kind)
        /\ answer' = kind
        /\ scanned' = scanned + 1 /\ input' = input
    BY <1>0, <1>2 DEF ScanToken, HasUnread
  <2>2. StreamPos = scanned
    BY <1>0, <2>1 DEF StreamPos
  <2>3. answer' = Stream!KindAt(StreamPos)
    BY <2>1, <2>2 DEF Stream!KindAt
  <2> HIDE DEF kind
  <2>4. StreamPos' = StreamPos + 1 /\ StreamMarks' = StreamMarks
    <3>1. CASE buffer.marks = <<>>
      <4>1. buffer' = buffer
        BY <2>1, <3>1 DEF Remember
      <4>2. Base' = Base + 1
        BY <1>0, <2>1, <4>1 DEF Base
      <4>3. StreamMarks' = <<>> /\ StreamMarks = <<>>
        BY <3>1, <4>1 DEF StreamMarks
      <4>4. StreamPos' = StreamPos + 1
        <5>1. StreamPos' = (Base + 1) + buffer.pos /\ StreamPos = Base + buffer.pos
          BY <4>1, <4>2 DEF StreamPos
        <5>2. Base \in Int /\ buffer.pos \in Nat
          BY <1>0
        <5> QED  BY <5>1, <5>2
      <4> QED  BY <4>3, <4>4
    <3>2. CASE buffer.marks # <<>>
      <4>1. /\ buffer'.tokens = Append(buffer.tokens, kind)
            /\ buffer'.marks = buffer.marks
            /\ buffer'.pos = Len(buffer.tokens) + 1
        BY <1>0, <2>1, <3>2 DEF Remember, TokenSlices
      <4>2. Len(buffer'.tokens) = Len(buffer.tokens) + 1
        BY <1>0, <4>1 DEF TokenSlices
      <4>3. Base' = Base
        BY <1>0, <2>1, <4>2 DEF Base
      <4>4. StreamPos' = StreamPos + 1
        <5>1. StreamPos' = Base + (buffer.pos + 1) /\ StreamPos = Base + buffer.pos
          BY <2>1, <4>1, <4>3 DEF StreamPos
        <5>2. Base \in Int /\ buffer.pos \in Nat
          BY <1>0
        <5> QED  BY <5>1, <5>2
      <4>5. StreamMarks' = StreamMarks
        BY <4>1, <4>3 DEF StreamMarks
      <4> QED  BY <4>4, <4>5
    <3> QED  BY <3>1, <3>2
  <2> QED  BY <2>1, <2>2, <2>3, <2>4 DEF Stream!StreamStep, Stream!StreamNext
<1>3. CASE ScanEnd
  <2>1. /\ buffer.pos = Len(buffer.tokens) /\ scanned = Len(input)
        /\ answer' = EOF
        /\ buffer' = buffer /\ scanned' = scanned /\ input' = input
    BY <1>0, <1>3 DEF ScanEnd, HasUnread
  <2>2. StreamPos = Len(input) /\ StreamPos' = StreamPos
    BY <1>0, <2>1 DEF StreamPos, Base
  <2>3. StreamMarks' = StreamMarks
    BY <2>1 DEF StreamMarks, Base
  <2> QED  BY <1>0, <2>1, <2>2, <2>3
           DEF Stream!StreamStep, Stream!StreamNext, Stream!KindAt
<1>4. CASE Mark
  <2>1. buffer' = [buffer EXCEPT !.marks = Append(buffer.marks, buffer.pos)]
    BY <1>4 DEF Mark, Marked
  <2>2. /\ buffer'.tokens = buffer.tokens /\ buffer'.pos = buffer.pos
        /\ buffer'.marks = Append(buffer.marks, buffer.pos)
        /\ scanned' = scanned /\ input' = input /\ answer' = answer
    BY <1>0, <1>4, <2>1 DEF Mark, TokenSlices
  <2>3. Base' = Base /\ StreamPos' = StreamPos
    BY <2>2 DEF Base, StreamPos
  <2>4. StreamMarks' = Shifted(Append(buffer.marks, buffer.pos), Base)
    BY <2>2, <2>3 DEF StreamMarks, Shifted
  <2>5. StreamMarks' = Append(StreamMarks, StreamPos)
    BY <1>0, <2>4, ShiftedPush DEF StreamPos
  <2> QED  BY <2>2, <2>3, <2>5 DEF Stream!StreamStep, Stream!StreamMark
<1>5. CASE RestoreMark
  <2> DEFINE b == Restored(buffer)
  <2>1. buffer.marks # <<>>
    BY <1>5 DEF RestoreMark
  <2>2. /\ b \in TokenSlices(Kinds)
        /\ b.tokens = buffer.tokens
        /\ b.marks = SubSeq(buffer.marks, 1, Len(buffer.marks) - 1)
        /\ b.pos = buffer.marks[Len(buffer.marks)]
    BY <1>0, <2>1, UnmarkedKeepsBounds
  <2>3. /\ buffer' = DiscardUnreachable(b) /\ scanned' = scanned
        /\ input' = input /\ answer' = answer
    BY <1>5 DEF RestoreMark
  <2> HIDE DEF b
  <2>4. StreamPos' = Base + b.pos /\ StreamMarks' = Shifted(b.marks, Base)
    BY <2>2, <2>3, DiscardIsHidden
  <2> QED  BY <1>0, <2>1, <2>2, <2>3, <2>4, ShiftedPop
           DEF Stream!StreamStep, Stream!StreamRestoreMark
<1>6. CASE DiscardMark
  <2> DEFINE b == Unmarked(buffer)
  <2>1. buffer.marks # <<>>
    BY <1>6 DEF DiscardMark
  <2>2. /\ b \in TokenSlices(Kinds)
        /\ b.tokens = buffer.tokens
        /\ b.marks = SubSeq(buffer.marks, 1, Len(buffer.marks) - 1)
        /\ b.pos = buffer.pos
    BY <1>0, <2>1, UnmarkedKeepsBounds
  <2>3. /\ buffer' = DiscardUnreachable(b) /\ scanned' = scanned
        /\ input' = input /\ answer' = answer
    BY <1>6 DEF DiscardMark
  <2> HIDE DEF b
  <2>4. StreamPos' = Base + b.pos /\ StreamMarks' = Shifted(b.marks, Base)
    BY <2>2, <2>3, DiscardIsHidden
  <2> QED  BY <1>0, <2>1, <2>2, <2>3, <2>4, ShiftedPop
           DEF StreamPos, Stream!StreamStep, Stream!StreamDiscardMark
<1>7. CASE UNCHANGED vars
  BY <1>7 DEF vars, Stream!streamVars, StreamPos, StreamMarks, Base
<1> QED  BY <1>1, <1>2, <1>3, <1>4, <1>5, <1>6, <1>7 DEF Next

\* A bufferedScanner implements tokenStream: for every source and every
\* sequence of calls, it returns the tokens a client with the whole source in
\* memory would get, however the buffer was discarded and filled in between.
THEOREM Refinement == Spec => ImplementsTokenStream
<1>1. Init => Stream!StreamInit
  BY DEF Init, EmptySlice, Stream!StreamInit, StreamPos, StreamMarks, Base
<1>2. IInv /\ [Next]_vars => [Stream!StreamStep]_Stream!streamVars
  BY NextRefines
<1>3. Init => IInv
  BY InitIInv
<1>4. IInv /\ [Next]_vars => IInv'
  BY NextIInv
<1> QED
  BY <1>1, <1>2, <1>3, <1>4, PTL
  DEF Spec, ImplementsTokenStream, Stream!StreamSpec
=============================================================================
