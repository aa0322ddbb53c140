--------------------------- MODULE RuleParserProofs ---------------------------
(***************************************************************************)
(* What NextRule returns is what the text says: proofs about RuleParser.   *)
(***************************************************************************)
EXTENDS RuleParser, Lemmas

-----------------------------------------------------------------------------
RuleType == [at : Nat, prelude : Seq(Nat), block : Seq(Nat)]

\* The rule that begins at i: where its prelude begins and stops, and where it ends.
FirstOf(ks, i) == IF ks[i] = "at" THEN i + 1 ELSE i

StopsOf(ks, i) == IF ks[i] = "at" THEN {";", "{"} ELSE {"{"}

StopOf(ks, i) == FirstValue(ks, FirstOf(ks, i), StopsOf(ks, i))

LastOf(ks, i) == IF StopOf(ks, i) > Len(ks) THEN Len(ks) ELSE EndOfValue(ks, StopOf(ks, i))

BlockOf(ks, i) ==
    IF StopOf(ks, i) <= Len(ks) /\ ks[StopOf(ks, i)] = "{"
    THEN Positions(StopOf(ks, i), LastOf(ks, i)) ELSE <<>>

RuleAt(ks, i) ==
    [at |-> IF ks[i] = "at" THEN i ELSE 0,
     prelude |-> Positions(FirstOf(ks, i), StopOf(ks, i) - 1), block |-> BlockOf(ks, i)]

\* The recursion that Written is defined by: the rules from i on.
RulesStep(ks, topLevel, i, from) ==
    IF i > Len(ks) THEN <<>>
    ELSE IF ks[i] = "ws" \/ (ks[i] = "cdo" /\ topLevel) THEN from[i + 1]
    ELSE IF ~(ks[i] = "at") /\ BlockOf(ks, i) = <<>> THEN <<>>
    ELSE <<RuleAt(ks, i)>> \o from[LastOf(ks, i) + 1]

RulesLoop(ks, topLevel, from) ==
    from = [i \in 1..(Len(ks) + 1) |-> RulesStep(ks, topLevel, i, from)]

LEMMA RuleEnds ==
    ASSUME NEW S, NEW ks \in Seq(S), NEW i \in 1..Len(ks)
    PROVE  /\ FirstOf(ks, i) \in i..(i + 1) /\ StopOf(ks, i) \in FirstOf(ks, i)..(Len(ks) + 1)
           /\ LastOf(ks, i) \in i..Len(ks) /\ StopOf(ks, i) <= LastOf(ks, i) + 1
<1> DEFINE N == Len(ks)
           first == FirstOf(ks, i)
           stop == StopOf(ks, i)
           last == LastOf(ks, i)
<1>1. N \in Nat /\ first \in i..(i + 1)
  BY DEF FirstOf
<1>2. first \in 1..(N + 1)
  BY <1>1
<1>3. stop \in first..(N + 1)
  <2> HIDE DEF first
  <2> QED  BY <1>2, FirstValueType DEF StopOf, first
<1>4. stop <= N => EndOfValue(ks, stop) \in stop..N
  <2>1. stop <= N => stop \in 1..N
    <3> HIDE DEF first, stop
    <3> QED  BY <1>1, <1>2, <1>3
  <2> HIDE DEF stop
  <2> QED  BY <2>1, EndIsBehind
<1>5. last = IF stop > N THEN N ELSE EndOfValue(ks, stop)
  BY Zenon DEF LastOf
<1> HIDE DEF first, stop, last, N
<1>6. last \in i..N /\ stop <= last + 1
  BY <1>1, <1>2, <1>3, <1>4, <1>5 DEF N
<1> QED  BY <1>1, <1>3, <1>6 DEF first, stop, last, N

LEMMA RuleStops ==
    ASSUME NEW S, NEW ks \in Seq(S), NEW i \in 1..Len(ks)
    PROVE  /\ i \in 1..(Len(ks) + 1) /\ ~(i > Len(ks))
           /\ FirstOf(ks, i) \in Nat \ {0} /\ StopOf(ks, i) \in Nat \ {0}
           /\ FirstOf(ks, i) <= StopOf(ks, i) /\ StopOf(ks, i) <= Len(ks) + 1
           /\ StopOf(ks, i) <= Len(ks) => StopOf(ks, i) \in 1..Len(ks)
           /\ StopOf(ks, i) <= Len(ks) <=> ~(StopOf(ks, i) > Len(ks))
<1> DEFINE first == FirstOf(ks, i)
           stop == StopOf(ks, i)
<1>1. first \in i..(i + 1) /\ stop \in first..(Len(ks) + 1) /\ Len(ks) \in Nat
  BY RuleEnds
<1> HIDE DEF first, stop
<1>2. /\ i \in 1..(Len(ks) + 1) /\ ~(i > Len(ks))
      /\ first \in Nat \ {0} /\ stop \in Nat \ {0}
      /\ first <= stop /\ stop <= Len(ks) + 1
      /\ stop <= Len(ks) => stop \in 1..Len(ks)
      /\ stop <= Len(ks) <=> ~(stop > Len(ks))
  BY <1>1
<1> QED  BY <1>2 DEF first, stop

LEMMA RuleAtType ==
    ASSUME NEW S, NEW ks \in Seq(S), NEW i \in 1..Len(ks)
    PROVE  RuleAt(ks, i) \in RuleType
<1> DEFINE first == FirstOf(ks, i)
           stop == StopOf(ks, i)
           last == LastOf(ks, i)
           at == IF ks[i] = "at" THEN i ELSE 0
<1>1. /\ first \in i..(i + 1) /\ stop \in first..(Len(ks) + 1)
      /\ last \in i..Len(ks) /\ stop <= last + 1
  BY RuleEnds
<1> HIDE DEF first, stop, last
<1>2. /\ first \in Nat \ {0} /\ stop - 1 \in Nat /\ first <= (stop - 1) + 1
      /\ stop \in Nat \ {0} /\ last \in Nat
  BY <1>1
<1>3. Positions(first, stop - 1) \in Seq(Nat) /\ Positions(stop, last) \in Seq(Nat)
  BY <1>1, <1>2, PositionsType
<1>4. BlockOf(ks, i) = Positions(stop, last) \/ BlockOf(ks, i) = <<>>
  BY Zenon DEF BlockOf, stop, last
<1>5. BlockOf(ks, i) \in Seq(Nat)
  <2>1. <<>> \in Seq(Nat)
    OBVIOUS
  <2> QED  BY <1>3, <1>4, <2>1, Zenon
<1>6. at \in Nat
  OBVIOUS
<1>7. RuleAt(ks, i) = [at |-> at, prelude |-> Positions(first, stop - 1), block |-> BlockOf(ks, i)]
  BY Zenon DEF RuleAt, first, stop
<1> HIDE DEF at
<1> QED  BY <1>3, <1>5, <1>6, <1>7 DEF RuleType

LEMMA RulesStepType ==
    ASSUME NEW S, NEW ks \in Seq(S), NEW topLevel, NEW i \in 1..(Len(ks) + 1),
           NEW h \in [(i + 1)..(Len(ks) + 1) -> Seq(RuleType)]
    PROVE  RulesStep(ks, topLevel, i, h) \in Seq(RuleType)
<1>1. CASE i > Len(ks)
  BY <1>1 DEF RulesStep
<1>2. CASE ~(i > Len(ks))
  <2>1. i \in 1..Len(ks) /\ Len(ks) \in Nat
    BY <1>2
  <2>2. LastOf(ks, i) \in i..Len(ks)
    BY <2>1, RuleEnds
  <2>3. i + 1 \in (i + 1)..(Len(ks) + 1) /\ LastOf(ks, i) + 1 \in (i + 1)..(Len(ks) + 1)
    BY <2>1, <2>2
  <2>4. h[i + 1] \in Seq(RuleType) /\ h[LastOf(ks, i) + 1] \in Seq(RuleType)
    BY <2>3
  <2>5. RuleAt(ks, i) \in RuleType
    BY <2>1, RuleAtType
  <2>6. <<RuleAt(ks, i)>> \o h[LastOf(ks, i) + 1] \in Seq(RuleType)
    BY <2>4, <2>5, ConcatProperties
  <2> QED  BY <1>2, <2>4, <2>6 DEF RulesStep
<1> QED  BY <1>1, <1>2

\* It asks only for the rules behind i.
LEMMA RulesStepAgrees ==
    ASSUME NEW S, NEW ks \in Seq(S), NEW topLevel, NEW i \in 1..(Len(ks) + 1), NEW f, NEW h,
           \A j \in (i + 1)..(Len(ks) + 1) : h[j] = f[j]
    PROVE  RulesStep(ks, topLevel, i, h) = RulesStep(ks, topLevel, i, f)
<1>1. CASE i > Len(ks)
  BY <1>1, Zenon DEF RulesStep
<1>2. CASE ~(i > Len(ks))
  <2>1. i \in 1..Len(ks) /\ Len(ks) \in Nat
    BY <1>2
  <2>2. LastOf(ks, i) \in i..Len(ks)
    BY <2>1, RuleEnds
  <2>3. i + 1 \in (i + 1)..(Len(ks) + 1) /\ LastOf(ks, i) + 1 \in (i + 1)..(Len(ks) + 1)
    BY <2>1, <2>2
  <2>4. h[i + 1] = f[i + 1] /\ h[LastOf(ks, i) + 1] = f[LastOf(ks, i) + 1]
    BY <2>3, Zenon
  <2> QED  BY <2>4, Zenon DEF RulesStep
<1> QED  BY <1>1, <1>2

LEMMA RulesExist ==
    ASSUME NEW S, NEW ks \in Seq(S), NEW topLevel
    PROVE  \E from \in [1..(Len(ks) + 1) -> Seq(RuleType)] : RulesLoop(ks, topLevel, from)
<1> DEFINE N == Len(ks)
           T == Seq(RuleType)
           G == [i \in 1..(N + 1) |-> [h \in [(i + 1)..(N + 1) -> T] |->
                                          RulesStep(ks, topLevel, i, h)]]
<1>1. N \in Nat
  OBVIOUS
<1>2. ASSUME NEW i \in 1..(N + 1), NEW h \in [(i + 1)..(N + 1) -> T]
      PROVE  G[i][h] \in T
  <2>1. G[i][h] = RulesStep(ks, topLevel, i, h)
    OBVIOUS
  <2> HIDE DEF G
  <2> QED  BY <2>1, RulesStepType
<1>3. PICK f : LooksAhead(f, N, T, G)
  <2> HIDE DEF G, N, T
  <2> QED  BY <1>1, <1>2, AheadExists
<1>4. ASSUME NEW i \in 1..(N + 1) PROVE f[i] = RulesStep(ks, topLevel, i, f)
  <2> DEFINE h == [j \in (i + 1)..(N + 1) |-> f[j]]
  <2>1. f[i] = G[i][h] /\ h \in [(i + 1)..(N + 1) -> T]
    <3> HIDE DEF G, T
    <3> QED  BY <1>3 DEF LooksAhead
  <2>2. G[i][h] = RulesStep(ks, topLevel, i, h)
    <3> HIDE DEF h, T
    <3> QED  BY <2>1
  <2>3. \A j \in (i + 1)..(N + 1) : h[j] = f[j]
    OBVIOUS
  <2>4. RulesStep(ks, topLevel, i, h) = RulesStep(ks, topLevel, i, f)
    <3> HIDE DEF h
    <3> QED  BY <2>3, RulesStepAgrees
  <2> QED  BY <2>1, <2>2, <2>4, Zenon
<1>5. f \in [1..(N + 1) -> T]
  BY <1>3 DEF LooksAhead
<1> QED  BY <1>4, <1>5 DEF RulesLoop

\* The rules from a position on.
RulesFrom(ks, topLevel) == CHOOSE from : RulesLoop(ks, topLevel, from)

LEMMA RulesFromDef ==
    ASSUME NEW S, NEW ks \in Seq(S), NEW topLevel
    PROVE  \A i \in 1..(Len(ks) + 1) :
              /\ RulesFrom(ks, topLevel)[i] \in Seq(RuleType)
              /\ RulesFrom(ks, topLevel)[i] = RulesStep(ks, topLevel, i, RulesFrom(ks, topLevel))
<1> DEFINE f == RulesFrom(ks, topLevel)
<1>1. RulesLoop(ks, topLevel, f)
  <2>1. \E from : RulesLoop(ks, topLevel, from)
    BY RulesExist
  <2> QED  BY <2>1, Zenon DEF RulesFrom
<1> HIDE DEF f
<1>2. \A i \in 1..(Len(ks) + 1) : f[i] = RulesStep(ks, topLevel, i, f)
  BY <1>1 DEF RulesLoop
<1>3. \A i \in 1..(Len(ks) + 1) : f[i] \in Seq(RuleType)
  <2> DEFINE N == Len(ks)
             D == 1..(N + 1)
             rank == [j \in D |-> N + 1 - j]
             G == {j \in D : f[j] \in Seq(RuleType)}
  <2>1. rank \in [D -> Nat] /\ N \in Nat
    OBVIOUS
  <2>2. ASSUME NEW j \in D, \A l \in D : rank[l] < rank[j] => l \in G
        PROVE  j \in G
    <3> DEFINE h == [l \in (j + 1)..(N + 1) |-> f[l]]
    <3>1. \A l \in (j + 1)..(N + 1) : l \in D /\ rank[l] < rank[j]
      BY <2>1
    <3>2. h \in [(j + 1)..(N + 1) -> Seq(RuleType)]
      <4> HIDE DEF D, rank
      <4>1. \A l \in (j + 1)..(N + 1) : l \in G
        BY <2>2, <3>1
      <4> QED  BY <4>1
    <3>3. f[j] = RulesStep(ks, topLevel, j, h)
      <4>1. \A l \in (j + 1)..(N + 1) : h[l] = f[l]
        OBVIOUS
      <4> HIDE DEF h
      <4> QED  BY <1>2, <4>1, RulesStepAgrees
    <3>4. f[j] \in Seq(RuleType)
      <4> HIDE DEF h
      <4> QED  BY <3>2, <3>3, RulesStepType
    <3> QED  BY <3>4
  <2>3. D \subseteq G
    <3> HIDE DEF D, G, rank
    <3> QED  BY <2>1, <2>2, RankInduction
  <2> QED  BY <2>3
<1> QED  BY <1>2, <1>3 DEF f

-----------------------------------------------------------------------------
ErrorType == [what : {"parse", "EOF", "unexpected EOF", "unexpected }"}, at : Nat]

CallType == [rule : RuleType, errs : Seq(ErrorType)]

\* The rules that calls returned.
KeptStep(calls, k, upTo) ==
    IF k = 0 THEN <<>>
    ELSE IF calls[k].rule = NoRule THEN upTo[k - 1] ELSE Append(upTo[k - 1], calls[k].rule)

KeptLoop(calls, upTo) == upTo = [k \in 0..Len(calls) |-> KeptStep(calls, k, upTo)]

KeptRules(calls) == CHOOSE upTo : KeptLoop(calls, upTo)

LEMMA CallFields ==
    ASSUME NEW calls \in Seq(CallType), NEW k \in 1..Len(calls)
    PROVE  calls[k].rule \in RuleType /\ calls[k].errs \in Seq(ErrorType)
<1>1. \A call \in CallType : call.rule \in RuleType /\ call.errs \in Seq(ErrorType)
  BY DEF CallType
<1>2. calls[k] \in CallType
  OBVIOUS
<1> QED  BY <1>1, <1>2

LEMMA KeptExists ==
    ASSUME NEW calls \in Seq(CallType)
    PROVE  \E f \in [0..Len(calls) -> Seq(RuleType)] : KeptLoop(calls, f)
<1> DEFINE T == Seq(RuleType)
           G == [k \in 1..Len(calls) |-> [x \in T |->
                   IF calls[k].rule = NoRule THEN x ELSE Append(x, calls[k].rule)]]
<1>1. Len(calls) \in Nat /\ <<>> \in T
  OBVIOUS
<1>2. ASSUME NEW k \in 1..Len(calls), NEW x \in T PROVE G[k][x] \in T
  <2>1. calls[k].rule \in RuleType
    BY CallFields
  <2>2. Append(x, calls[k].rule) \in T
    BY <2>1, AppendProperties
  <2> QED  BY <2>2
<1>3. PICK f : Iterates(f, Len(calls), T, <<>>, G)
  <2> HIDE DEF G, T
  <2> QED  BY <1>1, <1>2, RecursionExists
<1>4. f \in [0..Len(calls) -> T] /\ f[0] = <<>> /\ \A k \in 1..Len(calls) : f[k] = G[k][f[k - 1]]
  BY <1>3 DEF Iterates
<1>5. ASSUME NEW k \in 0..Len(calls) PROVE f[k] = KeptStep(calls, k, f)
  <2>1. CASE k = 0
    BY <1>4, <2>1 DEF KeptStep
  <2>2. CASE k # 0
    <3>1. k \in 1..Len(calls) /\ k - 1 \in 0..Len(calls)
      BY <2>2
    <3>2. f[k] = G[k][f[k - 1]] /\ f[k - 1] \in T
      BY <1>4, <3>1
    <3>3. G[k][f[k - 1]] = IF calls[k].rule = NoRule THEN f[k - 1]
                           ELSE Append(f[k - 1], calls[k].rule)
      BY <3>1, <3>2
    <3> QED  BY <2>2, <3>2, <3>3, Zenon DEF KeptStep
  <2> QED  BY <2>1, <2>2
<1> QED  BY <1>4, <1>5 DEF KeptLoop

LEMMA KeptDef ==
    ASSUME NEW calls \in Seq(CallType)
    PROVE  /\ KeptRules(calls)[0] = <<>>
           /\ \A k \in 1..Len(calls) :
                 KeptRules(calls)[k] = IF calls[k].rule = NoRule THEN KeptRules(calls)[k - 1]
                                       ELSE Append(KeptRules(calls)[k - 1], calls[k].rule)
<1> DEFINE f == KeptRules(calls)
<1>1. KeptLoop(calls, f)
  <2>1. \E upTo : KeptLoop(calls, upTo)
    BY KeptExists
  <2> QED  BY <2>1, Zenon DEF KeptRules
<1> HIDE DEF f
<1>2. \A k \in 0..Len(calls) : f[k] = KeptStep(calls, k, f)
  BY <1>1 DEF KeptLoop
<1>3. 0 \in 0..Len(calls) /\ \A k \in 1..Len(calls) : k \in 0..Len(calls) /\ k # 0
  OBVIOUS
<1>4. f[0] = <<>>
  BY <1>2, <1>3 DEF KeptStep
<1>5. \A k \in 1..Len(calls) : f[k] = IF calls[k].rule = NoRule THEN f[k - 1]
                                       ELSE Append(f[k - 1], calls[k].rule)
  BY <1>2, <1>3, Zenon DEF KeptStep
<1> QED  BY <1>4, <1>5 DEF f

\* One more call.
LEMMA KeptAppend ==
    ASSUME NEW calls \in Seq(CallType), NEW call \in CallType
    PROVE  LET kept == KeptRules(calls)[Len(calls)]
               more == KeptRules(Append(calls, call))[Len(Append(calls, call))]
           IN more = IF call.rule = NoRule THEN kept ELSE Append(kept, call.rule)
<1> DEFINE n == Len(calls)
           list == Append(calls, call)
           f == KeptRules(calls)
           g == KeptRules(list)
           G == {k \in Nat : k <= n => f[k] = g[k]}
<1>1. /\ list \in Seq(CallType) /\ Len(list) = n + 1 /\ n \in Nat
      /\ list[n + 1] = call /\ \A k \in 1..n : list[k] = calls[k]
  BY AppendProperties
<1>2. f[0] = <<>> /\ \A k \in 1..n : f[k] = IF calls[k].rule = NoRule THEN f[k - 1]
                                               ELSE Append(f[k - 1], calls[k].rule)
  BY KeptDef
<1> HIDE DEF list
<1>3. g[0] = <<>> /\ \A k \in 1..(n + 1) : g[k] = IF list[k].rule = NoRule THEN g[k - 1]
                                                    ELSE Append(g[k - 1], list[k].rule)
  BY <1>1, KeptDef
<1> HIDE DEF f, g
<1>4. 0 \in G
  BY <1>2, <1>3
<1>5. ASSUME NEW k \in Nat, k \in G PROVE k + 1 \in G
  <2>1. CASE k + 1 <= n
    <3>1. k + 1 \in 1..n /\ k + 1 \in 1..(n + 1) /\ (k + 1) - 1 = k /\ k <= n
      BY <1>1, <2>1
    <3>2. f[k] = g[k]
      BY <1>5, <3>1
    <3>3. f[k + 1] = g[k + 1]
      BY <1>1, <1>2, <1>3, <3>1, <3>2
    <3> QED  BY <3>3
  <2>2. CASE ~(k + 1 <= n)
    BY <2>2
  <2> QED  BY <2>1, <2>2
<1>6. f[n] = g[n]
  <2>1. Nat \subseteq G
    <3> HIDE DEF G
    <3> QED  BY <1>4, <1>5, Induction
  <2> QED  BY <1>1, <2>1
<1>7. n + 1 \in 1..(n + 1) /\ (n + 1) - 1 = n
  BY <1>1
<1>8. g[n + 1] = IF call.rule = NoRule THEN g[n] ELSE Append(g[n], call.rule)
  BY <1>1, <1>3, <1>7
<1>9. g[Len(list)] = IF call.rule = NoRule THEN f[n] ELSE Append(f[n], call.rule)
  BY <1>1, <1>6, <1>8
<1> QED  BY <1>9, Zenon DEF f, g, list

LEMMA KeptType ==
    ASSUME NEW calls \in Seq(CallType)
    PROVE  KeptRules(calls)[Len(calls)] \in Seq(RuleType)
<1> DEFINE n == Len(calls)
           f == KeptRules(calls)
           G == {k \in Nat : k <= n => f[k] \in Seq(RuleType)}
<1>1. f[0] = <<>> /\ \A k \in 1..n : f[k] = IF calls[k].rule = NoRule THEN f[k - 1]
                                               ELSE Append(f[k - 1], calls[k].rule)
  BY KeptDef
<1>2. n \in Nat /\ \A k \in 1..n : calls[k].rule \in RuleType
  BY CallFields
<1> HIDE DEF f
<1>3. 0 \in G
  <2>1. <<>> \in Seq(RuleType)
    OBVIOUS
  <2> QED  BY <1>1, <2>1
<1>4. ASSUME NEW k \in Nat, k \in G PROVE k + 1 \in G
  <2>1. CASE k + 1 <= n
    <3>1. k + 1 \in 1..n /\ (k + 1) - 1 = k /\ k <= n
      BY <1>2, <2>1
    <3>2. f[k] \in Seq(RuleType) /\ calls[k + 1].rule \in RuleType
      BY <1>2, <1>4, <3>1
    <3>3. Append(f[k], calls[k + 1].rule) \in Seq(RuleType)
      BY <3>2, AppendProperties
    <3>4. f[k + 1] \in Seq(RuleType)
      BY <1>1, <3>1, <3>2, <3>3
    <3> QED  BY <3>4
  <2>2. CASE ~(k + 1 <= n)
    BY <2>2
  <2> QED  BY <2>1, <2>2
<1>5. Nat \subseteq G
  <2> HIDE DEF G
  <2> QED  BY <1>3, <1>4, Induction
<1> QED  BY <1>2, <1>5 DEF f

\* Rules and Written are those recursions.
LEMMA RulesIs == Rules = KeptRules(returned)[Len(returned)]
<1>1. KeptRules(returned) =
         CHOOSE upTo : upTo = [k \in 0..Len(returned) |-> KeptStep(returned, k, upTo)]
  BY Zenon DEF KeptRules, KeptLoop
<1>2. Rules = (CHOOSE upTo : upTo = [k \in 0..Len(returned) |-> KeptStep(returned, k, upTo)])
                 [Len(returned)]
  BY Zenon DEF Rules, KeptStep
<1> QED  BY <1>1, <1>2, Zenon

LEMMA WrittenIs == Written = RulesFrom(KindsOf, sheet.topLevel)[1]
<1>1. RulesFrom(KindsOf, sheet.topLevel) =
         CHOOSE from : from = [i \in 1..(Len(KindsOf) + 1) |->
                                  RulesStep(KindsOf, sheet.topLevel, i, from)]
  BY Zenon DEF RulesFrom, RulesLoop
<1>2. Written = (CHOOSE from : from = [i \in 1..(Len(KindsOf) + 1) |->
                                  RulesStep(KindsOf, sheet.topLevel, i, from)])[1]
  BY Zenon DEF Written, RulesStep, RuleAt, BlockOf, LastOf, StopOf, StopsOf, FirstOf
<1> QED  BY <1>1, <1>2, Zenon

-----------------------------------------------------------------------------
TypeInv ==
    /\ sheet \in Sheets
    /\ pos \in 0..Len(Tokens)
    /\ scanned \in Nat
    /\ fn \in {"NextRule", "atRule", "qualifiedRule", "done"}
    /\ part \in {"prelude", "block"}
    /\ ends \in Stacks
    /\ rule \in RuleType
    /\ errs \in Seq(ErrorType)
    /\ returned \in Seq(CallType)

\* The kinds of the tokens.
LEMMA SheetFacts ==
    ASSUME sheet \in Sheets
    PROVE  /\ Tokens \in Seq(Lexemes) /\ Len(Tokens) \in Nat
           /\ KindsOf \in Seq(Kinds) /\ Len(KindsOf) = Len(Tokens)
           /\ \A i \in 1..Len(Tokens) : KindsOf[i] = Tokens[i].kind /\ Tokens[i].kind \in Kinds
<1>1. sheet \in SheetType
  BY SheetsAssumption
<1>2. Tokens \in Seq(Lexemes) /\ Len(Tokens) \in Nat
  BY <1>1 DEF SheetType, Tokens
<1>3. \A i \in 1..Len(Tokens) : Tokens[i].kind \in Kinds
  <2>1. \A t \in Lexemes : t.kind \in Kinds
    BY DEF Lexemes
  <2>2. \A i \in 1..Len(Tokens) : Tokens[i] \in Lexemes
    BY <1>2
  <2> QED  BY <2>1, <2>2
<1>4. KindsOf \in [1..Len(Tokens) -> Kinds] /\ \A i \in 1..Len(Tokens) : KindsOf[i] = Tokens[i].kind
  BY <1>3 DEF KindsOf
<1>5. KindsOf \in Seq(Kinds) /\ Len(KindsOf) = Len(Tokens)
  BY <1>2, <1>4
<1> QED  BY <1>2, <1>3, <1>4, <1>5

\* The kind at hand.
LEMMA KindIs ==
    ASSUME sheet \in Sheets, pos \in 0..Len(Tokens)
    PROVE  /\ here \in 1..(Len(Tokens) + 1) /\ here = pos + 1
           /\ AtEnd => Kind = "EOF" /\ here = Len(Tokens) + 1
           /\ ~AtEnd => /\ here \in 1..Len(Tokens) /\ Kind = KindsOf[here] /\ Kind \in Kinds
                        /\ Kind # "EOF"
<1>1. Len(Tokens) \in Nat
  BY SheetFacts
<1>2. here \in 1..(Len(Tokens) + 1) /\ here = pos + 1
  BY <1>1 DEF here
<1>3. AtEnd => Kind = "EOF" /\ here = Len(Tokens) + 1
  BY <1>1 DEF AtEnd, Kind, EOF, here
<1>4. ~AtEnd => here \in 1..Len(Tokens)
  BY <1>1 DEF AtEnd, here
<1>5. ~AtEnd => Kind = KindsOf[here] /\ Kind \in Kinds
  BY <1>4, SheetFacts DEF Kind
<1>6. \A k \in Kinds : k # "EOF"
  BY DEF Kinds
<1> QED  BY <1>2, <1>3, <1>4, <1>5, <1>6

\* The errors that come with a token are about it.
LEMMA ErrorsHere ==
    ASSUME here \in Nat
    PROVE  /\ TokenError \in Seq(ErrorType) /\ BlockEndError \in Seq(ErrorType)
           /\ \A what \in {"parse", "EOF", "unexpected EOF", "unexpected }"} :
                 <<Err(what)>> \in Seq(ErrorType)
           /\ \A k \in 1..Len(TokenError) : TokenError[k].what = "EOF" => AtEnd
           /\ \A k \in 1..Len(BlockEndError) : BlockEndError[k].what # "EOF"
           /\ AtEnd => Len(BlockEndError) = 1 /\ BlockEndError[1].at = here
<1>1. \A what \in {"parse", "EOF", "unexpected EOF", "unexpected }"} :
         /\ Err(what) \in ErrorType /\ Err(what).what = what /\ Err(what).at = here
  BY DEF Err, ErrorType
<1>2. \A what \in {"parse", "EOF", "unexpected EOF", "unexpected }"} :
         /\ <<Err(what)>> \in Seq(ErrorType) /\ Len(<<Err(what)>>) = 1
         /\ <<Err(what)>>[1] = Err(what)
  <2>1. \A e \in ErrorType : <<e>> \in Seq(ErrorType) /\ Len(<<e>>) = 1 /\ <<e>>[1] = e
    OBVIOUS
  <2> QED  BY <1>1, <2>1
<1>3. \/ TokenError = <<>> /\ ~AtEnd
      \/ TokenError = <<Err("parse")>>
      \/ TokenError = <<Err("EOF")>> /\ AtEnd
  BY Zenon DEF TokenError
<1>4. \/ BlockEndError = <<>> /\ ~AtEnd
      \/ BlockEndError = <<Err("parse")>>
      \/ BlockEndError = <<Err("unexpected EOF")>>
  BY <1>3, Zenon DEF BlockEndError
<1>5. <<>> \in Seq(ErrorType)
  OBVIOUS
<1>6. TokenError \in Seq(ErrorType) /\ BlockEndError \in Seq(ErrorType)
  BY <1>2, <1>3, <1>4, <1>5, Zenon
<1>7. \A k \in 1..Len(TokenError) : TokenError[k].what = "EOF" => AtEnd
  <2>1. CASE TokenError = <<>>
    BY <2>1
  <2>2. CASE TokenError = <<Err("parse")>>
    <3>1. Len(TokenError) = 1 /\ TokenError[1] = Err("parse")
      BY <1>2, <2>2
    <3>2. TokenError[1].what # "EOF"
      BY <1>1, <3>1
    <3> QED  BY <3>1, <3>2
  <2>3. CASE TokenError = <<Err("EOF")>> /\ AtEnd
    BY <2>3
  <2> QED  BY <1>3, <2>1, <2>2, <2>3
<1>8. \A k \in 1..Len(BlockEndError) : BlockEndError[k].what # "EOF"
  <2>1. CASE BlockEndError = <<>>
    BY <2>1
  <2>2. CASE BlockEndError = <<Err("parse")>>
    <3>1. Len(BlockEndError) = 1 /\ BlockEndError[1] = Err("parse")
      BY <1>2, <2>2
    <3>2. BlockEndError[1].what # "EOF"
      BY <1>1, <3>1
    <3> QED  BY <3>1, <3>2
  <2>3. CASE BlockEndError = <<Err("unexpected EOF")>>
    <3>1. Len(BlockEndError) = 1 /\ BlockEndError[1] = Err("unexpected EOF")
      BY <1>2, <2>3
    <3>2. BlockEndError[1].what = "unexpected EOF"
      BY <1>1, <3>1
    <3>3. \A k \in 1..Len(BlockEndError) : k = 1
      <4>1. \A k \in 1..1 : k = 1
        OBVIOUS
      <4> QED  BY <3>1, <4>1, Zenon
    <3> QED  BY <3>2, <3>3
  <2> QED  BY <1>4, <2>1, <2>2, <2>3
<1>9. AtEnd => Len(BlockEndError) = 1 /\ BlockEndError[1].at = here
  BY <1>1, <1>2, <1>4
<1> QED  BY <1>2, <1>6, <1>7, <1>8, <1>9

\* What is kept of a rule.
LEMMA RuleFields ==
    ASSUME NEW r \in RuleType
    PROVE  r.at \in Nat /\ r.prelude \in Seq(Nat) /\ r.block \in Seq(Nat)
  BY DEF RuleType

LEMMA RuleEqual ==
    ASSUME NEW r \in RuleType, NEW s \in RuleType,
           r.at = s.at, r.prelude = s.prelude, r.block = s.block
    PROVE  r = s
  BY DEF RuleType

LEMMA KeptIs ==
    ASSUME rule \in RuleType, here \in Nat
    PROVE  /\ Kept("prelude") \in RuleType /\ Kept("block") \in RuleType
           /\ Kept("prelude").at = rule.at /\ Kept("block").at = rule.at
           /\ Kept("prelude").prelude = Append(rule.prelude, here)
           /\ Kept("prelude").block = rule.block
           /\ Kept("block").prelude = rule.prelude
           /\ Kept("block").block = Append(rule.block, here)
<1>1. Append(rule.prelude, here) \in Seq(Nat) /\ Append(rule.block, here) \in Seq(Nat)
  BY RuleFields, AppendProperties
<1> DEFINE WithPrelude(s) == [rule EXCEPT !["prelude"] = s]
           WithBlock(s) == [rule EXCEPT !["block"] = s]
<1>2. /\ Kept("prelude") = WithPrelude(Append(rule.prelude, here))
      /\ Kept("block") = WithBlock(Append(rule.block, here))
  BY DEF Kept, RuleType
<1>3. \A s \in Seq(Nat) : WithPrelude(s) \in RuleType /\ WithBlock(s) \in RuleType
  BY DEF RuleType
<1>4. \A s \in Seq(Nat) :
         /\ WithPrelude(s).at = rule.at /\ WithBlock(s).at = rule.at
         /\ WithPrelude(s).prelude = s /\ WithPrelude(s).block = rule.block
         /\ WithBlock(s).prelude = rule.prelude /\ WithBlock(s).block = s
  BY DEF RuleType
<1> HIDE DEF WithPrelude, WithBlock
<1> QED  BY <1>1, <1>2, <1>3, <1>4, Zenon

\* A rule that has just begun.
LEMMA EmptyRuleIs ==
    /\ EmptyRule \in RuleType /\ EmptyRule.at = 0
    /\ EmptyRule.prelude = <<>> /\ EmptyRule.block = <<>>
    /\ \A i \in Nat : /\ [EmptyRule EXCEPT !.at = i] \in RuleType
                       /\ [EmptyRule EXCEPT !.at = i].at = i
                       /\ [EmptyRule EXCEPT !.at = i].prelude = <<>>
                       /\ [EmptyRule EXCEPT !.at = i].block = <<>>
<1>1. EmptyRule \in RuleType /\ EmptyRule.at = 0
      /\ EmptyRule.prelude = <<>> /\ EmptyRule.block = <<>>
  BY DEF EmptyRule, RuleType
<1>2. ASSUME NEW i \in Nat
      PROVE  /\ [EmptyRule EXCEPT !.at = i] \in RuleType
             /\ [EmptyRule EXCEPT !.at = i].at = i
             /\ [EmptyRule EXCEPT !.at = i].prelude = <<>>
             /\ [EmptyRule EXCEPT !.at = i].block = <<>>
  <2>1. [EmptyRule EXCEPT !.at = i] = [at |-> i, prelude |-> <<>>, block |-> <<>>]
    BY DEF EmptyRule
  <2>2. [at |-> i, prelude |-> <<>>, block |-> <<>>] \in RuleType
    BY DEF RuleType
  <2> QED  BY <2>1, <2>2
<1> QED  BY <1>1, <1>2

-----------------------------------------------------------------------------
\* Every variable keeps its type.
LEMMA Moves ==
    ASSUME TypeInv, sheet' = sheet
    PROVE  /\ Tokens' = Tokens /\ KindsOf' = KindsOf /\ sheet' \in Sheets
           /\ Consume /\ ~AtEnd => pos' = pos + 1 /\ pos' \in 0..Len(Tokens) /\ scanned' \in Nat
           /\ Leave => pos' = pos /\ pos' \in 0..Len(Tokens) /\ scanned' \in Nat
           /\ Collect => errs' = errs \o TokenError /\ errs' \in Seq(ErrorType)
<1>1. Tokens' = Tokens /\ sheet' \in Sheets
  BY DEF Tokens, TypeInv
<1>2. KindsOf' = KindsOf
  BY <1>1 DEF KindsOf
<1>3. pos \in 0..Len(Tokens) /\ scanned \in Nat /\ Len(Tokens) \in Nat
  BY SheetFacts DEF TypeInv
<1>4. Consume /\ ~AtEnd => pos' = pos + 1 /\ pos' \in 0..Len(Tokens) /\ scanned' \in Nat
  BY <1>3 DEF Consume, Look, AtEnd, here
<1>5. Leave => pos' = pos /\ pos' \in 0..Len(Tokens) /\ scanned' \in Nat
  BY <1>3 DEF Leave, Look, here
<1>6. here \in Nat /\ errs \in Seq(ErrorType)
  BY <1>3 DEF here, TypeInv
<1>7. errs \o TokenError \in Seq(ErrorType)
  BY <1>6, ErrorsHere, ConcatProperties
<1>8. Collect => errs' = errs \o TokenError /\ errs' \in Seq(ErrorType)
  BY <1>7 DEF Collect
<1> QED  BY <1>1, <1>2, <1>4, <1>5, <1>8

LEMMA Returns ==
    ASSUME TypeInv, NEW r \in RuleType, NEW es \in Seq(ErrorType), Return(r, es)
    PROVE  /\ [rule |-> r, errs |-> es] \in CallType
           /\ returned' = Append(returned, [rule |-> r, errs |-> es]) /\ returned' \in Seq(CallType)
           /\ errs' = <<>> /\ errs' \in Seq(ErrorType)
           /\ rule' \in RuleType
           /\ fn' = IF r = NoRule THEN "done" ELSE "NextRule"
<1>1. [rule |-> r, errs |-> es] \in CallType
  BY DEF CallType
<1>2. returned \in Seq(CallType)
  BY DEF TypeInv
<1>3. Append(returned, [rule |-> r, errs |-> es]) \in Seq(CallType)
  BY <1>1, <1>2, AppendProperties
<1>4. <<>> \in Seq(ErrorType)
  OBVIOUS
<1>5. rule' = EmptyRule /\ rule' \in RuleType
  BY EmptyRuleIs DEF Return
<1> QED  BY <1>1, <1>3, <1>4, <1>5 DEF Return

\* A block or function returns to its caller.
LEMMA Closes ==
    ASSUME TypeInv, ends # <<>>, NEW r \in RuleType, NEW es \in Seq(ErrorType), Close(r, es)
    PROVE  /\ sheet' = sheet /\ part' = part
           /\ ends' = Front(ends) /\ ends' \in Stacks
           /\ errs \o es \in Seq(ErrorType)
           /\ IF Len(ends) = 1 /\ part = "block" THEN Return(r, errs \o es)
              ELSE rule' = r /\ errs' = errs \o es /\ fn' = fn /\ returned' = returned
           /\ Len(ends) \in Nat \ {0} /\ (Len(ends) = 1 <=> Front(ends) = <<>>)
<1>1. ends \in Stacks /\ errs \in Seq(ErrorType)
  BY DEF TypeInv
<1>2. Front(ends) \in Stacks
  BY <1>1, StackTop
<1>3. errs \o es \in Seq(ErrorType)
  BY <1>1, ConcatProperties
<1>4. Len(ends) \in Nat \ {0} /\ (Len(ends) = 1 <=> Front(ends) = <<>>)
  <2>1. ends \in Seq(Closers)
    BY <1>1 DEF Stacks
  <2>2. Len(ends) \in Nat \ {0}
    BY <2>1
  <2>3. \A k \in 0..Len(ends) : SubSeq(ends, 1, k) \in Seq(Closers) /\ Len(SubSeq(ends, 1, k)) = k
    <3> SUFFICES ASSUME NEW k \in 0..Len(ends)
                 PROVE  SubSeq(ends, 1, k) \in Seq(Closers) /\ Len(SubSeq(ends, 1, k)) = k
      OBVIOUS
    <3>1. 1 \in 1..(Len(ends) + 1) /\ k \in (1 - 1)..Len(ends) /\ k - 1 + 1 = k
      BY <2>2
    <3> QED  BY <2>1, <3>1, SubSeqProperties
  <2>4. Front(ends) \in Seq(Closers) /\ Len(Front(ends)) = Len(ends) - 1
    <3>1. Len(ends) - 1 \in 0..Len(ends)
      BY <2>2
    <3> QED  BY <2>3, <3>1 DEF Front
  <2>5. Len(ends) = 1 <=> Len(Front(ends)) = 0
    BY <2>2, <2>4
  <2>6. Len(Front(ends)) = 0 <=> Front(ends) = <<>>
    BY <2>4
  <2> QED  BY <2>2, <2>5, <2>6
<1> QED  BY <1>2, <1>3, <1>4 DEF Close

LEMMA TypeInit == Init => TypeInv
<1> SUFFICES ASSUME Init PROVE TypeInv
  OBVIOUS
<1>1. sheet \in Sheets /\ pos = 0 /\ scanned = 0 /\ ends = <<>> /\ errs = <<>> /\ returned = <<>>
  BY DEF Init
<1>2. Len(Tokens) \in Nat
  BY <1>1, SheetFacts
<1>3. pos \in 0..Len(Tokens) /\ scanned \in Nat
  BY <1>1, <1>2
<1>4. ends \in Stacks
  BY <1>1 DEF Stacks
<1>5. errs \in Seq(ErrorType) /\ returned \in Seq(CallType)
  BY <1>1
<1>6. rule \in RuleType
  BY EmptyRuleIs DEF Init
<1> QED  BY <1>1, <1>3, <1>4, <1>5, <1>6 DEF Init, TypeInv

\* What an action needs in order not to run past the end.
LEMMA NotAtEnd ==
    ASSUME TypeInv
    PROVE  /\ Kind # "EOF" <=> ~AtEnd
           /\ here \in Nat /\ here \in 1..(Len(Tokens) + 1) /\ here = pos + 1
           /\ Ignored => ~AtEnd
           /\ ends # <<>> /\ IsEnd => ~AtEnd
<1>1. sheet \in Sheets /\ pos \in 0..Len(Tokens) /\ ends \in Stacks /\ Len(Tokens) \in Nat
  BY SheetFacts DEF TypeInv
<1>2. /\ here \in 1..(Len(Tokens) + 1) /\ here = pos + 1
      /\ AtEnd => Kind = "EOF"
      /\ ~AtEnd => Kind # "EOF"
  BY <1>1, KindIs
<1>3. here \in Nat
  BY <1>1, <1>2
<1>4. Ignored => ~AtEnd
  BY <1>2 DEF Ignored
<1>5. ends # <<>> /\ IsEnd => ~AtEnd
  <2>1. ends # <<>> => Last(ends) \in Closers
    BY <1>1, StackTop
  <2> QED  BY <1>2, <2>1 DEF IsEnd, Closers
<1> QED  BY <1>2, <1>3, <1>4, <1>5

LEMMA TypeNext == TypeInv /\ [Next]_vars => TypeInv'
<1> SUFFICES ASSUME TypeInv, [Next]_vars PROVE TypeInv'
  OBVIOUS
<1>1. /\ here \in Nat /\ rule \in RuleType /\ errs \in Seq(ErrorType) /\ returned \in Seq(CallType)
      /\ ends \in Stacks /\ part \in {"prelude", "block"}
      /\ fn \in {"NextRule", "atRule", "qualifiedRule", "done"} /\ NoRule \in RuleType
  BY NotAtEnd, EmptyRuleIs DEF TypeInv, NoRule
<1>2. TokenError \in Seq(ErrorType) /\ BlockEndError \in Seq(ErrorType)
      /\ <<Err("unexpected }")>> \in Seq(ErrorType)
  BY <1>1, ErrorsHere
<1>3. errs \o TokenError \in Seq(ErrorType)
  BY <1>1, <1>2, ConcatProperties
<1>4. ASSUME Return(rule, errs \o TokenError) \/ Return(NoRule, errs \o TokenError)
      PROVE  errs' \in Seq(ErrorType) /\ rule' \in RuleType /\ returned' \in Seq(CallType)
             /\ fn' \in {"NextRule", "atRule", "qualifiedRule", "done"}
  BY <1>1, <1>3, <1>4, Returns
<1>5. CASE SkipToken
  BY <1>1, <1>5, Moves, NotAtEnd DEF SkipToken, TypeInv
<1>6. CASE EndOfSheet
  BY <1>1, <1>4, <1>6, Moves DEF EndOfSheet, TypeInv
<1>7. CASE StartAtRule
  <2>1. ~AtEnd
    BY <1>7, NotAtEnd DEF StartAtRule
  <2>2. rule' \in RuleType
    BY <1>1, <1>7, EmptyRuleIs DEF StartAtRule
  <2> QED  BY <1>1, <1>7, <2>1, <2>2, Moves DEF StartAtRule, TypeInv
<1>8. CASE StartQualifiedRule
  BY <1>1, <1>8, EmptyRuleIs, Moves DEF StartQualifiedRule, TypeInv
<1>9. CASE EndAtRule
  <2>1. IF AtEnd THEN Leave ELSE Consume
    BY <1>9 DEF EndAtRule
  <2>2. pos' \in 0..Len(Tokens) /\ scanned' \in Nat /\ Tokens' = Tokens /\ sheet' \in Sheets
    BY <1>9, <2>1, Moves DEF EndAtRule
  <2> QED  BY <1>1, <1>4, <1>9, <2>2 DEF EndAtRule, TypeInv
<1>10. CASE EndQualifiedRule
  BY <1>1, <1>10, Moves DEF EndQualifiedRule, TypeInv
<1>11. CASE StartBlock
  <2>1. ~AtEnd
    BY <1>11, NotAtEnd DEF StartBlock
  <2>2. ends' \in Stacks
    <3>1. ends' = <<EndOf("{")>> /\ EndOf("{") \in Closers
      BY <1>11, EndsAreClosers DEF StartBlock, Opens
    <3>2. \A end \in Closers : <<end>> \in Seq(Closers)
      OBVIOUS
    <3> QED  BY <3>1, <3>2 DEF Stacks
  <2>3. rule' \in RuleType
    BY <1>1, <1>11, KeptIs DEF StartBlock
  <2> QED  BY <1>1, <1>11, <2>1, <2>2, <2>3, Moves DEF StartBlock, TypeInv
<1>12. CASE StrayBrace
  <2>1. ~AtEnd
    BY <1>12, NotAtEnd DEF StrayBrace
  <2>2. rule' \in RuleType
    BY <1>1, <1>12, KeptIs DEF StrayBrace
  <2>3. errs' \in Seq(ErrorType)
    <3> DEFINE more == IF fn = "qualifiedRule" THEN <<Err("unexpected }")>> ELSE <<>>
    <3>1. <<>> \in Seq(ErrorType)
      OBVIOUS
    <3>2. more \in Seq(ErrorType)
      BY <1>2, <3>1, Zenon
    <3>3. errs' = errs \o TokenError \o more
      BY <1>12, Zenon DEF StrayBrace
    <3> HIDE DEF more
    <3> QED  BY <1>3, <3>2, <3>3, ConcatProperties
  <2> QED  BY <1>1, <1>12, <2>1, <2>2, <2>3, Moves DEF StrayBrace, TypeInv
<1>13. CASE PreludeValue
  <2>1. ~AtEnd
    BY <1>13, NotAtEnd DEF PreludeValue, StopsRule, EOF
  <2>2. ends' \in Stacks
    <3>1. Opens(Kind) => EndOf(Kind) \in Closers
      BY EndsAreClosers
    <3>2. \A end \in Closers : <<end>> \in Seq(Closers)
      OBVIOUS
    <3>3. <<>> \in Seq(Closers)
      OBVIOUS
    <3>4. ends' = IF Opens(Kind) THEN <<EndOf(Kind)>> ELSE <<>>
      BY <1>13 DEF PreludeValue
    <3> QED  BY <3>1, <3>2, <3>3, <3>4, Zenon DEF Stacks
  <2>3. rule' \in RuleType
    BY <1>1, <1>13, KeptIs DEF PreludeValue
  <2> QED  BY <1>1, <1>13, <2>1, <2>2, <2>3, Moves DEF PreludeValue, TypeInv
<1>14. ASSUME NEW r \in RuleType, NEW es \in Seq(ErrorType), ends # <<>>, Close(r, es),
              (Consume /\ ~AtEnd) \/ Leave
       PROVE  TypeInv'
  <2>1. /\ sheet' = sheet /\ part' = part /\ ends' \in Stacks /\ errs \o es \in Seq(ErrorType)
        /\ IF Len(ends) = 1 /\ part = "block" THEN Return(r, errs \o es)
           ELSE rule' = r /\ errs' = errs \o es /\ fn' = fn /\ returned' = returned
    BY <1>14, Closes
  <2>2. Tokens' = Tokens /\ sheet' \in Sheets /\ pos' \in 0..Len(Tokens) /\ scanned' \in Nat
    BY <1>14, <2>1, Moves
  <2>3. /\ errs' \in Seq(ErrorType) /\ rule' \in RuleType /\ returned' \in Seq(CallType)
        /\ fn' \in {"NextRule", "atRule", "qualifiedRule", "done"}
    <3>1. CASE Return(r, errs \o es)
      BY <2>1, <3>1, Returns
    <3>2. CASE rule' = r /\ errs' = errs \o es /\ fn' = fn /\ returned' = returned
      BY <1>1, <2>1, <3>2
    <3> QED  BY <2>1, <3>1, <3>2
  <2> QED  BY <1>1, <2>1, <2>2, <2>3 DEF TypeInv
<1>15. CASE CloseBlock
  <2>1. ends # <<>> /\ ~AtEnd /\ Consume /\ Close(Kept(part), TokenError)
    BY <1>15, NotAtEnd DEF CloseBlock, InBlock
  <2>2. Kept(part) \in RuleType
    BY <1>1, KeptIs
  <2> QED  BY <1>2, <1>14, <2>1, <2>2
<1>16. CASE EndInBlock
  <2>1. ends # <<>> /\ Leave /\ Close(rule, BlockEndError)
    BY <1>16 DEF EndInBlock, InBlock
  <2> QED  BY <1>1, <1>2, <1>14, <2>1
<1>17. CASE BlockValue
  <2>1. ~AtEnd
    BY <1>17 DEF BlockValue
  <2>2. ends' \in Stacks
    <3>1. Opens(Kind) => EndOf(Kind) \in Closers
      BY EndsAreClosers
    <3>2. Opens(Kind) => Append(ends, EndOf(Kind)) \in Stacks
      BY <1>1, <3>1, StackPushed
    <3>3. ends' = IF Opens(Kind) THEN Append(ends, EndOf(Kind)) ELSE ends
      BY <1>17 DEF BlockValue
    <3> QED  BY <1>1, <3>2, <3>3
  <2>3. rule' \in RuleType
    <3>1. rule' = Kept(part)
      BY <1>17 DEF BlockValue
    <3> QED  BY <1>1, <3>1, KeptIs
  <2> QED  BY <1>1, <1>17, <2>1, <2>2, <2>3, Moves DEF BlockValue, TypeInv
<1>18. CASE UNCHANGED vars
  BY <1>18 DEF vars, TypeInv, Tokens
<1> QED  BY <1>5, <1>6, <1>7, <1>8, <1>9, <1>10, <1>11, <1>12, <1>13, <1>15, <1>16, <1>17, <1>18
         DEF Next

-----------------------------------------------------------------------------
\* ValueLength finds the first value, in any slice.
LEMMA FirstIsTheValue ==
    ASSUME sheet \in Sheets
    PROVE  ValueLengthIsTheValue
<1> SUFFICES ASSUME pos = 0, Tokens # <<>>
             PROVE  LET length == ValueLength(KindsOf)
                    IN /\ IsValue(KindsOf, 1, length.n)
                       /\ length.ok <=> (Opens(Kind) => IsClosedBlock(KindsOf, 1, length.n))
  BY DEF ValueLengthIsTheValue
<1> DEFINE ks == KindsOf
           length == ValueLength(ks)
<1>1. ks \in Seq(Kinds) /\ Len(ks) = Len(Tokens) /\ Tokens \in Seq(Lexemes)
  BY SheetFacts
<1>2. 1 \in 1..Len(ks) /\ Len(ks) \in 1..Len(ks)
  BY <1>1
<1>3. Kind = ks[1]
  <2>1. ~AtEnd /\ pos \in 0..Len(Tokens) /\ here = 1
    BY <1>1, <1>2 DEF AtEnd, here
  <2> QED  BY <2>1, KindIs
<1> HIDE DEF ks
<1>4. SubSeq(ks, 1, Len(ks)) = ks
  <2>1. /\ SubSeq(ks, 1, Len(ks)) \in Seq(Kinds) /\ Len(SubSeq(ks, 1, Len(ks))) = Len(ks) + 1 - 1
        /\ \A j \in 1..(Len(ks) + 1 - 1) : SubSeq(ks, 1, Len(ks))[j] = ks[1 + j - 1]
    BY <1>1, <1>2, SliceFrom
  <2>2. Len(ks) + 1 - 1 = Len(ks) /\ \A j \in 1..Len(ks) : 1 + j - 1 = j
    BY <1>1
  <2> QED  BY <1>1, <2>1, <2>2, SeqEqual
<1>5. IsValue(ks, 1, length.n)
  <2>1. IsValue(ks, 1, 1 + length.n - 1) /\ length.n \in 1..(Len(ks) + 1 - 1)
    BY <1>1, <1>2, <1>4, EndOfValueIs, ValueLengthType
  <2>2. 1 + length.n - 1 = length.n
    BY <2>1
  <2> QED  BY <2>1, <2>2
<1>6. length.ok <=> (Opens(ks[1]) => IsClosedBlock(ks, 1, length.n))
  <2>1. CASE ~Opens(ks[1])
    BY <1>1, <1>2, <1>4, <2>1, ValueLengthOfToken
  <2>2. CASE Opens(ks[1])
    <3> HIDE DEF length
    <3>1. \/ /\ length.ok = TRUE /\ length.n \in 2..(Len(ks) + 1 - 1)
             /\ \A k \in 1..Len(ks) : IsClosedBlock(ks, 1, k) <=> k = 1 + length.n - 1
          \/ /\ length.ok = FALSE /\ length.n = Len(ks) + 1 - 1
             /\ \A k \in 1..Len(ks) : ~IsClosedBlock(ks, 1, k)
      BY <1>1, <1>2, <1>4, <2>2, ValueLengthFinds DEF length
    <3>2. length.n \in 1..Len(ks) /\ length.n = 1 + length.n - 1
      BY <1>1, <1>2, <3>1
    <3> QED  BY <2>2, <3>1, <3>2
  <2> QED  BY <2>1, <2>2
<1> QED  BY <1>3, <1>5, <1>6 DEF ks

\* ValueLength finds the value of the grammar at the start of any slice of tokens, and
\* tells whether it is closed.
THEOREM ValueLengthGoesByTheGrammar == Spec => []ValueLengthIsTheValue
<1>1. TypeInv => ValueLengthIsTheValue
  BY FirstIsTheValue DEF TypeInv
<1> QED  BY <1>1, TypeInit, TypeNext, PTL DEF Spec

-----------------------------------------------------------------------------
\* What the text says of the rule that begins at i.
Starts(ks, topLevel, i) == ks[i] # "ws" /\ ~(ks[i] = "cdo" /\ topLevel)

LEMMA NoMoreRules ==
    ASSUME NEW S, NEW ks \in Seq(S), NEW topLevel
    PROVE  RulesFrom(ks, topLevel)[Len(ks) + 1] = <<>>
<1>1. Len(ks) + 1 \in 1..(Len(ks) + 1) /\ Len(ks) + 1 > Len(ks)
  OBVIOUS
<1>2. RulesFrom(ks, topLevel)[Len(ks) + 1]
         = RulesStep(ks, topLevel, Len(ks) + 1, RulesFrom(ks, topLevel))
  BY <1>1, RulesFromDef
<1> QED  BY <1>1, <1>2, Zenon DEF RulesStep

LEMMA IgnoredHere ==
    ASSUME NEW S, NEW ks \in Seq(S), NEW topLevel, NEW i \in 1..Len(ks), ~Starts(ks, topLevel, i)
    PROVE  RulesFrom(ks, topLevel)[i] = RulesFrom(ks, topLevel)[i + 1]
<1>1. i \in 1..(Len(ks) + 1) /\ ~(i > Len(ks))
  OBVIOUS
<1>2. RulesFrom(ks, topLevel)[i] = RulesStep(ks, topLevel, i, RulesFrom(ks, topLevel))
  BY <1>1, RulesFromDef
<1> QED  BY <1>1, <1>2, Zenon DEF RulesStep, Starts

LEMMA NotBehind == \A n \in Nat : \A i \in 1..n : i <= n /\ ~(i > n)
  OBVIOUS

LEMMA RuleWithBlock ==
    ASSUME NEW S, NEW ks \in Seq(S), NEW topLevel, NEW i \in 1..Len(ks), Starts(ks, topLevel, i),
           NEW v \in 1..Len(ks), v = StopOf(ks, i), ks[v] = "{"
    PROVE  /\ BlockOf(ks, i) = Positions(v, EndOfValue(ks, v))
           /\ RulesFrom(ks, topLevel)[i]
                 = <<RuleAt(ks, i)>> \o RulesFrom(ks, topLevel)[EndOfValue(ks, v) + 1]
<1> DEFINE e == EndOfValue(ks, v)
           f == RulesFrom(ks, topLevel)
<1>1. i \in 1..(Len(ks) + 1) /\ ~(i > Len(ks))
  BY RuleStops, Zenon
<1>2. v <= Len(ks) /\ ~(v > Len(ks))
  <2>1. Len(ks) \in Nat
    BY LenProperties
  <2> QED  BY <2>1, NotBehind, Zenon
<1>3. LastOf(ks, i) = e
  BY <1>2, Zenon DEF LastOf
<1>4. BlockOf(ks, i) = Positions(v, e)
  BY <1>2, <1>3, Zenon DEF BlockOf
<1>5. BlockOf(ks, i) # <<>>
  <2>1. e \in v..Len(ks)
    BY EndIsBehind
  <2>2. Positions(v, e) # <<>>
    <3> HIDE DEF e
    <3> QED  BY <2>1, SomePositions, Zenon
  <2> QED  BY <1>4, <2>2, Zenon
<1>6. f[i] = RulesStep(ks, topLevel, i, f)
  BY <1>1, RulesFromDef
<1>7. f[i] = <<RuleAt(ks, i)>> \o f[e + 1]
  <2> HIDE DEF f
  <2> QED  BY <1>1, <1>3, <1>5, <1>6, Zenon DEF RulesStep, Starts
<1> QED  BY <1>4, <1>7, Zenon DEF e, f

LEMMA RuleWithoutBlock ==
    ASSUME NEW S, NEW ks \in Seq(S), NEW topLevel, NEW i \in 1..Len(ks), Starts(ks, topLevel, i),
           StopOf(ks, i) > Len(ks) \/ ks[StopOf(ks, i)] # "{"
    PROVE  /\ BlockOf(ks, i) = <<>>
           /\ RulesFrom(ks, topLevel)[i] =
                 IF ks[i] = "at" THEN <<RuleAt(ks, i)>> \o RulesFrom(ks, topLevel)[LastOf(ks, i) + 1]
                 ELSE <<>>
<1>1. i \in 1..(Len(ks) + 1) /\ ~(i > Len(ks))
  BY RuleStops, Zenon
<1>2. ~(StopOf(ks, i) <= Len(ks) /\ ks[StopOf(ks, i)] = "{")
  <2>1. StopOf(ks, i) <= Len(ks) <=> ~(StopOf(ks, i) > Len(ks))
    BY RuleStops, Zenon
  <2> QED  BY <2>1, Zenon
<1>3. BlockOf(ks, i) = <<>>
  BY <1>2, Zenon DEF BlockOf
<1>4. RulesFrom(ks, topLevel)[i] = RulesStep(ks, topLevel, i, RulesFrom(ks, topLevel))
  BY <1>1, RulesFromDef
<1> QED  BY <1>1, <1>3, <1>4, Zenon DEF RulesStep, Starts

\* A rule that is returned goes from what is to be read to what has been.
LEMMA OneMoreRule ==
    ASSUME NEW got \in Seq(RuleType), NEW rest \in Seq(RuleType), NEW r \in RuleType
    PROVE  got \o (<<r>> \o rest) = Append(got, r) \o rest
<1>1. <<r>> \in Seq(RuleType) /\ Append(got, r) = got \o <<r>>
  BY AppendIsConcat
<1>2. got \o (<<r>> \o rest) = (got \o <<r>>) \o rest
  BY <1>1, ConcatAssociative
<1> QED  BY <1>1, <1>2

-----------------------------------------------------------------------------
All == RulesFrom(KindsOf, sheet.topLevel)

Got == KeptRules(returned)[Len(returned)]

Reading == fn \in {"atRule", "qualifiedRule"}

\* The rule that begins at i is being read.
ReadsRule(i) ==
    /\ fn = "atRule" <=> KindsOf[i] = "at"
    /\ Starts(KindsOf, sheet.topLevel, i)
    /\ rule.at = IF KindsOf[i] = "at" THEN i ELSE 0
    /\ All[1] = Got \o All[i]

\* Its prelude, between two values.
BetweenValues(i) ==
    /\ part = "prelude" /\ ends = <<>>
    /\ FirstOf(KindsOf, i) <= here
    /\ rule.prelude = Positions(FirstOf(KindsOf, i), pos) /\ rule.block = <<>>
    /\ StopOf(KindsOf, i) = FirstValue(KindsOf, here, StopsOf(KindsOf, i))

\* In a block or function that begins at v; or behind all of it, when the input ends there.
Inside(v) ==
    /\ ends # <<>> /\ Opens(KindsOf[v])
    /\ \/ OpenAt(KindsOf, v, pos, ends)
       \/ /\ AtEnd /\ ValueLength(SubSeq(KindsOf, v, pos)) = [n |-> here - v, ok |-> FALSE]
          /\ \E k \in 1..Len(errs) : errs[k].at = here

InValueAt(i, v) ==
    /\ part = "prelude"
    /\ FirstOf(KindsOf, i) <= v
    /\ rule.prelude = Positions(FirstOf(KindsOf, i), pos) /\ rule.block = <<>>
    /\ KindsOf[v] \notin StopsOf(KindsOf, i)
    /\ StopOf(KindsOf, i) = FirstValue(KindsOf, v, StopsOf(KindsOf, i))
    /\ Inside(v)

InBlockAt(i, v) ==
    /\ part = "block"
    /\ v = StopOf(KindsOf, i) /\ KindsOf[v] = "{"
    /\ rule.prelude = Positions(FirstOf(KindsOf, i), v - 1)
    /\ rule.block = Positions(v, pos)
    /\ Inside(v)

RuleInv ==
    /\ ~Reading => ends = <<>>
    /\ fn = "NextRule" => All[1] = Got \o All[here]
    /\ fn = "done" => All[1] = Got
    /\ Reading => \E i \in 1..Len(Tokens) :
          /\ ReadsRule(i)
          /\ BetweenValues(i) \/ \E v \in 1..pos : InValueAt(i, v) \/ InBlockAt(i, v)

\* io.EOF is among the errors only when nothing but the end is left for NextRule.
NoEOF == \A k \in 1..Len(errs) : errs[k].what = "EOF" => fn = "NextRule" /\ AtEnd

\* What a call that returned a block says of it.
BlockIsValue(call) ==
    LET length == ValueLength(KindsAt(call.rule.block))
    IN call.rule.block # <<>> =>
           /\ length.n = Len(call.rule.block)
           /\ ~length.ok => \E k \in 1..Len(call.errs) : call.errs[k].at = Len(Tokens) + 1
           /\ \A k \in 1..Len(call.errs) : call.errs[k].what # "EOF"

BlocksInv == \A c \in 1..Len(returned) : BlockIsValue(returned[c])

IInv == TypeInv /\ RuleInv /\ NoEOF /\ BlocksInv

LEMMA GotType == TypeInv => Got \in Seq(RuleType)
  BY KeptType DEF TypeInv, Got

\* A call that returns.
LEMMA GotMore ==
    ASSUME TypeInv, NEW r \in RuleType, NEW es \in Seq(ErrorType), Return(r, es)
    PROVE  Got' = IF r = NoRule THEN Got ELSE Append(Got, r)
<1> DEFINE call == [rule |-> r, errs |-> es]
<1>1. call \in CallType /\ returned' = Append(returned, call) /\ returned \in Seq(CallType)
  BY Returns DEF TypeInv
<1>2. call.rule = r
  OBVIOUS
<1> HIDE DEF call
<1>3. KeptRules(Append(returned, call))[Len(Append(returned, call))]
         = IF call.rule = NoRule THEN KeptRules(returned)[Len(returned)]
           ELSE Append(KeptRules(returned)[Len(returned)], call.rule)
  BY <1>1, KeptAppend, Zenon
<1>4. Got' = KeptRules(returned')[Len(returned')]
  BY DEF Got
<1> QED  BY <1>1, <1>2, <1>3, <1>4, Zenon DEF Got

LEMMA AllType ==
    ASSUME sheet \in Sheets
    PROVE  \A i \in 1..(Len(Tokens) + 1) : All[i] \in Seq(RuleType)
<1>1. KindsOf \in Seq(Kinds) /\ Len(KindsOf) = Len(Tokens)
  BY SheetFacts
<1> QED  BY <1>1, RulesFromDef DEF All

LEMMA SameSheet ==
    ASSUME sheet' = sheet
    PROVE  /\ Tokens' = Tokens /\ KindsOf' = KindsOf /\ All' = All
           /\ returned' = returned => Got' = Got
<1>1. Tokens' = Tokens
  BY DEF Tokens
<1>2. KindsOf' = KindsOf
  BY <1>1 DEF KindsOf
<1> QED  BY <1>1, <1>2 DEF All, Got

\* The facts about a state that every step needs.
LEMMA StateFacts ==
    ASSUME TypeInv
    PROVE  /\ KindsOf \in Seq(Kinds) /\ Len(KindsOf) = Len(Tokens) /\ Len(Tokens) \in Nat
           /\ pos \in 0..Len(Tokens) /\ pos \in Nat /\ here = pos + 1 /\ here - 1 = pos
           /\ here \in 1..(Len(Tokens) + 1) /\ here \in Nat \ {0}
           /\ AtEnd => pos = Len(Tokens) /\ here > Len(Tokens) /\ Kind = "EOF"
           /\ ~AtEnd => /\ here \in 1..Len(Tokens) /\ Kind = KindsOf[here] /\ pos < Len(Tokens)
                        /\ ~(here > Len(Tokens)) /\ Kind # "EOF"
                        /\ here + 1 \in 1..(Len(Tokens) + 1)
           /\ here \in 1..here /\ Len(Tokens) + 1 \in 1..(Len(Tokens) + 1)
           /\ ends \in Stacks /\ rule \in RuleType /\ errs \in Seq(ErrorType)
<1>1. sheet \in Sheets /\ pos \in 0..Len(Tokens) /\ ends \in Stacks /\ rule \in RuleType
      /\ errs \in Seq(ErrorType)
  BY DEF TypeInv
<1>2. KindsOf \in Seq(Kinds) /\ Len(KindsOf) = Len(Tokens) /\ Len(Tokens) \in Nat
  BY <1>1, SheetFacts
<1>3. /\ here \in 1..(Len(Tokens) + 1) /\ here = pos + 1
      /\ AtEnd => Kind = "EOF" /\ here = Len(Tokens) + 1
      /\ ~AtEnd => here \in 1..Len(Tokens) /\ Kind = KindsOf[here] /\ Kind # "EOF"
  BY <1>1, KindIs
<1>4. pos \in Nat /\ here - 1 = pos /\ here \in Nat \ {0}
  BY <1>1, <1>2, <1>3
<1>5. AtEnd => pos = Len(Tokens) /\ here > Len(Tokens)
  BY <1>1, <1>2, <1>3
<1>6. ~AtEnd => /\ pos < Len(Tokens) /\ ~(here > Len(Tokens))
                /\ here + 1 \in 1..(Len(Tokens) + 1)
  BY <1>1, <1>2, <1>3
<1>7. here \in 1..here /\ Len(Tokens) + 1 \in 1..(Len(Tokens) + 1)
  BY <1>2, <1>3
<1> QED  BY <1>1, <1>2, <1>3, <1>4, <1>5, <1>6, <1>7, Zenon

\* What is being read.
LEMMA PreludeState ==
    ASSUME RuleInv, InPrelude
    PROVE  \E i \in 1..Len(Tokens) : ReadsRule(i) /\ BetweenValues(i)
  BY DEF RuleInv, InPrelude, Reading, InValueAt, InBlockAt, Inside

LEMMA BlockState ==
    ASSUME RuleInv, ends # <<>>
    PROVE  /\ Reading
           /\ \E i \in 1..Len(Tokens) : ReadsRule(i)
                 /\ \E v \in 1..pos : InValueAt(i, v) \/ InBlockAt(i, v)
  BY DEF RuleInv, BetweenValues

\* The same rule goes on.
LEMMA SameRule ==
    ASSUME sheet' = sheet, returned' = returned, fn' = fn, rule'.at = rule.at, Reading,
           NEW i \in 1..Len(Tokens), ReadsRule(i)
    PROVE  Reading' /\ Tokens' = Tokens /\ ReadsRule(i)'
<1>1. Tokens' = Tokens /\ KindsOf' = KindsOf /\ All' = All /\ Got' = Got
  BY SameSheet
<1> QED  BY <1>1 DEF Reading, ReadsRule

LEMMA PreludeGoesOn ==
    ASSUME Tokens' = Tokens, Reading', NEW i \in 1..Len(Tokens), ReadsRule(i)', BetweenValues(i)'
    PROVE  RuleInv'
  BY DEF RuleInv, Reading

LEMMA ValueGoesOn ==
    ASSUME Tokens' = Tokens, Reading', NEW i \in 1..Len(Tokens), ReadsRule(i)',
           NEW v \in 1..pos', InValueAt(i, v)' \/ InBlockAt(i, v)'
    PROVE  RuleInv'
  BY DEF RuleInv, Reading

\* The rule is complete, and what follows is left to the next call.
LEMMA RuleReturned ==
    ASSUME TypeInv, sheet' = sheet, NEW i \in 1..Len(Tokens), ReadsRule(i),
           NEW r \in RuleType, NEW es \in Seq(ErrorType), Return(r, es), r # NoRule,
           here' \in 1..(Len(Tokens) + 1), All[i] = <<r>> \o All[here'], ends' = <<>>
    PROVE  RuleInv'
<1>1. Got' = Append(Got, r) /\ fn' = "NextRule"
  BY GotMore, Returns
<1>2. All' = All
  BY SameSheet
<1>3. All[1] = Got \o All[i]
  BY DEF ReadsRule
<1>4. Got \in Seq(RuleType) /\ All[here'] \in Seq(RuleType)
  BY GotType, AllType DEF TypeInv
<1>5. Got \o (<<r>> \o All[here']) = Append(Got, r) \o All[here']
  BY <1>4, OneMoreRule
<1>6. All[1] = Got' \o All[here']
  BY <1>1, <1>3, <1>5
<1> QED  BY <1>1, <1>2, <1>6 DEF RuleInv, Reading

LEMMA RuleInit == Init => RuleInv
<1> SUFFICES ASSUME Init PROVE RuleInv
  OBVIOUS
<1>1. TypeInv /\ returned = <<>> /\ fn = "NextRule" /\ ends = <<>> /\ here = 1
  BY TypeInit DEF Init, here
<1>2. Got = <<>>
  BY <1>1, KeptDef DEF Got, TypeInv
<1>3. All[1] \in Seq(RuleType)
  <2>1. Len(Tokens) \in Nat /\ sheet \in Sheets
    BY <1>1, SheetFacts DEF TypeInv
  <2> QED  BY <2>1, AllType
<1>4. <<>> \o All[1] = All[1]
  BY <1>3
<1> QED  BY <1>1, <1>2, <1>4 DEF RuleInv, Reading

-----------------------------------------------------------------------------
\* NextRule between rules.
LEMMA RuleSkip ==
    ASSUME TypeInv, RuleInv, SkipToken
    PROVE  RuleInv'
<1> DEFINE ks == KindsOf
<1>1. ~AtEnd /\ fn = "NextRule" /\ fn' = "NextRule" /\ ends' = ends /\ ends = <<>>
      /\ sheet' = sheet /\ returned' = returned /\ pos' = here
  BY NotAtEnd DEF SkipToken, RuleInv, Reading, Consume
<1>2. ks \in Seq(Kinds) /\ here \in 1..Len(ks) /\ Kind = ks[here] /\ here' = here + 1
  BY <1>1, StateFacts DEF here
<1>3. ~Starts(ks, sheet.topLevel, here)
  BY <1>2 DEF SkipToken, Ignored, Starts
<1>4. All[here] = All[here + 1]
  <2> HIDE DEF ks
  <2>1. RulesFrom(ks, sheet.topLevel)[here] = RulesFrom(ks, sheet.topLevel)[here + 1]
    BY <1>2, <1>3, IgnoredHere
  <2> QED  BY <2>1 DEF All, ks
<1>5. All' = All /\ Got' = Got
  BY <1>1, SameSheet
<1>6. All[1] = Got \o All[here]
  BY <1>1 DEF RuleInv
<1>7. All'[1] = Got' \o All'[here']
  BY <1>2, <1>4, <1>5, <1>6
<1> QED  BY <1>1, <1>7 DEF RuleInv, Reading

LEMMA RuleAtTheEnd ==
    ASSUME TypeInv, RuleInv, EndOfSheet
    PROVE  RuleInv'
<1>1. AtEnd /\ fn = "NextRule" /\ ends' = ends /\ ends = <<>> /\ sheet' = sheet
      /\ Return(NoRule, errs \o TokenError)
  BY DEF EndOfSheet, RuleInv, Reading
<1>2. KindsOf \in Seq(Kinds) /\ here = Len(KindsOf) + 1 /\ here \in Nat /\ errs \in Seq(ErrorType)
  BY <1>1, StateFacts
<1>3. All[here] = <<>>
  BY <1>2, NoMoreRules DEF All
<1>4. errs \o TokenError \in Seq(ErrorType) /\ NoRule \in RuleType
  BY <1>2, ErrorsHere, ConcatProperties, EmptyRuleIs DEF NoRule
<1>5. Got' = Got /\ fn' = "done" /\ All' = All
  BY <1>1, <1>4, GotMore, Returns, SameSheet
<1>6. All[1] = Got \o <<>> /\ Got \in Seq(RuleType)
  BY <1>1, <1>3, GotType DEF RuleInv
<1>7. Got \o <<>> = Got
  BY <1>6
<1> QED  BY <1>1, <1>5, <1>6, <1>7 DEF RuleInv, Reading

\* A rule begins: nothing of its prelude has been read.
LEMMA RuleBegins ==
    ASSUME TypeInv, RuleInv, StartAtRule \/ StartQualifiedRule
    PROVE  RuleInv'
<1> DEFINE ks == KindsOf
           first == FirstOf(ks, here)
<1>1. fn = "NextRule" /\ ends' = <<>> /\ sheet' = sheet /\ returned' = returned /\ part' = "prelude"
  BY DEF StartAtRule, StartQualifiedRule, RuleInv, Reading
<1>2. ~AtEnd
  BY NotAtEnd DEF StartAtRule, StartQualifiedRule
<1>3. /\ ks \in Seq(Kinds) /\ here \in 1..Len(ks) /\ Kind = ks[here] /\ here = pos + 1
      /\ here \in Nat \ {0} /\ here \in 1..Len(Tokens) /\ here \in Nat /\ here - 1 = pos
  BY <1>2, StateFacts
<1>4. Starts(ks, sheet.topLevel, here)
  BY <1>3 DEF StartAtRule, StartQualifiedRule, Ignored, Starts
<1>5. /\ fn' = "atRule" <=> ks[here] = "at"
      /\ fn' \in {"atRule", "qualifiedRule"}
      /\ rule'.at = IF ks[here] = "at" THEN here ELSE 0
      /\ rule'.prelude = <<>> /\ rule'.block = <<>>
      /\ pos' = first - 1 /\ here' = first /\ first \in Nat \ {0}
  <2>1. CASE StartAtRule
    <3>1. ks[here] = "at" /\ first = here + 1
      BY <1>3, <2>1 DEF StartAtRule, FirstOf
    <3>2. rule' = [EmptyRule EXCEPT !.at = here] /\ pos' = here /\ fn' = "atRule"
          /\ here' = pos' + 1
      BY <2>1 DEF StartAtRule, Consume, here
    <3>3. rule'.at = here /\ rule'.prelude = <<>> /\ rule'.block = <<>>
      BY <1>3, <3>2, EmptyRuleIs
    <3>4. pos' = first - 1 /\ here' = first /\ first \in Nat \ {0}
      <4> HIDE DEF first, ks
      <4> QED  BY <1>3, <3>1, <3>2
    <3> QED  BY <3>1, <3>2, <3>3, <3>4
  <2>2. CASE StartQualifiedRule
    <3>1. ks[here] # "at" /\ first = here
      BY <1>3, <2>2 DEF StartQualifiedRule, FirstOf
    <3>2. rule' = EmptyRule /\ pos' = pos /\ fn' = "qualifiedRule" /\ here' = pos' + 1
      BY <2>2 DEF StartQualifiedRule, Leave, here
    <3>3. rule'.at = 0 /\ rule'.prelude = <<>> /\ rule'.block = <<>>
      BY <3>2, EmptyRuleIs
    <3>4. pos' = first - 1 /\ here' = first /\ first \in Nat \ {0}
      <4> HIDE DEF first, ks
      <4> QED  BY <1>3, <3>1, <3>2
    <3> QED  BY <3>1, <3>2, <3>3, <3>4
  <2> QED  BY <2>1, <2>2
<1>6. KindsOf' = ks /\ Tokens' = Tokens /\ All' = All /\ Got' = Got
  BY <1>1, SameSheet
<1>7. All[1] = Got \o All[here]
  BY <1>1 DEF RuleInv
<1> DEFINE i == here
<1> HIDE DEF ks, first, i
<1>8. Positions(first, first - 1) = <<>> /\ first <= first
  BY <1>5, NoPositions
<1>9. /\ fn' = "atRule" <=> ks[i] = "at"
      /\ Starts(ks, sheet.topLevel, i) /\ rule'.at = IF ks[i] = "at" THEN i ELSE 0
      /\ All[1] = Got \o All[i] /\ first = FirstOf(ks, i) /\ i \in 1..Len(Tokens)
  BY <1>3, <1>4, <1>5, <1>7 DEF i, first
<1>10. PICK j \in 1..Len(Tokens) : j = i
  BY <1>9
<1>11. ReadsRule(j)'
  BY <1>1, <1>6, <1>9, <1>10 DEF ReadsRule
<1>12. BetweenValues(j)'
  BY <1>1, <1>5, <1>6, <1>8, <1>9, <1>10 DEF BetweenValues, StopOf
<1>13. Reading'
  BY <1>5 DEF Reading
<1> QED  BY <1>6, <1>11, <1>12, <1>13, PreludeGoesOn

-----------------------------------------------------------------------------
\* A prelude between two values: the value at hand is the one at which it stops, or not.
LEMMA AtAValue ==
    ASSUME TypeInv, NEW i \in 1..Len(Tokens), BetweenValues(i)
    PROVE  /\ i \in 1..Len(KindsOf) /\ FirstOf(KindsOf, i) \in Nat \ {0}
           /\ here > Len(Tokens) \/ KindsOf[here] \in StopsOf(KindsOf, i) =>
                 StopOf(KindsOf, i) = here
           /\ ~(here > Len(Tokens) \/ KindsOf[here] \in StopsOf(KindsOf, i)) =>
                 StopOf(KindsOf, i)
                     = FirstValue(KindsOf, EndOfValue(KindsOf, here) + 1, StopsOf(KindsOf, i))
           /\ ~AtEnd /\ ~Opens(Kind) => EndOfValue(KindsOf, here) = here
           /\ Append(rule.prelude, here) = Positions(FirstOf(KindsOf, i), here)
<1> DEFINE ks == KindsOf
           first == FirstOf(ks, i)
           stops == StopsOf(ks, i)
<1>1. /\ ks \in Seq(Kinds) /\ Len(ks) = Len(Tokens) /\ here \in 1..(Len(ks) + 1)
      /\ ~AtEnd => here \in 1..Len(ks) /\ Kind = ks[here]
      /\ pos \in Nat /\ here = pos + 1 /\ i \in 1..Len(ks)
  BY StateFacts
<1>2. /\ first <= here /\ rule.prelude = Positions(first, pos)
      /\ StopOf(ks, i) = FirstValue(ks, here, stops)
  BY DEF BetweenValues
<1> HIDE DEF ks, stops
<1>3. first \in Nat \ {0}
  <2>1. first \in i..(i + 1)
    BY <1>1, RuleEnds
  <2> QED  BY <1>1, <2>1
<1>4. FirstValue(ks, here, stops) = IF here > Len(ks) \/ ks[here] \in stops THEN here
                                    ELSE FirstValue(ks, EndOfValue(ks, here) + 1, stops)
  BY <1>1, FirstValueDef
<1>5. ~AtEnd /\ ~Opens(Kind) => EndOfValue(ks, here) = here
  BY <1>1, EndOfValueIs
<1>6. Append(rule.prelude, here) = Positions(first, here)
  BY <1>1, <1>2, <1>3, PositionsGrow
<1> QED  BY <1>1, <1>2, <1>3, <1>4, <1>5, <1>6, Zenon DEF ks, first, stops

LEMMA RuleWithoutBlockEnds ==
    ASSUME TypeInv, RuleInv, EndAtRule
    PROVE  RuleInv'
<1> DEFINE ks == KindsOf
<1>1. /\ InPrelude /\ fn = "atRule" /\ Kind \in {";", EOF} /\ Return(rule, errs \o TokenError)
      /\ sheet' = sheet /\ ends' = ends /\ ends = <<>>
      /\ IF AtEnd THEN pos' = pos ELSE pos' = here
  BY DEF EndAtRule, InPrelude, Leave, Consume
<1>2. PICK i \in 1..Len(Tokens) : ReadsRule(i) /\ BetweenValues(i)
  BY <1>1, PreludeState
<1>3. /\ ks[i] = "at" /\ Starts(ks, sheet.topLevel, i) /\ rule.at = i
      /\ rule.prelude = Positions(FirstOf(ks, i), pos) /\ rule.block = <<>>
  BY <1>1, <1>2 DEF ReadsRule, BetweenValues
<1>4. /\ ks \in Seq(Kinds) /\ Len(ks) = Len(Tokens) /\ here \in Nat /\ here - 1 = pos
      /\ AtEnd => pos = Len(Tokens) /\ here > Len(Tokens)
      /\ ~AtEnd => here \in 1..Len(Tokens) /\ Kind = ks[here] /\ Kind # "EOF" /\ ~(here > Len(Tokens))
      /\ rule \in RuleType /\ errs \in Seq(ErrorType) /\ here = pos + 1 /\ pos \in Nat
  BY StateFacts
<1>5. ~AtEnd => Kind = ";" /\ ks[here] = ";" /\ ks[here] \in StopsOf(ks, i) /\ ~Opens(Kind)
  BY <1>1, <1>3, <1>4 DEF EOF, StopsOf, Opens
<1>6. StopOf(ks, i) = here /\ i \in 1..Len(ks) /\ (~AtEnd => EndOfValue(ks, here) = here)
  BY <1>2, <1>4, <1>5, AtAValue
<1>7. StopOf(ks, i) > Len(ks) \/ ks[StopOf(ks, i)] # "{"
  BY <1>4, <1>5, <1>6
<1>8. here' = LastOf(ks, i) + 1 /\ here' \in 1..(Len(Tokens) + 1)
  <2>1. here' = pos' + 1
    BY DEF here
  <2>2. CASE AtEnd
    <3>1. LastOf(ks, i) = Len(ks)
      BY <1>4, <1>6, <2>2 DEF LastOf
    <3> QED  BY <1>1, <1>4, <2>1, <2>2, <3>1, StateFacts, Zenon
  <2>3. CASE ~AtEnd
    <3>1. LastOf(ks, i) = here
      BY <1>4, <1>6, <2>3 DEF LastOf
    <3> QED  BY <1>1, <1>4, <2>1, <2>3, <3>1, StateFacts, Zenon
  <2> QED  BY <2>2, <2>3
<1> HIDE DEF ks
<1>9. BlockOf(ks, i) = <<>> /\ RulesFrom(ks, sheet.topLevel)[i]
         = <<RuleAt(ks, i)>> \o RulesFrom(ks, sheet.topLevel)[LastOf(ks, i) + 1]
  BY <1>3, <1>4, <1>6, <1>7, RuleWithoutBlock
<1>10. RuleAt(ks, i) \in RuleType
  BY <1>4, <1>6, RuleAtType
<1>11. RuleAt(ks, i).at = i /\ RuleAt(ks, i).prelude = Positions(FirstOf(ks, i), pos)
       /\ RuleAt(ks, i).block = <<>>
  BY <1>3, <1>4, <1>6, <1>9 DEF RuleAt
<1>12. rule = RuleAt(ks, i)
  BY <1>3, <1>4, <1>10, <1>11, RuleEqual
<1>13. All[i] = <<rule>> \o All[here']
  BY <1>8, <1>9, <1>12 DEF All, ks
<1>14. rule # NoRule
  <2>1. rule.at # 0
    BY <1>3
  <2> QED  BY <2>1, EmptyRuleIs DEF NoRule
<1>15. errs \o TokenError \in Seq(ErrorType)
  BY <1>4, ErrorsHere, ConcatProperties
<1> QED  BY <1>1, <1>2, <1>4, <1>8, <1>13, <1>14, <1>15, RuleReturned

LEMMA NoRuleEnds ==
    ASSUME TypeInv, RuleInv, EndQualifiedRule
    PROVE  RuleInv'
<1> DEFINE ks == KindsOf
<1>1. /\ InPrelude /\ fn = "qualifiedRule" /\ fn' = "NextRule" /\ AtEnd /\ pos' = pos
      /\ sheet' = sheet /\ ends' = <<>> /\ returned' = returned
  BY DEF EndQualifiedRule, InPrelude, Leave
<1>2. PICK i \in 1..Len(Tokens) : ReadsRule(i) /\ BetweenValues(i)
  BY <1>1, PreludeState
<1>3. ks[i] # "at" /\ Starts(ks, sheet.topLevel, i) /\ All[1] = Got \o All[i]
  BY <1>1, <1>2 DEF ReadsRule
<1>4. ks \in Seq(Kinds) /\ Len(ks) = Len(Tokens) /\ here > Len(Tokens) /\ here = Len(ks) + 1
  <2>1. /\ ks \in Seq(Kinds) /\ Len(ks) = Len(Tokens) /\ here > Len(Tokens)
        /\ here = pos + 1 /\ pos = Len(Tokens)
    BY <1>1, StateFacts
  <2> QED  BY <2>1
<1>5. StopOf(ks, i) = here /\ i \in 1..Len(ks)
  BY <1>2, <1>4, AtAValue
<1> HIDE DEF ks
<1>6. RulesFrom(ks, sheet.topLevel)[i] = <<>>
  BY <1>3, <1>4, <1>5, RuleWithoutBlock
<1>7. RulesFrom(ks, sheet.topLevel)[here] = <<>>
  BY <1>4, NoMoreRules
<1>8. All[i] = All[here] /\ here' = here
  BY <1>1, <1>6, <1>7 DEF All, ks, here
<1>9. All' = All /\ Got' = Got
  BY <1>1, SameSheet
<1>10. All'[1] = Got' \o All'[here']
  BY <1>3, <1>8, <1>9
<1> QED  BY <1>1, <1>10 DEF RuleInv, Reading

\* A block or function begins at hand.
LEMMA InsideBegins ==
    ASSUME TypeInv, ~AtEnd, Opens(Kind), sheet' = sheet, pos' = here, ends' = <<EndOf(Kind)>>,
           NEW v, v = here
    PROVE  Inside(v)'
<1> DEFINE ks == KindsOf
<1>1. ks \in Seq(Kinds) /\ here \in 1..Len(ks) /\ Kind = ks[here] /\ KindsOf' = ks
  BY StateFacts, SameSheet
<1> HIDE DEF ks
<1>2. OpenAt(ks, v, v, <<EndOf(ks[v])>>)
  BY <1>1, OpenBegins
<1>3. ends' # <<>> /\ Opens(ks[v])
  BY <1>1
<1> QED  BY <1>1, <1>2, <1>3 DEF Inside

LEMMA RuleBlockBegins ==
    ASSUME TypeInv, RuleInv, StartBlock
    PROVE  RuleInv'
<1> DEFINE ks == KindsOf
<1>1. /\ InPrelude /\ Kind = "{" /\ part' = "block" /\ ends' = <<EndOf(Kind)>> /\ sheet' = sheet
      /\ rule' = Kept("block") /\ pos' = here /\ fn' = fn /\ returned' = returned /\ Reading
  BY DEF StartBlock, Consume, InPrelude, Reading
<1>2. PICK i \in 1..Len(Tokens) : ReadsRule(i) /\ BetweenValues(i)
  BY <1>1, PreludeState
<1>3. /\ ~AtEnd /\ here \in Nat /\ here \in Nat \ {0} /\ here \in 1..Len(ks) /\ Kind = ks[here]
      /\ rule \in RuleType /\ here - 1 = pos /\ pos \in Nat /\ here = pos + 1 /\ Opens(Kind)
  BY <1>1, StateFacts, NotAtEnd DEF Opens
<1>4. rule.prelude = Positions(FirstOf(ks, i), here - 1) /\ rule.block = <<>>
  BY <1>2, <1>3 DEF BetweenValues
<1>5. StopOf(ks, i) = here
  <2>1. ks[here] \in StopsOf(ks, i)
    BY <1>1, <1>3 DEF StopsOf
  <2> QED  BY <1>2, <2>1, AtAValue
<1>6. rule'.at = rule.at /\ rule'.prelude = rule.prelude
      /\ rule'.block = Append(rule.block, here)
  BY <1>1, <1>3, KeptIs
<1>7. rule'.block = Positions(here, here)
  <2>1. Append(Positions(here, pos), pos + 1) = Positions(here, pos + 1)
    <3>1. here <= pos + 1
      BY <1>3
    <3> QED  BY <1>3, <3>1, PositionsGrow
  <2>2. Positions(here, pos) = <<>>
    BY <1>3, NoPositions
  <2> QED  BY <1>3, <1>4, <1>6, <2>1, <2>2
<1>8. PICK v \in 1..pos' : v = here
  BY <1>1, StateFacts, Zenon
<1>9. Reading' /\ Tokens' = Tokens /\ ReadsRule(i)' /\ KindsOf' = ks
  BY <1>1, <1>2, <1>6, SameRule, SameSheet
<1>10. Inside(v)'
  BY <1>1, <1>3, <1>8, InsideBegins
<1> HIDE DEF ks
<1>11. InBlockAt(i, v)'
  BY <1>1, <1>3, <1>4, <1>5, <1>6, <1>7, <1>8, <1>9, <1>10 DEF InBlockAt
<1> QED  BY <1>9, <1>11, ValueGoesOn

LEMMA StillBehind == \A a, b \in Nat : a <= b => a <= b + 1
  OBVIOUS

\* A value of the prelude that is no block and no function.
LEMMA RuleTakesToken ==
    ASSUME TypeInv, RuleInv, InPrelude, ~AtEnd, ~Opens(Kind), ~(fn = "atRule" /\ Kind = ";"),
           Kind # "{", rule' = Kept("prelude"), pos' = here,
           sheet' = sheet, fn' = fn, part' = part, ends' = <<>>, returned' = returned
    PROVE  RuleInv'
<1> DEFINE ks == KindsOf
<1>1. PICK i \in 1..Len(Tokens) : ReadsRule(i) /\ BetweenValues(i)
  BY PreludeState
<1>2. /\ here \in Nat /\ here \in 1..Len(ks) /\ Kind = ks[here] /\ ~(here > Len(Tokens))
      /\ rule \in RuleType
  BY StateFacts
<1>3. ks[here] \notin StopsOf(ks, i)
  BY <1>1, <1>2 DEF StopsOf, ReadsRule
<1>4. /\ StopOf(ks, i) = FirstValue(ks, here + 1, StopsOf(ks, i))
      /\ Append(rule.prelude, here) = Positions(FirstOf(ks, i), here)
      /\ FirstOf(ks, i) \in Nat
  BY <1>1, <1>2, <1>3, AtAValue
<1>5. /\ rule'.at = rule.at /\ rule'.block = rule.block
      /\ rule'.prelude = Append(rule.prelude, here)
  BY <1>2, KeptIs
<1>6. part = "prelude" /\ rule.block = <<>> /\ FirstOf(ks, i) <= here
  BY <1>1 DEF BetweenValues
<1>7. here' = here + 1 /\ FirstOf(ks, i) <= here + 1
  <2>1. here' = here + 1
    BY DEF here
  <2>2. FirstOf(ks, i) <= here + 1
    BY <1>2, <1>4, <1>6, StillBehind, Zenon
  <2> QED  BY <2>1, <2>2
<1>8. Reading' /\ Tokens' = Tokens /\ ReadsRule(i)' /\ KindsOf' = ks
  BY <1>1, <1>5, SameRule, SameSheet DEF InPrelude, Reading
<1> HIDE DEF ks
<1>9. BetweenValues(i)'
  BY <1>4, <1>5, <1>6, <1>7, <1>8 DEF BetweenValues, StopOf
<1> QED  BY <1>8, <1>9, PreludeGoesOn

LEMMA RuleTakesBrace ==
    ASSUME TypeInv, RuleInv, StrayBrace
    PROVE  RuleInv'
<1>1. /\ InPrelude /\ Kind = "}" /\ rule' = Kept("prelude") /\ pos' = here /\ sheet' = sheet
      /\ fn' = fn /\ part' = part /\ ends' = <<>> /\ returned' = returned
  BY DEF StrayBrace, Consume, InPrelude
<1>2. ~AtEnd /\ ~Opens(Kind)
  BY <1>1, NotAtEnd DEF Opens
<1> QED  BY <1>1, <1>2, RuleTakesToken

LEMMA RuleTakesValue ==
    ASSUME TypeInv, RuleInv, PreludeValue
    PROVE  RuleInv'
<1> DEFINE ks == KindsOf
<1>1. /\ InPrelude /\ rule' = Kept("prelude") /\ pos' = here /\ sheet' = sheet
      /\ fn' = fn /\ part' = part /\ returned' = returned
      /\ ends' = IF Opens(Kind) THEN <<EndOf(Kind)>> ELSE <<>>
      /\ Kind \notin {EOF, "{", "}"} /\ ~(fn = "atRule" /\ Kind = ";")
  BY DEF PreludeValue, Consume, StopsRule
<1>2. ~AtEnd
  BY <1>1, NotAtEnd DEF EOF
<1>3. CASE ~Opens(Kind)
  BY <1>1, <1>2, <1>3, RuleTakesToken
<1>4. CASE Opens(Kind)
  <2>1. PICK i \in 1..Len(Tokens) : ReadsRule(i) /\ BetweenValues(i)
    BY <1>1, PreludeState
  <2>2. /\ here \in Nat /\ here \in Nat \ {0} /\ here \in 1..Len(ks) /\ Kind = ks[here]
        /\ rule \in RuleType /\ ~(here > Len(Tokens))
    BY <1>2, StateFacts
  <2>3. ks[here] \notin StopsOf(ks, i)
    BY <1>1, <2>1, <2>2 DEF StopsOf, ReadsRule
  <2>4. Append(rule.prelude, here) = Positions(FirstOf(ks, i), here)
    BY <2>1, AtAValue
  <2>5. /\ rule'.at = rule.at /\ rule'.block = rule.block
        /\ rule'.prelude = Append(rule.prelude, here)
    BY <1>1, <2>2, KeptIs
  <2>6. PICK v \in 1..pos' : v = here
    BY <1>1, StateFacts, Zenon
  <2>7. Reading' /\ Tokens' = Tokens /\ ReadsRule(i)' /\ KindsOf' = ks
    BY <1>1, <2>1, <2>5, SameRule, SameSheet DEF InPrelude, Reading
  <2>8. Inside(v)'
    BY <1>1, <1>2, <1>4, <2>6, InsideBegins
  <2>9. /\ part = "prelude" /\ rule.block = <<>> /\ FirstOf(ks, i) <= here
        /\ StopOf(ks, i) = FirstValue(ks, here, StopsOf(ks, i))
    BY <2>1 DEF BetweenValues
  <2> HIDE DEF ks
  <2>10. InValueAt(i, v)'
    BY <1>1, <2>3, <2>4, <2>5, <2>6, <2>7, <2>8, <2>9 DEF InValueAt, StopOf
  <2> QED  BY <2>7, <2>10, ValueGoesOn
<1> QED  BY <1>3, <1>4

-----------------------------------------------------------------------------
\* What a list that is made of two holds.
LEMMA ConcatElements ==
    ASSUME NEW T, NEW s \in Seq(T), NEW t \in Seq(T)
    PROVE  /\ s \o t \in Seq(T) /\ Len(s) \in Nat
           /\ \A k \in 1..Len(s) : k \in 1..Len(s \o t) /\ (s \o t)[k] = s[k]
           /\ \A j \in 1..Len(t) : Len(s) + j \in 1..Len(s \o t) /\ (s \o t)[Len(s) + j] = t[j]
           /\ \A k \in 1..Len(s \o t) :
                 k \in 1..Len(s) \/ \E j \in 1..Len(t) : k = Len(s) + j
<1>1. s \o t \in Seq(T) /\ Len(s \o t) = Len(s) + Len(t) /\ Len(s) \in Nat /\ Len(t) \in Nat
  BY ConcatProperties
<1>2. \A k \in 1..(Len(s) + Len(t)) :
         (s \o t)[k] = IF k <= Len(s) THEN s[k] ELSE t[k - Len(s)]
  BY ConcatProperties
<1>3. \A k \in 1..Len(s) : k \in 1..Len(s \o t) /\ (s \o t)[k] = s[k]
  BY <1>1, <1>2
<1>4. \A j \in 1..Len(t) : Len(s) + j \in 1..Len(s \o t) /\ (s \o t)[Len(s) + j] = t[j]
  <2> SUFFICES ASSUME NEW j \in 1..Len(t)
               PROVE  Len(s) + j \in 1..Len(s \o t) /\ (s \o t)[Len(s) + j] = t[j]
    OBVIOUS
  <2>1. Len(s) + j \in 1..(Len(s) + Len(t)) /\ ~(Len(s) + j <= Len(s)) /\ Len(s) + j - Len(s) = j
    BY <1>1
  <2> QED  BY <1>1, <1>2, <2>1
<1>5. \A k \in 1..Len(s \o t) : k \in 1..Len(s) \/ \E j \in 1..Len(t) : k = Len(s) + j
  <2> SUFFICES ASSUME NEW k \in 1..Len(s \o t), k \notin 1..Len(s)
               PROVE  \E j \in 1..Len(t) : k = Len(s) + j
    OBVIOUS
  <2>1. k - Len(s) \in 1..Len(t) /\ k = Len(s) + (k - Len(s))
    BY <1>1
  <2> QED  BY <2>1
<1> QED  BY <1>1, <1>3, <1>4, <1>5

\* In a block or function.
LEMMA InsideAt ==
    ASSUME TypeInv, NEW v \in 1..pos, Inside(v)
    PROVE  /\ v \in 1..Len(KindsOf) /\ pos \in v..Len(KindsOf) /\ ends # <<>>
           /\ v \in Nat \ {0} /\ v <= pos + 1
<1> DEFINE ks == KindsOf
<1>1. Len(ks) \in Nat /\ pos \in 0..Len(ks)
  BY StateFacts
<1> HIDE DEF ks
<1>2. v \in 1..Len(ks) /\ pos \in v..Len(ks) /\ v \in Nat \ {0} /\ v <= pos + 1
  BY <1>1
<1> QED  BY <1>2 DEF Inside, ks

LEMMA InsideFacts ==
    ASSUME TypeInv, NEW i \in 1..Len(Tokens), NEW v \in 1..pos,
           InValueAt(i, v) \/ InBlockAt(i, v)
    PROVE  /\ i \in 1..Len(KindsOf) /\ v \in 1..Len(KindsOf) /\ pos \in v..Len(KindsOf)
           /\ FirstOf(KindsOf, i) \in Nat \ {0} /\ v \in Nat \ {0} /\ v <= pos + 1
           /\ InValueAt(i, v) => FirstOf(KindsOf, i) <= pos + 1 /\ FirstOf(KindsOf, i) <= here + 1
           /\ Inside(v) /\ ends # <<>>
<1> DEFINE ks == KindsOf
           first == FirstOf(ks, i)
<1>1. ks \in Seq(Kinds) /\ Len(ks) = Len(Tokens) /\ Len(ks) \in Nat /\ pos \in 0..Len(ks)
      /\ here = pos + 1
  BY StateFacts
<1>2. Inside(v) /\ ends # <<>>
  BY DEF InValueAt, InBlockAt, Inside
<1>3. InValueAt(i, v) => first <= v
  BY DEF InValueAt
<1> HIDE DEF ks
<1>4. i \in 1..Len(ks)
  BY <1>1
<1>5. first \in i..(i + 1)
  BY <1>1, <1>4, RuleEnds
<1> HIDE DEF first
<1>6. /\ v \in 1..Len(ks) /\ pos \in v..Len(ks) /\ first \in Nat \ {0} /\ v \in Nat \ {0}
      /\ v <= pos + 1 /\ (first <= v => first <= pos + 1 /\ first <= here + 1)
  BY <1>1, <1>4, <1>5
<1> QED  BY <1>2, <1>3, <1>4, <1>6 DEF ks, first

\* One token further.
LEMMA InsideGoesOn ==
    ASSUME TypeInv, ~AtEnd, NEW v \in 1..pos, Inside(v)
    PROVE  /\ OpenAt(KindsOf, v, here, Nest(ends, Kind)) /\ Nest(ends, Kind) \in Stacks
           /\ here \in v..Len(KindsOf)
<1> DEFINE ks == KindsOf
<1>1. /\ ks \in Seq(Kinds) /\ Len(ks) = Len(Tokens) /\ here = pos + 1 /\ Kind = ks[here]
      /\ pos < Len(ks) /\ ends \in Stacks /\ here \in 1..Len(ks)
  BY StateFacts
<1>2. v \in 1..Len(ks) /\ pos \in v..Len(ks) /\ ends # <<>>
  BY InsideAt
<1>3. OpenAt(ks, v, pos, ends)
  BY DEF Inside
<1> HIDE DEF ks
<1>4. OpenAt(ks, v, pos + 1, Nest(ends, ks[pos + 1]))
  BY <1>1, <1>2, <1>3, OpenGoesOn
<1>5. Nest(ends, Kind) \in Stacks
  BY <1>1, <1>2, NestType
<1>6. here \in v..Len(ks)
  BY <1>1, <1>2
<1> QED  BY <1>1, <1>4, <1>5, <1>6 DEF ks

\* The input ends.
LEMMA InsideAtEnd ==
    ASSUME TypeInv, AtEnd, NEW v \in 1..pos, Inside(v)
    PROVE  ValueLength(SubSeq(KindsOf, v, pos)) = [n |-> here - v, ok |-> FALSE]
<1> DEFINE ks == KindsOf
<1>1. ks \in Seq(Kinds) /\ here = pos + 1 /\ ends \in Stacks
  BY StateFacts
<1>2. v \in 1..Len(ks) /\ pos \in v..Len(ks) /\ pos \in pos..Len(ks) /\ ends # <<>>
  BY InsideAt
<1>3. CASE OpenAt(ks, v, pos, ends)
  <2> HIDE DEF ks
  <2>1. ValueLength(SubSeq(ks, v, pos)) = [n |-> pos + 1 - v, ok |-> ends = <<>>]
    BY <1>1, <1>2, <1>3, OpenStops
  <2>2. (ends = <<>>) = FALSE
    BY <1>2
  <2>3. pos + 1 - v = here - v
    BY <1>1, StateFacts
  <2> QED  BY <2>1, <2>2, <2>3, Zenon DEF ks
<1>4. CASE ~OpenAt(ks, v, pos, ends)
  BY <1>4 DEF Inside
<1> QED  BY <1>3, <1>4

LEMMA InsideTakesToken ==
    ASSUME TypeInv, ~AtEnd, NEW v \in 1..pos, Inside(v), sheet' = sheet, pos' = here,
           ends' = Nest(ends, Kind), ends' # <<>>
    PROVE  Inside(v)'
<1> DEFINE ks == KindsOf
<1>1. OpenAt(ks, v, here, Nest(ends, Kind)) /\ KindsOf' = ks
  BY InsideGoesOn, SameSheet
<1>2. Opens(ks[v])
  BY DEF Inside
<1> HIDE DEF ks
<1> QED  BY <1>1, <1>2 DEF Inside

LEMMA InsideStaysAtEnd ==
    ASSUME TypeInv, AtEnd, NEW v \in 1..pos, Inside(v), sheet' = sheet, pos' = pos,
           ends' # <<>>, errs' = errs \o BlockEndError
    PROVE  Inside(v)'
<1>1. here \in Nat /\ errs \in Seq(ErrorType) /\ here' = here
  BY StateFacts DEF here
<1>2. BlockEndError \in Seq(ErrorType) /\ Len(BlockEndError) = 1 /\ BlockEndError[1].at = here
  BY <1>1, ErrorsHere
<1>3. \E k \in 1..Len(errs') : errs'[k].at = here
  <2>1. 1 \in 1..Len(BlockEndError)
    BY <1>2
  <2>2. \A j \in 1..Len(BlockEndError) :
           /\ Len(errs) + j \in 1..Len(errs \o BlockEndError)
           /\ (errs \o BlockEndError)[Len(errs) + j] = BlockEndError[j]
    <3>1. errs \in Seq(ErrorType) /\ BlockEndError \in Seq(ErrorType)
      BY <1>1, <1>2
    <3> QED  BY <3>1, ConcatElements
  <2> QED  BY <1>2, <2>1, <2>2, Zenon
<1>4. ValueLength(SubSeq(KindsOf, v, pos)) = [n |-> here - v, ok |-> FALSE]
  BY InsideAtEnd
<1>5. AtEnd' /\ KindsOf' = KindsOf
  BY SameSheet DEF AtEnd
<1>6. Opens(KindsOf[v])
  BY DEF Inside
<1> QED  BY <1>1, <1>3, <1>4, <1>5, <1>6 DEF Inside

\* The block or function goes on, with another token.
LEMMA ValueTakesToken ==
    ASSUME TypeInv, RuleInv, ~AtEnd, ends # <<>>, rule' = Kept(part), pos' = here,
           ends' = Nest(ends, Kind), ends' # <<>>,
           sheet' = sheet, fn' = fn, part' = part, returned' = returned
    PROVE  RuleInv'
<1> DEFINE ks == KindsOf
<1>1. Reading
  BY BlockState
<1>2. PICK i \in 1..Len(Tokens) :
         ReadsRule(i) /\ \E v \in 1..pos : InValueAt(i, v) \/ InBlockAt(i, v)
  BY BlockState
<1>3. PICK v \in 1..pos : InValueAt(i, v) \/ InBlockAt(i, v)
  BY <1>2
<1>4. /\ FirstOf(ks, i) \in Nat \ {0} /\ v \in Nat \ {0} /\ v <= pos + 1
      /\ InValueAt(i, v) => FirstOf(ks, i) <= pos + 1
      /\ pos \in Nat /\ here = pos + 1 /\ rule \in RuleType /\ here \in Nat
      /\ part \in {"prelude", "block"}
  BY <1>3, InsideFacts, StateFacts DEF TypeInv
<1>5. Inside(v)'
  BY <1>3, InsideFacts, InsideTakesToken
<1>6. rule'.at = rule.at
  BY <1>4, KeptIs
<1>7. Reading' /\ Tokens' = Tokens /\ ReadsRule(i)' /\ KindsOf' = ks
  BY <1>1, <1>2, <1>6, SameRule, SameSheet
<1>8. PICK w \in 1..pos' : w = v
  <2>1. v \in 1..here
    <3>1. v \in 1..Len(ks) /\ pos \in v..Len(ks) /\ here = pos + 1
      BY <1>3, <1>4, InsideFacts
    <3> HIDE DEF ks
    <3> QED  BY <3>1
  <2> QED  BY <2>1, Zenon
<1>9. CASE InValueAt(i, v)
  <2>1. /\ part = "prelude" /\ FirstOf(ks, i) <= v
        /\ rule.prelude = Positions(FirstOf(ks, i), pos) /\ rule.block = <<>>
        /\ ks[v] \notin StopsOf(ks, i) /\ StopOf(ks, i) = FirstValue(ks, v, StopsOf(ks, i))
    BY <1>9 DEF InValueAt
  <2>2. rule'.prelude = Append(rule.prelude, here) /\ rule'.block = rule.block
    BY <1>4, <2>1, KeptIs
  <2>3. rule'.prelude = Positions(FirstOf(ks, i), here)
    BY <1>4, <1>9, <2>1, <2>2, PositionsGrow
  <2> HIDE DEF ks
  <2>4. InValueAt(i, v)'
    BY <1>5, <1>7, <2>1, <2>2, <2>3 DEF InValueAt, StopOf
  <2> QED  BY <1>7, <1>8, <2>4, ValueGoesOn
<1>10. CASE InBlockAt(i, v)
  <2>1. /\ part = "block" /\ v = StopOf(ks, i) /\ ks[v] = "{"
        /\ rule.prelude = Positions(FirstOf(ks, i), v - 1) /\ rule.block = Positions(v, pos)
    BY <1>10 DEF InBlockAt
  <2>2. rule'.block = Append(rule.block, here) /\ rule'.prelude = rule.prelude
    BY <1>4, <2>1, KeptIs
  <2>3. rule'.block = Positions(v, here)
    BY <1>4, <2>1, <2>2, PositionsGrow
  <2> HIDE DEF ks
  <2>4. InBlockAt(i, v)'
    BY <1>5, <1>7, <2>1, <2>2, <2>3 DEF InBlockAt
  <2> QED  BY <1>7, <1>8, <2>4, ValueGoesOn
<1> QED  BY <1>3, <1>9, <1>10

\* It ends in the prelude.
LEMMA PreludeAfterValue ==
    ASSUME TypeInv, sheet' = sheet, returned' = returned, fn' = fn, part' = part, ends' = <<>>,
           Reading, NEW i \in 1..Len(Tokens), ReadsRule(i), NEW v \in 1..pos, InValueAt(i, v),
           EndOfValue(KindsOf, v) = pos', here' = pos' + 1,
           FirstOf(KindsOf, i) <= here',
           rule'.at = rule.at, rule'.block = rule.block,
           rule'.prelude = Positions(FirstOf(KindsOf, i), pos')
    PROVE  RuleInv'
<1> DEFINE ks == KindsOf
<1>1. /\ part = "prelude" /\ rule.block = <<>>
      /\ ks[v] \notin StopsOf(ks, i) /\ StopOf(ks, i) = FirstValue(ks, v, StopsOf(ks, i))
  BY DEF InValueAt
<1>2. ks \in Seq(Kinds) /\ v \in 1..Len(ks)
  BY InsideFacts, StateFacts
<1>3. Reading' /\ Tokens' = Tokens /\ ReadsRule(i)' /\ KindsOf' = ks
  BY SameRule, SameSheet
<1> HIDE DEF ks
<1>4. v \in 1..(Len(ks) + 1) /\ ~(v > Len(ks))
  BY <1>2
<1>5. FirstValue(ks, v, StopsOf(ks, i)) = FirstValue(ks, EndOfValue(ks, v) + 1, StopsOf(ks, i))
  BY <1>1, <1>2, <1>4, FirstValueDef, Zenon
<1>6. StopOf(ks, i) = FirstValue(ks, here', StopsOf(ks, i))
  BY <1>1, <1>5 DEF ks
<1>7. BetweenValues(i)'
  BY <1>1, <1>3, <1>6 DEF BetweenValues, StopOf, ks
<1> QED  BY <1>3, <1>7, PreludeGoesOn

\* The block of the rule ends.
LEMMA BlockReturned ==
    ASSUME TypeInv, sheet' = sheet, ends' = <<>>,
           NEW i \in 1..Len(Tokens), ReadsRule(i), NEW v \in 1..pos, InBlockAt(i, v),
           EndOfValue(KindsOf, v) = pos', here' = pos' + 1, here' \in 1..(Len(Tokens) + 1),
           NEW r \in RuleType, r.at = rule.at, r.prelude = rule.prelude, r.block = Positions(v, pos'),
           NEW es \in Seq(ErrorType), Return(r, es)
    PROVE  RuleInv'
<1> DEFINE ks == KindsOf
<1>1. /\ v = StopOf(ks, i) /\ ks[v] = "{"
      /\ rule.prelude = Positions(FirstOf(ks, i), v - 1)
  BY DEF InBlockAt
<1>2. ks \in Seq(Kinds) /\ v \in 1..Len(ks) /\ i \in 1..Len(ks)
  BY InsideFacts, StateFacts
<1>3. Starts(ks, sheet.topLevel, i) /\ rule.at = IF ks[i] = "at" THEN i ELSE 0
  BY DEF ReadsRule
<1>4. EndOfValue(ks, v) \in v..Len(ks)
  BY <1>2, EndIsBehind
<1> HIDE DEF ks
<1>6. /\ BlockOf(ks, i) = Positions(v, EndOfValue(ks, v))
      /\ RulesFrom(ks, sheet.topLevel)[i]
            = <<RuleAt(ks, i)>> \o RulesFrom(ks, sheet.topLevel)[EndOfValue(ks, v) + 1]
  BY <1>1, <1>2, <1>3, RuleWithBlock, Zenon
<1>7. RuleAt(ks, i) \in RuleType
  BY <1>2, RuleAtType
<1>8. /\ RuleAt(ks, i).at = rule.at /\ RuleAt(ks, i).prelude = rule.prelude
      /\ RuleAt(ks, i).block = BlockOf(ks, i)
  BY <1>1, <1>3 DEF RuleAt
<1>9. r = RuleAt(ks, i)
  <2>1. r.block = RuleAt(ks, i).block
    BY <1>6, <1>8 DEF ks
  <2> QED  BY <1>7, <1>8, <2>1, RuleEqual
<1>10. r # NoRule
  <2>1. Positions(v, EndOfValue(ks, v)) # <<>>
    BY <1>2, <1>4, SomePositions
  <2> QED  BY <2>1, EmptyRuleIs DEF NoRule, ks
<1>11. All[i] = <<r>> \o All[here']
  BY <1>6, <1>9 DEF All, ks
<1> QED  BY <1>10, <1>11, RuleReturned

\* Where the value ends, by the grammar and by ValueLength.
LEMMA ClosedHere ==
    ASSUME TypeInv, ~AtEnd, Nest(ends, Kind) = <<>>, NEW v \in 1..pos, Inside(v)
    PROVE  /\ EndOfValue(KindsOf, v) = here /\ here \in v..Len(KindsOf)
           /\ ValueLength(SubSeq(KindsOf, v, here)) = [n |-> here + 1 - v, ok |-> TRUE]
<1> DEFINE ks == KindsOf
           stack == Nest(ends, Kind)
<1>1. /\ ks \in Seq(Kinds) /\ v \in 1..Len(ks) /\ here \in v..Len(ks) /\ OpenAt(ks, v, here, stack)
      /\ stack \in Stacks /\ stack = <<>>
  BY InsideAt, InsideGoesOn, StateFacts
<1> HIDE DEF ks, stack
<1>2. here \in here..Len(ks) /\ Len(ks) \in here..Len(ks)
  BY <1>1
<1>3. \A n \in here..Len(ks) :
         ValueLength(SubSeq(ks, v, n)) = [n |-> here + 1 - v, ok |-> stack = <<>>]
  BY <1>1, OpenStops
<1>4. (stack = <<>>) = TRUE
  BY <1>1
<1>5. \A n \in here..Len(ks) : ValueLength(SubSeq(ks, v, n)) = [n |-> here + 1 - v, ok |-> TRUE]
  BY <1>3, <1>4, Zenon
<1>6. ValueLength(SubSeq(ks, v, Len(ks))).n = here + 1 - v
  BY <1>2, <1>5
<1>7. EndOfValue(ks, v) = here
  BY <1>1, <1>6, EndFound
<1> QED  BY <1>1, <1>2, <1>5, <1>7, Zenon DEF ks

LEMMA CutOffHere ==
    ASSUME TypeInv, AtEnd, NEW v \in 1..pos, Inside(v)
    PROVE  EndOfValue(KindsOf, v) = pos
<1> DEFINE ks == KindsOf
<1>1. /\ ks \in Seq(Kinds) /\ v \in 1..Len(ks) /\ pos \in v..Len(ks) /\ here = pos + 1
      /\ pos = Len(ks)
  BY InsideAt, StateFacts
<1>2. ValueLength(SubSeq(ks, v, pos)) = [n |-> here - v, ok |-> FALSE]
  BY InsideAtEnd
<1> HIDE DEF ks
<1>3. here - v = pos + 1 - v
  BY <1>1
<1>4. ValueLength(SubSeq(ks, v, Len(ks))).n = pos + 1 - v
  BY <1>1, <1>2, <1>3
<1>5. EndOfValue(ks, v) = pos
  BY <1>1, <1>4, EndFound
<1> QED  BY <1>5 DEF ks

LEMMA RuleClosesBlock ==
    ASSUME TypeInv, RuleInv, CloseBlock
    PROVE  RuleInv'
<1>1. /\ ends # <<>> /\ Kind = Last(ends) /\ ~AtEnd /\ pos' = here /\ Close(Kept(part), TokenError)
      /\ Reading
  BY NotAtEnd, BlockState DEF CloseBlock, InBlock, IsEnd, Consume
<1>2. /\ here \in Nat /\ rule \in RuleType /\ part \in {"prelude", "block"} /\ pos \in Nat
      /\ here = pos + 1 /\ here + 1 \in 1..(Len(Tokens) + 1) /\ here' = here + 1
  BY <1>1, StateFacts DEF TypeInv, here
<1>3. Kept(part) \in RuleType /\ TokenError \in Seq(ErrorType) /\ Kept(part).at = rule.at
  BY <1>2, KeptIs, ErrorsHere
<1>4. /\ sheet' = sheet /\ part' = part /\ ends' = Front(ends) /\ errs \o TokenError \in Seq(ErrorType)
      /\ IF Len(ends) = 1 /\ part = "block" THEN Return(Kept(part), errs \o TokenError)
         ELSE rule' = Kept(part) /\ fn' = fn /\ returned' = returned
      /\ Len(ends) = 1 <=> Front(ends) = <<>>
  BY <1>1, <1>3, Closes
<1>5. Nest(ends, Kind) = Front(ends)
  BY <1>1 DEF Nest
<1>6. CASE Front(ends) # <<>>
  BY <1>1, <1>4, <1>5, <1>6, ValueTakesToken
<1>7. CASE Front(ends) = <<>>
  <2>1. PICK i \in 1..Len(Tokens) :
           ReadsRule(i) /\ \E v \in 1..pos : InValueAt(i, v) \/ InBlockAt(i, v)
    BY <1>1, BlockState
  <2>2. PICK v \in 1..pos : InValueAt(i, v) \/ InBlockAt(i, v)
    BY <2>1
  <2>3. EndOfValue(KindsOf, v) = here
    BY <1>1, <1>5, <1>7, <2>2, InsideFacts, ClosedHere
  <2>4. /\ FirstOf(KindsOf, i) \in Nat \ {0} /\ v \in Nat \ {0} /\ v <= pos + 1
        /\ InValueAt(i, v) => FirstOf(KindsOf, i) <= pos + 1 /\ FirstOf(KindsOf, i) <= here + 1
    BY <2>2, InsideFacts
  <2>5. CASE InValueAt(i, v)
    <3>1. part = "prelude" /\ rule.prelude = Positions(FirstOf(KindsOf, i), pos)
      BY <2>5 DEF InValueAt
    <3>2. rule' = Kept("prelude") /\ fn' = fn /\ returned' = returned
      BY <1>4, <3>1
    <3>3. rule'.at = rule.at /\ rule'.block = rule.block
          /\ rule'.prelude = Append(rule.prelude, here)
      BY <1>2, <3>2, KeptIs
    <3>4. rule'.prelude = Positions(FirstOf(KindsOf, i), here)
      BY <1>2, <2>4, <2>5, <3>1, <3>3, PositionsGrow
    <3>5. EndOfValue(KindsOf, v) = pos' /\ here' = pos' + 1 /\ FirstOf(KindsOf, i) <= here'
          /\ rule'.prelude = Positions(FirstOf(KindsOf, i), pos') /\ ends' = <<>>
      BY <1>1, <1>2, <1>4, <1>7, <2>3, <2>4, <2>5, <3>4
    <3> QED  BY <1>1, <1>4, <2>1, <2>5, <3>2, <3>3, <3>5, PreludeAfterValue
  <2>6. CASE InBlockAt(i, v)
    <3>1. part = "block" /\ rule.block = Positions(v, pos)
      BY <2>6 DEF InBlockAt
    <3>2. Return(Kept("block"), errs \o TokenError) /\ Kept("block") \in RuleType
      BY <1>3, <1>4, <1>7, <3>1
    <3>3. /\ Kept("block").at = rule.at /\ Kept("block").prelude = rule.prelude
          /\ Kept("block").block = Append(rule.block, here)
      BY <1>2, KeptIs
    <3>4. Kept("block").block = Positions(v, here)
      BY <1>2, <2>4, <3>1, <3>3, PositionsGrow
    <3>5. EndOfValue(KindsOf, v) = pos' /\ here' = pos' + 1 /\ here' \in 1..(Len(Tokens) + 1)
          /\ Kept("block").block = Positions(v, pos') /\ ends' = <<>>
      BY <1>1, <1>2, <1>4, <1>7, <2>3, <3>4
    <3> QED  BY <1>4, <2>1, <2>6, <3>2, <3>3, <3>5, BlockReturned
  <2> QED  BY <2>2, <2>5, <2>6
<1> QED  BY <1>6, <1>7

LEMMA RuleEndsInBlock ==
    ASSUME TypeInv, RuleInv, EndInBlock
    PROVE  RuleInv'
<1>1. /\ ends # <<>> /\ AtEnd /\ pos' = pos /\ Close(rule, BlockEndError) /\ Reading
  BY BlockState DEF EndInBlock, InBlock, Leave
<1>2. /\ here \in Nat /\ rule \in RuleType /\ part \in {"prelude", "block"} /\ pos \in Nat
      /\ here = pos + 1 /\ here \in 1..(Len(Tokens) + 1) /\ here' = here
      /\ errs \in Seq(ErrorType)
  BY <1>1, StateFacts DEF TypeInv, here
<1>3. BlockEndError \in Seq(ErrorType) /\ Len(BlockEndError) = 1 /\ BlockEndError[1].at = here
  BY <1>1, <1>2, ErrorsHere
<1>4. /\ sheet' = sheet /\ part' = part /\ ends' = Front(ends)
      /\ errs \o BlockEndError \in Seq(ErrorType)
      /\ IF Len(ends) = 1 /\ part = "block" THEN Return(rule, errs \o BlockEndError)
         ELSE /\ rule' = rule /\ fn' = fn /\ returned' = returned
              /\ errs' = errs \o BlockEndError
      /\ Len(ends) = 1 <=> Front(ends) = <<>>
  BY <1>1, <1>2, <1>3, Closes
<1>5. PICK i \in 1..Len(Tokens) :
         ReadsRule(i) /\ \E v \in 1..pos : InValueAt(i, v) \/ InBlockAt(i, v)
  BY <1>1, BlockState
<1>6. PICK v \in 1..pos : InValueAt(i, v) \/ InBlockAt(i, v)
  BY <1>5
<1>7. EndOfValue(KindsOf, v) = pos
  BY <1>1, <1>6, InsideFacts, CutOffHere
<1>8. CASE Front(ends) # <<>>
  <2>1. rule' = rule /\ fn' = fn /\ returned' = returned /\ errs' = errs \o BlockEndError
    BY <1>4, <1>8
  <2>2. Reading' /\ Tokens' = Tokens /\ ReadsRule(i)' /\ KindsOf' = KindsOf
    BY <1>1, <1>4, <1>5, <2>1, SameRule, SameSheet
  <2>7. Inside(v)'
    BY <1>1, <1>4, <1>6, <1>8, <2>1, InsideFacts, InsideStaysAtEnd
  <2>8. InValueAt(i, v)' \/ InBlockAt(i, v)'
    <3>1. InValueAt(i, v) => InValueAt(i, v)'
      BY <1>1, <1>4, <2>1, <2>2, <2>7 DEF InValueAt, StopOf
    <3>2. InBlockAt(i, v) => InBlockAt(i, v)'
      BY <1>1, <1>4, <2>1, <2>2, <2>7 DEF InBlockAt, StopOf
    <3> QED  BY <1>6, <3>1, <3>2
  <2>9. PICK w \in 1..pos' : w = v
    BY <1>1, Zenon
  <2> QED  BY <2>2, <2>8, <2>9, ValueGoesOn
<1>9. CASE Front(ends) = <<>>
  <2>1. here' = pos' + 1
    BY DEF here
  <2>2. CASE InValueAt(i, v)
    <3>1. part = "prelude" /\ rule.prelude = Positions(FirstOf(KindsOf, i), pos)
      BY <2>2 DEF InValueAt
    <3>2. rule' = rule /\ fn' = fn /\ returned' = returned
      BY <1>4, <3>1
    <3>3. FirstOf(KindsOf, i) <= here'
      BY <1>2, <1>6, <2>2, InsideFacts
    <3> QED  BY <1>1, <1>4, <1>5, <1>7, <1>9, <2>1, <2>2, <3>1, <3>2, <3>3, PreludeAfterValue
  <2>3. CASE InBlockAt(i, v)
    <3>1. part = "block" /\ rule.block = Positions(v, pos)
      BY <2>3 DEF InBlockAt
    <3>2. Return(rule, errs \o BlockEndError)
      BY <1>4, <1>9, <3>1
    <3> QED  BY <1>1, <1>2, <1>4, <1>5, <1>7, <1>9, <2>1, <2>3, <3>1, <3>2, BlockReturned
  <2> QED  BY <1>6, <2>2, <2>3
<1> QED  BY <1>8, <1>9

LEMMA RuleInBlock ==
    ASSUME TypeInv, RuleInv, BlockValue
    PROVE  RuleInv'
<1>1. /\ ends # <<>> /\ ~AtEnd /\ Kind # Last(ends) /\ rule' = Kept(part) /\ pos' = here
      /\ sheet' = sheet /\ fn' = fn /\ part' = part /\ returned' = returned
      /\ ends' = IF Opens(Kind) THEN Append(ends, EndOf(Kind)) ELSE ends
  BY DEF BlockValue, InBlock, IsEnd, Consume
<1>2. ends' = Nest(ends, Kind)
  BY <1>1 DEF Nest
<1>3. ends' # <<>>
  <2>1. Opens(Kind) => Append(ends, EndOf(Kind)) # <<>>
    <3>1. ends \in Stacks
      BY StateFacts
    <3> QED  BY <3>1, EndsAreClosers, StackPushed
  <2> QED  BY <1>1, <2>1, Zenon
<1> QED  BY <1>1, <1>2, <1>3, ValueTakesToken

LEMMA RuleNext == TypeInv /\ RuleInv /\ [Next]_vars => RuleInv'
<1> SUFFICES ASSUME TypeInv, RuleInv, [Next]_vars PROVE RuleInv'
  OBVIOUS
<1>1. CASE UNCHANGED vars
  <2>1. KindsOf' = KindsOf /\ Tokens' = Tokens /\ All' = All /\ Got' = Got
    BY <1>1, SameSheet DEF vars
  <2> QED  BY <1>1, <2>1 DEF vars, RuleInv, Reading, ReadsRule, BetweenValues, InValueAt, InBlockAt,
                             Inside, here, AtEnd, StopOf
<1> QED  BY <1>1, RuleSkip, RuleAtTheEnd, RuleBegins, RuleWithoutBlockEnds, NoRuleEnds,
            RuleBlockBegins, RuleTakesBrace, RuleTakesValue, RuleClosesBlock, RuleEndsInBlock,
            RuleInBlock DEF Next

-----------------------------------------------------------------------------
\* io.EOF is no error of a block.
NoneEOF(es) == \A k \in 1..Len(es) : es[k].what # "EOF"

LEMMA NoneOfBoth ==
    ASSUME NEW s \in Seq(ErrorType), NEW t \in Seq(ErrorType), NoneEOF(s), NoneEOF(t)
    PROVE  NoneEOF(s \o t)
<1> SUFFICES ASSUME NEW k \in 1..Len(s \o t) PROVE (s \o t)[k].what # "EOF"
  BY DEF NoneEOF
<1>1. k \in 1..Len(s) \/ \E j \in 1..Len(t) : k = Len(s) + j
  BY ConcatElements, Zenon
<1>2. CASE k \in 1..Len(s)
  <2>1. (s \o t)[k] = s[k]
    BY <1>2, ConcatElements
  <2> QED  BY <1>2, <2>1 DEF NoneEOF
<1>3. CASE \E j \in 1..Len(t) : k = Len(s) + j
  <2>1. PICK j \in 1..Len(t) : k = Len(s) + j
    BY <1>3
  <2>2. (s \o t)[k] = t[j]
    BY <2>1, ConcatElements
  <2> QED  BY <2>1, <2>2 DEF NoneEOF
<1> QED  BY <1>1, <1>2, <1>3

LEMMA NoneSoFar ==
    ASSUME TypeInv, NoEOF
    PROVE  /\ ~AtEnd \/ fn # "NextRule" => NoneEOF(errs)
           /\ ~AtEnd => NoneEOF(TokenError) /\ NoneEOF(errs \o TokenError)
           /\ fn # "NextRule" => NoneEOF(errs \o BlockEndError)
           /\ NoneEOF(<<Err("unexpected }")>>)
<1>1. ~AtEnd \/ fn # "NextRule" => NoneEOF(errs)
  BY DEF NoEOF, NoneEOF
<1>2. here \in Nat /\ errs \in Seq(ErrorType)
  BY StateFacts
<1>3. /\ TokenError \in Seq(ErrorType) /\ BlockEndError \in Seq(ErrorType)
      /\ ~AtEnd => NoneEOF(TokenError) /\ NoneEOF(BlockEndError)
  BY <1>2, ErrorsHere DEF NoneEOF
<1>4. ~AtEnd => NoneEOF(errs \o TokenError)
  BY <1>1, <1>2, <1>3, NoneOfBoth
<1>5. NoneEOF(BlockEndError)
  BY <1>2, ErrorsHere DEF NoneEOF
<1>6. fn # "NextRule" => NoneEOF(errs \o BlockEndError)
  BY <1>1, <1>2, <1>3, <1>5, NoneOfBoth
<1>7. NoneEOF(<<Err("unexpected }")>>)
  <2>1. Err("unexpected }").what # "EOF"
    BY DEF Err
  <2>2. \A e : \A k \in 1..Len(<<e>>) : <<e>>[k] = e
    OBVIOUS
  <2> QED  BY <2>1, <2>2 DEF NoneEOF
<1> QED  BY <1>1, <1>3, <1>4, <1>6, <1>7

LEMMA EOFNext == TypeInv /\ RuleInv /\ NoEOF /\ [Next]_vars => NoEOF'
<1> SUFFICES ASSUME TypeInv, RuleInv, NoEOF, [Next]_vars PROVE NoEOF'
  OBVIOUS
<1>1. ASSUME NoneEOF(errs') PROVE NoEOF'
  BY <1>1 DEF NoEOF, NoneEOF
<1>2. ASSUME errs' = <<>> PROVE NoEOF'
  BY <1>1, <1>2 DEF NoneEOF
<1>3. ASSUME ~AtEnd, errs' = errs \o TokenError PROVE NoEOF'
  BY <1>1, <1>3, NoneSoFar
<1>4. CASE SkipToken
  BY <1>3, <1>4, NotAtEnd DEF SkipToken, Collect
<1>5. CASE EndOfSheet
  BY <1>2, <1>5 DEF EndOfSheet, Return
<1>6. CASE StartAtRule
  BY <1>3, <1>6, NotAtEnd DEF StartAtRule, Collect
<1>7. CASE StartQualifiedRule
  BY <1>3, <1>7 DEF StartQualifiedRule, Collect
<1>8. CASE EndAtRule
  BY <1>2, <1>8 DEF EndAtRule, Return
<1>9. CASE EndQualifiedRule
  <2>1. sheet' = sheet /\ pos' = pos /\ AtEnd /\ fn' = "NextRule"
    BY <1>9 DEF EndQualifiedRule, Leave
  <2>2. AtEnd'
    BY <2>1 DEF AtEnd, Tokens
  <2> QED  BY <2>1, <2>2 DEF NoEOF
<1>10. CASE StartBlock
  BY <1>3, <1>10, NotAtEnd DEF StartBlock, Collect
<1>11. CASE StrayBrace
  <2> DEFINE more == IF fn = "qualifiedRule" THEN <<Err("unexpected }")>> ELSE <<>>
  <2>1. ~AtEnd /\ errs' = errs \o TokenError \o more
    BY <1>11, NotAtEnd DEF StrayBrace
  <2>2. more \in Seq(ErrorType) /\ NoneEOF(more)
    <3>1. /\ <<Err("unexpected }")>> \in Seq(ErrorType) /\ NoneEOF(<<Err("unexpected }")>>)
      BY ErrorsHere, NoneSoFar, StateFacts
    <3>2. <<>> \in Seq(ErrorType) /\ NoneEOF(<<>>)
      BY DEF NoneEOF
    <3> QED  BY <3>1, <3>2, Zenon
  <2>3. NoneEOF(errs \o TokenError) /\ errs \o TokenError \in Seq(ErrorType)
    BY <2>1, NoneSoFar, ErrorsHere, StateFacts, ConcatProperties
  <2> HIDE DEF more
  <2> QED  BY <1>1, <2>1, <2>2, <2>3, NoneOfBoth
<1>12. CASE PreludeValue
  BY <1>3, <1>12, NotAtEnd DEF PreludeValue, Collect, StopsRule, EOF
<1>13. CASE CloseBlock
  <2>1. ~AtEnd /\ (errs' = <<>> \/ errs' = errs \o TokenError)
    BY <1>13, NotAtEnd DEF CloseBlock, InBlock, Close, Return
  <2> QED  BY <1>2, <1>3, <2>1
<1>14. CASE EndInBlock
  <2>1. fn # "NextRule" /\ (errs' = <<>> \/ errs' = errs \o BlockEndError)
    BY <1>14, BlockState DEF EndInBlock, InBlock, Close, Return, Reading
  <2> QED  BY <1>1, <1>2, <2>1, NoneSoFar
<1>15. CASE BlockValue
  <2>1. ~AtEnd /\ errs' = errs
    BY <1>15 DEF BlockValue
  <2> QED  BY <1>1, <2>1, NoneSoFar
<1>16. CASE UNCHANGED vars
  BY <1>16 DEF vars, NoEOF, AtEnd, Tokens
<1> QED  BY <1>4, <1>5, <1>6, <1>7, <1>8, <1>9, <1>10, <1>11, <1>12, <1>13, <1>14, <1>15, <1>16
         DEF Next

-----------------------------------------------------------------------------
\* The kinds at positions that follow each other are a slice.
LEMMA KindsAtIs ==
    ASSUME sheet \in Sheets, NEW v \in 1..Len(KindsOf), NEW p \in v..Len(KindsOf)
    PROVE  KindsAt(Positions(v, p)) = SubSeq(KindsOf, v, p) /\ Len(Positions(v, p)) = p + 1 - v
<1> DEFINE ks == KindsOf
           s == Positions(v, p)
           t == KindsAt(s)
           n == p + 1 - v
<1>1. /\ ks \in Seq(Kinds) /\ Len(ks) = Len(Tokens)
      /\ \A i \in 1..Len(ks) : ks[i] = Tokens[i].kind /\ ks[i] \in Kinds
  BY SheetFacts
<1> HIDE DEF ks
<1>2. v \in Nat \ {0} /\ p \in Nat /\ v <= p + 1 /\ n \in Nat
      /\ \A i \in 1..n : v + i - 1 \in 1..Len(ks)
  BY <1>1 DEF ks
<1>3. s \in Seq(Nat) /\ Len(s) = n /\ \A i \in 1..n : s[i] = v + i - 1
  BY <1>2, PositionsType
<1> HIDE DEF s
<1>4. \A i \in 1..n : Tokens[s[i]].kind = ks[v + i - 1] /\ ks[v + i - 1] \in Kinds
  BY <1>1, <1>2, <1>3
<1>5. t = [i \in 1..n |-> Tokens[s[i]].kind]
  BY <1>3, Zenon DEF KindsAt
<1>6. t \in [1..n -> Kinds] /\ \A i \in 1..n : t[i] = ks[v + i - 1]
  BY <1>4, <1>5
<1> HIDE DEF t, n
<1>7. t \in Seq(Kinds) /\ Len(t) = n
  BY <1>2, <1>6
<1>8. /\ SubSeq(ks, v, p) \in Seq(Kinds) /\ Len(SubSeq(ks, v, p)) = n
      /\ \A i \in 1..n : SubSeq(ks, v, p)[i] = ks[v + i - 1]
  BY <1>1, SliceFrom DEF ks, n
<1>9. t = SubSeq(ks, v, p)
  BY <1>2, <1>6, <1>7, <1>8, SeqEqual
<1> QED  BY <1>3, <1>9 DEF ks, s, t, n

LEMMA CallReturned ==
    ASSUME TypeInv, BlocksInv, sheet' = sheet, NEW r \in RuleType, NEW es \in Seq(ErrorType),
           Return(r, es), BlockIsValue([rule |-> r, errs |-> es])
    PROVE  BlocksInv'
<1> DEFINE call == [rule |-> r, errs |-> es]
<1>1. returned' = Append(returned, call) /\ returned \in Seq(CallType) /\ call \in CallType
  BY Returns DEF TypeInv
<1>2. Tokens' = Tokens
  BY SameSheet
<1> HIDE DEF call
<1>3. /\ Len(returned') = Len(returned) + 1 /\ Len(returned) \in Nat
      /\ \A c \in 1..Len(returned) : returned'[c] = returned[c]
      /\ returned'[Len(returned) + 1] = call
  BY <1>1, AppendProperties
<1>4. \A c \in 1..Len(returned') : BlockIsValue(returned'[c])
  <2> SUFFICES ASSUME NEW c \in 1..Len(returned') PROVE BlockIsValue(returned'[c])
    OBVIOUS
  <2>1. c \in 1..Len(returned) \/ c = Len(returned) + 1
    BY <1>3
  <2>2. \A x \in 1..Len(returned) : BlockIsValue(returned'[x])
    BY <1>3 DEF BlocksInv
  <2>3. BlockIsValue(returned'[Len(returned) + 1])
    BY <1>3 DEF call
  <2> QED  BY <2>1, <2>2, <2>3
<1>5. \A c \in 1..Len(returned') : BlockIsValue(returned[c])'
  BY <1>2, <1>4 DEF BlockIsValue, KindsAt
<1> QED  BY <1>5 DEF BlocksInv

LEMMA NoCallReturned ==
    ASSUME BlocksInv, sheet' = sheet, returned' = returned
    PROVE  BlocksInv'
<1>1. Tokens' = Tokens
  BY SameSheet
<1> QED  BY <1>1 DEF BlocksInv, BlockIsValue, KindsAt

LEMMA BlocksNext == TypeInv /\ RuleInv /\ NoEOF /\ BlocksInv /\ [Next]_vars => BlocksInv'
<1> SUFFICES ASSUME TypeInv, RuleInv, NoEOF, BlocksInv, [Next]_vars PROVE BlocksInv'
  OBVIOUS
<1>1. /\ here \in Nat /\ rule \in RuleType /\ errs \in Seq(ErrorType) /\ NoRule \in RuleType
      /\ NoRule.block = <<>> /\ part \in {"prelude", "block"} /\ sheet \in Sheets
  BY StateFacts, EmptyRuleIs DEF NoRule, TypeInv
<1>2. /\ TokenError \in Seq(ErrorType) /\ BlockEndError \in Seq(ErrorType)
      /\ errs \o TokenError \in Seq(ErrorType) /\ errs \o BlockEndError \in Seq(ErrorType)
  BY <1>1, ErrorsHere, ConcatProperties
<1>3. ASSUME NEW r \in RuleType, Return(r, errs \o TokenError), r.block = <<>>, sheet' = sheet
      PROVE  BlocksInv'
  <2>1. BlockIsValue([rule |-> r, errs |-> errs \o TokenError])
    BY <1>3 DEF BlockIsValue
  <2> QED  BY <1>2, <1>3, <2>1, CallReturned
<1>4. CASE EndOfSheet
  BY <1>1, <1>3, <1>4 DEF EndOfSheet
<1>5. CASE EndAtRule
  <2>1. rule.block = <<>>
    BY <1>5, PreludeState DEF EndAtRule, BetweenValues
  <2> QED  BY <1>1, <1>3, <1>5, <2>1 DEF EndAtRule
<1>6. ASSUME ends # <<>>, NEW r \in RuleType, NEW es \in Seq(ErrorType), Close(r, es),
             Len(ends) = 1 /\ part = "block" => BlockIsValue([rule |-> r, errs |-> errs \o es])
      PROVE  BlocksInv'
  <2>1. /\ sheet' = sheet /\ errs \o es \in Seq(ErrorType)
        /\ IF Len(ends) = 1 /\ part = "block" THEN Return(r, errs \o es)
           ELSE returned' = returned
    BY <1>6, Closes
  <2>2. CASE Len(ends) = 1 /\ part = "block"
    BY <1>6, <2>1, <2>2, CallReturned
  <2>3. CASE ~(Len(ends) = 1 /\ part = "block")
    BY <2>1, <2>3, NoCallReturned
  <2> QED  BY <2>2, <2>3
<1>7. ASSUME ends # <<>>, part = "block"
      PROVE  \E i \in 1..Len(Tokens) : \E v \in 1..pos :
                InBlockAt(i, v) /\ rule.block = Positions(v, pos)
  <2>1. PICK i \in 1..Len(Tokens) : \E v \in 1..pos : InValueAt(i, v) \/ InBlockAt(i, v)
    BY <1>7, BlockState
  <2> QED  BY <1>7, <2>1 DEF InValueAt, InBlockAt
<1>8. CASE CloseBlock
  <2>1. /\ ends # <<>> /\ Kind = Last(ends) /\ ~AtEnd /\ Close(Kept(part), TokenError)
    BY <1>8, NotAtEnd DEF CloseBlock, InBlock, IsEnd
  <2>2. ASSUME Len(ends) = 1, part = "block"
        PROVE  BlockIsValue([rule |-> Kept(part), errs |-> errs \o TokenError])
    <3>1. PICK i \in 1..Len(Tokens) : \E v \in 1..pos :
             InBlockAt(i, v) /\ rule.block = Positions(v, pos)
      BY <1>7, <2>1, <2>2
    <3>2. PICK v \in 1..pos : InBlockAt(i, v) /\ rule.block = Positions(v, pos)
      BY <3>1
    <3>3. Nest(ends, Kind) = <<>>
      BY <2>1, <2>2, Closes, <1>1, <1>2, KeptIs DEF Nest
    <3>4. /\ here \in v..Len(KindsOf) /\ v \in 1..Len(KindsOf)
          /\ ValueLength(SubSeq(KindsOf, v, here)) = [n |-> here + 1 - v, ok |-> TRUE]
      BY <2>1, <3>2, <3>3, ClosedHere, InsideFacts
    <3>5. Kept(part).block = Positions(v, here)
      <4>1. Kept(part).block = Append(rule.block, here)
        BY <1>1, <2>2, KeptIs
      <4>2. v \in Nat \ {0} /\ v <= pos + 1 /\ pos \in Nat /\ here = pos + 1
        BY <3>2, InsideFacts, StateFacts
      <4> QED  BY <3>2, <4>1, <4>2, PositionsGrow
    <3>6. ValueLength(KindsAt(Kept(part).block)) = [n |-> Len(Kept(part).block), ok |-> TRUE]
      BY <1>1, <3>4, <3>5, KindsAtIs, Zenon
    <3>7. NoneEOF(errs \o TokenError)
      BY <2>1, NoneSoFar
    <3> QED  BY <3>6, <3>7 DEF BlockIsValue, NoneEOF
  <2>3. Kept(part) \in RuleType
    BY <1>1, KeptIs
  <2> QED  BY <1>2, <1>6, <2>1, <2>2, <2>3
<1>9. CASE EndInBlock
  <2>1. /\ ends # <<>> /\ AtEnd /\ Close(rule, BlockEndError)
    BY <1>9 DEF EndInBlock, InBlock
  <2>2. ASSUME Len(ends) = 1, part = "block"
        PROVE  BlockIsValue([rule |-> rule, errs |-> errs \o BlockEndError])
    <3>1. PICK i \in 1..Len(Tokens) : \E v \in 1..pos :
             InBlockAt(i, v) /\ rule.block = Positions(v, pos)
      BY <1>7, <2>1, <2>2
    <3>2. PICK v \in 1..pos : InBlockAt(i, v) /\ rule.block = Positions(v, pos)
      BY <3>1
    <3>3. /\ pos \in v..Len(KindsOf) /\ v \in 1..Len(KindsOf)
          /\ ValueLength(SubSeq(KindsOf, v, pos)) = [n |-> here - v, ok |-> FALSE]
      BY <2>1, <3>2, InsideAtEnd, InsideFacts
    <3>4. here = pos + 1 /\ here = Len(Tokens) + 1 /\ here - v = pos + 1 - v
      <4>1. here = pos + 1 /\ pos = Len(Tokens) /\ pos \in Nat
        BY <2>1, StateFacts
      <4> QED  BY <4>1
    <3>5. ValueLength(KindsAt(rule.block)) = [n |-> Len(rule.block), ok |-> FALSE]
      BY <1>1, <3>2, <3>3, <3>4, KindsAtIs, Zenon
    <3>6. fn # "NextRule"
      BY <2>1, BlockState DEF Reading
    <3>7. NoneEOF(errs \o BlockEndError)
      BY <3>6, NoneSoFar
    <3>8. \E k \in 1..Len(errs \o BlockEndError) :
             (errs \o BlockEndError)[k].at = Len(Tokens) + 1
      <4>1. 1 \in 1..Len(BlockEndError) /\ BlockEndError[1].at = here
        <5>1. Len(BlockEndError) = 1 /\ BlockEndError[1].at = here
          BY <1>1, <2>1, ErrorsHere
        <5> QED  BY <5>1
      <4>2. \A j \in 1..Len(BlockEndError) :
               /\ Len(errs) + j \in 1..Len(errs \o BlockEndError)
               /\ (errs \o BlockEndError)[Len(errs) + j] = BlockEndError[j]
        BY <1>1, <1>2, ConcatElements
      <4> QED  BY <3>4, <4>1, <4>2, Zenon
    <3> QED  BY <3>5, <3>7, <3>8 DEF BlockIsValue, NoneEOF
  <2> QED  BY <1>1, <1>2, <1>6, <2>1, <2>2
<1>10. CASE \/ SkipToken \/ StartAtRule \/ StartQualifiedRule \/ EndQualifiedRule
            \/ StartBlock \/ StrayBrace \/ PreludeValue \/ BlockValue \/ UNCHANGED vars
  BY <1>10, NoCallReturned DEF SkipToken, StartAtRule, StartQualifiedRule, EndQualifiedRule,
            StartBlock, StrayBrace, PreludeValue, BlockValue, vars
<1> QED  BY <1>4, <1>5, <1>8, <1>9, <1>10 DEF Next

LEMMA IInvInit == Init => IInv
<1> SUFFICES ASSUME Init PROVE IInv
  OBVIOUS
<1>1. errs = <<>> /\ returned = <<>>
  BY DEF Init
<1> QED  BY <1>1, TypeInit, RuleInit DEF IInv, NoEOF, BlocksInv

LEMMA IInvNext == IInv /\ [Next]_vars => IInv'
  BY TypeNext, RuleNext, EOFNext, BlocksNext DEF IInv

LEMMA PrefixOfConcat ==
    ASSUME NEW T, NEW s \in Seq(T), NEW t \in Seq(T)
    PROVE  IsPrefix(s, s \o t)
<1> DEFINE u == s \o t
           n == Len(s)
<1>1. /\ u \in Seq(T) /\ Len(u) = n + Len(t) /\ n \in Nat /\ Len(t) \in Nat
      /\ \A k \in 1..n : k \in 1..Len(u) /\ u[k] = s[k]
  BY ConcatElements, ConcatProperties
<1> HIDE DEF u
<1>2. n <= Len(u) /\ n \in (1 - 1)..Len(u) /\ n \in (1 - 1)..Len(s)
      /\ 1 \in 1..(Len(u) + 1) /\ 1 \in 1..(Len(s) + 1) /\ n - 1 + 1 = n
  BY <1>1
<1>3. SubSeq(u, 1, n) = [i \in 1..n |-> u[i]] /\ SubSeq(s, 1, n) = [i \in 1..n |-> s[i]]
  BY <1>1, <1>2
<1>4. SubSeq(s, 1, n) = SubSeq(u, 1, n)
  BY <1>1, <1>3
<1> QED  BY <1>2, <1>4 DEF IsPrefix, u

\* The rules that are returned are those in the text, in order: all tokens of a rule, and none
\* of another, whatever is marked, looked at and read again on the way.
LEMMA IInvRules == IInv => RulesAreAsWritten
<1> SUFFICES ASSUME IInv PROVE RulesAreAsWritten
  OBVIOUS
<1>1. TypeInv /\ RuleInv
  BY DEF IInv
<1>2. Rules = Got /\ Written = All[1]
  BY RulesIs, WrittenIs DEF Got, All
<1>3. Got \in Seq(RuleType)
  BY <1>1, GotType
<1>4. fn = "done" => Written = Got
  BY <1>1, <1>2 DEF RuleInv
<1>5. \E rest \in Seq(RuleType) : Written = Got \o rest
  <2>1. CASE fn = "done"
    <3>1. Got \o <<>> = Got /\ <<>> \in Seq(RuleType)
      BY <1>3
    <3> QED  BY <1>4, <2>1, <3>1
  <2>2. CASE fn = "NextRule"
    <3>1. here \in 1..(Len(Tokens) + 1) /\ sheet \in Sheets
      BY <1>1, StateFacts DEF TypeInv
    <3>2. All[here] \in Seq(RuleType)
      BY <3>1, AllType
    <3> QED  BY <1>1, <1>2, <2>2, <3>2 DEF RuleInv
  <2>3. CASE Reading
    <3>1. PICK i \in 1..Len(Tokens) : ReadsRule(i)
      BY <1>1, <2>3 DEF RuleInv
    <3>2. i \in 1..(Len(Tokens) + 1) /\ sheet \in Sheets
      <4>1. Len(Tokens) \in Nat /\ sheet \in Sheets
        BY <1>1, StateFacts DEF TypeInv
      <4> QED  BY <4>1
    <3>3. All[i] \in Seq(RuleType)
      BY <3>2, AllType
    <3> QED  BY <1>2, <3>1, <3>3 DEF ReadsRule
  <2> QED  BY <1>1, <2>1, <2>2, <2>3 DEF TypeInv, Reading
<1>6. IsPrefix(Got, Written)
  BY <1>3, <1>5, PrefixOfConcat
<1> QED  BY <1>2, <1>4, <1>6 DEF RulesAreAsWritten


THEOREM RulesAreTheText == Spec => []RulesAreAsWritten
<1> QED  BY IInvInit, IInvNext, IInvRules, PTL DEF Spec

\* A block that is returned is the value of the grammar, from its opening to its closing token;
\* one that is cut off comes with an error at the end, which is never io.EOF.
LEMMA IInvBlocks == IInv => BlocksAreValues
<1> SUFFICES ASSUME IInv, NEW c \in 1..Len(returned), returned[c].rule.block # <<>>
             PROVE  LET r == returned[c].rule
                        es == returned[c].errs
                        length == ValueLength(KindsAt(r.block))
                    IN /\ length.n = Len(r.block)
                       /\ ~length.ok => \E e \in ToSet(es) : e.at = Len(Tokens) + 1
                       /\ \A e \in ToSet(es) : e.what # "EOF"
  BY DEF BlocksAreValues
<1> DEFINE es == returned[c].errs
           length == ValueLength(KindsAt(returned[c].rule.block))
<1>1. /\ length.n = Len(returned[c].rule.block)
      /\ ~length.ok => \E k \in 1..Len(es) : es[k].at = Len(Tokens) + 1
      /\ \A k \in 1..Len(es) : es[k].what # "EOF"
  BY DEF IInv, BlocksInv, BlockIsValue
<1>2. es \in Seq(ErrorType)
  BY CallFields DEF IInv, TypeInv
<1> HIDE DEF es, length
<1>3. /\ \A e \in ToSet(es) : \E k \in 1..Len(es) : e = es[k]
      /\ \A k \in 1..Len(es) : es[k] \in ToSet(es)
  BY <1>2 DEF ToSet
<1> QED  BY <1>1, <1>3, Zenon DEF es, length

THEOREM BlocksAreTheGrammars == Spec => []BlocksAreValues
<1> QED  BY IInvInit, IInvNext, IInvBlocks, PTL DEF Spec


-----------------------------------------------------------------------------
\* One more list of what FlattenSeq makes one list of.
LEMMA FlattenAppend ==
    ASSUME NEW S, NEW seqs \in Seq(Seq(S)), NEW e \in Seq(S)
    PROVE  FlattenSeq(Append(seqs, e)) = FlattenSeq(seqs) \o e
<1> DEFINE list == Append(seqs, e)
           n == Len(seqs)
<1>1. /\ list \in Seq(Seq(S)) /\ Len(list) = n + 1 /\ n \in Nat /\ list[n + 1] = e
      /\ \A k \in 1..n : list[k] = seqs[k]
  BY AppendProperties
<1> HIDE DEF list
<1>2. list # <<>> /\ n + 1 \in 1..(n + 1) /\ (n + 1) - 1 = n
  BY <1>1
<1>3. PICK g : g = CHOOSE h : FlattenLoop(list, h)
  OBVIOUS
<1>4. FlattenLoop(list, g) /\ FlattenSeq(list) = g[n + 1]
  BY <1>1, <1>2, <1>3, FlattenDef
<1>5. \A i \in 1..(n + 1) : g[i] = IF i = 1 THEN list[i] ELSE g[i - 1] \o list[i]
  BY <1>1, <1>4 DEF FlattenLoop
<1>6. CASE seqs = <<>>
  <2>1. n = 0 /\ FlattenSeq(seqs) = <<>>
    BY <1>6, Zenon DEF FlattenSeq
  <2>2. g[n + 1] = e
    BY <1>1, <1>5, <2>1
  <2>3. <<>> \o e = e
    OBVIOUS
  <2> QED  BY <1>4, <2>1, <2>2, <2>3 DEF list
<1>7. CASE seqs # <<>>
  <2>1. PICK f : f = CHOOSE h : FlattenLoop(seqs, h)
    OBVIOUS
  <2>2. FlattenLoop(seqs, f) /\ FlattenSeq(seqs) = f[n] /\ n # 0
    BY <1>7, <2>1, FlattenDef
  <2> HIDE DEF n
  <2>3. \A i \in 1..n : f[i] = IF i = 1 THEN seqs[i] ELSE f[i - 1] \o seqs[i]
    BY <2>2 DEF FlattenLoop, n
  <2> DEFINE U == {i \in Nat : i \in 1..n => f[i] = g[i]}
  <2>4. 0 \in U
    OBVIOUS
  <2>5. ASSUME NEW i \in Nat, i \in U PROVE i + 1 \in U
    <3> SUFFICES ASSUME i + 1 \in 1..n PROVE f[i + 1] = g[i + 1]
      OBVIOUS
    <3>1. i + 1 \in 1..(n + 1) /\ list[i + 1] = seqs[i + 1]
      BY <1>1
    <3>2. CASE i = 0
      BY <1>5, <2>3, <3>1, <3>2
    <3>3. CASE i # 0
      <4>1. i \in 1..n /\ (i + 1) - 1 = i /\ i + 1 # 1
        BY <1>1, <3>3
      <4>2. f[i] = g[i]
        BY <2>5, <4>1
      <4> QED  BY <1>5, <2>3, <3>1, <4>1, <4>2
    <3> QED  BY <3>2, <3>3
  <2>6. Nat \subseteq U
    <3> HIDE DEF U
    <3> QED  BY <2>4, <2>5, Induction
  <2>7. f[n] = g[n]
    BY <1>1, <2>2, <2>6
  <2>8. g[n + 1] = g[n] \o e
    <3>1. n + 1 # 1
      BY <1>1, <2>2
    <3>2. g[n + 1] = g[(n + 1) - 1] \o list[n + 1]
      BY <1>2, <1>5, <3>1, Zenon
    <3> QED  BY <1>1, <1>2, <3>2, Zenon
  <2> QED  BY <1>4, <2>2, <2>7, <2>8 DEF list
<1> QED  BY <1>6, <1>7

\* The errors of all calls so far, those included that the call under way has collected.
ErrsOf(calls) == [i \in 1..Len(calls) |-> calls[i].errs]

Log == Reported \o errs

LEMMA ErrsOfType ==
    ASSUME NEW calls \in Seq(CallType)
    PROVE  ErrsOf(calls) \in Seq(Seq(ErrorType)) /\ Len(ErrsOf(calls)) = Len(calls)
<1>1. \A i \in 1..Len(calls) : calls[i].errs \in Seq(ErrorType)
  BY CallFields
<1>2. ErrsOf(calls) \in [1..Len(calls) -> Seq(ErrorType)] /\ Len(calls) \in Nat
  BY <1>1 DEF ErrsOf
<1> QED  BY <1>2

LEMMA ErrsOfMore ==
    ASSUME NEW calls \in Seq(CallType), NEW call \in CallType
    PROVE  ErrsOf(Append(calls, call)) = Append(ErrsOf(calls), call.errs)
<1> DEFINE more == Append(calls, call)
           n == Len(calls)
           s == ErrsOf(more)
           t == Append(ErrsOf(calls), call.errs)
<1>1. /\ more \in Seq(CallType) /\ Len(more) = n + 1 /\ n \in Nat /\ more[n + 1] = call
      /\ \A k \in 1..n : more[k] = calls[k]
  BY AppendProperties
<1> HIDE DEF more
<1>2. s \in Seq(Seq(ErrorType)) /\ Len(s) = n + 1 /\ ErrsOf(calls) \in Seq(Seq(ErrorType))
      /\ Len(ErrsOf(calls)) = n
  BY <1>1, ErrsOfType
<1>3. call.errs \in Seq(ErrorType)
  BY DEF CallType
<1>4. /\ t \in Seq(Seq(ErrorType)) /\ Len(t) = n + 1 /\ t[n + 1] = call.errs
      /\ \A k \in 1..n : t[k] = ErrsOf(calls)[k]
  <2> HIDE DEF n
  <2> QED  BY <1>2, <1>3, AppendProperties
<1>5. \A k \in 1..n : ErrsOf(calls)[k] = calls[k].errs
  BY DEF ErrsOf
<1>6. \A k \in 1..(n + 1) : s[k] = more[k].errs
  BY <1>1 DEF ErrsOf
<1> HIDE DEF s, t
<1>7. \A k \in 1..(n + 1) : s[k] = t[k]
  <2>1. \A k \in 1..(n + 1) : k \in 1..n \/ k = n + 1
    BY <1>1
  <2>2. n + 1 \in 1..(n + 1) /\ \A k \in 1..n : k \in 1..(n + 1)
    BY <1>1
  <2> QED  BY <1>1, <1>4, <1>5, <1>6, <2>1, <2>2
<1>8. s = t
  BY <1>1, <1>2, <1>4, <1>7, SeqEqual
<1> QED  BY <1>8 DEF s, t, more

LEMMA LogType ==
    ASSUME TypeInv
    PROVE  /\ Reported = FlattenSeq(ErrsOf(returned))
           /\ Reported \in Seq(ErrorType) /\ Log \in Seq(ErrorType)
<1>1. returned \in Seq(CallType) /\ errs \in Seq(ErrorType)
  BY DEF TypeInv
<1>2. Reported = FlattenSeq(ErrsOf(returned))
  BY Zenon DEF Reported, ErrsOf
<1>3. Reported \in Seq(ErrorType)
  BY <1>1, <1>2, ErrsOfType, FlattenType
<1> QED  BY <1>1, <1>2, <1>3, ConcatProperties DEF Log

LEMMA LogCollects ==
    ASSUME TypeInv, NEW t \in Seq(ErrorType), returned' = returned, errs' = errs \o t
    PROVE  Log' = Log \o t
<1>1. Reported \in Seq(ErrorType) /\ errs \in Seq(ErrorType)
  BY LogType DEF TypeInv
<1>2. Reported' = Reported
  BY DEF Reported
<1>3. Reported \o (errs \o t) = (Reported \o errs) \o t
  BY <1>1, ConcatAssociative
<1> QED  BY <1>2, <1>3 DEF Log

LEMMA LogReturns ==
    ASSUME TypeInv, NEW t \in Seq(ErrorType), NEW r \in RuleType, Return(r, errs \o t)
    PROVE  Log' = Log \o t /\ Log' = Reported' /\ errs' = <<>>
<1> DEFINE es == errs \o t
           call == [rule |-> r, errs |-> es]
<1>1. Reported \in Seq(ErrorType) /\ errs \in Seq(ErrorType) /\ returned \in Seq(CallType)
  BY LogType DEF TypeInv
<1>2. es \in Seq(ErrorType)
  BY <1>1, ConcatProperties
<1>3. call \in CallType /\ returned' = Append(returned, call) /\ errs' = <<>>
  BY <1>2, Returns
<1>4. Reported' = FlattenSeq(ErrsOf(returned'))
  BY Zenon DEF Reported, ErrsOf
<1>5. call.errs = es
  OBVIOUS
<1> HIDE DEF call
<1>6. ErrsOf(returned') = Append(ErrsOf(returned), es)
  BY <1>1, <1>3, <1>5, ErrsOfMore
<1>7. Reported' = Reported \o es
  <2>1. ErrsOf(returned) \in Seq(Seq(ErrorType))
    BY <1>1, ErrsOfType
  <2>2. FlattenSeq(Append(ErrsOf(returned), es)) = FlattenSeq(ErrsOf(returned)) \o es
    <3> HIDE DEF es
    <3> QED  BY <1>2, <2>1, FlattenAppend
  <2>3. Reported = FlattenSeq(ErrsOf(returned))
    BY LogType
  <2> QED  BY <1>4, <1>6, <2>2, <2>3
<1>8. Reported \o (errs \o t) = (Reported \o errs) \o t
  BY <1>1, ConcatAssociative
<1>9. Reported' \o <<>> = Reported'
  <2>1. Reported' \in Seq(ErrorType)
    BY <1>1, <1>2, <1>7, ConcatProperties
  <2> QED  BY <2>1
<1> QED  BY <1>3, <1>7, <1>8, <1>9 DEF Log

-----------------------------------------------------------------------------
\* The recursion that Outer is defined by: the values that follow each other from i on.
OuterStep(ks, i, from) == IF i > Len(ks) THEN {} ELSE {i} \cup from[EndOfValue(ks, i) + 1]

OuterLoop(ks, from) == from = [i \in 1..(Len(ks) + 1) |-> OuterStep(ks, i, from)]

OuterFrom(ks) == CHOOSE from : OuterLoop(ks, from)

LEMMA OuterLoopExists ==
    ASSUME NEW S, NEW ks \in Seq(S)
    PROVE  \E from : OuterLoop(ks, from)
<1> DEFINE N == Len(ks)
           T == SUBSET Nat
           G == [i \in 1..(N + 1) |-> [h \in [(i + 1)..(N + 1) -> T] |-> OuterStep(ks, i, h)]]
<1>1. N \in Nat
  OBVIOUS
<1>2. ASSUME NEW i \in 1..(N + 1), ~(i > N)
      PROVE  EndOfValue(ks, i) + 1 \in (i + 1)..(N + 1)
  BY <1>2, EndIsBehind
<1>3. ASSUME NEW i \in 1..(N + 1), NEW h \in [(i + 1)..(N + 1) -> T]
      PROVE  G[i][h] \in T
  <2>1. G[i][h] = OuterStep(ks, i, h)
    OBVIOUS
  <2>2. ~(i > N) => h[EndOfValue(ks, i) + 1] \in T
    BY <1>2
  <2> HIDE DEF G
  <2> QED  BY <2>1, <2>2 DEF OuterStep
<1>4. PICK f : LooksAhead(f, N, T, G)
  <2> HIDE DEF G, N, T
  <2> QED  BY <1>1, <1>3, AheadExists
<1>5. ASSUME NEW i \in 1..(N + 1) PROVE f[i] = OuterStep(ks, i, f)
  <2> DEFINE h == [j \in (i + 1)..(N + 1) |-> f[j]]
  <2>1. f[i] = G[i][h] /\ h \in [(i + 1)..(N + 1) -> T]
    <3> HIDE DEF G, T
    <3> QED  BY <1>4 DEF LooksAhead
  <2>2. G[i][h] = OuterStep(ks, i, h)
    <3> HIDE DEF h, T
    <3> QED  BY <2>1
  <2>3. \A j \in (i + 1)..(N + 1) : h[j] = f[j]
    OBVIOUS
  <2> HIDE DEF h, G
  <2> QED  BY <1>2, <2>1, <2>2, <2>3 DEF OuterStep
<1>6. f \in [1..(N + 1) -> T]
  BY <1>4 DEF LooksAhead
<1> HIDE DEF T
<1> QED  BY <1>5, <1>6 DEF OuterLoop

LEMMA OuterIs == Outer = OuterFrom(KindsOf)[1]
<1>1. OuterFrom(KindsOf) =
         CHOOSE from : from = [i \in 1..(Len(KindsOf) + 1) |-> OuterStep(KindsOf, i, from)]
  BY Zenon DEF OuterFrom, OuterLoop
<1>2. Outer = (CHOOSE from : from = [i \in 1..(Len(KindsOf) + 1) |->
                                        OuterStep(KindsOf, i, from)])[1]
  BY Zenon DEF Outer, OuterStep
<1> QED  BY <1>1, <1>2, Zenon

\* One value after the other, and nothing in between.
Follow(ks, set) ==
    \A p \in set :
        /\ EndOfValue(ks, p) = Len(ks) \/ EndOfValue(ks, p) + 1 \in set
        /\ \A q \in set : q > p => q > EndOfValue(ks, p)

LEMMA OuterFollow ==
    ASSUME NEW S, NEW ks \in Seq(S)
    PROVE  LET outer == OuterFrom(ks)[1]
           IN outer \subseteq 1..Len(ks) /\ (ks # <<>> => 1 \in outer) /\ Follow(ks, outer)
<1> DEFINE N == Len(ks)
           f == OuterFrom(ks)
           D == 1..(N + 1)
           rank == [j \in D |-> N + 1 - j]
           Good(i) == f[i] \subseteq i..N /\ (i <= N => i \in f[i]) /\ Follow(ks, f[i])
           G == {i \in D : Good(i)}
<1>1. OuterLoop(ks, f)
  <2>1. \E from : OuterLoop(ks, from)
    BY OuterLoopExists
  <2> QED  BY <2>1, Zenon DEF OuterFrom
<1> HIDE DEF f
<1>2. \A i \in D : f[i] = OuterStep(ks, i, f)
  BY <1>1 DEF OuterLoop
<1>3. N \in Nat /\ rank \in [D -> Nat]
  OBVIOUS
<1>4. ASSUME NEW i \in D, \A l \in D : rank[l] < rank[i] => l \in G
      PROVE  i \in G
  <2>1. CASE i > N
    <3>1. f[i] = {}
      BY <1>2, <2>1, Zenon DEF OuterStep
    <3> QED  BY <2>1, <3>1 DEF Follow
  <2>2. CASE ~(i > N)
    <3> DEFINE e == EndOfValue(ks, i)
    <3>1. f[i] = {i} \cup f[e + 1]
      BY <1>2, <2>2, Zenon DEF OuterStep
    <3>2. i \in 1..N /\ e \in i..N /\ e + 1 \in D
      BY <1>3, <2>2, EndIsBehind
    <3> HIDE DEF e
    <3>3. rank[e + 1] < rank[i]
      BY <1>3, <3>2
    <3>4. Good(e + 1)
      <4> HIDE DEF D, rank, Good
      <4> QED  BY <1>4, <3>2, <3>3
    <3>5. f[e + 1] \subseteq (e + 1)..N /\ (e + 1 <= N => e + 1 \in f[e + 1])
      BY <3>4
    <3>6. f[i] \subseteq i..N /\ i \in f[i]
      BY <1>3, <3>1, <3>2, <3>5
    <3>7. Follow(ks, f[i])
      <4> SUFFICES ASSUME NEW p \in f[i]
                   PROVE  /\ EndOfValue(ks, p) = N \/ EndOfValue(ks, p) + 1 \in f[i]
                          /\ \A q \in f[i] : q > p => q > EndOfValue(ks, p)
        BY DEF Follow
      <4>1. CASE p = i
        <5>1. EndOfValue(ks, p) = e
          BY <4>1 DEF e
        <5>2. e = N \/ e + 1 \in f[i]
          BY <1>3, <3>1, <3>2, <3>5
        <5>3. \A q \in f[i] : q > i => q > e
          BY <1>3, <3>1, <3>2, <3>5
        <5> QED  BY <4>1, <5>1, <5>2, <5>3
      <4>2. CASE p # i
        <5>1. p \in f[e + 1]
          BY <3>1, <4>2
        <5>2. /\ EndOfValue(ks, p) = N \/ EndOfValue(ks, p) + 1 \in f[e + 1]
              /\ \A q \in f[e + 1] : q > p => q > EndOfValue(ks, p)
          BY <3>4, <5>1 DEF Follow
        <5>3. ~(i > p)
          BY <1>3, <3>2, <3>5, <5>1
        <5> QED  BY <3>1, <5>2, <5>3
      <4> QED  BY <4>1, <4>2
    <3> QED  BY <3>6, <3>7
  <2> QED  BY <2>1, <2>2
<1>5. D \subseteq G
  <2> HIDE DEF D, G, rank
  <2> QED  BY <1>3, <1>4, RankInduction
<1>6. 1 \in D /\ (ks # <<>> => 1 <= N)
  BY <1>3
<1>7. Good(1)
  BY <1>5, <1>6
<1> QED  BY <1>6, <1>7 DEF f

-----------------------------------------------------------------------------
\* The malformed tokens outside of blocks, and what a list of errors says of them: each of those
\* up to b once, in order.
Malformed == {p \in Outer : Tokens[p].bad}

Tells(n, e) == e.what = "parse" /\ e.at <= n

ToldUpTo(n, bad, log, b) ==
    /\ \A k \in 1..Len(log) : Tells(n, log[k]) => log[k].at \in bad /\ log[k].at <= b
    /\ \A p \in bad : p <= b => \E k \in 1..Len(log) : Tells(n, log[k]) /\ log[k].at = p
    /\ \A j \in 1..Len(log) : \A k \in 1..Len(log) :
          Tells(n, log[j]) /\ Tells(n, log[k]) /\ j < k => log[j].at < log[k].at

\* Errors of another kind, or at the end of the input, change nothing.
LEMMA ToldStill ==
    ASSUME NEW n, NEW bad, NEW log \in Seq(ErrorType), NEW t \in Seq(ErrorType), NEW b, NEW c,
           ToldUpTo(n, bad, log, b), \A p \in bad : p <= b <=> p <= c,
           \A k \in 1..Len(t) : ~Tells(n, t[k])
    PROVE  ToldUpTo(n, bad, log \o t, c)
<1> DEFINE u == log \o t
<1>1. /\ u \in Seq(ErrorType) /\ Len(log) \in Nat
      /\ \A k \in 1..Len(log) : k \in 1..Len(u) /\ u[k] = log[k]
      /\ \A j \in 1..Len(t) : Len(log) + j \in 1..Len(u) /\ u[Len(log) + j] = t[j]
      /\ \A k \in 1..Len(u) : k \in 1..Len(log) \/ \E j \in 1..Len(t) : k = Len(log) + j
  BY ConcatElements
<1> HIDE DEF u
<1>2. \A k \in 1..Len(u) : Tells(n, u[k]) => k \in 1..Len(log) /\ u[k] = log[k]
  <2> SUFFICES ASSUME NEW k \in 1..Len(u), Tells(n, u[k])
               PROVE  k \in 1..Len(log) /\ u[k] = log[k]
    OBVIOUS
  <2>1. CASE k \in 1..Len(log)
    BY <1>1, <2>1, Zenon
  <2>2. CASE \E j \in 1..Len(t) : k = Len(log) + j
    <3>1. PICK j \in 1..Len(t) : k = Len(log) + j
      BY <2>2
    <3>2. u[k] = t[j]
      BY <1>1, <3>1, Zenon
    <3> QED  BY <3>2, Zenon
  <2> QED  BY <1>1, <2>1, <2>2, Zenon
<1>3. \A k \in 1..Len(u) : Tells(n, u[k]) => u[k].at \in bad /\ u[k].at <= c
  BY <1>2, Zenon DEF ToldUpTo
<1>4. \A p \in bad : p <= c => \E k \in 1..Len(u) : Tells(n, u[k]) /\ u[k].at = p
  <2> SUFFICES ASSUME NEW p \in bad, p <= c
               PROVE  \E k \in 1..Len(u) : Tells(n, u[k]) /\ u[k].at = p
    OBVIOUS
  <2>1. PICK k \in 1..Len(log) : Tells(n, log[k]) /\ log[k].at = p
    BY Zenon DEF ToldUpTo
  <2>2. k \in 1..Len(u) /\ u[k] = log[k]
    BY <1>1, Zenon
  <2> QED  BY <2>1, <2>2, Zenon
<1>5. \A j \in 1..Len(u) : \A k \in 1..Len(u) :
         Tells(n, u[j]) /\ Tells(n, u[k]) /\ j < k => u[j].at < u[k].at
  BY <1>2, Zenon DEF ToldUpTo
<1> QED  BY <1>3, <1>4, <1>5 DEF ToldUpTo, u

LEMMA StrictlyBelow == \A i, j, k \in Nat : i <= j /\ j < k => i < k
  OBVIOUS

\* The next one is told.
LEMMA ToldMore ==
    ASSUME NEW n \in Nat, NEW bad \in SUBSET (1..n), NEW log \in Seq(ErrorType),
           NEW e \in ErrorType, NEW b \in Nat, NEW p \in bad,
           ToldUpTo(n, bad, log, b), b < p, \A q \in bad : q <= p => q <= b \/ q = p,
           e.what = "parse", e.at = p
    PROVE  ToldUpTo(n, bad, log \o <<e>>, p)
<1> DEFINE u == log \o <<e>>
           m == Len(log)
<1>1. u = Append(log, e)
  BY AppendIsConcat
<1>2. /\ Len(u) = m + 1 /\ m \in Nat /\ u[m + 1] = e
      /\ \A k \in 1..m : u[k] = log[k]
  BY <1>1, AppendProperties
<1> HIDE DEF u
<1>3. Tells(n, e) /\ p \in Nat /\ \A q \in bad : q \in Nat
  BY DEF Tells
<1>4. /\ m + 1 \in 1..Len(u) /\ \A k \in 1..m : k \in 1..Len(u) /\ k < m + 1
      /\ \A k \in 1..Len(u) : k \in 1..m \/ k = m + 1
      /\ \A k \in 1..Len(u) : ~(m + 1 < k)
  BY <1>2
<1> HIDE DEF m
<1>5. \A k \in 1..m : Tells(n, log[k]) => log[k].at \in bad /\ log[k].at <= b
  BY DEF ToldUpTo, m
<1>6. \A k \in 1..m : Tells(n, log[k]) => log[k].at \in bad /\ log[k].at < p
  BY <1>3, <1>5, StrictlyBelow, Zenon
<1>7. \A k \in 1..Len(u) : Tells(n, u[k]) => u[k].at \in bad /\ u[k].at <= p
  <2>1. \A q \in bad : q < p => q <= p
    BY <1>3
  <2>2. p <= p
    BY <1>3
  <2> QED  BY <1>2, <1>4, <1>6, <2>1, <2>2, Zenon
<1>8. \A q \in bad : q <= p => \E k \in 1..Len(u) : Tells(n, u[k]) /\ u[k].at = q
  <2> SUFFICES ASSUME NEW q \in bad, q <= p
               PROVE  \E k \in 1..Len(u) : Tells(n, u[k]) /\ u[k].at = q
    OBVIOUS
  <2>1. CASE q = p
    BY <1>2, <1>3, <1>4, <2>1, Zenon
  <2>2. CASE q <= b
    <3>1. PICK k \in 1..m : Tells(n, log[k]) /\ log[k].at = q
      BY <2>2, Zenon DEF ToldUpTo, m
    <3> QED  BY <1>2, <1>4, <3>1, Zenon
  <2> QED  BY <2>1, <2>2, Zenon
<1>9. \A j \in 1..Len(u) : \A k \in 1..Len(u) :
         Tells(n, u[j]) /\ Tells(n, u[k]) /\ j < k => u[j].at < u[k].at
  <2> SUFFICES ASSUME NEW j \in 1..Len(u), NEW k \in 1..Len(u), Tells(n, u[j]), Tells(n, u[k]), j < k
               PROVE  u[j].at < u[k].at
    OBVIOUS
  <2>1. j \in 1..m
    BY <1>4, Zenon
  <2>2. u[j] = log[j] /\ Tells(n, log[j])
    BY <1>2, <2>1, Zenon
  <2>3. CASE k \in 1..m
    <3>1. u[k] = log[k]
      BY <1>2, <2>3, Zenon
    <3> QED  BY <2>1, <2>2, <2>3, <3>1, Zenon DEF ToldUpTo, m
  <2>4. CASE k = m + 1
    <3>1. u[k].at = p
      BY <1>2, <2>4, Zenon
    <3> QED  BY <1>6, <2>1, <2>2, <3>1, Zenon
  <2> QED  BY <1>4, <2>3, <2>4, Zenon
<1> QED  BY <1>7, <1>8, <1>9 DEF ToldUpTo, u

LEMMA OuterFacts ==
    ASSUME sheet \in Sheets
    PROVE  /\ Outer \subseteq 1..Len(Tokens) /\ (Tokens # <<>> => 1 \in Outer)
           /\ Follow(KindsOf, Outer) /\ Malformed \in SUBSET (1..Len(Tokens))
           /\ \A p \in Malformed : p \in Outer
           /\ \A p \in Outer : Tokens[p].bad => p \in Malformed
<1>1. KindsOf \in Seq(Kinds) /\ Len(KindsOf) = Len(Tokens) /\ Tokens \in Seq(Lexemes)
  BY SheetFacts
<1>2. Tokens # <<>> => KindsOf # <<>>
  BY <1>1
<1>3. Outer \subseteq 1..Len(Tokens) /\ (Tokens # <<>> => 1 \in Outer) /\ Follow(KindsOf, Outer)
  BY <1>1, <1>2, OuterFollow, OuterIs
<1> QED  BY <1>3 DEF Malformed

LEMMA SameOuter ==
    ASSUME sheet' = sheet
    PROVE  Outer' = Outer /\ Malformed' = Malformed /\ Tokens' = Tokens
<1>1. KindsOf' = KindsOf /\ Tokens' = Tokens
  BY SameSheet
<1>2. (Outer = OuterFrom(KindsOf)[1])'
  BY OuterIs, PTL
<1>3. Outer' = Outer
  BY <1>1, <1>2, OuterIs
<1> QED  BY <1>1, <1>3 DEF Malformed

-----------------------------------------------------------------------------
\* A malformed token outside of blocks has been told of as soon as it has been looked at; a block
\* or function tells of none but the token it begins with.
ErrInv ==
    /\ scanned \in {pos, here}
    /\ fn = "done" => AtEnd /\ scanned = here /\ errs = <<>>
    /\ ends = <<>> =>
          /\ AtEnd \/ here \in Outer
          /\ ToldUpTo(Len(Tokens), Malformed, Log, scanned)
    /\ ends # <<>> =>
          \E v \in 1..pos : v \in Outer /\ Inside(v) /\ ToldUpTo(Len(Tokens), Malformed, Log, v)

LEMMA ErrInit == Init => ErrInv
<1> SUFFICES ASSUME Init PROVE ErrInv
  OBVIOUS
<1>1. /\ TypeInv /\ pos = 0 /\ scanned = 0 /\ fn = "NextRule" /\ ends = <<>> /\ errs = <<>>
      /\ returned = <<>> /\ here = 1
  BY TypeInit DEF Init, here
<1>2. Tokens \in Seq(Lexemes) /\ sheet \in Sheets
  BY <1>1, SheetFacts DEF TypeInv
<1>3. AtEnd \/ here \in Outer
  BY <1>1, <1>2, OuterFacts DEF AtEnd
<1>4. Log = <<>>
  <2>1. ErrsOf(returned) = <<>>
    <3>1. ErrsOf(returned) \in Seq(Seq(ErrorType)) /\ Len(ErrsOf(returned)) = Len(returned)
      BY <1>1, ErrsOfType DEF TypeInv
    <3>2. Len(returned) = 0
      BY <1>1
    <3> HIDE <1>1
    <3> QED  BY <3>1, <3>2
  <2>2. Reported = <<>>
    <3>1. Reported = FlattenSeq(ErrsOf(returned))
      BY <1>1, LogType
    <3>2. Len(<<>>) = 0
      OBVIOUS
    <3> QED  BY <2>1, <3>1, <3>2, Zenon DEF FlattenSeq
  <2> QED  BY <1>1, <2>2 DEF Log
<1>5. ToldUpTo(Len(Tokens), Malformed, Log, 0)
  <2>1. \A p \in Malformed : ~(p <= 0)
    BY <1>2, OuterFacts
  <2> QED  BY <1>4, <2>1 DEF ToldUpTo
<1> QED  BY <1>1, <1>3, <1>5 DEF ErrInv

\* Where the parser collects errors, outside of blocks, the token at hand is told of.
LEMMA ToldHere ==
    ASSUME TypeInv, ErrInv, ends = <<>>
    PROVE  ToldUpTo(Len(Tokens), Malformed, Log \o TokenError, here)
<1> DEFINE n == Len(Tokens)
           bad == Malformed
<1>1. /\ n \in Nat /\ here = pos + 1 /\ pos \in Nat /\ here \in Nat /\ pos \in 0..n
      /\ AtEnd => pos = n
      /\ ~AtEnd => here \in 1..n
      /\ sheet \in Sheets
  BY StateFacts DEF TypeInv
<1>2. Log \in Seq(ErrorType) /\ TokenError \in Seq(ErrorType)
  BY <1>1, LogType, ErrorsHere
<1>3. /\ scanned \in {pos, here} /\ (AtEnd \/ here \in Outer)
      /\ ToldUpTo(n, bad, Log, scanned)
  BY DEF ErrInv
<1>4. /\ bad \in SUBSET (1..n) /\ Outer \subseteq 1..n
      /\ \A p \in Outer : Tokens[p].bad => p \in bad
      /\ \A p \in bad : Tokens[p].bad
  BY <1>1, OuterFacts DEF Malformed
<1>5. \A what : Err(what).what = what /\ Err(what).at = here
  BY DEF Err
<1>6. \A e : \A k \in 1..Len(<<e>>) : <<e>>[k] = e
  OBVIOUS
<1>7. \A k \in 1..Len(<<>>) : FALSE
  OBVIOUS
<1>8. ASSUME AtEnd \/ ~Tokens[here].bad \/ scanned = here
      PROVE  \A p \in bad : p <= scanned <=> p <= here
  <2>1. CASE scanned = here
    BY <2>1
  <2>2. CASE scanned = pos /\ AtEnd
    BY <1>1, <1>4, <2>2
  <2>3. CASE scanned = pos /\ ~Tokens[here].bad
    <3>1. here \notin bad
      BY <1>4, <2>3
    <3> HIDE DEF bad, n
    <3>2. \A p \in bad : p \in Nat /\ p # here
      BY <1>4, <3>1 DEF n
    <3> QED  BY <1>1, <2>3, <3>2
  <2> QED  BY <1>3, <1>8, <2>1, <2>2, <2>3
<1>9. CASE AtEnd
  <2>1. \A k \in 1..Len(TokenError) : ~Tells(n, TokenError[k])
    <3>1. TokenError = <<Err("parse")>> \/ TokenError = <<Err("EOF")>>
      BY <1>9, Zenon DEF TokenError
    <3>2. ~(here <= n)
      BY <1>1, <1>9
    <3>3. \A what : ~Tells(n, Err(what))
      BY <1>5, <3>2, Zenon DEF Tells
    <3>4. \A what : \A k \in 1..Len(<<Err(what)>>) : ~Tells(n, <<Err(what)>>[k])
      BY <1>6, <3>3, Zenon
    <3> QED  BY <3>1, <3>4, Zenon
  <2> HIDE DEF n, bad
  <2>2. ToldUpTo(n, bad, Log \o TokenError, here)
    BY <1>2, <1>3, <1>8, <1>9, <2>1, ToldStill
  <2> QED  BY <2>2 DEF n, bad
<1>10. CASE ~AtEnd /\ ~(Tokens[here].bad /\ scanned < here)
  <2>1. TokenError = <<>>
    BY <1>10, Zenon DEF TokenError
  <2>2. ~Tokens[here].bad \/ scanned = here
    BY <1>1, <1>3, <1>10
  <2>3. \A k \in 1..Len(TokenError) : ~Tells(n, TokenError[k])
    BY <1>7, <2>1, Zenon
  <2> HIDE DEF n, bad
  <2>4. ToldUpTo(n, bad, Log \o TokenError, here)
    BY <1>2, <1>3, <1>8, <2>2, <2>3, ToldStill
  <2> QED  BY <2>4 DEF n, bad
<1>11. CASE ~AtEnd /\ Tokens[here].bad /\ scanned < here
  <2>1. TokenError = <<Err("parse")>> /\ Err("parse") \in ErrorType
    BY <1>1, <1>11 DEF TokenError, Err, ErrorType
  <2>2. here \in bad /\ scanned = pos /\ pos < here
    BY <1>1, <1>3, <1>4, <1>11
  <2>3. \A q \in bad : q <= here => q <= pos \/ q = here
    BY <1>1, <1>4
  <2> HIDE DEF n, bad
  <2>4. ToldUpTo(n, bad, Log \o <<Err("parse")>>, here)
    BY <1>1, <1>2, <1>3, <1>4, <1>5, <2>1, <2>2, <2>3, ToldMore
  <2> QED  BY <2>1, <2>4 DEF n, bad
<1> QED  BY <1>9, <1>10, <1>11

LEMMA OnlyElement == \A e : \A k \in 1..Len(<<e>>) : <<e>>[k] = e
  OBVIOUS

\* What is looked at has been scanned.
LEMMA LookHere ==
    ASSUME TypeInv, ErrInv, Look
    PROVE  scanned' = here
<1>1. scanned = pos \/ scanned = here
  BY DEF ErrInv
<1>2. pos \in Nat /\ here = pos + 1
  BY StateFacts
<1>3. scanned' = IF scanned < here THEN here ELSE scanned
  BY DEF Look
<1>4. ~(here < here) /\ pos < here
  BY <1>2
<1> QED  BY <1>1, <1>3, <1>4, Zenon

\* What is at hand outside of blocks has been told of, whatever else is said of it.
LEMMA ToldNow ==
    ASSUME TypeInv, ErrInv, ends = <<>>,
           \/ Log' = Log \o TokenError
           \/ Log' = (Log \o TokenError) \o <<Err("unexpected }")>>
    PROVE  ToldUpTo(Len(Tokens), Malformed, Log', here)
<1> DEFINE log == Log \o TokenError
<1>1. ToldUpTo(Len(Tokens), Malformed, log, here)
  BY ToldHere
<1>2. here \in Nat
  BY StateFacts
<1>3. log \in Seq(ErrorType) /\ <<Err("unexpected }")>> \in Seq(ErrorType)
  BY <1>2, LogType, ErrorsHere, ConcatProperties
<1>4. \A k \in 1..Len(<<Err("unexpected }")>>) :
         ~Tells(Len(Tokens), <<Err("unexpected }")>>[k])
  <2>1. ~Tells(Len(Tokens), Err("unexpected }"))
    BY DEF Tells, Err
  <2> QED  BY <2>1, OnlyElement, Zenon
<1> HIDE DEF log
<1>5. ToldUpTo(Len(Tokens), Malformed, log \o <<Err("unexpected }")>>, here)
  BY <1>1, <1>3, <1>4, ToldStill
<1> QED  BY <1>1, <1>5 DEF log

\* Outside of blocks the token at hand is left, consumed, or opens a block.
LEMMA ErrOutside ==
    ASSUME TypeInv, ErrInv, ends = <<>>, sheet' = sheet, Look,
           \/ Log' = Log \o TokenError
           \/ Log' = (Log \o TokenError) \o <<Err("unexpected }")>>,
           fn' = "done" => AtEnd /\ pos' = pos /\ ends' = <<>> /\ errs' = <<>>,
           \/ pos' = pos /\ ends' = <<>>
           \/ pos' = here /\ ~AtEnd /\ ~Opens(Kind) /\ ends' = <<>>
           \/ pos' = here /\ ~AtEnd /\ Opens(Kind) /\ ends' = <<EndOf(Kind)>>
    PROVE  ErrInv'
<1>1. ToldUpTo(Len(Tokens), Malformed, Log', here)
  BY ToldNow
<1>2. Outer' = Outer /\ Malformed' = Malformed /\ Tokens' = Tokens /\ KindsOf' = KindsOf
  BY SameOuter, SameSheet
<1>3. /\ KindsOf \in Seq(Kinds) /\ Len(KindsOf) = Len(Tokens) /\ Len(Tokens) \in Nat
      /\ pos \in Nat /\ here = pos + 1 /\ here' = pos' + 1
      /\ ~AtEnd => here \in 1..Len(KindsOf) /\ Kind = KindsOf[here]
      /\ sheet \in Sheets
  BY StateFacts DEF here, TypeInv
<1>4. scanned' = here
  BY LookHere
<1>5. AtEnd \/ here \in Outer
  BY DEF ErrInv
<1>6. CASE pos' = pos /\ ends' = <<>>
  <2>1. here' = here /\ AtEnd' = AtEnd
    BY <1>2, <1>6 DEF here, AtEnd
  <2> QED  BY <1>1, <1>2, <1>4, <1>5, <1>6, <2>1 DEF ErrInv
<1>7. CASE pos' = here /\ ~AtEnd /\ ~Opens(Kind) /\ ends' = <<>>
  <2>1. EndOfValue(KindsOf, here) = here
    BY <1>3, <1>7, EndOfValueIs
  <2>2. here = Len(KindsOf) \/ here + 1 \in Outer
    BY <1>3, <1>5, <1>7, <2>1, OuterFacts DEF Follow
  <2>3. AtEnd' \/ here' \in Outer'
    BY <1>2, <1>3, <1>7, <2>2 DEF AtEnd
  <2>4. fn' # "done"
    BY <1>7
  <2> QED  BY <1>1, <1>2, <1>4, <1>7, <2>3, <2>4 DEF ErrInv
<1>8. CASE pos' = here /\ ~AtEnd /\ Opens(Kind) /\ ends' = <<EndOf(Kind)>>
  <2>1. PICK v \in 1..pos' : v = here
    BY <1>3, <1>8, StateFacts, Zenon
  <2>2. Inside(v)'
    BY <1>8, <2>1, InsideBegins
  <2>3. v \in Outer' /\ ToldUpTo(Len(Tokens)', Malformed', Log', v)
    BY <1>1, <1>2, <1>5, <1>8, <2>1
  <2>4. fn' # "done" /\ ends' # <<>>
    BY <1>8
  <2> QED  BY <1>4, <1>8, <2>1, <2>2, <2>3, <2>4 DEF ErrInv
<1> QED  BY <1>6, <1>7, <1>8

\* What a rule returns with that has a block or an at-keyword is not the end.
LEMMA GoesOn ==
    ASSUME NEW r \in RuleType, NEW es, Return(r, es), r.at # 0 \/ r.block # <<>>
    PROVE  fn' = "NextRule"
<1>1. r # NoRule
  BY EmptyRuleIs DEF NoRule
<1> QED  BY <1>1 DEF Return

LEMMA ErrSkip ==
    ASSUME TypeInv, ErrInv, RuleInv, SkipToken
    PROVE  ErrInv'
<1>1. /\ ~AtEnd /\ fn = "NextRule" /\ fn' = "NextRule" /\ ends' = ends /\ ends = <<>>
      /\ sheet' = sheet /\ returned' = returned /\ pos' = here /\ Look
      /\ errs' = errs \o TokenError
  BY NotAtEnd DEF SkipToken, RuleInv, Reading, Consume, Collect
<1>2. ~Opens(Kind)
  BY DEF SkipToken, Ignored, Opens
<1>3. Log' = Log \o TokenError
  <2>1. TokenError \in Seq(ErrorType)
    BY StateFacts, ErrorsHere
  <2> QED  BY <1>1, <2>1, LogCollects
<1> QED  BY <1>1, <1>2, <1>3, ErrOutside

LEMMA ErrAtTheEnd ==
    ASSUME TypeInv, ErrInv, RuleInv, EndOfSheet
    PROVE  ErrInv'
<1>1. /\ AtEnd /\ fn = "NextRule" /\ ends' = ends /\ ends = <<>> /\ sheet' = sheet
      /\ pos' = pos /\ Look /\ Return(NoRule, errs \o TokenError)
  BY DEF EndOfSheet, RuleInv, Reading, Leave
<1>2. TokenError \in Seq(ErrorType) /\ NoRule \in RuleType
  BY StateFacts, ErrorsHere, EmptyRuleIs DEF NoRule
<1>3. Log' = Log \o TokenError /\ errs' = <<>>
  BY <1>1, <1>2, LogReturns
<1> QED  BY <1>1, <1>3, ErrOutside

LEMMA ErrBegins ==
    ASSUME TypeInv, ErrInv, RuleInv, StartAtRule \/ StartQualifiedRule
    PROVE  ErrInv'
<1>1. /\ ~AtEnd /\ fn = "NextRule" /\ fn' # "done" /\ ends' = ends /\ ends = <<>>
      /\ sheet' = sheet /\ returned' = returned /\ Look
      /\ errs' = errs \o TokenError
  BY NotAtEnd DEF StartAtRule, StartQualifiedRule, RuleInv, Reading, Consume, Leave, Collect
<1>2. \/ pos' = pos
      \/ pos' = here /\ ~Opens(Kind)
  BY DEF StartAtRule, StartQualifiedRule, Consume, Leave, Opens
<1>3. Log' = Log \o TokenError
  <2>1. TokenError \in Seq(ErrorType)
    BY StateFacts, ErrorsHere
  <2> QED  BY <1>1, <2>1, LogCollects
<1> QED  BY <1>1, <1>2, <1>3, ErrOutside

\* Errors told of one after the other.
LEMMA ErrorsConcat ==
    ASSUME NEW a \in Seq(ErrorType), NEW b \in Seq(ErrorType), NEW c \in Seq(ErrorType)
    PROVE  a \o (b \o c) = (a \o b) \o c
  BY ConcatAssociative

\* The loops of atRule and qualifiedRule.
LEMMA ErrInPrelude ==
    ASSUME TypeInv, ErrInv, EndQualifiedRule \/ StartBlock \/ StrayBrace \/ PreludeValue
    PROVE  ErrInv'
<1>1. /\ ends = <<>> /\ fn' # "done" /\ sheet' = sheet /\ returned' = returned /\ Look
      /\ \/ pos' = pos /\ ends' = <<>>
         \/ pos' = here /\ ~AtEnd /\ ~Opens(Kind) /\ ends' = <<>>
         \/ pos' = here /\ ~AtEnd /\ Opens(Kind) /\ ends' = <<EndOf(Kind)>>
  <2>1. CASE EndQualifiedRule
    BY <2>1 DEF EndQualifiedRule, InPrelude, Leave
  <2>2. CASE StartBlock
    BY <2>2, NotAtEnd DEF StartBlock, InPrelude, Consume, Opens
  <2>3. CASE StrayBrace
    BY <2>3, NotAtEnd DEF StrayBrace, InPrelude, Consume, Opens
  <2>4. CASE PreludeValue
    BY <2>4, NotAtEnd DEF PreludeValue, InPrelude, Consume, StopsRule, EOF
  <2> QED  BY <2>1, <2>2, <2>3, <2>4
<1>2. TokenError \in Seq(ErrorType) /\ <<Err("unexpected }")>> \in Seq(ErrorType)
      /\ errs \in Seq(ErrorType)
  BY StateFacts, ErrorsHere
<1>3. CASE errs' = errs \o TokenError
  <2>1. Log' = Log \o TokenError
    BY <1>1, <1>2, <1>3, LogCollects
  <2> QED  BY <1>1, <2>1, ErrOutside
<1>4. CASE errs' = (errs \o TokenError) \o <<Err("unexpected }")>>
  <2> DEFINE u == <<Err("unexpected }")>>
             t == TokenError \o u
  <2>0. u \in Seq(ErrorType) /\ errs' = (errs \o TokenError) \o u
    BY <1>2, <1>4
  <2> HIDE DEF u
  <2>1. t \in Seq(ErrorType) /\ errs' = errs \o t
    <3>1. t \in Seq(ErrorType)
      BY <1>2, <2>0, ConcatProperties
    <3>2. errs \o (TokenError \o u) = (errs \o TokenError) \o u
      <4>1. errs \in Seq(ErrorType) /\ TokenError \in Seq(ErrorType)
        BY <1>2
      <4> QED  BY <2>0, <4>1, ErrorsConcat, Zenon
    <3> QED  BY <2>0, <3>1, <3>2, Zenon
  <2>2. Log' = Log \o t
    <3> HIDE DEF t
    <3> QED  BY <1>1, <2>1, LogCollects
  <2>3. Log' = (Log \o TokenError) \o <<Err("unexpected }")>>
    <3>1. Log \in Seq(ErrorType)
      BY LogType
    <3>2. Log \o (TokenError \o u) = (Log \o TokenError) \o u
      <4>1. TokenError \in Seq(ErrorType)
        BY <1>2
      <4> QED  BY <2>0, <3>1, <4>1, ErrorsConcat, Zenon
    <3> QED  BY <2>2, <3>2, Zenon DEF u
  <2> QED  BY <1>1, <2>3, ErrOutside
<1>5. errs' = errs \o TokenError \/ errs' = (errs \o TokenError) \o <<Err("unexpected }")>>
  <2>1. CASE StrayBrace
    <3>1. (errs \o TokenError) \o <<>> = errs \o TokenError
      <4>1. errs \o TokenError \in Seq(ErrorType)
        BY <1>2, ConcatProperties
      <4> QED  BY <4>1
    <3>2. errs' = (errs \o TokenError)
                     \o IF fn = "qualifiedRule" THEN <<Err("unexpected }")>> ELSE <<>>
      BY <2>1 DEF StrayBrace
    <3> QED  BY <3>1, <3>2, Zenon
  <2>2. CASE EndQualifiedRule \/ StartBlock \/ PreludeValue
    BY <2>2 DEF EndQualifiedRule, StartBlock, PreludeValue, Collect
  <2> QED  BY <2>1, <2>2
<1> QED  BY <1>3, <1>4, <1>5

LEMMA ErrAtRuleEnds ==
    ASSUME TypeInv, ErrInv, RuleInv, EndAtRule
    PROVE  ErrInv'
<1>1. /\ InPrelude /\ fn = "atRule" /\ Kind \in {";", EOF} /\ Return(rule, errs \o TokenError)
      /\ sheet' = sheet /\ ends' = ends /\ ends = <<>> /\ Look
      /\ IF AtEnd THEN pos' = pos ELSE pos' = here
  BY DEF EndAtRule, InPrelude, Leave, Consume
<1>2. TokenError \in Seq(ErrorType) /\ rule \in RuleType
  BY StateFacts, ErrorsHere
<1>3. Log' = Log \o TokenError
  BY <1>1, <1>2, LogReturns
<1>4. rule.at # 0
  <2>1. PICK i \in 1..Len(Tokens) : ReadsRule(i) /\ BetweenValues(i)
    BY <1>1, PreludeState
  <2>2. rule.at = i
    BY <1>1, <2>1 DEF ReadsRule
  <2> QED  BY <2>2
<1>5. fn' # "done"
  BY <1>1, <1>2, <1>4, GoesOn
<1>6. ~AtEnd => ~Opens(Kind)
  BY <1>1, NotAtEnd DEF Opens, EOF
<1> QED  BY <1>1, <1>3, <1>5, <1>6, ErrOutside

\* In a block or function.
LEMMA ErrStaysInside ==
    ASSUME TypeInv, ErrInv, sheet' = sheet, NEW v \in 1..pos, v \in Outer, v \in 1..pos', Inside(v)',
           ToldUpTo(Len(Tokens), Malformed, Log', v), ends' # <<>>, fn' # "done",
           scanned' \in {pos', here'}
    PROVE  ErrInv'
<1>1. Outer' = Outer /\ Malformed' = Malformed /\ Tokens' = Tokens
  BY SameOuter
<1> QED  BY <1>1 DEF ErrInv

\* A block or function ends: the next value is behind it.
LEMMA ErrComesOut ==
    ASSUME TypeInv, ErrInv, sheet' = sheet, NEW v \in 1..pos, v \in Outer,
           ToldUpTo(Len(Tokens), Malformed, Log, v), EndOfValue(KindsOf, v) = pos',
           NEW t \in Seq(ErrorType), Log' = Log \o t,
           \A k \in 1..Len(t) : ~Tells(Len(Tokens), t[k]),
           ends' = <<>>, fn' # "done", scanned' \in {pos', here'}, pos' \in {pos, here},
           pos' \in 0..Len(Tokens), scanned' = pos' \/ pos' = Len(Tokens)
    PROVE  ErrInv'
<1> DEFINE n == Len(Tokens)
           bad == Malformed
<1>1. Outer' = Outer /\ Malformed' = Malformed /\ Tokens' = Tokens
  BY SameOuter
<1>2. /\ Len(KindsOf) = n /\ pos \in Nat /\ here = pos + 1 /\ here' = pos' + 1 /\ n \in Nat
      /\ sheet \in Sheets
  BY StateFacts DEF here, TypeInv
<1>3. /\ EndOfValue(KindsOf, v) = n \/ EndOfValue(KindsOf, v) + 1 \in Outer
      /\ \A q \in Outer : q > v => q > EndOfValue(KindsOf, v)
      /\ bad \in SUBSET (1..n) /\ \A p \in bad : p \in Outer
  BY <1>2, OuterFacts DEF Follow
<1>4. AtEnd' \/ here' \in Outer'
  BY <1>1, <1>2, <1>3 DEF AtEnd
<1>5. \A p \in bad : p <= v <=> p <= scanned'
  <2> SUFFICES ASSUME NEW p \in bad PROVE p <= v <=> p <= scanned'
    OBVIOUS
  <2>1. p \in 1..n /\ (p > v => p > pos')
    BY <1>3
  <2>2. v \in Nat /\ v <= pos' /\ pos' \in Nat
    BY <1>2
  <2>3. scanned' = pos' \/ (pos' = n /\ scanned' = n + 1)
    BY <1>2
  <2> HIDE DEF n, bad
  <2> QED  BY <1>2, <2>1, <2>2, <2>3
<1>6. ToldUpTo(n, bad, Log \o t, scanned')
  <2>1. Log \in Seq(ErrorType)
    BY LogType
  <2> HIDE DEF n, bad
  <2> QED  BY <1>5, <2>1, ToldStill DEF n, bad
<1> QED  BY <1>1, <1>4, <1>6 DEF ErrInv

\* What is told of inside is nothing new.
LEMMA ToldNothing ==
    ASSUME TypeInv, NEW v, ToldUpTo(Len(Tokens), Malformed, Log, v),
           NEW t \in Seq(ErrorType), \A k \in 1..Len(t) : ~Tells(Len(Tokens), t[k]),
           Log' = Log \o t
    PROVE  ToldUpTo(Len(Tokens), Malformed, Log', v)
<1>1. Log \in Seq(ErrorType)
  BY LogType
<1> QED  BY <1>1, ToldStill

\* The closing token of a block has no error of its own.
LEMMA EndsWithoutError ==
    ASSUME TypeInv, ends # <<>>, IsEnd
    PROVE  TokenError = <<>>
<1>1. ~AtEnd /\ Kind \in Closers /\ here \in 1..Len(Tokens)
  <2>1. ends \in Stacks
    BY StateFacts
  <2> QED  BY <2>1, NotAtEnd, StateFacts, StackTop DEF IsEnd
<1>2. Tokens[here] \in Lexemes /\ Kind = Tokens[here].kind
  BY <1>1, SheetFacts DEF TypeInv, Kind
<1>3. ~Tokens[here].bad
  BY <1>1, <1>2 DEF Lexemes, Closers
<1> QED  BY <1>1, <1>3 DEF TokenError

\* What the end of the input says in a block tells of no token.
LEMMA EndTellsNothing ==
    ASSUME TypeInv, AtEnd
    PROVE  \A k \in 1..Len(BlockEndError) : ~Tells(Len(Tokens), BlockEndError[k])
<1>1. here > Len(Tokens) /\ here \in Nat /\ Len(Tokens) \in Nat
  BY StateFacts
<1>2. Len(BlockEndError) = 1 /\ BlockEndError[1].at = here
  BY <1>1, ErrorsHere
<1>3. ~(here <= Len(Tokens))
  BY <1>1
<1>4. \A k \in 1..Len(BlockEndError) : k = 1
  <2>1. \A k \in 1..1 : k = 1
    OBVIOUS
  <2> QED  BY <1>2, <2>1, Zenon
<1> QED  BY <1>2, <1>3, <1>4, Zenon DEF Tells

LEMMA ErrInBlock ==
    ASSUME TypeInv, ErrInv, RuleInv, BlockValue
    PROVE  ErrInv'
<1>1. /\ ends # <<>> /\ ~AtEnd /\ Kind # Last(ends) /\ pos' = here /\ Look
      /\ sheet' = sheet /\ fn' = fn /\ errs' = errs /\ returned' = returned
      /\ ends' = IF Opens(Kind) THEN Append(ends, EndOf(Kind)) ELSE ends
  BY DEF BlockValue, InBlock, IsEnd, Consume
<1>2. ends' = Nest(ends, Kind)
  BY <1>1 DEF Nest
<1>3. ends' # <<>> /\ fn' # "done"
  <2>1. Opens(Kind) => Append(ends, EndOf(Kind)) # <<>>
    <3>1. ends \in Stacks
      BY StateFacts
    <3> QED  BY <3>1, EndsAreClosers, StackPushed
  <2>2. Reading
    BY <1>1, BlockState
  <2> QED  BY <1>1, <2>1, <2>2, Zenon DEF Reading
<1>4. PICK v \in 1..pos :
         v \in Outer /\ Inside(v) /\ ToldUpTo(Len(Tokens), Malformed, Log, v)
  BY <1>1 DEF ErrInv
<1>5. Inside(v)'
  BY <1>1, <1>2, <1>3, <1>4, InsideTakesToken
<1>6. Log' = Log
  BY <1>1 DEF Log, Reported
<1>7. scanned' \in {pos', here'} /\ v \in 1..pos'
  <2>1. scanned' = here
    BY <1>1, LookHere
  <2>2. v \in 1..here
    BY StateFacts
  <2> QED  BY <1>1, <2>1, <2>2
<1> QED  BY <1>1, <1>3, <1>4, <1>5, <1>6, <1>7, ErrStaysInside

\* A block or function is closed, or cut off.
LEMMA ErrCloses ==
    ASSUME TypeInv, ErrInv, RuleInv, CloseBlock \/ EndInBlock
    PROVE  ErrInv'
<1> DEFINE t == IF AtEnd THEN BlockEndError ELSE TokenError
           r == IF AtEnd THEN rule ELSE Kept(part)
<1>1. /\ ends # <<>> /\ Look /\ Reading /\ Close(r, t)
      /\ IF AtEnd THEN pos' = pos ELSE pos' = here /\ IsEnd
  BY NotAtEnd, BlockState DEF CloseBlock, EndInBlock, InBlock, Consume, Leave
<1>2. /\ t \in Seq(ErrorType) /\ r \in RuleType /\ r.at = rule.at
      /\ part \in {"prelude", "block"} /\ rule \in RuleType /\ here \in Nat
      /\ pos \in 0..Len(Tokens) /\ pos \in Nat /\ here = pos + 1 /\ Len(Tokens) \in Nat
      /\ (AtEnd => pos = Len(Tokens)) /\ (~AtEnd => here \in 1..Len(Tokens))
  BY StateFacts, ErrorsHere, KeptIs DEF TypeInv
<1>3. \A k \in 1..Len(t) : ~Tells(Len(Tokens), t[k])
  <2>1. CASE AtEnd
    BY <2>1, EndTellsNothing
  <2>2. CASE ~AtEnd
    <3>1. t = <<>>
      BY <1>1, <2>2, EndsWithoutError
    <3>2. \A k \in 1..Len(<<>>) : FALSE
      OBVIOUS
    <3> HIDE DEF t
    <3> QED  BY <3>1, <3>2, Zenon
  <2> QED  BY <2>1, <2>2
<1> HIDE DEF t, r
<1>4. /\ sheet' = sheet /\ part' = part /\ ends' = Front(ends) /\ errs \o t \in Seq(ErrorType)
      /\ IF Len(ends) = 1 /\ part = "block" THEN Return(r, errs \o t)
         ELSE rule' = r /\ errs' = errs \o t /\ fn' = fn /\ returned' = returned
      /\ Len(ends) = 1 <=> Front(ends) = <<>>
  BY <1>1, <1>2, Closes
<1>5. Log' = Log \o t
  BY <1>2, <1>4, LogCollects, LogReturns
<1>6. PICK v \in 1..pos :
         v \in Outer /\ Inside(v) /\ ToldUpTo(Len(Tokens), Malformed, Log, v)
  BY <1>1 DEF ErrInv
<1>7. scanned' = here /\ here' = pos' + 1 /\ pos' \in {pos, here} /\ pos' \in 0..Len(Tokens)
      /\ scanned' \in {pos', here'} /\ (scanned' = pos' \/ pos' = Len(Tokens)) /\ v \in 1..pos'
  <2>1. scanned' = here /\ here' = pos' + 1
    BY <1>1, LookHere DEF here
  <2>2. CASE AtEnd
    BY <1>1, <1>2, <2>1, <2>2
  <2>3. CASE ~AtEnd
    BY <1>1, <1>2, <2>1, <2>3
  <2> QED  BY <2>1, <2>2, <2>3
<1>8. fn' # "done"
  <2>1. CASE Len(ends) = 1 /\ part = "block"
    <3>1. r.block # <<>>
      <4>1. PICK i \in 1..Len(Tokens) :
               ReadsRule(i) /\ \E w \in 1..pos : InValueAt(i, w) \/ InBlockAt(i, w)
        BY <1>1, BlockState
      <4>2. PICK w \in 1..pos : InValueAt(i, w) \/ InBlockAt(i, w)
        BY <4>1
      <4>3. rule.block = Positions(w, pos)
        BY <2>1, <4>2 DEF InValueAt, InBlockAt
      <4>4. rule.block # <<>>
        <5>1. KindsOf \in Seq(Kinds) /\ w \in 1..Len(KindsOf) /\ pos \in w..Len(KindsOf)
          BY <4>2, InsideFacts, StateFacts
        <5>2. pos \in w..pos
          BY <1>2, <5>1
        <5> QED  BY <4>3, <5>1, <5>2, SomePositions
      <4>5. Kept("block").block = Append(rule.block, here) /\ rule.block \in Seq(Nat)
        BY <1>2, KeptIs, RuleFields
      <4>6. Append(rule.block, here) # <<>>
        <5>1. Len(Append(rule.block, here)) = Len(rule.block) + 1 /\ Len(rule.block) \in Nat
          BY <1>2, <4>5, AppendProperties
        <5>2. Len(<<>>) = 0
          OBVIOUS
        <5> QED  BY <5>1, <5>2
      <4> QED  BY <2>1, <4>4, <4>5, <4>6 DEF r
    <3>2. fn' = "NextRule"
      BY <1>2, <1>4, <2>1, <3>1, GoesOn
    <3> QED  BY <3>2
  <2>2. CASE ~(Len(ends) = 1 /\ part = "block")
    BY <1>1, <1>4, <2>2 DEF Reading
  <2> QED  BY <2>1, <2>2
<1>9. CASE Front(ends) # <<>>
  <2>1. fn' = fn /\ errs' = errs \o t
    BY <1>4, <1>9
  <2>2. Inside(v)'
    <3>1. CASE AtEnd
      BY <1>1, <1>4, <1>6, <1>9, <2>1, <3>1, InsideStaysAtEnd DEF t
    <3>2. CASE ~AtEnd
      <4>1. Nest(ends, Kind) = Front(ends)
        BY <1>1, <3>2 DEF Nest, IsEnd
      <4> QED  BY <1>1, <1>4, <1>6, <1>9, <3>2, <4>1, InsideTakesToken
    <3> QED  BY <3>1, <3>2
  <2>3. ToldUpTo(Len(Tokens), Malformed, Log', v)
    BY <1>2, <1>3, <1>5, <1>6, ToldNothing
  <2> QED  BY <1>4, <1>6, <1>7, <1>8, <1>9, <2>2, <2>3, ErrStaysInside
<1>10. CASE Front(ends) = <<>>
  <2>1. EndOfValue(KindsOf, v) = pos'
    <3>1. CASE AtEnd
      BY <1>1, <1>6, <3>1, CutOffHere
    <3>2. CASE ~AtEnd
      <4>1. Nest(ends, Kind) = <<>>
        BY <1>1, <1>10, <3>2 DEF Nest, IsEnd
      <4> QED  BY <1>1, <1>6, <3>2, <4>1, ClosedHere
    <3> QED  BY <3>1, <3>2
  <2> QED  BY <1>2, <1>3, <1>4, <1>5, <1>6, <1>7, <1>8, <1>10, <2>1, ErrComesOut
<1> QED  BY <1>9, <1>10

LEMMA ErrNext == TypeInv /\ RuleInv /\ ErrInv /\ [Next]_vars => ErrInv'
<1> SUFFICES ASSUME TypeInv, RuleInv, ErrInv, [Next]_vars PROVE ErrInv'
  OBVIOUS
<1>1. CASE UNCHANGED vars
  <2>1. KindsOf' = KindsOf /\ Outer' = Outer /\ Malformed' = Malformed /\ Tokens' = Tokens
    BY <1>1, SameOuter, SameSheet DEF vars
  <2>2. Log' = Log
    BY <1>1 DEF vars, Log, Reported
  <2> QED  BY <1>1, <2>1, <2>2 DEF vars, ErrInv, Inside, here, AtEnd
<1> QED  BY <1>1, ErrSkip, ErrAtTheEnd, ErrBegins, ErrInPrelude, ErrAtRuleEnds, ErrCloses,
            ErrInBlock DEF Next

\* At the end of the sheet every malformed token outside of blocks has been told of.
LEMMA ErrInvReported == TypeInv /\ RuleInv /\ ErrInv => OuterErrorsAreReported
<1> DEFINE n == Len(Tokens)
           R == Reported
           outer == {k \in 1..Len(R) : R[k].what = "parse" /\ R[k].at <= n}
<1> SUFFICES ASSUME TypeInv, RuleInv, ErrInv, fn = "done"
             PROVE  /\ {R[k].at : k \in outer} = {p \in Outer : Tokens[p].bad}
                    /\ \A j, k \in outer : j < k => R[j].at < R[k].at
  BY DEF OuterErrorsAreReported
<1>1. ends = <<>> /\ scanned = here /\ errs = <<>>
  BY DEF RuleInv, Reading, ErrInv
<1>2. R \in Seq(ErrorType) /\ Log = R
  BY <1>1, LogType DEF Log
<1>3. /\ n \in Nat /\ AtEnd /\ here = n + 1 /\ sheet \in Sheets
  BY StateFacts DEF ErrInv, TypeInv
<1>4. ToldUpTo(n, Malformed, R, here)
  BY <1>1, <1>2 DEF ErrInv
<1>5. Malformed \in SUBSET (1..n)
  BY <1>3, OuterFacts
<1> HIDE DEF R
<1>6. \A k \in 1..Len(R) : k \in outer <=> Tells(n, R[k])
  BY DEF Tells
<1>7. {R[k].at : k \in outer} \subseteq Malformed
  BY <1>4, <1>6 DEF ToldUpTo
<1>8. Malformed \subseteq {R[k].at : k \in outer}
  <2> SUFFICES ASSUME NEW p \in Malformed PROVE \E k \in outer : R[k].at = p
    OBVIOUS
  <2>1. p <= here
    BY <1>3, <1>5
  <2>2. PICK k \in 1..Len(R) : Tells(n, R[k]) /\ R[k].at = p
    BY <1>4, <2>1 DEF ToldUpTo
  <2> QED  BY <1>6, <2>2
<1>9. \A j, k \in outer : j < k => R[j].at < R[k].at
  BY <1>4, <1>6 DEF ToldUpTo
<1> QED  BY <1>7, <1>8, <1>9 DEF Malformed

\* A malformed token outside of blocks is reported once and in order, although the parser marks
\* and reads each such token again: for every sheet.
THEOREM OuterErrorsAreTold == Spec => []OuterErrorsAreReported
<1>1. Init => IInv /\ ErrInv
  BY IInvInit, ErrInit
<1>2. (IInv /\ ErrInv) /\ [Next]_vars => (IInv /\ ErrInv)'
  BY IInvNext, ErrNext DEF IInv
<1>3. IInv /\ ErrInv => OuterErrorsAreReported
  BY ErrInvReported DEF IInv
<1> QED  BY <1>1, <1>2, <1>3, PTL DEF Spec

=============================================================================
