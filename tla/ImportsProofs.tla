---------------------------- MODULE ImportsProofs ----------------------------
(***************************************************************************)
(* Imports, whatever the sheets hold and however they import one another,  *)
(* in circles too.  First the layers: only getOrCreateLayer and append     *)
(* change them, and what the activations of importCSS hold does not        *)
(* matter.  Then what the activations hold.                                *)
(***************************************************************************)
EXTENDS Imports, SequenceTheorems, TLAPS

\* What is known of the layers without a look at the sheets: records of a name and a list.
IsLayer(l, P) == l = [name |-> l.name, rules |-> l.rules] /\ l.rules \in Seq(P)

ListOfLayers ==
    \E L, P : layers \in Seq(L) /\ \A i \in 1..Len(layers) : IsLayer(layers[i], P)

OrderTypes == order \in Seq(Nat) /\ order # <<>>

IInv == ListOfLayers /\ OrderTypes /\ BaseLayerIsLast

\* How a step may change the layers: not at all, by a new one, by a rule at the
\* end of one.
NewLayer(name) ==
    /\ order' = InsertAt(order, Len(order), Len(layers) + 1)
    /\ layers' = Append(layers, [name |-> name, rules |-> <<>>])

NewRule(l, place) == layers' = [layers EXCEPT ![l].rules = Append(@, place)] /\ order' = order

\* What every step leaves the layers like.
Kept == ListOfLayers' /\ OrderTypes' /\ BaseLayerIsLast' /\ LayersGrow

\* A sequence is a prefix of itself.
LEMMA PrefixOfItself == ASSUME NEW T, NEW s \in Seq(T) PROVE IsPrefix(s, s)
  BY DEF IsPrefix

\* A sequence is a prefix of it and more.
LEMMA PrefixOfAppend ==
    ASSUME NEW T, NEW s \in Seq(T), NEW x \in T
    PROVE  IsPrefix(s, Append(s, x))
<1>1. /\ Append(s, x) \in Seq(T) /\ Len(Append(s, x)) = Len(s) + 1 /\ Len(s) \in Nat
      /\ \A i \in 1..Len(s) : Append(s, x)[i] = s[i]
  BY AppendProperties
<1>2. SubSeq(s, 1, Len(s)) = s
  OBVIOUS
<1>3. SubSeq(Append(s, x), 1, Len(s)) = s
  <2>1. /\ SubSeq(Append(s, x), 1, Len(s)) \in Seq(T)
        /\ Len(SubSeq(Append(s, x), 1, Len(s))) = Len(s)
        /\ \A i \in 1..Len(s) : SubSeq(Append(s, x), 1, Len(s))[i] = Append(s, x)[i]
    BY <1>1
  <2> QED  BY <2>1, <1>1, SeqEqual
<1> QED  BY <1>1, <1>2, <1>3 DEF IsPrefix

\* The layers before the base layer are a list like any other.
LEMMA FrontOfOrder ==
    ASSUME NEW s \in Seq(Nat), s # <<>>
    PROVE  /\ Front(s) \in Seq(Nat) /\ Len(Front(s)) = Len(s) - 1
           /\ \A i \in 1..(Len(s) - 1) : Front(s)[i] = s[i]
<1> DEFINE m == Len(s) - 1
<1>1. m \in Nat /\ m \in Int /\ 1 \in Int /\ \A i \in 1..m : s[i] \in Nat
  BY EmptySeq
<1> HIDE DEF m
<1>2. /\ SubSeq(s, 1, m) \in Seq(Nat)
      /\ Len(SubSeq(s, 1, m)) = IF 1 <= m THEN m - 1 + 1 ELSE 0
      /\ \A i \in 1..(m - 1 + 1) : SubSeq(s, 1, m)[i] = s[1 + i - 1]
  BY <1>1, SubSeqProperties
<1>3. Len(SubSeq(s, 1, m)) = m /\ \A i \in 1..m : SubSeq(s, 1, m)[i] = s[i]
  BY <1>1, <1>2
<1> QED  BY <1>2, <1>3 DEF Front, m

\* Replacing an element that is not there does nothing.
LEMMA ExceptOutside ==
    ASSUME NEW S, NEW s \in Seq(S), NEW l, l \notin 1..Len(s), NEW e
    PROVE  [s EXCEPT ![l] = e] = s
<1>1. s \in [1..Len(s) -> S]
  OBVIOUS
<1> QED  BY <1>1

\* A step that does nothing to the layers.
LEMMA NothingKeeps == ASSUME IInv, UNCHANGED <<order, layers>> PROVE Kept
<1>1. PICK L, P : layers \in Seq(L) /\ \A i \in 1..Len(layers) : IsLayer(layers[i], P)
  BY DEF IInv, ListOfLayers
<1>2. \A i \in 1..Len(layers) : IsPrefix(layers[i].rules, layers[i].rules)
  BY <1>1, PrefixOfItself DEF IsLayer
<1>3. Len(layers) \in Nat
  BY <1>1
<1>4. IsPrefix(Front(order), Front(order))
  BY PrefixOfItself, FrontOfOrder DEF IInv, OrderTypes
<1> QED  BY <1>2, <1>3, <1>4 DEF Kept, IInv, ListOfLayers, OrderTypes, BaseLayerIsLast, LayersGrow

\* Where getOrCreateLayer puts a new layer.
LEMMA InsertBeforeLast ==
    ASSUME NEW s \in Seq(Nat), s # <<>>, NEW x \in Nat
    PROVE  LET n == Len(s)
               t == InsertAt(s, n, x)
           IN /\ t \in Seq(Nat) /\ Len(t) = n + 1
              /\ \A i \in 1..(n - 1) : t[i] = s[i]
              /\ t[n] = x /\ t[n + 1] = s[n]
<1> DEFINE n == Len(s)
           f == SubSeq(s, 1, n - 1)
           g == SubSeq(s, n, n)
<1>1. n \in Nat \ {0} /\ \A i \in 1..n : s[i] \in Nat
  BY EmptySeq
<1> HIDE DEF n
<1>2. /\ f \in Seq(Nat) /\ Len(f) = n - 1 /\ \A i \in 1..(n - 1) : f[i] = s[i]
      /\ g \in Seq(Nat) /\ Len(g) = 1 /\ g[1] = s[n]
  BY <1>1, SubSeqProperties
<1> HIDE DEF f, g
<1>3. /\ f \o <<x>> \in Seq(Nat) /\ Len(f \o <<x>>) = n
      /\ \A i \in 1..(n - 1) : (f \o <<x>>)[i] = s[i]
      /\ (f \o <<x>>)[n] = x
  <2>1. f \o <<x>> = Append(f, x)
    BY <1>2, AppendIsConcat
  <2>2. /\ Append(f, x) \in Seq(Nat) /\ Len(Append(f, x)) = n - 1 + 1
        /\ \A i \in 1..(n - 1) : Append(f, x)[i] = f[i]
        /\ Append(f, x)[n - 1 + 1] = x
    BY <1>2, AppendProperties
  <2>3. n - 1 + 1 = n
    BY <1>1
  <2> QED  BY <1>2, <2>1, <2>2, <2>3
<1>4. /\ f \o <<x>> \o g \in Seq(Nat) /\ Len(f \o <<x>> \o g) = n + 1
      /\ \A i \in 1..n : (f \o <<x>> \o g)[i] = (f \o <<x>>)[i]
      /\ (f \o <<x>> \o g)[n + 1] = s[n]
  <2> DEFINE h == f \o <<x>>
  <2>1. h \in Seq(Nat) /\ Len(h) = n
    BY <1>3
  <2> HIDE DEF h
  <2> HIDE DEF n, g
  <2>2. /\ h \o g \in Seq(Nat) /\ Len(h \o g) = n + 1
        /\ \A i \in 1..(n + 1) : (h \o g)[i] = IF i <= n THEN h[i] ELSE g[i - n]
    <3>1. /\ h \o g \in Seq(Nat) /\ Len(h \o g) = Len(h) + Len(g)
          /\ \A i \in 1..(Len(h) + Len(g)) :
                (h \o g)[i] = IF i <= Len(h) THEN h[i] ELSE g[i - Len(h)]
      BY <1>2, <2>1, ConcatProperties
    <3>2. Len(h) = n /\ Len(g) = 1
      BY <1>2, <2>1
    <3> QED  BY <3>1, <3>2
  <2>3. (h \o g)[n + 1] = g[1]
    BY <1>1, <2>2
  <2>4. \A i \in 1..n : (h \o g)[i] = h[i]
    BY <1>1, <2>2
  <2> QED  BY <1>2, <2>2, <2>3, <2>4 DEF h
<1>5. InsertAt(s, n, x) = f \o <<x>> \o g
  BY DEF InsertAt, f, g, n
<1> QED  BY <1>1, <1>3, <1>4, <1>5 DEF n

\* A new layer goes right before the base layer.
LEMMA NewLayerKeeps == ASSUME IInv, NEW name, NewLayer(name) PROVE Kept
<1> DEFINE n == Len(order)
           new == [name |-> name, rules |-> <<>>]
<1>1. PICK L, P : layers \in Seq(L) /\ \A i \in 1..Len(layers) : IsLayer(layers[i], P)
  BY DEF IInv, ListOfLayers
<1>2. /\ order \in Seq(Nat) /\ order # <<>> /\ n \in Nat \ {0} /\ n = Len(layers)
      /\ order[n] = BaseLayer /\ ToSet(order) = 1..n
  BY EmptySeq DEF IInv, OrderTypes, BaseLayerIsLast, Last
<1>3. IsLayer(new, P)
  BY EmptySeq DEF IsLayer
<1>4. layers \in Seq(L \cup {new})
  BY <1>1, SeqMonotonic
<1> HIDE DEF new
<1>5. /\ layers' \in Seq(L \cup {new}) /\ Len(layers') = n + 1
      /\ \A i \in 1..n : layers'[i] = layers[i]
      /\ layers'[n + 1] = new
  BY <1>2, <1>4, AppendProperties DEF NewLayer, new
<1>6. ListOfLayers'
  <2>1. \A i \in 1..(n + 1) : IsLayer(layers'[i], P)
    BY <1>1, <1>2, <1>3, <1>5
  <2> QED  BY <2>1, <1>5 DEF ListOfLayers
<1>7. \A i \in 1..n : layers'[i].name = layers[i].name /\ IsPrefix(layers[i].rules, layers'[i].rules)
  BY <1>1, <1>2, <1>5, PrefixOfItself DEF IsLayer
<1>8. /\ order' \in Seq(Nat) /\ Len(order') = n + 1
      /\ \A i \in 1..(n - 1) : order'[i] = order[i]
      /\ order'[n] = n + 1 /\ order'[n + 1] = BaseLayer
  <2>1. order' = InsertAt(order, n, n + 1) /\ n + 1 \in Nat
    BY <1>2 DEF NewLayer
  <2> QED  BY <1>2, <2>1, InsertBeforeLast
<1>9. order' # <<>> /\ Last(order') = BaseLayer
  BY <1>2, <1>8 DEF Last
<1>10. IsPrefix(Front(order), Front(order'))
  <2>1. /\ Front(order) \in Seq(Nat) /\ Len(Front(order)) = n - 1
        /\ \A i \in 1..(n - 1) : Front(order)[i] = order[i]
    BY <1>2, FrontOfOrder
  <2>2. /\ Front(order') \in Seq(Nat) /\ Len(Front(order')) = n
        /\ \A i \in 1..(n - 1) : Front(order')[i] = order[i]
    <3>1. /\ Front(order') \in Seq(Nat) /\ Len(Front(order')) = Len(order') - 1
          /\ \A i \in 1..(Len(order') - 1) : Front(order')[i] = order'[i]
      BY <1>8, <1>9, FrontOfOrder
    <3>2. Len(order') - 1 = n /\ \A i \in 1..(n - 1) : i \in 1..n
      BY <1>2, <1>8
    <3> QED  BY <1>8, <3>1, <3>2
  <2>3. /\ SubSeq(Front(order), 1, n - 1) = SubSeq(Front(order'), 1, n - 1)
    <3>1. /\ SubSeq(Front(order), 1, n - 1) \in Seq(Nat)
          /\ Len(SubSeq(Front(order), 1, n - 1)) = n - 1
          /\ \A i \in 1..(n - 1) : SubSeq(Front(order), 1, n - 1)[i] = order[i]
      BY <1>2, <2>1
    <3>2. /\ SubSeq(Front(order'), 1, n - 1) \in Seq(Nat)
          /\ Len(SubSeq(Front(order'), 1, n - 1)) = n - 1
          /\ \A i \in 1..(n - 1) : SubSeq(Front(order'), 1, n - 1)[i] = order[i]
      BY <1>2, <2>2
    <3> QED  BY <3>1, <3>2, SeqEqual
  <2> QED  BY <1>2, <2>1, <2>2, <2>3 DEF IsPrefix
<1>11. ToSet(order') = 1..(n + 1)
  <2>1. DOMAIN order = 1..n /\ DOMAIN order' = 1..(n + 1)
    BY <1>2, <1>8
  <2>2. /\ \A i \in 1..n : order[i] \in 1..n
        /\ \A l \in 1..n : \E i \in 1..n : order[i] = l
    BY <1>2, <2>1 DEF ToSet
  <2> HIDE DEF n
  <2>3. \A i \in 1..(n + 1) : order'[i] \in 1..(n + 1)
    <3> TAKE i \in 1..(n + 1)
    <3>1. CASE i \in 1..(n - 1)
      <4>1. i \in 1..n /\ order'[i] = order[i]
        BY <3>1, <1>2, <1>8
      <4>2. order[i] \in 1..n
        BY <4>1, <2>2
      <4> QED  BY <4>1, <4>2, <1>2
    <3>2. CASE i = n
      BY <3>2, <1>2, <1>8
    <3>3. CASE i = n + 1
      BY <3>3, <1>2, <1>8 DEF BaseLayer
    <3> QED  BY <3>1, <3>2, <3>3, <1>2
  <2>4. \A l \in 1..(n + 1) : \E i \in 1..(n + 1) : order'[i] = l
    <3> TAKE l \in 1..(n + 1)
    <3>1. CASE l = n + 1
      BY <3>1, <1>2, <1>8
    <3>2. CASE l \in 1..n
      <4>1. PICK i \in 1..n : order[i] = l
        BY <3>2, <2>2
      <4>2. CASE i = n
        BY <4>1, <4>2, <1>2, <1>8
      <4>3. CASE i \in 1..(n - 1)
        BY <4>1, <4>3, <1>2, <1>8
      <4> QED  BY <4>1, <4>2, <4>3, <1>2
    <3> QED  BY <3>1, <3>2, <1>2
  <2> QED  BY <2>1, <2>3, <2>4 DEF ToSet
<1>12. BaseLayerIsLast' /\ OrderTypes'
  BY <1>5, <1>8, <1>9, <1>11 DEF BaseLayerIsLast, OrderTypes
<1>13. LayersGrow
  BY <1>2, <1>5, <1>7, <1>10 DEF LayersGrow
<1> QED  BY <1>6, <1>12, <1>13 DEF Kept

\* append adds a rule at the end of a layer.
LEMMA NewRuleKeeps == ASSUME IInv, NEW l, NEW place, NewRule(l, place) PROVE Kept
<1>1. PICK L, P : layers \in Seq(L) /\ \A i \in 1..Len(layers) : IsLayer(layers[i], P)
  BY DEF IInv, ListOfLayers
<1>2. CASE l \notin 1..Len(layers)
  <2>1. UNCHANGED <<order, layers>>
    BY <1>1, <1>2, ExceptOutside DEF NewRule
  <2> QED  BY <2>1, NothingKeeps
<1>3. CASE l \in 1..Len(layers)
  <2> DEFINE Q == P \cup {place}
             new == [layers[l] EXCEPT !.rules = Append(@, place)]
  <2>1. /\ layers[l] = [name |-> layers[l].name, rules |-> layers[l].rules]
        /\ layers[l].rules \in Seq(P)
    BY <1>1, <1>3 DEF IsLayer
  <2>2. new = [name |-> layers[l].name, rules |-> Append(layers[l].rules, place)]
    BY <2>1
  <2>3. new.name = layers[l].name /\ new.rules = Append(layers[l].rules, place)
    BY <2>2
  <2>4. layers[l].rules \in Seq(Q)
    BY <2>1, SeqMonotonic
  <2>5. IsLayer(new, Q) /\ IsPrefix(layers[l].rules, new.rules)
    BY <2>2, <2>3, <2>4, AppendProperties, PrefixOfAppend DEF IsLayer
  <2>6. \A i \in 1..Len(layers) : IsLayer(layers[i], Q)
    BY <1>1, SeqMonotonic DEF IsLayer
  <2>7. layers \in Seq(L \cup {new}) /\ new \in L \cup {new} /\ layers' = [layers EXCEPT ![l] = new]
    BY <1>1, SeqMonotonic DEF NewRule
  <2> HIDE DEF new, Q
  <2>8. /\ layers' \in Seq(L \cup {new}) /\ Len(layers') = Len(layers) /\ Len(layers) \in Nat
        /\ \A i \in 1..Len(layers) : layers'[i] = IF i = l THEN new ELSE layers[i]
    BY <1>1, <1>3, <2>7, ExceptSeq
  <2>9. \A i \in 1..Len(layers) :
           /\ IsLayer(layers'[i], Q)
           /\ layers'[i].name = layers[i].name
           /\ IsPrefix(layers[i].rules, layers'[i].rules)
    <3> TAKE i \in 1..Len(layers)
    <3>1. CASE i = l
      BY <3>1, <2>3, <2>5, <2>8
    <3>2. CASE i # l
      BY <3>2, <2>6, <2>8, PrefixOfItself DEF IsLayer
    <3> QED  BY <3>1, <3>2
  <2>10. ListOfLayers'
    BY <2>8, <2>9 DEF ListOfLayers
  <2>11. OrderTypes' /\ BaseLayerIsLast'
    BY <2>8 DEF NewRule, IInv, OrderTypes, BaseLayerIsLast
  <2>12. IsPrefix(Front(order), Front(order'))
    BY PrefixOfItself, FrontOfOrder DEF NewRule, IInv, OrderTypes
  <2>13. LayersGrow
    BY <2>8, <2>9, <2>12 DEF LayersGrow
  <2> QED  BY <2>10, <2>11, <2>13 DEF Kept
<1> QED  BY <1>2, <1>3

\* getOrCreateLayer, whether the layer is there or not.
LEMMA GetOrCreateLayerKeeps == ASSUME IInv, NEW name, GetOrCreateLayer(name) PROVE Kept
<1>1. CASE Exists(name)
  BY <1>1, NothingKeeps DEF GetOrCreateLayer
<1>2. CASE ~Exists(name)
  BY <1>2, NewLayerKeeps DEF GetOrCreateLayer, NewLayer
<1> QED  BY <1>1, <1>2

\* Every step.
LEMMA NextKeeps == ASSUME IInv, [Next]_vars PROVE Kept
<1>1. CASE NextEntrypoint
  BY <1>1, NothingKeeps DEF NextEntrypoint
<1>2. CASE Finish
  BY <1>2, NothingKeeps DEF Finish
<1>3. CASE EndOfSheet
  BY <1>3, NothingKeeps DEF EndOfSheet
<1>4. CASE ParseError
  BY <1>4, NothingKeeps DEF ParseError
<1>5. CASE MentionLayer
  BY <1>5, NothingKeeps, GetOrCreateLayerKeeps DEF MentionLayer
<1>6. CASE EndOfList
  BY <1>6, NothingKeeps DEF EndOfList
<1>7. CASE LayerBlock
  BY <1>7, GetOrCreateLayerKeeps DEF LayerBlock
<1>8. CASE EndOfBlock
  BY <1>8, NothingKeeps DEF EndOfBlock
<1>9. CASE Import
  BY <1>9, NothingKeeps, GetOrCreateLayerKeeps DEF Import
<1>10. CASE Utility
  BY <1>10, NewRuleKeeps DEF Utility, AppendRule, NewRule
<1>11. CASE CustomVariant
  BY <1>11, NothingKeeps DEF CustomVariant
<1>12. CASE Malformed
  BY <1>12, NothingKeeps DEF Malformed
<1>13. CASE Trap
  BY <1>13, NothingKeeps DEF Trap
<1>14. CASE OtherRule
  BY <1>14, NewRuleKeeps DEF OtherRule, AppendRule, NewRule
<1>15. CASE UNCHANGED vars
  BY <1>15, NothingKeeps DEF vars
<1> QED  BY <1>1, <1>2, <1>3, <1>4, <1>5, <1>6, <1>7, <1>8, <1>9, <1>10, <1>11, <1>12,
            <1>13, <1>14, <1>15 DEF Next

LEMMA InitIInv == Init => IInv
<1> SUFFICES ASSUME Init PROVE IInv
  OBVIOUS
<1> DEFINE base == [name |-> <<>>, rules |-> <<>>]
<1>1. base.name = <<>> /\ base.rules = <<>> /\ layers = <<base>>
  BY DEF Init
<1>2. IsLayer(base, {})
  BY <1>1, EmptySeq DEF IsLayer
<1> HIDE DEF base
<1>3. layers \in Seq({base}) /\ Len(layers) = 1 /\ layers[1] = base
  BY <1>1
<1>4. ListOfLayers
  <2>1. \A i \in 1..Len(layers) : IsLayer(layers[i], {})
    BY <1>2, <1>3
  <2> QED  BY <1>3, <2>1 DEF ListOfLayers
<1>5. order \in Seq(Nat) /\ order # <<>> /\ Len(order) = 1 /\ order[1] = 1 /\ DOMAIN order = 1..1
  BY DEF Init, BaseLayer
<1>6. ToSet(order) = 1..1
  BY <1>5 DEF ToSet
<1>7. BaseLayerIsLast
  BY <1>3, <1>5, <1>6 DEF BaseLayerIsLast, BaseLayer, Last
<1> QED  BY <1>4, <1>5, <1>7 DEF IInv, OrderTypes

\* The invariant holds throughout.
LEMMA LayersInvariant == Spec => []IInv
<1>1. IInv /\ [Next]_vars => IInv'
  BY NextKeeps DEF Kept, IInv
<1> QED  BY <1>1, InitIInv, PTL DEF Spec

\* The base layer is the last of the layers at all times, and every layer is in the
\* order once.
THEOREM BaseLayerStaysLast == Spec => []BaseLayerIsLast
<1>1. IInv => BaseLayerIsLast
  BY DEF IInv
<1> QED  BY <1>1, LayersInvariant, PTL

\* No step renames a layer, takes a rule from one or moves it, or changes the order of
\* layers that are there.
THEOREM LayersNeverShrink == Spec => LayersOnlyGrow
<1>1. IInv /\ [Next]_vars => [LayersGrow]_vars
  BY NextKeeps DEF Kept
<1> QED  BY <1>1, LayersInvariant, PTL DEF Spec, LayersOnlyGrow

-----------------------------------------------------------------------------
(***************************************************************************)
(* Types.  What an activation holds is of the sheets and of the layers,    *)
(* and the latter only grow.  An activation that is inside of a rule       *)
(* (inner > 0) is at a rule of its sheet, and that is a @layer rule:       *)
(* otherwise what comes behind the block would be read at a place where    *)
(* there is nothing.                                                       *)
(***************************************************************************)
Active ==
    {frame \in Frames : frame.inner > 0 =>
        /\ frame.at \in 1..Len(library[frame.file].rules)
        /\ library[frame.file].rules[frame.at].kind = "layer"}

\* The sheets as they were parsed, one for each entry point among them.
IsList(list) == Len(list) \in Nat /\ DOMAIN list = 1..Len(list)

SheetsInv ==
    /\ \A file \in DOMAIN library :
          /\ IsList(library[file].rules)
          /\ \A i \in 1..Len(library[file].rules) : IsList(library[file].rules[i].body)
    /\ \A e \in 1..Len(Entrypoints) : Entrypoints[e] \in DOMAIN library

RulesInv == \A i \in 1..Len(layers) : layers[i].rules \in Seq(Places)

ResultInv ==
    /\ entry \in 0..Len(Entrypoints)
    /\ classes \subseteq Places
    /\ \A v \in variants : v[2] \in Places
    /\ errors \in Seq(Places)
    /\ status \in {"running", "failed", "done", "stuck", "crashed"}

StackInv == stack \in Seq(Active)

TInv == IInv /\ SheetsInv /\ RulesInv /\ ResultInv /\ StackInv

\* The invariant says what TypeOK does.
LEMMA TInvTypes == TInv => TypeOK
<1> SUFFICES ASSUME TInv PROVE TypeOK
  OBVIOUS
<1>1. order \in Seq(1..Len(layers))
  <2>1. order \in Seq(Nat) /\ ToSet(order) = 1..Len(layers)
    BY DEF TInv, IInv, OrderTypes, BaseLayerIsLast
  <2>2. \A i \in 1..Len(order) : order[i] \in 1..Len(layers)
    BY <2>1 DEF ToSet
  <2> QED  BY <2>1, <2>2
<1>2. stack \in Seq(Frames)
  <2>1. Active \subseteq Frames
    BY DEF Active
  <2> QED  BY <2>1, SeqMonotonic DEF TInv, StackInv
<1> QED  BY <1>1, <1>2 DEF TInv, RulesInv, ResultInv, TypeOK

-----------------------------------------------------------------------------
\* A function on 1..n is a list of this length.
LEMMA ListLength == ASSUME NEW n \in Nat, NEW f, f = [i \in 1..n |-> f[i]] PROVE IsList(f)
<1> DEFINE S == {f[i] : i \in 1..n}
<1>1. f \in [1..n -> S]
  OBVIOUS
<1>2. f \in Seq(S)
  BY <1>1
<1> QED  BY <1>2 DEF IsList

\* Initially.
LEMMA InitTInv == Init => TInv
<1> SUFFICES ASSUME Init PROVE TInv
  OBVIOUS
<1>1. PICK sheets \in Libraries : library = [file \in DOMAIN sheets |-> ParsedSheet(sheets[file])]
  BY DEF Init
<1>2. SheetsInv
  <2>1. DOMAIN library = DOMAIN sheets
    BY <1>1
  <2>2. ASSUME NEW file \in DOMAIN library
        PROVE  /\ IsList(library[file].rules)
               /\ \A i \in 1..Len(library[file].rules) : IsList(library[file].rules[i].body)
    <3> DEFINE given == sheets[file].rules
               n == Len(given)
               body(i) == [j \in 1..Len(given[i].body) |-> Parsed(given[i].body[j], <<>>)]
               rules == [i \in 1..n |-> Parsed(given[i], body(i))]
    <3>1. n \in Nat /\ \A i \in 1..n : Len(given[i].body) \in Nat
      BY <1>1, <2>1, LibrariesAssumption
    <3>2. library[file].rules = rules
      BY <1>1, <2>1 DEF ParsedSheet
    <3>3. \A i \in 1..n : IsList(body(i))
      <4> TAKE i \in 1..n
      <4>1. body(i) = [j \in 1..Len(given[i].body) |-> body(i)[j]]
        OBVIOUS
      <4> HIDE DEF body
      <4> QED  BY <4>1, <3>1, ListLength
    <3>4. \A i \in 1..n : rules[i].body = body(i)
      BY DEF Parsed
    <3>5. rules = [i \in 1..n |-> rules[i]] /\ DOMAIN rules = 1..n
      OBVIOUS
    <3> HIDE DEF body, n, rules
    <3>6. IsList(rules) /\ Len(rules) = n
      <4>1. IsList(rules)
        BY <3>1, <3>5, ListLength
      <4>2. 1..n = 1..Len(rules) /\ Len(rules) \in Nat
        BY <4>1, <3>5 DEF IsList
      <4>3. Len(rules) = n
        <5>1. CASE n = 0
          <6>1. ~(1 \in 1..n)
            BY <5>1
          <6> QED  BY <4>2, <5>1, <6>1
        <5>2. CASE n > 0
          <6>1. n \in 1..n /\ ~(n + 1 \in 1..n)
            BY <3>1, <5>2
          <6> QED  BY <4>2, <3>1, <6>1
        <5> QED  BY <5>1, <5>2, <3>1
      <4> QED  BY <4>1, <4>3
    <3> QED  BY <3>2, <3>3, <3>4, <3>6
  <2>3. \A e \in 1..Len(Entrypoints) : Entrypoints[e] \in DOMAIN library
    BY <1>1, <2>1, EntrypointsAssumption
  <2> QED  BY <2>2, <2>3 DEF SheetsInv
<1>3. RulesInv
  <2>1. Len(layers) = 1 /\ layers[1].rules = <<>>
    BY DEF Init
  <2>2. <<>> \in Seq(Places)
    BY EmptySeq
  <2>3. \A i \in 1..1 : i = 1
    OBVIOUS
  <2> QED  BY <2>1, <2>2, <2>3 DEF RulesInv
<1>4. ResultInv
  <2>1. entry = 0 /\ classes = {} /\ variants = {} /\ errors = <<>> /\ status = "running"
    BY DEF Init
  <2> QED  BY <2>1, EmptySeq, EntrypointsAssumption DEF ResultInv
<1>5. StackInv
  BY EmptySeq DEF Init, StackInv
<1> QED  BY <1>2, <1>3, <1>4, <1>5, InitIInv DEF TInv

-----------------------------------------------------------------------------
\* The sheets do not change; places are what they were, and as layers only are added,
\* what an activation holds stays good.
LEMMA SheetsStay ==
    ASSUME TInv, [Next]_vars
    PROVE  /\ library' = library /\ SheetsInv' /\ Places' = Places
           /\ Active \subseteq Active' /\ Kept /\ IInv'
           /\ 1..Len(layers) \subseteq 1..Len(layers')
<1>1. library' = library
  BY DEF Next, vars, NextEntrypoint, Finish, EndOfSheet, ParseError, MentionLayer, EndOfList,
         LayerBlock, EndOfBlock, Import, Utility, CustomVariant, Malformed, Trap, OtherRule
<1>2. SheetsInv' /\ Places' = Places
  BY <1>1 DEF TInv, SheetsInv, Places, Files, RulesIn
<1>3. Kept /\ IInv'
  BY NextKeeps DEF TInv, Kept, IInv
<1>4. 1..Len(layers) \subseteq 1..Len(layers')
  <2>1. Len(layers) \in Nat /\ Len(layers') \in Nat
    BY <1>3 DEF TInv, IInv, ListOfLayers
  <2> QED  BY <1>3, <2>1 DEF Kept, LayersGrow
<1>5. Frames \subseteq Frames'
  BY <1>1, <1>2, <1>4 DEF Frames
<1> QED  BY <1>1, <1>2, <1>3, <1>4, <1>5 DEF Active

\* There is a base layer.
LEMMA BaseLayerExists == IInv => BaseLayer \in 1..Len(layers)
<1> SUFFICES ASSUME IInv PROVE BaseLayer \in 1..Len(layers)
  OBVIOUS
<1>1. /\ order \in Seq(Nat) /\ order # <<>> /\ order[Len(order)] = BaseLayer
      /\ ToSet(order) = 1..Len(layers)
  BY DEF IInv, OrderTypes, BaseLayerIsLast, Last
<1>2. Len(order) \in DOMAIN order
  BY <1>1, EmptySeq
<1> QED  BY <1>1, <1>2 DEF ToSet

\* A rule of a sheet is one, and so is one in a block.
LEMMA RulesAreKnown ==
    ASSUME SheetsInv, NEW file \in DOMAIN library, NEW i \in 1..Len(library[file].rules)
    PROVE  LET rule == library[file].rules[i]
           IN /\ rule.import.file \in Files
              /\ \A j \in 1..Len(rule.body) : rule.body[j].import.file \in Files
<1>1. i \in DOMAIN library[file].rules
  BY DEF SheetsInv, IsList
<1>2. library[file].rules[i] \in RulesIn(file)
  BY <1>1 DEF RulesIn, ToSet
<1>3. ASSUME NEW j \in 1..Len(library[file].rules[i].body)
      PROVE  library[file].rules[i].body[j] \in RulesIn(file)
  <2>1. j \in DOMAIN library[file].rules[i].body
    BY DEF SheetsInv, IsList
  <2> QED  BY <1>1, <2>1 DEF RulesIn, ToSet
<1> QED  BY <1>2, <1>3 DEF Files

\* The innermost activation, and what it may be replaced by.
LEMMA TopIsActive ==
    ASSUME StackInv, stack # <<>>
    PROVE  /\ Top \in Active /\ Front(stack) \in Seq(Active)
           /\ Len(stack) \in Nat \ {0} /\ Top = stack[Len(stack)]
<1>1. Len(stack) \in Nat \ {0} /\ stack \in Seq(Active)
  BY EmptySeq DEF StackInv
<1>2. SubSeq(stack, 1, Len(stack) - 1) \in Seq(Active)
  BY <1>1, SubSeqProperties
<1> QED  BY <1>1, <1>2 DEF Top, Last, Front

\* The rule at hand is one of the sheet, with a layer to go to.
LEMMA RuleIsKnown ==
    ASSUME TInv, HasRule
    PROVE  /\ Top.at \in 1..Len(Rules) /\ Place \in Places
           /\ Target \in 1..Len(layers) /\ Rule.import.file \in Files
<1>1. stack # <<>> /\ Top \in Active
  BY TopIsActive DEF HasRule, TInv
<1>2. /\ Top.file \in DOMAIN library /\ Top.at \in Nat \ {0} /\ Top.inner \in Nat
      /\ Top.layer \in 1..Len(layers) /\ Top.blockLayer \in 1..Len(layers)
      /\ Top.inner > 0 => Top.at \in 1..Len(Rules)
  BY <1>1 DEF Active, Frames, Rules
<1>3. Len(Rules) \in Nat
  BY <1>2 DEF TInv, SheetsInv, IsList, Rules
<1>4. Top.at \in 1..Len(Rules) /\ (InBlock => Top.inner \in 1..Len(Rules[Top.at].body))
  <2>1. CASE InBlock
    <3>1. Top.at \in 1..Len(Rules) /\ Top.inner > 0 /\ Top.inner <= Len(Rules[Top.at].body)
      BY <2>1, <1>2 DEF InBlock, HasRule
    <3>2. Len(Rules[Top.at].body) \in Nat
      BY <1>2, <3>1 DEF TInv, SheetsInv, IsList, Rules
    <3> QED  BY <1>2, <3>1, <3>2
  <2>2. CASE ~InBlock
    BY <2>2, <1>2, <1>3 DEF HasRule
  <2> QED  BY <2>1, <2>2
<1>5. Place \in Places
  BY <1>2 DEF Place, Places, Files
<1>6. Rule.import.file \in Files
  <2> DEFINE file == Top.file
             at == Top.at
  <2>1. /\ Rules[at].import.file \in Files
        /\ \A j \in 1..Len(Rules[at].body) : Rules[at].body[j].import.file \in Files
    BY <1>2, <1>4, RulesAreKnown DEF TInv, Rules
  <2> QED  BY <1>4, <2>1 DEF Rule
<1>7. Target \in 1..Len(layers)
  BY <1>2 DEF Target
<1> QED  BY <1>4, <1>5, <1>6, <1>7

-----------------------------------------------------------------------------
\* The innermost activation goes on: Top is replaced by a frame.
LEMMA TopGoesOn ==
    ASSUME TInv, [Next]_vars, stack # <<>>, NEW frame \in Active'
    PROVE  SetTop(frame) \in Seq(Active')
<1>1. Front(stack) \in Seq(Active)
  BY TopIsActive DEF TInv
<1>2. Front(stack) \in Seq(Active')
  BY <1>1, SheetsStay, SeqMonotonic
<1> QED  BY <1>2, AppendProperties DEF SetTop

\* The activation behind the rule at hand, but at a @layer rule of the sheet.
LEMMA AfterIsActive ==
    ASSUME TInv, HasRule, ~IsLayerRule, NEW errs \in Seq(Places)
    PROVE  After(errs) \in Active
<1>1. stack # <<>> /\ Top \in Active
  BY TopIsActive DEF HasRule, TInv
<1> DEFINE frame == [Top EXCEPT !.errs = Top.errs \o errs]
<1>2. /\ Top.errs \in Seq(Places) /\ Top.at \in Nat \ {0} /\ Top.inner \in Nat
      /\ Top.file \in DOMAIN library
  BY <1>1 DEF Active, Frames
<1>3. Top.errs \o errs \in Seq(Places)
  BY <1>2, ConcatProperties
<1> DEFINE all == Top.errs \o errs
<1> HIDE DEF all
<1>4. CASE InBlock
  <2>1. After(errs) = [Top EXCEPT !.errs = all, !.inner = Top.inner + 1]
    BY <1>1, <1>4 DEF After, all, Active, Frames
  <2>2. Top.inner > 0
    BY <1>4 DEF InBlock
  <2>3. all \in Seq(Places) /\ Top.inner + 1 \in Nat
    BY <1>2, <1>3 DEF all
  <2>4. After(errs) \in Frames
    BY <1>1, <2>1, <2>3 DEF Active, Frames
  <2>5. After(errs).file = Top.file /\ After(errs).at = Top.at
    BY <1>1, <2>1 DEF Active, Frames
  <2> QED  BY <1>1, <2>2, <2>4, <2>5 DEF Active
<1>5. CASE ~InBlock
  <2>1. After(errs) = [Top EXCEPT !.errs = all, !.at = Top.at + 1]
    BY <1>1, <1>5 DEF After, all, Active, Frames
  <2>2. Top.inner = 0
    <3>1. Top.inner > 0 => Rules[Top.at].kind = "layer"
      BY <1>1 DEF Active, Rules
    <3>2. Rules[Top.at].kind # "layer"
      BY <1>5 DEF IsLayerRule, Rule
    <3> QED  BY <1>2, <3>1, <3>2
  <2>3. all \in Seq(Places) /\ Top.at + 1 \in Nat \ {0}
    BY <1>2, <1>3 DEF all
  <2>4. After(errs) \in Frames
    BY <1>1, <2>1, <2>3 DEF Active, Frames
  <2>5. After(errs).inner = 0 /\ ~(0 > 0)
    BY <1>1, <2>1, <2>2 DEF Active, Frames
  <2> QED  BY <2>4, <2>5 DEF Active
<1> QED  BY <1>4, <1>5

\* A step from one rule to the next.
LEMMA NextRuleStack ==
    ASSUME TInv, [Next]_vars, HasRule, ~IsLayerRule, NEW errs \in Seq(Places),
           stack' = SetTop(After(errs))
    PROVE  StackInv'
<1>1. stack # <<>> /\ After(errs) \in Active'
  BY AfterIsActive, SheetsStay DEF HasRule
<1> QED  BY <1>1, TopGoesOn DEF StackInv

\* An activation begins.
LEMMA FrameIsActive ==
    ASSUME TInv, [Next]_vars, NEW file \in DOMAIN library, NEW l \in 1..Len(layers')
    PROVE  Frame(file, l) \in Active'
<1>1. library' = library /\ <<>> \in Seq(Places') /\ ~(0 > 0)
  BY SheetsStay, EmptySeq
<1> QED  BY <1>1 DEF Frame, Active, Frames

\* The errors of a sheet go to the one that imports it, or to the result.
LEMMA ReturnTypes ==
    ASSUME TInv, [Next]_vars, stack # <<>>, NEW errs \in Seq(Places), ReturnErrors(errs)
    PROVE  /\ StackInv' /\ errors' \in Seq(Places)
           /\ status' \in {"running", "failed", "done", "stuck", "crashed"}
<1>1. Len(stack) \in Nat \ {0} /\ stack \in Seq(Active)
  BY EmptySeq DEF TInv, StackInv
<1>2. CASE Len(stack) = 1
  <2>1. stack' = <<>> /\ errors' = errs /\ status' \in {"running", "failed"}
    BY <1>2 DEF ReturnErrors
  <2> QED  BY <2>1, EmptySeq DEF StackInv
<1>3. CASE Len(stack) # 1
  <2> DEFINE n == Len(stack)
             caller == stack[n - 1]
             all == caller.errs \o errs
             frame == [caller EXCEPT !.errs = all]
  <2>1. caller \in Active
    <3> HIDE DEF n
    <3>1. \A m \in Nat \ {0} : m # 1 => m - 1 \in 1..m
      OBVIOUS
    <3>2. n - 1 \in 1..n /\ n = Len(stack)
      BY <1>1, <1>3, <3>1 DEF n
    <3> QED  BY <1>1, <3>2
  <2>2. all \in Seq(Places)
    BY <2>1, ConcatProperties DEF Active, Frames
  <2> HIDE DEF caller, all
  <2>3. frame \in Active
    BY <2>1, <2>2 DEF Active, Frames
  <2> HIDE DEF frame
  <2>4. SubSeq(stack, 1, n - 2) \in Seq(Active)
    BY <1>1, <1>3, SubSeqProperties
  <2>5. Append(SubSeq(stack, 1, n - 2), frame) \in Seq(Active)
    BY <2>3, <2>4, AppendProperties
  <2>6. stack' = Append(SubSeq(stack, 1, n - 2), frame) /\ errors' = errors /\ status' = status
    BY <1>3 DEF ReturnErrors, caller, all, frame
  <2>7. stack' \in Seq(Active')
    BY <2>5, <2>6, SheetsStay, SeqMonotonic
  <2> QED  BY <2>6, <2>7 DEF StackInv, TInv, ResultInv
<1> QED  BY <1>2, <1>3

\* Where layers neither come nor get a rule, or one comes that has none.
LEMMA RulesStay ==
    ASSUME TInv, [Next]_vars, layers' = layers
    PROVE  RulesInv'
  BY SheetsStay DEF TInv, RulesInv

LEMMA LayerComes ==
    ASSUME TInv, [Next]_vars, NEW name, GetOrCreateLayer(name)
    PROVE  RulesInv' /\ LayerNumber(name) \in 1..Len(layers')
<1>1. PICK L, P : layers \in Seq(L) /\ \A i \in 1..Len(layers) : IsLayer(layers[i], P)
  BY DEF TInv, IInv, ListOfLayers
<1>2. CASE Exists(name)
  <2>1. layers' = layers
    BY <1>2 DEF GetOrCreateLayer
  <2>2. \E i \in 1..Len(layers) : layers[i].name = name
    BY <1>2 DEF Exists
  <2>3. LayerNumber(name) = CHOOSE i \in 1..Len(layers) : layers[i].name = name
    BY <1>2 DEF LayerNumber
  <2> QED  BY <2>1, <2>2, <2>3, RulesStay
<1>3. CASE ~Exists(name)
  <2> DEFINE new == [name |-> name, rules |-> <<>>]
  <2>1. layers' = Append(layers, new) /\ LayerNumber(name) = Len(layers) + 1
    BY <1>3 DEF GetOrCreateLayer, LayerNumber
  <2>2. new.rules \in Seq(Places)
    BY EmptySeq
  <2> HIDE DEF new
  <2>3. layers \in Seq(L \cup {new})
    BY <1>1, SeqMonotonic
  <2>4. /\ Len(layers) \in Nat /\ Len(layers') = Len(layers) + 1
        /\ \A i \in 1..Len(layers) : layers'[i] = layers[i]
        /\ layers'[Len(layers) + 1] = new
    BY <2>1, <2>3, AppendProperties
  <2>5. \A i \in 1..Len(layers') : layers'[i].rules \in Seq(Places)
    <3> TAKE i \in 1..Len(layers')
    <3>1. CASE i = Len(layers) + 1
      BY <3>1, <2>2, <2>4
    <3>2. CASE i # Len(layers) + 1
      <4>1. i \in 1..Len(layers)
        BY <3>2, <2>4
      <4> QED  BY <4>1, <2>4 DEF TInv, RulesInv
    <3> QED  BY <3>1, <3>2
  <2>6. Len(layers) + 1 \in 1..Len(layers')
    BY <2>4
  <2> QED  BY <2>1, <2>5, <2>6, SheetsStay DEF RulesInv
<1> QED  BY <1>2, <1>3

\* A rule goes to a layer.
LEMMA RuleComes ==
    ASSUME TInv, [Next]_vars, HasRule, AppendRule
    PROVE  RulesInv'
<1>1. PICK L, P : layers \in Seq(L) /\ \A i \in 1..Len(layers) : IsLayer(layers[i], P)
  BY DEF TInv, IInv, ListOfLayers
<1> DEFINE l == Target
           rules == Append(layers[l].rules, Place)
<1>2. l \in 1..Len(layers) /\ Place \in Places
  BY RuleIsKnown
<1>3. rules \in Seq(Places)
  BY <1>2, AppendProperties DEF TInv, RulesInv
<1>4. layers' = [layers EXCEPT ![l].rules = rules]
  BY DEF AppendRule
<1>5. layers[l] = [name |-> layers[l].name, rules |-> layers[l].rules]
  BY <1>1, <1>2 DEF IsLayer
<1> HIDE DEF rules, l
<1> DEFINE new == [layers[l] EXCEPT !.rules = rules]
<1>6. new.rules = rules
  BY <1>5
<1>7. layers' = [layers EXCEPT ![l] = new]
  BY <1>4
<1> HIDE DEF new
<1>8. layers \in Seq(L \cup {new})
  BY <1>1, SeqMonotonic
<1>9. /\ Len(layers') = Len(layers)
      /\ \A i \in 1..Len(layers) : layers'[i] = IF i = l THEN new ELSE layers[i]
  BY <1>2, <1>7, <1>8, ExceptSeq
<1>10. \A i \in 1..Len(layers') : layers'[i].rules \in Seq(Places)
  BY <1>3, <1>6, <1>9 DEF TInv, RulesInv
<1> QED  BY <1>10, SheetsStay DEF RulesInv

\* What Process is to return stays what it is.
LEMMA ResultStays ==
    ASSUME TInv, [Next]_vars, UNCHANGED <<entry, classes, variants, errors, status>>
    PROVE  ResultInv'
  BY SheetsStay DEF TInv, ResultInv

LEMMA StackStays == ASSUME TInv, [Next]_vars, stack' = stack PROVE StackInv'
  BY SheetsStay, SeqMonotonic DEF TInv, StackInv

\* What the steps within a sheet have in common.
LEMMA Adds ==
    ASSUME TInv, [Next]_vars, RulesInv', ResultInv', StackInv'
    PROVE  TInv'
  BY SheetsStay DEF TInv

-----------------------------------------------------------------------------
\* An @import: its layer is found or created, and its sheet's activation begins.
LEMMA ImportTypes == ASSUME TInv, [Next]_vars, Import PROVE TInv'
<1> DEFINE import == Rule.import
           target == IF import.hasLayer THEN LayerNumber(import.layer) ELSE Target
           missing == <<<<import.file, 0, 0>>>>
<1>1. HasRule /\ ~IsLayerRule /\ stack # <<>>
  BY DEF Import, IsTaken, IsLayerRule, HasRule
<1>2. Target \in 1..Len(layers) /\ import.file \in Files
  BY <1>1, RuleIsKnown
<1>3. RulesInv' /\ target \in 1..Len(layers')
  <2>1. CASE import.hasLayer
    <3>1. GetOrCreateLayer(import.layer)
      BY <2>1 DEF Import
    <3> QED  BY <2>1, <3>1, LayerComes
  <2>2. CASE ~import.hasLayer
    <3>1. layers' = layers
      BY <2>2 DEF Import
    <3> QED  BY <2>2, <3>1, <1>2, RulesStay
  <2> QED  BY <2>1, <2>2
<1>4. ResultInv'
  BY ResultStays DEF Import
<1>5. stack' = IF CanOpen(import.file)
               THEN Append(SetTop(After(<<>>)), Frame(import.file, target))
               ELSE SetTop(After(missing))
  BY DEF Import
<1>6. <<>> \in Seq(Places) /\ missing \in Seq(Places)
  BY <1>2, EmptySeq DEF Places
<1> HIDE DEF import, target, missing
<1>7. CASE CanOpen(import.file)
  <2>1. import.file \in DOMAIN library
    BY <1>7 DEF CanOpen
  <2>2. After(<<>>) \in Active'
    BY <1>1, <1>6, AfterIsActive, SheetsStay
  <2>3. SetTop(After(<<>>)) \in Seq(Active') /\ Frame(import.file, target) \in Active'
    BY <1>1, <1>3, <2>1, <2>2, TopGoesOn, FrameIsActive
  <2>4. StackInv'
    BY <1>5, <1>7, <2>3, AppendProperties DEF StackInv
  <2> QED  BY <1>3, <1>4, <2>4, Adds
<1>8. CASE ~CanOpen(import.file)
  <2>1. StackInv'
    BY <1>1, <1>5, <1>6, <1>8, NextRuleStack
  <2> QED  BY <1>3, <1>4, <2>1, Adds
<1> QED  BY <1>7, <1>8

\* An entry point's activation begins, or the program ends.
LEMMA NextEntrypointTypes == ASSUME TInv, [Next]_vars, NextEntrypoint PROVE TInv'
<1> DEFINE file == Entrypoints[entry + 1]
<1>1. RulesInv'
  BY RulesStay DEF NextEntrypoint
<1>2. Len(Entrypoints) \in Nat /\ entry + 1 \in 1..Len(Entrypoints)
  BY EntrypointsAssumption DEF NextEntrypoint, TInv, ResultInv
<1>3. file \in DOMAIN library
  BY <1>2 DEF TInv, SheetsInv
<1>4. <<<<file, 0, 0>>>> \in Seq(Places)
  BY <1>3 DEF Places, Files
<1>5. BaseLayer \in 1..Len(layers')
  BY BaseLayerExists, SheetsStay DEF TInv
<1> HIDE DEF file
<1>6. /\ errors' = errors \/ errors' = <<<<file, 0, 0>>>>
      /\ status' = status \/ status' = "failed"
      /\ entry' = entry + 1 /\ UNCHANGED <<classes, variants>>
  BY DEF NextEntrypoint, file
<1>7. ResultInv'
  <2>1. entry' \in 0..Len(Entrypoints)
    <3>1. \A m, n \in Nat : m \in 1..n => m \in 0..n
      OBVIOUS
    <3>2. entry + 1 \in Nat
      BY <1>2
    <3> QED  BY <1>2, <1>6, <3>1, <3>2
  <2>2. errors' \in Seq(Places) /\ status' \in {"running", "failed", "done", "stuck", "crashed"}
    BY <1>4, <1>6 DEF TInv, ResultInv
  <2> QED  BY <1>6, <2>1, <2>2, SheetsStay DEF TInv, ResultInv
<1>8. stack' = stack \/ stack' = <<Frame(file, BaseLayer)>>
  BY DEF NextEntrypoint, file
<1>9. StackInv'
  <2>1. CASE stack' = stack
    BY <2>1, StackStays
  <2>2. CASE stack' = <<Frame(file, BaseLayer)>>
    <3>1. Frame(file, BaseLayer) \in Active'
      BY <1>3, <1>5, FrameIsActive
    <3> QED  BY <2>2, <3>1 DEF StackInv
  <2> QED  BY <1>8, <2>1, <2>2
<1> QED  BY <1>1, <1>7, <1>9, Adds

\* The steps of a @layer rule, which is what an activation with inner > 0 is at.
LEMMA LayerRuleTypes ==
    ASSUME TInv, [Next]_vars, MentionLayer \/ EndOfList \/ LayerBlock \/ EndOfBlock
    PROVE  TInv'
<1>1. stack # <<>> /\ Top \in Active /\ Top \in Active'
  BY TopIsActive, SheetsStay DEF MentionLayer, EndOfList, LayerBlock, EndOfBlock, HasRule, TInv
<1>2. ResultInv'
  BY ResultStays DEF MentionLayer, EndOfList, LayerBlock, EndOfBlock
<1>3. /\ Top.inner \in Nat /\ Top.at \in Nat \ {0} /\ Top.inner + 1 \in Nat /\ Top.at + 1 \in Nat \ {0}
      /\ library' = library
  BY <1>1, SheetsStay DEF Active, Frames
<1>4. ASSUME HasRule, IsLayerRule
      PROVE  Top.at \in 1..Len(library[Top.file].rules) /\ library[Top.file].rules[Top.at].kind = "layer"
  BY <1>4, RuleIsKnown DEF IsLayerRule, Rule, Rules
<1>5. CASE MentionLayer
  <2>1. RulesInv'
    BY <1>5, RulesStay, LayerComes DEF MentionLayer
  <2>2. [Top EXCEPT !.inner = Top.inner + 1] \in Active'
    <3>1. [Top EXCEPT !.inner = Top.inner + 1] \in Frames'
      BY <1>1, <1>3 DEF Active, Frames
    <3> QED  BY <1>1, <1>3, <1>4, <1>5, <3>1 DEF Active, Frames, MentionLayer
  <2>3. StackInv'
    BY <1>1, <1>5, <2>2, TopGoesOn DEF MentionLayer, StackInv
  <2> QED  BY <1>2, <2>1, <2>3, Adds
<1>6. CASE EndOfList \/ EndOfBlock
  <2>1. RulesInv'
    BY <1>6, RulesStay DEF EndOfList, EndOfBlock
  <2> DEFINE frame == [Top EXCEPT !.inner = 0, !.at = Top.at + 1]
  <2>2. frame \in Active'
    <3>1. frame \in Frames'
      BY <1>1, <1>3 DEF Active, Frames
    <3>2. frame.inner = 0 /\ ~(0 > 0)
      BY <1>1 DEF Active, Frames
    <3> HIDE DEF frame
    <3> QED  BY <3>1, <3>2 DEF Active
  <2>3. stack' = SetTop(frame)
    BY <1>6 DEF EndOfList, EndOfBlock
  <2>4. StackInv'
    BY <1>1, <2>2, <2>3, TopGoesOn DEF StackInv
  <2> QED  BY <1>2, <2>1, <2>4, Adds
<1>7. CASE LayerBlock
  <2> DEFINE l == LayerNumber(Rule.names[1])
             frame == [Top EXCEPT !.inner = 1, !.blockLayer = l]
  <2>1. RulesInv' /\ l \in 1..Len(layers')
    BY <1>7, LayerComes DEF LayerBlock
  <2>2. stack' = SetTop(frame)
    BY <1>7 DEF LayerBlock
  <2> HIDE DEF l
  <2>3. frame \in Active'
    <3>1. frame \in Frames'
      BY <1>1, <1>3, <2>1 DEF Active, Frames
    <3>2. frame.file = Top.file /\ frame.at = Top.at
      BY <1>1 DEF Active, Frames
    <3> HIDE DEF frame
    <3> QED  BY <1>3, <1>4, <1>7, <3>1, <3>2 DEF Active, LayerBlock
  <2>4. StackInv'
    BY <1>1, <2>2, <2>3, TopGoesOn DEF StackInv
  <2> QED  BY <1>2, <2>1, <2>4, Adds
<1> QED  BY <1>5, <1>6, <1>7

\* The steps of the rules that are not @import or @layer.
LEMMA RuleTypes ==
    ASSUME TInv, [Next]_vars, Utility \/ CustomVariant \/ Malformed \/ OtherRule
    PROVE  TInv'
<1>1. HasRule /\ ~IsLayerRule
  BY DEF Utility, CustomVariant, Malformed, OtherRule, IsTaken, IsLayerRule
<1>2. Place \in Places
  BY <1>1, RuleIsKnown
<1>3. <<>> \in Seq(Places) /\ <<Place>> \in Seq(Places)
  BY <1>2, EmptySeq
<1>4. StackInv'
  <2>1. stack' = SetTop(After(<<>>)) \/ stack' = SetTop(After(<<Place>>))
    BY DEF Utility, CustomVariant, Malformed, OtherRule
  <2> QED  BY <1>1, <1>3, <2>1, NextRuleStack
<1>5. RulesInv'
  BY <1>1, RulesStay, RuleComes DEF Utility, CustomVariant, Malformed, OtherRule
<1>6. ResultInv'
  <2>1. CASE Utility
    <3>1. classes' = classes \cup {Place} /\ UNCHANGED <<entry, variants, errors, status>>
      BY <2>1 DEF Utility
    <3> QED  BY <1>2, <3>1, SheetsStay DEF TInv, ResultInv
  <2>2. CASE CustomVariant
    <3>1. /\ variants' = {v \in variants : v[1] # Rule.variant} \cup {<<Rule.variant, Place>>}
          /\ UNCHANGED <<entry, classes, errors, status>>
      BY <2>2 DEF CustomVariant
    <3> QED  BY <1>2, <3>1, SheetsStay DEF TInv, ResultInv
  <2>3. CASE Malformed \/ OtherRule
    BY <2>3, ResultStays DEF Malformed, OtherRule
  <2> QED  BY <2>1, <2>2, <2>3
<1> QED  BY <1>4, <1>5, <1>6, Adds

\* The other steps.
LEMMA OtherTypes ==
    ASSUME TInv, [Next]_vars, Finish \/ EndOfSheet \/ ParseError \/ Trap \/ UNCHANGED vars
    PROVE  TInv'
<1>1. RulesInv'
  BY RulesStay DEF Finish, EndOfSheet, ParseError, Trap, vars
<1>2. CASE Finish \/ Trap \/ UNCHANGED vars
  <2>1. StackInv'
    BY <1>2, StackStays DEF Finish, Trap, vars
  <2>2. /\ UNCHANGED <<entry, classes, variants, errors>>
        /\ status' \in {"running", "failed", "done", "stuck", "crashed"}
    BY <1>2 DEF Finish, Trap, vars, TInv, ResultInv
  <2>3. ResultInv'
    BY <2>2, SheetsStay DEF TInv, ResultInv
  <2> QED  BY <1>1, <2>1, <2>3, Adds
<1>3. CASE EndOfSheet \/ ParseError
  <2>1. stack # <<>> /\ Top \in Active
    BY <1>3, TopIsActive DEF EndOfSheet, ParseError, TInv
  <2>2. Top.errs \in Seq(Places) /\ Place \in Places
    BY <2>1 DEF Active, Frames, Place, Places, Files
  <2>3. Append(Top.errs, Place) \in Seq(Places)
    BY <2>2, AppendProperties
  <2>4. ReturnErrors(Top.errs) \/ ReturnErrors(Append(Top.errs, Place))
    BY <1>3 DEF EndOfSheet, ParseError
  <2>5. /\ StackInv' /\ errors' \in Seq(Places)
        /\ status' \in {"running", "failed", "done", "stuck", "crashed"}
    BY <2>1, <2>2, <2>3, <2>4, ReturnTypes
  <2>6. UNCHANGED <<entry, classes, variants>>
    BY <1>3 DEF EndOfSheet, ParseError
  <2>7. ResultInv'
    BY <2>5, <2>6, SheetsStay DEF TInv, ResultInv
  <2> QED  BY <1>1, <2>5, <2>7, Adds
<1> QED  BY <1>2, <1>3

\* Every step.
LEMMA NextTInv == TInv /\ [Next]_vars => TInv'
<1> SUFFICES ASSUME TInv, [Next]_vars PROVE TInv'
  OBVIOUS
<1>1. CASE NextEntrypoint
  BY <1>1, NextEntrypointTypes
<1>2. CASE Import
  BY <1>2, ImportTypes
<1>3. CASE MentionLayer \/ EndOfList \/ LayerBlock \/ EndOfBlock
  BY <1>3, LayerRuleTypes
<1>4. CASE Utility \/ CustomVariant \/ Malformed \/ OtherRule
  BY <1>4, RuleTypes
<1>5. CASE Finish \/ EndOfSheet \/ ParseError \/ Trap \/ UNCHANGED vars
  BY <1>5, OtherTypes
<1> QED  BY <1>1, <1>2, <1>3, <1>4, <1>5 DEF Next

\* Whatever the sheets hold, and however they import each other: an activation holds
\* layers that exist and a block of a rule that is there, and each rule that is filed
\* and each error is at a place of a sheet.
THEOREM ActivationTypes == Spec => []TypeOK
<1>1. TInv /\ [Next]_vars => TInv'
  BY NextTInv
<1> QED  BY <1>1, InitTInv, TInvTypes, PTL DEF Spec
=============================================================================
