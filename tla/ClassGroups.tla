------------------------------ MODULE ClassGroups ------------------------------
(***************************************************************************)
(* Grouping the class names that are in use by the variants they begin     *)
(* with (woosh.go, groupClassNames, variantPrefixLength and variantsIn).   *)
(* The names come out of a map, in any order; the groups have to come out  *)
(* in one.  A name is a sequence of characters, numbered in their order.   *)
(***************************************************************************)
EXTENDS Integers, SequencesExt

CONSTANTS
    Char,       \* the characters
    Sep         \* the one between variants, a colon

Strings == Seq(Char)

VARIABLES
    names,      \* the names in the map, never changed
    variants,   \* the names of the variants, never changed
    seen,       \* the names that came out of it
    groups,     \* the groups so far
    sorted      \* how many groups have been sorted

vars == <<names, variants, seen, groups, sorted>>

Init ==
    /\ seen = {}
    /\ groups = <<>>
    /\ sorted = 0

\* strings.Index: the first separator from i on, or 0.
Index(name, i) ==
    LET at == {j \in i..Len(name) : name[j] = Sep} IN IF at = {} THEN 0 ELSE Min(at)

\* The length of the variants name begins with, separators included.
VariantPrefixLength(name) ==
    LET from[i \in 0..Len(name)] ==
            LET n == Index(name, i + 1)
            IN IF n = 0 \/ SubSeq(name, i + 1, n - 1) \notin variants THEN i ELSE from[n]
    IN from[0]

VariantPrefix(name) == SubSeq(name, 1, VariantPrefixLength(name))

\* The variants in a prefix, in order.
VariantsIn(prefix) ==
    LET from[i \in 0..Len(prefix)] ==
            LET n == Index(prefix, i + 1)
                v == SubSeq(prefix, i + 1, n - 1)
            IN IF n = 0 \/ v \notin variants THEN <<>> ELSE <<v>> \o from[n]
    IN from[0]

\* cmp.Compare for strings.
Less(a, b) ==
    \/ IsStrictPrefix(a, b)
    \/ \E i \in 1..Min({Len(a), Len(b)}) : a[i] < b[i] /\ SubSeq(a, 1, i - 1) = SubSeq(b, 1, i - 1)

\* strings.Count.
Count(prefix) == Cardinality({i \in 1..Len(prefix) : prefix[i] = Sep})

\* Few variants before many, and the same number by name.
Before(p, q) ==
    \/ Count(p) < Count(q)
    \/ Count(p) = Count(q) /\ Less(p, q)

\* slices.BinarySearchFunc: the index of the first group that is not before prefix,
\* provided that the groups are sorted.
Search(prefix) ==
    LET places == 1..(Len(groups) + 1)
        between[r \in places \X places] ==
            LET middle == (r[1] + r[2]) \div 2
            IN IF r[1] >= r[2] THEN r[1]
               ELSE IF Before(groups[middle].prefix, prefix) THEN between[<<middle + 1, r[2]>>]
               ELSE between[<<r[1], middle>>]
    IN between[<<1, Len(groups) + 1>>]

IsAt(i, prefix) == i <= Len(groups) /\ groups[i].prefix = prefix

\* The next name goes to its group, a new one if there is none.
AddName(name) ==
    LET prefix == VariantPrefix(name)
        i == Search(prefix)
    IN /\ name \in names \ seen
       /\ groups' = IF IsAt(i, prefix)
                    THEN [groups EXCEPT ![i].names = Append(@, name)]
                    ELSE InsertAt(groups, i, [prefix |-> prefix, names |-> <<name>>])
       /\ seen' = seen \cup {name}
       /\ UNCHANGED <<names, variants, sorted>>

\* Mutant of Sorted: the names stay in the order of the map.
Unsorted(group) == group

IsAscending(list) == \A i, j \in 1..Len(list) : i < j => Less(list[i], list[j])

\* slices.Sort and slices.Compact; a name comes out of the map only once.
Sorted(group) ==
    LET some == ToSet(group.names)
    IN [group EXCEPT !.names =
            CHOOSE list \in [1..Cardinality(some) -> some] : IsAscending(list)]

SortGroup ==
    /\ seen = names /\ sorted < Len(groups)
    /\ groups' = [groups EXCEPT ![sorted + 1] = Sorted(@)]
    /\ sorted' = sorted + 1
    /\ UNCHANGED <<names, variants, seen>>

Next == (\E name \in names : AddName(name)) \/ SortGroup
-----------------------------------------------------------------------------
Done == seen = names /\ sorted = Len(groups)

TypeOK ==
    /\ seen \subseteq names
    /\ groups \in Seq([prefix : Strings, names : Seq(names)])
    /\ sorted \in 0..Len(groups)

\* Few variants before many, and the same number by name.
IsLessSpecific(p, q) ==
    LET m == Len(VariantsIn(p))
        n == Len(VariantsIn(q))
    IN m < n \/ (m = n /\ Less(p, q))

\* The groups do not depend on the order in which the names came out of the map: one
\* for each combination of variants in use, as the code's comment promises, by
\* ascending specificity, and in it the names that begin with it, in order.  There is
\* but one such list of groups.
OrderDoesNotMatter ==
    Done =>
        /\ {groups[g].prefix : g \in 1..Len(groups)} = {VariantPrefix(name) : name \in names}
        /\ \A g, h \in 1..Len(groups) : g < h => IsLessSpecific(groups[g].prefix, groups[h].prefix)
        /\ \A g \in 1..Len(groups) :
              /\ ToSet(groups[g].names) = {name \in names : VariantPrefix(name) = groups[g].prefix}
              /\ IsAscending(groups[g].names)
=============================================================================
