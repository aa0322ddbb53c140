------------------------------ MODULE Expansion ------------------------------
(***************************************************************************)
(* A @utility rule and a class name (utilities.go, writeRegexp and expand; *)
(* value_function.go, match and the replacement of --value() functions):   *)
(* which names the utility is found by in the sources, and what it says    *)
(* for a name.  The two look at the end of a name in different ways.       *)
(***************************************************************************)
EXTENDS Formats, ValueFunctions

\* isAcceptableBareValue; strings.Cut looks for the word "ratio" and finds none.
BareValue(value, flags) ==
    IF \/ "number" \in flags /\ IsNumber(value)
       \/ "integer" \in flags /\ IntegerEnd(value) = Len(value)
    THEN <<<<Tok("number", value)>>>>
    ELSE IF "percentage" \in flags /\ Len(value) > 2 /\ IsPercentage(value)
    THEN <<<<Tok("percentage", value)>>>>
    ELSE IF "ratio" \in flags /\ IsRatio(value)
    THEN <<<<Tok("number", value), Tok("delim", <<Slash>>), Tok("delim", <<>>)>>>>
    ELSE <<>>

Var(name) == <<Plain("var"), Tok("custom", name), Plain(")")>>

InBrackets(value) == Len(value) > 2 /\ value[1] = LBracket /\ Last(value) = RBracket

Inner(value) == SubSeq(value, 2, Len(value) - 1)

IsNamed(key, usage, value) == \E prefix \in usage.prefixes : key = prefix \o value

\* What is in brackets, of which the Scanner makes all: it may make nothing of a value
\* that is accepted.
ArbitraryValue(inner, flags, all) ==
    IF IsAcceptableArbitraryValue(inner, flags, all) THEN Scanned(all) ELSE <<>>

\* Whether it gets to the end, each time it reads the value.
ArbitraryEnds(inner, flags, all) ==
    /\ AcceptanceEnds(inner, flags, all)
    /\ IsAcceptableArbitraryValue(inner, flags, all) => ScanEnds(all)

\* match: what may replace a function that takes certain values; the first one does.
Replacements(usage, value, keys) ==
    IF value = <<>> THEN <<>>
    ELSE (IF value \in usage.literals THEN <<<<Tok("ident", value)>>>> ELSE <<>>)
      \o FlattenSeq([k \in 1..Len(keys) |-> IF IsNamed(keys[k], usage, value) THEN <<Var(keys[k])>> ELSE <<>>])
      \o (IF InBrackets(value) THEN ArbitraryValue(Inner(value), usage.arbitrary, ReadAll(Inner(value)))
          ELSE <<>>)
      \o BareValue(value, usage.bare)

\* Whether match returns: it reads a value in brackets where nothing replaces the
\* function before.
MatchEnds(usage, value, keys) ==
    \/ ~InBrackets(value) \/ value \in usage.literals
    \/ \E k \in 1..Len(keys) : IsNamed(keys[k], usage, value)
    \/ ArbitraryEnds(Inner(value), usage.arbitrary, ReadAll(Inner(value)))

\* Mutant of BehindReplacement: as if the function were still as long as it was.
BehindFunction(s, n, replacement) == s.i + n

\* Where the loop goes on.
BehindReplacement(s, n, replacement) == s.i + Len(replacement)

\* What was found takes the place of the n tokens of the function; if nothing was, the
\* declaration is given up.
Replaced(s, n, found) ==
    IF found = <<>> THEN [s EXCEPT !.i = Len(s.tokens) + 1, !.ok = FALSE]
    ELSE [tokens |-> SubSeq(s.tokens, 1, s.i - 1) \o found[1] \o From(s.tokens, s.i + n),
          i |-> BehindReplacement(s, n, found[1]), ok |-> TRUE]

\* One function of n tokens, unless an argument is wrong.  The loop stays where it is if
\* match does not return.
ReplaceUsage(s, n, usage, value, keys) ==
    IF usage.errors > 0 THEN Replaced(s, n, <<>>)
    ELSE IF MatchEnds(usage, value, keys) THEN Replaced(s, n, Replacements(usage, value, keys)) ELSE s

\* One function, whose extent is v; one that is not closed ends the loop.
ReplaceFunction(s, v, value, keys) ==
    IF ~v.ok THEN [s EXCEPT !.i = Len(s.tokens) + 1]
    ELSE ReplaceUsage(s, v.n, Merge(NoUsage, SubSeq(s.tokens, s.i, s.i + v.n - 1)), value, keys)

\* replaceValueFunction: its loop over tokens that grow and shrink.
ReplaceValueFunction(list, value, keys) ==
    LET pass(s) ==
            IF s.i > Len(s.tokens) THEN s
            ELSE IF s.tokens[s.i].kind # "--value" THEN [s EXCEPT !.i = @ + 1]
            ELSE ReplaceFunction(s, ValueLength(KindsIn(From(s.tokens, s.i))), value, keys)
        after[k \in 0..Len(list)] ==
            IF k = 0 THEN [tokens |-> list, i |-> 1, ok |-> TRUE] ELSE pass(after[k - 1])
    IN after[Len(list)]

ReplacementEnds(s) == s.i > Len(s.tokens)

\* replaceValueFunctionInBlock: declarations that do not take the value are left out.
ReplaceInBlock(parts, value, keys) ==
    LET kept(part, new) == IF new.ok THEN <<[part EXCEPT !.value = new.tokens]>> ELSE <<>>
        said(part) ==
            IF part.type # "declaration" THEN <<part>>
            ELSE kept(part, ReplaceValueFunction(part.value, value, keys))
    IN FlattenSeq([k \in 1..Len(parts) |-> said(parts[k])])

\* expand, for a class name without its variants: the block of the new rule, nothing
\* if there is none.
Expand(utility, suffix, keys) ==
    IF (utility.usesValue /\ IsPrefix(utility.name, suffix)) \/ suffix = utility.name
    THEN ReplaceInBlock(utility.parts, From(suffix, Len(utility.name) + 1), keys)
    ELSE <<>>

\* Whether it returns.
ExpandEnds(utility, suffix, keys) ==
    LET value == From(suffix, Len(utility.name) + 1)
    IN utility.usesValue /\ IsPrefix(utility.name, suffix) =>
          \A k \in 1..Len(utility.parts) :
             utility.parts[k].type = "declaration" =>
                 ReplacementEnds(ReplaceValueFunction(utility.parts[k].value, value, keys))

\* writeRegexp: with no alternatives the pattern takes the name alone.
MatchesUsage(value, usage, keys) ==
    LET isNamed == \E prefix \in usage.prefixes : prefix \o value \in ToSet(keys)
        hasNamed == \E prefix \in usage.prefixes : \E k \in ToSet(keys) : IsPrefix(prefix, k)
        hasOthers == usage.literals # {} \/ usage.bare # {} \/ usage.arbitrary # {}
        isBracketed == Len(value) >= 2 /\ value[1] = LBracket /\ Last(value) = RBracket
    IN IF ~(hasNamed \/ hasOthers) THEN value = <<>>
       ELSE \/ value \in usage.literals \/ isNamed
            \/ MatchesBare(value, usage.bare)
            \/ isBracketed /\ MatchesArbitrary(Inner(value), usage.arbitrary)

MatchesPattern(utility, suffix, keys) ==
    LET value == From(suffix, Len(utility.name) + 1)
    IN /\ IsPrefix(utility.name, suffix)
       /\ IF utility.usesValue THEN MatchesUsage(value, Collect(BlockTokens(utility.parts)), keys)
          ELSE value = <<>>

-----------------------------------------------------------------------------
\* By the grammar: a declaration says what it said, each function in it replaced by
\* what it takes the value for, and nothing if one does not take it.
HasNoOther(list, value, keys) ==
    \A i \in 1..Len(list) : list[i].kind = "--value" =>
        LET function == SubSeq(list, i, EndOfValue(KindsIn(list), i))
        IN \/ Replacements(Merge(NoUsage, function), value, keys) # <<>>
           \/ \E j \in 1..(i - 1) : list[j].kind = "--value" /\ EndOfValue(KindsIn(list), j) > i

Meant(list, value, keys) ==
    LET n == Len(list)
        from[i \in 1..(n + 1)] ==
            IF i > n THEN <<>>
            ELSE IF list[i].kind # "--value" THEN <<list[i]>> \o from[i + 1]
            ELSE LET end == EndOfValue(KindsIn(list), i)
                 IN Replacements(Merge(NoUsage, SubSeq(list, i, end)), value, keys)[1] \o from[end + 1]
    IN from[1]

MeantBlock(parts, value, keys) ==
    FlattenSeq([k \in 1..Len(parts) |->
        IF parts[k].type # "declaration" THEN <<parts[k]>>
        ELSE IF HasNoOther(parts[k].value, value, keys)
        THEN <<[parts[k] EXCEPT !.value = Meant(@, value, keys)]>> ELSE <<>>])
=============================================================================
