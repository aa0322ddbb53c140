------------------------------- MODULE Formats -------------------------------
(***************************************************************************)
(* What the end of a class name may look like.  Two parts of the program   *)
(* say so: utilities.go writes a regular expression that finds class names *)
(* in the sources, value_function.go accepts or rejects the names found.   *)
(* A class name is a sequence of code points without white space, quotes   *)
(* and angle brackets; the tables of units and keywords are parameters.    *)
(***************************************************************************)
EXTENDS ClassValues

CONSTANTS       \* words in lower case
    WideKeywords, AbsoluteSizes, RelativeSizes, LineWidths, FitKeywords, AutoKeyword,
    LengthUnits, AngleUnits

\* The words are of letters and hyphens.
ASSUME KeywordsAssumption ==
    \A w \in WideKeywords \cup AbsoluteSizes \cup RelativeSizes \cup LineWidths
                 \cup FitKeywords \cup AutoKeyword \cup LengthUnits \cup AngleUnits :
        w # <<>> /\ \A i \in 1..Len(w) : w[i] \in (97..122) \cup {Minus}

LBracket == 91
RBracket == 93

\* EqualCaseInsensitive with one of the words of a table.
IsIn(s, words) == Lower(s) \in words

From(s, i) == SubSeq(s, i, Len(s))

\* Behind a sign at i, if there is one, and behind digits.
SignAt(s, i) == IF i < Len(s) /\ s[i + 1] \in {Plus, Minus} THEN i + 1 ELSE i
DigitsAt(s, i) == i + Span(IsDigit, s, i)

FractionAt(s, i) ==
    IF i + 1 < Len(s) /\ s[i + 1] = Dot /\ IsDigit(s[i + 2]) THEN DigitsAt(s, i + 1) ELSE i

Exponent(s, i, j) ==
    IF i < Len(s) /\ IsE(s[i + 1]) /\ DigitsAt(s, j) > j THEN DigitsAt(s, j) ELSE i

\* The number behind a sign that ends at i.
Unsigned(s, i, end) == IF end = i THEN 0 ELSE Exponent(s, end, SignAt(s, end + 1))

SignedAt(s, i) == Unsigned(s, i, FractionAt(s, DigitsAt(s, i)))

\* The length of the number s begins with, or 0.
NumberEnd(s) == SignedAt(s, SignAt(s, 0))

IntegerEnd(s) ==
    LET sign == IF s # <<>> /\ s[1] \in {Plus, Minus} THEN 1 ELSE 0
        end == sign + Span(IsDigit, s, sign)
    IN IF end = sign THEN 0 ELSE end

-----------------------------------------------------------------------------
\* What the expansion accepts.

IsNumber(s) == NumberEnd(s) = Len(s)

\* A number with one of the units.
IsUnitAt(s, n, units) == n > 0 /\ IsIn(From(s, n + 1), units)
HasUnit(s, units) == IsUnitAt(s, NumberEnd(s), units)

IsPercentAt(s, n) == n > 0 /\ From(s, n + 1) = <<Percent>>
IsPercentage(s) == IsPercentAt(s, NumberEnd(s))

\* Any character but a slash may come between the numbers; one number will do, and
\* so will nothing.
IsRatioAt(s, n) == n >= Len(s) \/ (n > 0 /\ s[n + 1] # Slash /\ IsNumber(From(s, n + 2)))
IsRatio(s) == IsRatioAt(s, NumberEnd(s))

\* Three numbers with blanks between them, and as many characters behind the last
\* number as it has itself.  Behind blanks, t is u, and u begins with n of a number;
\* strings.IndexFunc wants something to be there.
BehindBlanks(t) ==
    LET isBlank(c) == c \in {Space, Underscore} IN From(t, Span(isBlank, t, 0) + 1)

GoesOn(t, u, n) == Len(u) \in 1..(Len(t) - 1) /\ n > 0

IsThirdAt(t, u, n) == GoesOn(t, u, n) /\ n = Len(From(u, n + 1))

IsSecondAt(t, u, n) ==
    LET rest == From(u, n + 1)
        third == BehindBlanks(rest)
    IN GoesOn(t, u, n) /\ IsThirdAt(rest, third, NumberEnd(third))

IsVectorAt(s, n) ==
    LET rest == From(s, n + 1)
        second == BehindBlanks(rest)
    IN n > 0 /\ IsSecondAt(rest, second, NumberEnd(second))

IsVector(s) == IsVectorAt(s, NumberEnd(s))

\* isBGSize, of what the Scanner makes of a value: cover or contain, or one size, or two
\* with nothing between them, a comment at most.
IsSize(r) ==
    /\ ~r.wrong
    /\ \/ r.tok.kind = "percentage"
       \/ r.tok.kind = "dimension" /\ IsIn(r.unit, LengthUnits)
       \/ r.tok.kind = "ident" /\ IsIn(r.tok.text, AutoKeyword)

IsFit(r) == ~r.wrong /\ r.tok.kind = "ident" /\ IsIn(r.tok.text, FitKeywords)

IsBgSize(all) ==
    LET n == Len(all.list)
    IN /\ ~all.stuck
       /\ \/ n = 1 /\ (IsFit(all.list[1]) \/ IsSize(all.list[1]))
          \/ n = 2 /\ IsSize(all.list[1]) /\ IsSize(all.list[2])

\* A call of Next does not return, or the loop behind white space does not get to the end.
BgSizeEnds(all) ==
    LET n == Len(all.list)
        blank(r) == r.tok.kind = "ws"
    IN all.stuck =>
          /\ n > 0
          /\ IsFit(all.list[1]) => n > 1
          /\ IsSize(all.list[1]) =>
                 /\ n > 1 /\ ~blank(all.list[2])
                 /\ IsSize(all.list[2]) => n > 2

\* url(...) and var(...), with something in them.
IsCall(s, name) ==
    /\ Len(s) > 5 /\ Lower(SubSeq(s, 1, 3)) = name
    /\ s[4] = LParen /\ Last(s) = RParen

\* The kinds of arbitrary values that are not restricted.
Unparseable == {"*", "color", "family-name", "generic-name", "position", "image"}

\* isAcceptableArbitraryValue, up to where isBGSize is called, which alone has the Scanner
\* read the value.
IsAcceptedAtOnce(s, flags) ==
    \/ flags \cap Unparseable # {} \/ IsIn(s, WideKeywords) \/ IsCall(s, VarName)
    \/ "absolute-size" \in flags /\ IsIn(s, AbsoluteSizes)
    \/ "angle" \in flags /\ HasUnit(s, AngleUnits)

IsAcceptableArbitraryValue(s, flags, all) ==
    /\ s # <<>> \/ "*" \in flags
    /\ flags # {}
    /\ \/ IsAcceptedAtOnce(s, flags)
       \/ "relative-size" \in flags /\ IsIn(s, RelativeSizes)
       \/ "length" \in flags /\ HasUnit(s, LengthUnits)
       \/ "line-width" \in flags /\ (IsIn(s, LineWidths) \/ HasUnit(s, LengthUnits))
       \/ "bg-size" \in flags /\ IsBgSize(all)
       \/ "integer" \in flags /\ IntegerEnd(s) = Len(s)
       \/ "number" \in flags /\ IsNumber(s)
       \/ "percentage" \in flags /\ IsPercentage(s)
       \/ "ratio" \in flags /\ IsRatio(s)
       \/ "url" \in flags /\ IsCall(s, UrlName)
       \/ "vector" \in flags /\ IsVector(s)

AcceptanceEnds(s, flags, all) ==
    "bg-size" \in flags => IsAcceptedAtOnce(s, flags) \/ BgSizeEnds(all)

-----------------------------------------------------------------------------
\* What the regular expression matches.  A part of it takes the places where it may
\* begin, as numbers of characters before them, to the places where it may end.

Digits == 48..57
Letters == (65..90) \cup (97..122)
Signs == {Plus, Minus}

One(s, starts, chars) == {i + 1 : i \in {i \in starts : i < Len(s) /\ s[i + 1] \in chars}}

Many(s, starts, chars) ==
    UNION {{j \in i..Len(s) : \A k \in (i + 1)..j : s[k] \in chars} : i \in starts}

Several(s, starts, chars) == Many(s, One(s, starts, chars), chars)

\* Mutant of NumberPattern: the sign of an exponent may be left out, and so may the
\* exponent behind it.
NumberPatternSign(s, starts) ==
    LET signed == starts \cup One(s, starts, Signs)
    IN Several(s, signed, Digits)

\* [-+]?(?:[0-9]+(?:\.[0-9]+)?|\.[0-9]+)(?:[eE][+-][0-9]+)?
NumberPattern(s, starts) ==
    LET signed == starts \cup One(s, starts, Signs)
        whole == Several(s, signed, Digits)
        mantissa == whole \cup Several(s, One(s, whole \cup signed, {Dot}), Digits)
    IN mantissa \cup Several(s, One(s, One(s, mantissa, {69, 101}), Signs), Digits)

IntegerPattern(s, starts) == Several(s, starts \cup One(s, starts, Signs), Digits)

UnitPattern(s, starts) ==
    Many(s, One(s, starts, Letters \cup {Minus}), Letters \cup Digits \cup {Minus, Underscore})

\* Behind a number, for which there are several ends,
BarePattern(s, flags, number) ==
    IF flags \cap {"number", "ratio", "percentage"} # {}
    THEN number \cup IF "ratio" \in flags THEN NumberPattern(s, One(s, number, {Slash})) ELSE {}
    ELSE IF "integer" \in flags THEN IntegerPattern(s, {0}) ELSE {}

MatchesBare(s, flags) == Len(s) \in BarePattern(s, flags, NumberPattern(s, {0}))

\* and of the part between brackets, which excludes white space, and so two background
\* sizes, for which the pattern wants some.
MatchesBehind(s, flags, number) ==
    LET blanks(starts) == Several(s, starts, {Underscore})
        isCall(chars) ==
            /\ Len(s) > 4 /\ s[4] = LParen /\ Last(s) = RParen
            /\ \A i \in 5..(Len(s) - 1) : s[i] \in chars
    IN IF flags \cap Unparseable # {}
       THEN (s # <<>> \/ "*" \in flags) /\ RBracket \notin ToSet(s)
       ELSE /\ flags # {}
            /\ \/ s \in WideKeywords
               \/ /\ IsPrefix(VarName, s)
                  /\ isCall(Letters \cup Digits \cup {Minus, Underscore, Comma})
               \/ /\ flags \cap {"absolute-size", "bg-size", "line-width", "relative-size"} # {}
                  /\ Len(s) \in Several(s, {0}, Letters \cup Digits \cup {Minus})
               \/ /\ flags \cap {"angle", "bg-size", "length", "line-width"} # {}
                  /\ Len(s) \in UnitPattern(s, number)
               \/ IF flags \cap {"number", "ratio"} # {} THEN Len(s) \in number
                  ELSE "integer" \in flags /\ Len(s) \in IntegerPattern(s, {0})
               \/ "percentage" \in flags /\ Len(s) \in One(s, number, {Percent})
               \/ "ratio" \in flags /\ Len(s) \in NumberPattern(s, One(s, number, {Slash}))
               \/ /\ "url" \in flags /\ IsPrefix(UrlName, Lower(s))
                  /\ isCall(ToSet(s) \ {RBracket, RParen})
               \/ /\ "vector" \in flags
                  /\ Len(s) \in NumberPattern(s, blanks(NumberPattern(s, blanks(number))))

MatchesArbitrary(s, flags) == MatchesBehind(s, flags, NumberPattern(s, {0}))
=============================================================================
