------------------------------ MODULE Characters ------------------------------
(***************************************************************************)
(* Code points, and what scanner.go says of them at its end: the tests the *)
(* Scanner and the Writer share, and the parts of the Scanner that look at *)
(* a text s from behind its first i characters.  A text is a sequence of   *)
(* code points, filtered by the reader.                                    *)
(***************************************************************************)
EXTENDS Integers, SequencesExt

Newline == 10
FormFeed == 12
CarriageReturn == 13
Space == 32
Bang == 33
Quote == 34
NumberSign == 35
Percent == 37
Apostrophe == 39
LParen == 40
RParen == 41
Star == 42
Plus == 43
Minus == 45
Dot == 46
Slash == 47
Less == 60
Greater == 62
AtSign == 64
Backslash == 92
Replacement == 65533

\* Characters that are tokens by themselves: , : ; ( ) [ ] { }
Comma == 44
Colon == 58
Semicolon == 59
LBrace == 123
RBrace == 125
Symbols == {Comma, Colon, Semicolon, LParen, RParen, 91, 93, LBrace, RBrace}

IsWhitespace(r) == r \in {9, Newline, Space}

IsDigit(r) == r \in 48..57

IsIdentStart(r) == r \in 65..90 \/ r \in 97..122 \/ r = 95 \/ r >= 128

IsIdent(r) == IsIdentStart(r) \/ IsDigit(r) \/ r = Minus

IsNonPrintable(r) == r \in 0..8 \/ r = 9 \/ r \in 14..31 \/ r = 127

HexDigit(r) == IF IsDigit(r) THEN r - 48 ELSE IF r \in 65..70 THEN r - 55 ELSE r - 87

IsHexDigit(r) == IsDigit(r) \/ r \in 65..70 \/ r \in 97..102

IsE(r) == r \in {101, 69}

\* How many characters of s from the one after i on satisfy P.
Span(P(_), s, i) ==
    LET others == {j \in (i + 1)..Len(s) : ~P(s[j])}
    IN IF others = {} THEN Len(s) - i ELSE Min(others) - i - 1

\* The next n characters of s after the first i, or what there is of them.
Peek(s, i, n) == SubSeq(s, i + 1, Min({i + n, Len(s)}))

MaxRune == 1114111
Surrogates == 55296..57343

\* bufferedReader.peek, what the Scanner sees of a text (RuneReader): the end of a line
\* is a newline, but the character behind a carriage return is taken as it is.
Filtered(s) ==
    LET n == Len(s)
        filter(c) == CASE c = FormFeed -> Newline
                       [] c \in {0} \cup Surrogates -> Replacement
                       [] OTHER -> c
        from[i \in 1..(n + 2)] ==
            IF i > n THEN <<>>
            ELSE IF s[i] # CarriageReturn THEN <<filter(s[i])>> \o from[i + 1]
            ELSE <<Newline>> \o (IF Peek(s, i, 1) = <<Newline>> THEN <<>> ELSE Peek(s, i, 1)) \o from[i + 2]
    IN from[1]

StartsWithValidEscape(s) == Len(s) >= 2 /\ s[1] = Backslash /\ s[2] # Newline

StartsWithIdentSequence(s) ==
    /\ s # <<>>
    /\ \/ /\ s[1] = Minus /\ Len(s) >= 2
          /\ IsIdentStart(s[2]) \/ s[2] = Minus \/ StartsWithValidEscape(Tail(s))
       \/ StartsWithValidEscape(s)
       \/ IsIdentStart(s[1])

StartsWithNumber(s) ==
    LET from(i) == \/ Len(s) >= i /\ IsDigit(s[i])
                   \/ Len(s) >= i + 1 /\ s[i] = Dot /\ IsDigit(s[i + 1])
    IN from(1) \/ (s # <<>> /\ s[1] \in {Plus, Minus} /\ from(2))

Lower(s) == [i \in 1..Len(s) |-> IF s[i] \in 65..90 THEN s[i] + 32 ELSE s[i]]

VarName == <<118, 97, 114>>
UrlName == <<117, 114, 108>>

\* EqualCaseInsensitive with "url".
IsUrl(name) == Lower(name) = UrlName

\* A number sign begins a hash.
IsHash(s, i) == LET p == Peek(s, i + 1, 2) IN p # <<>> /\ (IsIdent(p[1]) \/ StartsWithValidEscape(p))

\* The end of the comment at i, 0 if it has none.
CommentEnd(s, i) ==
    LET ends == {k \in (i + 4)..Len(s) : s[k - 1] = Star /\ s[k] = Slash}
    IN IF ends = {} THEN 0 ELSE Min(ends)

\* Mutant of ExponentLength: after a sign, no digit is looked for.
ExponentLengthUnchecked(p) ==
    IF Len(p) >= 2 /\ IsE(p[1]) /\ (IsDigit(p[2]) \/ p[2] \in {Plus, Minus}) THEN 2 ELSE 0

\* An e and a digit, with a sign between them or not, if p begins with them.
ExponentLength(p) ==
    CASE Len(p) >= 2 /\ IsE(p[1]) /\ IsDigit(p[2]) -> 2
      [] Len(p) = 3 /\ IsE(p[1]) /\ p[2] \in {Plus, Minus} /\ IsDigit(p[3]) -> 3
      [] OTHER -> 0

\* consumeNumber: behind a sign at i, behind digits, a fraction and an exponent, each if
\* it is there.
SignStop(s, i) == IF Peek(s, i, 1) \in {<<Plus>>, <<Minus>>} THEN i + 1 ELSE i
DigitsStop(s, i) == i + Span(IsDigit, s, i)

FractionStop(s, i) ==
    LET p == Peek(s, i, 2)
    IN IF Len(p) = 2 /\ p[1] = Dot /\ IsDigit(p[2]) THEN DigitsStop(s, i + 1) ELSE i

ExponentStop(s, i) ==
    LET n == ExponentLength(Peek(s, i, 3)) IN IF n = 0 THEN i ELSE DigitsStop(s, i + n)

\* Where the number at i ends.
NumberStop(s, i) == ExponentStop(s, FractionStop(s, DigitsStop(s, SignStop(s, i))))

\* consumeEscapedCodePoint: the character, where it ends, and whether it is wrong.
CodePoint(digits) ==
    LET x == FoldLeft(LAMBDA sum, d : 16 * sum + HexDigit(d), 0, digits)
    IN IF x \in 1..MaxRune /\ x \notin Surrogates THEN x ELSE Replacement

SpaceAfterHex(s, end) == IF end < Len(s) /\ IsWhitespace(s[end + 1]) THEN end + 1 ELSE end

Escaped(s, i) ==
    LET p == Peek(s, i, 2)
        n == Min({6, Span(IsHexDigit, s, i + 1)})
        wrong(end) == [rune |-> Replacement, end |-> end, wrong |-> TRUE]
    IN CASE Len(p) < 2 \/ p[1] # Backslash -> wrong(i)
         [] Len(p) = 2 /\ p[1] = Backslash /\ p[2] = Newline -> wrong(i + 1)
         [] OTHER ->
                IF IsHexDigit(p[2])
                THEN [rune |-> CodePoint(SubSeq(s, i + 2, i + 1 + n)),
                      end |-> SpaceAfterHex(s, i + 1 + n), wrong |-> FALSE]
                ELSE [rune |-> p[2], end |-> i + 2, wrong |-> FALSE]

\* What a URL may not contain as it is.
IsBadInUrl(c) == c \in {Quote, Apostrophe, LParen} \/ IsNonPrintable(c)

\* Mutant of IsValidNumber: a digit comes first.
BeginsWithDigit(s) == s # <<>> /\ IsDigit(s[1])

\* What a number is to the Writer (token.go).
IsValidNumber(s) ==
    LET signed(i) == IF Peek(s, i, 1) \in {<<Plus>>, <<Minus>>} THEN i + 1 ELSE i
        digits(i) == i + Span(IsDigit, s, i)
        whole == digits(signed(0))
        mantissa == IF Peek(s, whole, 1) = <<Dot>> THEN digits(whole + 1) ELSE whole
        exponent == signed(mantissa + 1)
    IN /\ mantissa > signed(0) /\ mantissa # whole + 1
       /\ mantissa < Len(s) =>
              IsE(s[mantissa + 1]) /\ exponent < Len(s) /\ digits(exponent) = Len(s)

IsValidDelimiter(c) ==
    c < 128 /\ ~IsIdentStart(c) /\ ~IsDigit(c) /\ c \notin Symbols \cup {Quote, Apostrophe}

\* A token: its kind, its value, and the unit of a dimension.
Token(kind, value) == [kind |-> kind, value |-> value, unit |-> <<>>]

Dimension(value, unit) == [kind |-> "dimension", value |-> value, unit |-> unit]

\* A delimiter, or a token of a kind of its own for each symbol.
Delim(c) == Token("delim", <<c>>)
Symbol(c) == Token("symbol", <<c>>)
=============================================================================
