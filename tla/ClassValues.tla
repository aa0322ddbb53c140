----------------------------- MODULE ClassValues -----------------------------
(***************************************************************************)
(* What the Scanner makes of the inside of the brackets at the end of a    *)
(* class name (value_function.go, match, isBGSize and classValueReader).   *)
(* Scanner has the loops one step at a time; here Next is taken as a whole,*)
(* on a short text without newlines, quotes and angle brackets.            *)
(***************************************************************************)
EXTENDS Values, Characters

Underscore == 95

\* classValueReader: an underscore stands for a blank.
Blanks(s) == [i \in 1..Len(s) |-> IF s[i] = Underscore THEN Space ELSE s[i]]

\* What Next returns from behind the first characters on: a token, the unit of a
\* dimension, where the Scanner is then, whether there is an error, and whether it
\* returns at all.
Read(tok, end) == [tok |-> tok, unit |-> <<>>, end |-> end, wrong |-> FALSE, returns |-> TRUE]

WithEscaped(n, e) == [value |-> Append(n.value, e.rune), end |-> e.end]

\* consumeIdent.
ReadName(s, i) ==
    LET pass(n) ==
            CASE n.end < Len(s) /\ IsIdent(s[n.end + 1]) ->
                     [value |-> Append(n.value, s[n.end + 1]), end |-> n.end + 1]
              [] StartsWithValidEscape(Peek(s, n.end, 2)) ->
                     WithEscaped(n, Escaped(s, n.end))
              [] OTHER -> n
        after[k \in 0..Len(s)] ==
            IF k = 0 THEN [value |-> <<>>, end |-> i] ELSE pass(after[k - 1])
    IN after[Len(s)]

\* A backslash that starts no escape is read again and again.
Returns(s, n) == Peek(s, n.end, 1) # <<Backslash>>

Named(kind, s, n) == [Read(Tok(kind, n.value), n.end) EXCEPT !.returns = Returns(s, n)]

\* The characters of a URL, and of the rest of a bad one.
AfterEscape(u, e) ==
    IF e.wrong THEN [u EXCEPT !.kind = "bad-url", !.end = e.end, !.wrong = TRUE]
    ELSE [u EXCEPT !.end = e.end]

UrlPass(s, u) ==
    LET blank == u.end + Span(IsWhitespace, s, u.end)
        isLast == blank = Len(s) \/ s[blank + 1] = RParen
        bad(end, wrong) == [u EXCEPT !.kind = "bad-url", !.end = end, !.wrong = wrong]
        over(end, wrong) == [u EXCEPT !.end = Min({end, Len(s)}), !.wrong = wrong, !.over = TRUE]
        c == s[u.end + 1]
    IN IF u.end >= Len(s) THEN over(u.end, TRUE)
       ELSE IF c = RParen THEN over(u.end + 1, FALSE)
       ELSE IF IsWhitespace(c) THEN (IF isLast THEN over(blank + 1, TRUE) ELSE bad(blank + 1, FALSE))
       ELSE IF IsBadInUrl(c) THEN bad(u.end + 1, TRUE)
       ELSE IF c # Backslash THEN [u EXCEPT !.end = @ + 1]
       ELSE AfterEscape(u, Escaped(s, u.end))

BadUrlPass(s, u) ==
    IF Peek(s, u.end, 1) \in {<<>>, <<RParen>>} THEN [u EXCEPT !.end = Min({@ + 1, Len(s)}), !.over = TRUE]
    ELSE IF s[u.end + 1] # Backslash THEN [u EXCEPT !.end = @ + 1]
    ELSE [u EXCEPT !.end = Escaped(s, u.end + 1).end]

\* url: what is in it does not matter, only where it ends, and whether it is one.
UrlRead(u) == [Read(Plain(u.kind), u.end) EXCEPT !.wrong = u.wrong]

ReadUrl(s, i) ==
    LET pass(u) == IF u.over THEN u ELSE IF u.kind = "url" THEN UrlPass(s, u) ELSE BadUrlPass(s, u)
        after[k \in 0..(Len(s) + 1)] ==
            IF k = 0 THEN [kind |-> "url", end |-> i + Span(IsWhitespace, s, i), wrong |-> FALSE, over |-> FALSE]
            ELSE pass(after[k - 1])
    IN UrlRead(after[Len(s) + 1])

\* ident.
AfterName(s, n) ==
    IF Peek(s, n.end, 1) = <<LParen>>
    THEN IF IsUrl(n.value) THEN ReadUrl(s, n.end + 1)
         ELSE Read(Tok(IF Lower(n.value) = VarName THEN "var" ELSE "function", n.value), n.end + 1)
    ELSE Named(IF IsPrefix(<<Minus, Minus>>, n.value) THEN "custom" ELSE "ident", s, n)

ReadIdentLike(s, i) == AfterName(s, ReadName(s, i))

\* numeric.
WithUnit(s, number, n) ==
    [Read(Tok("dimension", number), n.end) EXCEPT !.unit = n.value, !.returns = Returns(s, n)]

AfterNumber(s, i, end) ==
    LET number == Peek(s, i, end - i)
    IN IF StartsWithIdentSequence(Peek(s, end, 3)) THEN WithUnit(s, number, ReadName(s, end))
       ELSE IF Peek(s, end, 1) = <<Percent>> THEN Read(Tok("percentage", number), end + 1)
       ELSE Read(Tok("number", number), end)

ReadNumeric(s, i) == AfterNumber(s, i, NumberStop(s, i))

SymbolKind(c) ==
    CASE c = Comma -> "," [] c = Colon -> ":" [] c = Semicolon -> ";"
      [] c = LParen -> "(" [] c = RParen -> ")" [] c = 91 -> "[" [] c = 93 -> "]"
      [] c = LBrace -> "{" [] c = RBrace -> "}"

\* A backslash that starts no escape is an error, and at the end it stays.
StrayBackslash(s, i) ==
    [Read(Tok("delim", <<Backslash>>), IF Len(Peek(s, i, 2)) < 2 THEN i ELSE i + 1) EXCEPT !.wrong = TRUE]

\* Next, before something that is no comment.
ReadToken(s, i) ==
    LET c == s[i + 1]
    IN CASE IsWhitespace(c) -> Read(Plain("ws"), i + Span(IsWhitespace, s, i))
         [] c = NumberSign /\ IsHash(s, i) -> Named("hash", s, ReadName(s, i + 1))
         [] c = AtSign /\ StartsWithIdentSequence(Peek(s, i + 1, 3)) ->
                Named("at-keyword", s, ReadName(s, i + 1))
         [] StartsWithNumber(Peek(s, i, 3)) -> ReadNumeric(s, i)
         [] StartsWithIdentSequence(Peek(s, i, 3)) -> ReadIdentLike(s, i)
         [] c = Backslash /\ ~StartsWithValidEscape(Peek(s, i, 2)) -> StrayBackslash(s, i)
         [] c \in Symbols -> Read(Plain(SymbolKind(c)), i + 1)
         [] OTHER -> Read(Tok("delim", Peek(s, i, 1)), i + 1)

\* The next call of Next: one that does not return, or that is at a backslash at the
\* end, is the last to matter.
Reads(all, r) ==
    IF ~r.returns THEN [all EXCEPT !.stuck = TRUE]
    ELSE [list |-> Append(all.list, r), end |-> r.end, stuck |-> r.end = all.end]

\* A comment that does not end is an error at the end.
ReadComment(s, i) ==
    IF CommentEnd(s, i) > 0 THEN Read(Plain(EOF), CommentEnd(s, i))
    ELSE [Read(Plain(EOF), Len(s)) EXCEPT !.wrong = TRUE]

ReadPass(s, all) ==
    IF all.stuck \/ all.end >= Len(s) THEN all
    ELSE IF Peek(s, all.end, 2) # <<Slash, Star>> THEN Reads(all, ReadToken(s, all.end))
    ELSE LET r == ReadComment(s, all.end)
         IN IF r.wrong THEN Reads(all, r) ELSE [all EXCEPT !.end = r.end]

\* All that Next returns for a value in brackets, and whether it gets no further.
ReadAll(inner) ==
    LET s == Blanks(inner)
        after[k \in 0..Len(s)] ==
            IF k = 0 THEN [list |-> <<>>, end |-> 0, stuck |-> FALSE] ELSE ReadPass(s, after[k - 1])
    IN after[Len(s)]

HasError(all) == \E k \in 1..Len(all.list) : all.list[k].wrong

\* match, of a value in brackets that is accepted: its tokens, or nothing.
Scanned(all) ==
    IF all.stuck \/ HasError(all) THEN <<>>
    ELSE <<[k \in 1..Len(all.list) |-> all.list[k].tok]>>

\* It has no end unless there is an error before.
ScanEnds(all) == all.stuck => HasError(all)
=============================================================================
