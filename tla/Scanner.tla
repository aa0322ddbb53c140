------------------------------- MODULE Scanner -------------------------------
(***************************************************************************)
(* The tokenizer (scanner.go, Scanner.Next): characters become tokens.     *)
(* The loops over identifiers, strings and URLs take a step for each       *)
(* character or escape; runs of digits, white space and comments are taken *)
(* at once.  Locations, and the limit on the length of a token, are left   *)
(* out; of errors it counts whether there was one.                         *)
(***************************************************************************)
EXTENDS Characters

VARIABLES
    src,        \* the text
    pos,        \* how much of it has been read
    pc,         \* "next", "ident", "escape", "unit", "string", "url", "badurl" or "done"
    kind,       \* what the identifier is for
    value,      \* the characters of the token so far
    number,     \* the value of a dimension, whose unit is being read
    quote,      \* the character that ends the string
    tokens,     \* the tokens returned
    failed      \* whether any came with an error, or the end did

vars == <<src, pos, pc, kind, value, number, quote, tokens, failed>>

Init ==
    /\ pos = 0 /\ pc = "next" /\ kind = "ident" /\ value = <<>> /\ number = <<>>
    /\ quote = Quote /\ tokens = <<>> /\ failed = FALSE

Ahead(n) == Peek(src, pos, n)
AtEnd == pos = Len(src)
char == IF AtEnd THEN -1 ELSE src[pos + 1]

\* Next returns a token, with an error or without; no more of them than there are
\* characters, and one.
Return(tok, end, error) ==
    /\ Len(tokens) <= Len(src)
    /\ tokens' = Append(tokens, tok)
    /\ pos' = end
    /\ failed' = (failed \/ error)
    /\ pc' = "next"
    /\ UNCHANGED <<src, kind, value, number, quote>>

AtComment == Ahead(2) = <<Slash, Star>>

\* A comment that does not end is an error at the end.
Comment ==
    /\ pc = "next" /\ AtComment
    /\ IF CommentEnd(src, pos) > 0
       THEN pos' = CommentEnd(src, pos) /\ UNCHANGED <<pc, failed>>
       ELSE pos' = Len(src) /\ pc' = "done" /\ failed' = TRUE
    /\ UNCHANGED <<src, kind, value, number, quote, tokens>>

End ==
    /\ pc = "next" /\ AtEnd
    /\ pc' = "done"
    /\ UNCHANGED <<src, pos, kind, value, number, quote, tokens, failed>>

\* Next reads the first character of a token.
Starts == pc = "next" /\ ~AtEnd /\ ~AtComment

Whitespace ==
    /\ Starts /\ IsWhitespace(char)
    /\ Return(Token("whitespace", <<>>), pos + Span(IsWhitespace, src, pos), FALSE)

StartString ==
    /\ Starts /\ char \in {Quote, Apostrophe}
    /\ pos' = pos + 1 /\ pc' = "string" /\ quote' = char /\ value' = <<>>
    /\ UNCHANGED <<src, kind, number, tokens, failed>>

\* A name begins after the next n characters.
StartName(k, n) ==
    /\ pos' = pos + n /\ pc' = "ident" /\ kind' = k /\ value' = <<>>
    /\ UNCHANGED <<src, number, quote, tokens, failed>>

StartHash == Starts /\ char = NumberSign /\ IsHash(src, pos) /\ StartName("hash", 1)

IsAtKeyword == StartsWithIdentSequence(Peek(src, pos + 1, 3))

StartAtKeyword == Starts /\ char = AtSign /\ IsAtKeyword /\ StartName("at-keyword", 1)

IsNumeric == StartsWithNumber(Ahead(3))

StartNumeric ==
    /\ Starts /\ IsNumeric
    /\ pos' = NumberStop(src, pos) /\ value' = SubSeq(src, pos + 1, pos') /\ pc' = "unit"
    /\ UNCHANGED <<src, kind, number, quote, tokens, failed>>

AtCDC == Ahead(3) = <<Minus, Minus, Greater>>
AtCDO == Ahead(4) = <<Less, Bang, Minus, Minus>>

Angle ==
    /\ Starts
    /\ \/ AtCDC /\ Return(Token("CDC", <<>>), pos + 3, FALSE)
       \/ AtCDO /\ Return(Token("CDO", <<>>), pos + 4, FALSE)

StartIdent ==
    /\ Starts /\ ~IsNumeric /\ ~AtCDC
    /\ StartsWithIdentSequence(Ahead(3))
    /\ StartName("ident", 0)

\* An escape that is none: before a newline the backslash is consumed, at the end
\* of the source it is not.
StrayBackslash ==
    /\ Starts /\ char = Backslash /\ ~StartsWithValidEscape(Ahead(2))
    /\ Return(Delim(Backslash), IF Len(Ahead(2)) < 2 THEN pos ELSE pos + 1, TRUE)

SymbolToken ==
    /\ Starts /\ char \in Symbols
    /\ Return(Symbol(char), pos + 1, FALSE)

DelimToken ==
    /\ Starts /\ char \notin Symbols \cup {Backslash, Quote, Apostrophe} /\ ~IsWhitespace(char)
    /\ ~IsNumeric /\ ~AtCDC /\ ~AtCDO /\ ~StartsWithIdentSequence(Ahead(3))
    /\ ~(char = NumberSign /\ IsHash(src, pos)) /\ ~(char = AtSign /\ IsAtKeyword)
    /\ Return(Delim(char), pos + 1, FALSE)

-----------------------------------------------------------------------------
\* A loop goes on with the character c, at end.
Continue(c, end) ==
    /\ value' = Append(value, c)
    /\ pos' = end
    /\ UNCHANGED <<src, kind, number, quote, tokens, failed>>

\* consumeIdent.
IdentChar ==
    /\ pc = "ident" /\ ~AtEnd /\ IsIdent(char)
    /\ Continue(char, pos + 1) /\ pc' = pc

\* It reads a backslash and unreads it.
IdentBackslash ==
    /\ pc = "ident" /\ ~AtEnd /\ char = Backslash
    /\ pc' = "escape"
    /\ UNCHANGED <<src, pos, kind, value, number, quote, tokens, failed>>

\* A backslash that starts no escape stays, and the loop goes on.
IdentEscape ==
    /\ pc = "escape"
    /\ pc' = "ident"
    /\ IF StartsWithValidEscape(Ahead(2))
       THEN Continue(Escaped(src, pos).rune, Escaped(src, pos).end)
       ELSE UNCHANGED <<src, pos, kind, value, number, quote, tokens, failed>>

IdentEnds == pc = "ident" /\ ~IsIdent(char) /\ char # Backslash

IsFunction == kind = "ident" /\ Ahead(1) = <<LParen>>

EndIdent ==
    /\ IdentEnds /\ ~IsFunction
    /\ Return(IF kind = "dimension" THEN Dimension(number, value) ELSE Token(kind, value),
              pos, FALSE)

EndFunction ==
    /\ IdentEnds /\ IsFunction /\ ~IsUrl(value)
    /\ Return(Token("function", value), pos + 1, FALSE)

\* url( with a string is a function; all white space but one character is skipped.
UrlStart == LET n == Span(IsWhitespace, src, pos + 1) IN pos + 1 + Max({0, n - 1})

IsQuoted(p) ==
    \/ p # <<>> /\ p[1] \in {Quote, Apostrophe}
    \/ Len(p) = 2 /\ IsWhitespace(p[1]) /\ p[2] \in {Quote, Apostrophe}

EndUrlFunction ==
    /\ IdentEnds /\ IsFunction /\ IsUrl(value) /\ IsQuoted(Peek(src, UrlStart, 2))
    /\ Return(Token("function", value), UrlStart, FALSE)

StartUrl ==
    /\ IdentEnds /\ IsFunction /\ IsUrl(value) /\ ~IsQuoted(Peek(src, UrlStart, 2))
    /\ pc' = "url" /\ value' = <<>>
    /\ pos' = UrlStart + Span(IsWhitespace, src, UrlStart)
    /\ UNCHANGED <<src, kind, number, quote, tokens, failed>>

\* numeric, after the number.
Unit ==
    /\ pc = "unit"
    /\ IF StartsWithIdentSequence(Ahead(3))
       THEN /\ pc' = "ident" /\ kind' = "dimension" /\ number' = value /\ value' = <<>>
            /\ UNCHANGED <<src, pos, quote, tokens, failed>>
       ELSE IF Ahead(1) = <<Percent>>
            THEN Return(Token("percentage", value), pos + 1, FALSE)
            ELSE Return(Token("number", value), pos, FALSE)

-----------------------------------------------------------------------------
\* string.
StringChar ==
    /\ pc = "string" /\ ~AtEnd /\ char \notin {quote, Newline, Backslash}
    /\ Continue(char, pos + 1) /\ pc' = pc

\* Mutant of AfterNoEscape: nothing is consumed.
AfterNoEscapeStuck == pos

\* What is no escape is left out: a newline after a backslash, or the backslash.
AfterNoEscape == pos + Len(Ahead(2))

StringEscape ==
    /\ pc = "string" /\ ~AtEnd /\ char = Backslash
    /\ pc' = pc
    /\ IF StartsWithValidEscape(Ahead(2))
       THEN Continue(Escaped(src, pos).rune, Escaped(src, pos).end)
       ELSE /\ pos' = AfterNoEscape
            /\ UNCHANGED <<src, kind, value, number, quote, tokens, failed>>

EndString ==
    /\ pc = "string"
    /\ \/ AtEnd /\ Return(Token("string", value), pos, TRUE)
       \/ ~AtEnd /\ char = quote /\ Return(Token("string", value), pos + 1, FALSE)
       \/ ~AtEnd /\ char = Newline /\ Return(Token("bad-string", value), pos, TRUE)

-----------------------------------------------------------------------------
\* url.
UrlChar ==
    /\ pc = "url" /\ ~AtEnd /\ ~IsBadInUrl(char)
    /\ ~IsWhitespace(char) /\ char \notin {RParen, Backslash}
    /\ Continue(char, pos + 1) /\ pc' = pc

EndUrl ==
    /\ pc = "url"
    /\ \/ AtEnd /\ Return(Token("url", value), pos, TRUE)
       \/ ~AtEnd /\ char = RParen /\ Return(Token("url", value), pos + 1, FALSE)

\* White space has to be followed by the end, which is then an error all the same.
UrlWhitespace ==
    /\ pc = "url" /\ ~AtEnd /\ IsWhitespace(char)
    /\ LET end == pos + Span(IsWhitespace, src, pos)
       IN IF end = Len(src) \/ src[end + 1] = RParen
          THEN Return(Token("url", value), Min({end + 1, Len(src)}), TRUE)
          ELSE Continue(src[end + 1], end + 1) /\ pc' = "badurl"

\* Of the error, only that there is one is kept until the token is returned.
SpoilUrl(end) ==
    /\ pc' = "badurl" /\ pos' = end /\ failed' = TRUE
    /\ UNCHANGED <<src, kind, number, quote, tokens>>

UrlBadChar ==
    /\ pc = "url" /\ ~AtEnd /\ IsBadInUrl(char) /\ ~IsWhitespace(char)
    /\ value' = Append(value, char)
    /\ SpoilUrl(pos + 1)

UrlEscape ==
    /\ pc = "url" /\ ~AtEnd /\ char = Backslash
    /\ LET e == Escaped(src, pos)
       IN IF e.wrong THEN SpoilUrl(e.end) /\ UNCHANGED value
                     ELSE Continue(e.rune, e.end) /\ pc' = pc

\* The rest of a bad URL: after a backslash it looks for another.
BadUrlChar ==
    /\ pc = "badurl" /\ ~AtEnd /\ char # RParen
    /\ pc' = pc
    /\ IF char = Backslash
       THEN Continue(Escaped(src, pos + 1).rune, Escaped(src, pos + 1).end)
       ELSE Continue(char, pos + 1)

EndBadUrl ==
    /\ pc = "badurl" /\ char \in {-1, RParen}
    /\ Return(Token("bad-url", value), Min({pos + 1, Len(src)}), FALSE)

-----------------------------------------------------------------------------
Next ==
    \/ Comment \/ End
    \/ Whitespace \/ StartString \/ StartHash \/ StartAtKeyword \/ StartNumeric \/ Angle
    \/ StartIdent \/ StrayBackslash \/ SymbolToken \/ DelimToken
    \/ IdentChar \/ IdentBackslash \/ IdentEscape \/ EndIdent \/ EndFunction
    \/ EndUrlFunction \/ StartUrl \/ Unit
    \/ StringChar \/ StringEscape \/ EndString
    \/ UrlChar \/ EndUrl \/ UrlWhitespace \/ UrlBadChar \/ UrlEscape \/ BadUrlChar \/ EndBadUrl

\* Where Next gets no further: consumeIdent unreads a backslash that starts no escape
\* and reads it again, for ever; and a backslash at the end of the source is returned
\* again by every call.
Trapped ==
    /\ ~AtEnd /\ char = Backslash /\ ~StartsWithValidEscape(Ahead(2))
    /\ pc = "ident" \/ (pc = "next" /\ Len(Ahead(2)) = 1)
=============================================================================
