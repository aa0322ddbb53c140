-------------------------------- MODULE Writer --------------------------------
(***************************************************************************)
(* The writer (writer.go, WriteToken): tokens become characters, with      *)
(* escapes where a character means something else, with a comment between  *)
(* tokens that would become one, and with indentation.                     *)
(***************************************************************************)
EXTENDS Characters

VARIABLES
    text,           \* what has been written
    prev,           \* the token written last
    indent,         \* the number of tabs
    needsIndent

vars == <<text, prev, indent, needsIndent>>

Nothing == Token("nothing", <<>>)

Init == text = <<>> /\ prev = Nothing /\ indent = 0 /\ needsIndent = FALSE

HexDigits(r) ==
    LET digit(d) == IF d < 10 THEN 48 + d ELSE 87 + d
    IN IF r < 16 THEN <<digit(r)>> ELSE <<digit(r \div 16), digit(r % 16)>>

\* appendEscape, for the characters below 256 that it is called for.
AppendEscape(r) ==
    IF IsHexDigit(r) \/ r < Bang \/ r = 127
    THEN <<Backslash>> \o HexDigits(r) \o <<Space>>
    ELSE <<Backslash, r>>

Escape(P(_), s) ==
    FlattenSeq([i \in 1..Len(s) |-> IF P(s[i]) THEN AppendEscape(s[i]) ELSE <<s[i]>>])

EscapeRest(s) == Escape(LAMBDA r : ~IsIdent(r), s)

\* writeIdent.
WriteIdent(s) ==
    CASE s = <<Minus, Minus>> -> <<Backslash, Minus, Backslash, Minus>>
      [] s # <<Minus, Minus>> /\ IsIdentStart(s[1]) -> EscapeRest(s)
      [] s # <<Minus, Minus>> /\ s[1] = Minus /\ Len(s) > 1 /\ (IsIdentStart(s[2]) \/ s[2] = Minus) ->
            SubSeq(s, 1, 2) \o EscapeRest(SubSeq(s, 3, Len(s)))
      [] OTHER -> AppendEscape(s[1]) \o EscapeRest(Tail(s))

\* A unit that looks like an exponent gets a backslash before its e.
LooksLikeExponent(unit) ==
    Len(unit) >= 2 /\ IsE(unit[1]) /\ (unit[2] = Minus \/ IsDigit(unit[2]))

Spelled(tok) ==
    CASE tok.kind \in {"symbol", "delim", "number"} -> tok.value
      [] tok.kind = "CDO" -> <<Less, Bang, Minus, Minus>>
      [] tok.kind = "CDC" -> <<Minus, Minus, Greater>>
      [] tok.kind = "ident" -> WriteIdent(tok.value)
      [] tok.kind = "function" -> WriteIdent(tok.value) \o <<LParen>>
      [] tok.kind = "at-keyword" -> <<AtSign>> \o WriteIdent(tok.value)
      [] tok.kind = "hash" -> <<NumberSign>> \o EscapeRest(tok.value)
      [] tok.kind \in {"string", "bad-string"} ->
            <<Quote>> \o Escape(LAMBDA r : r \in {Quote, Backslash, Newline}, tok.value) \o <<Quote>>
      [] tok.kind \in {"url", "bad-url"} ->
            <<117, 114, 108, LParen>>
                \o Escape(LAMBDA r : \/ IsWhitespace(r) \/ IsNonPrintable(r)
                                     \/ r \in {Quote, Apostrophe, LParen, RParen, Backslash},
                          tok.value)
                \o <<RParen>>
      [] tok.kind = "percentage" -> Append(tok.value, Percent)
      [] tok.kind = "dimension" ->
            tok.value \o (IF LooksLikeExponent(tok.unit) THEN <<Backslash>> ELSE <<>>)
                \o WriteIdent(tok.unit)

\* What a delimiter is written as ends with a newline if it is a backslash.
Written(tok) == Spelled(tok) \o IF tok = Delim(Backslash) THEN <<Newline>> ELSE <<>>

\* The errors of WriteToken, by which a token is not written; the Scanner returns no
\* token that has them.
IsWritable(tok) ==
    CASE tok.kind \in {"ident", "function", "at-keyword", "hash"} -> tok.value # <<>>
      [] tok.kind = "delim" -> IsValidDelimiter(tok.value[1])
      [] tok.kind \in {"number", "percentage"} -> IsValidNumber(tok.value)
      [] tok.kind = "dimension" -> IsValidNumber(tok.value) /\ tok.unit # <<>>
      [] OTHER -> TRUE

IsNumeric(tok) == tok.kind \in {"number", "percentage", "dimension"}

BeginsName(tok) ==
    tok.kind \in {"ident", "function", "url", "bad-url", "CDC"} \/ tok = Delim(Minus)

\* Mutant of RequiresCommentSeparator: the rows for delimiters are missing.
SeparatorAfterNames(t1, t2) ==
    t1.kind \in {"ident", "at-keyword", "hash", "dimension"}
        /\ (BeginsName(t2) \/ IsNumeric(t2) \/ (t1.kind = "ident" /\ t2 = Symbol(LParen)))

RequiresCommentSeparator(t1, t2) ==
    \/ t1.kind = "ident" /\ t2 = Symbol(LParen)
    \/ /\ t1.kind \in {"ident", "at-keyword", "hash", "dimension"}
             \/ t1 \in {Delim(NumberSign), Delim(Minus)}
       /\ BeginsName(t2) \/ IsNumeric(t2)
    \/ t1 = Delim(AtSign) /\ BeginsName(t2)
    \/ t1 \in {Delim(Dot), Delim(Plus)} /\ IsNumeric(t2)
    \/ t1 = Delim(Slash) /\ t2 = Delim(Star)

Separator(tok) ==
    IF RequiresCommentSeparator(prev, tok) THEN <<Slash, Star, Star, Slash>> ELSE <<>>

\* White space is written once; after a brace or a semicolon it is a new line.
WriteWhitespace(tok) ==
    /\ tok.kind = "whitespace"
    /\ prev' = tok
    /\ IF prev.kind = "whitespace"
       THEN UNCHANGED <<text, indent, needsIndent>>
       ELSE IF prev \in {Symbol(Semicolon), Symbol(LBrace), Symbol(RBrace)}
            THEN /\ text' = Append(text, Newline)
                 /\ indent' = IF prev = Symbol(LBrace) THEN indent + 1 ELSE indent
                 /\ needsIndent' = TRUE
            ELSE text' = Append(text, Space) /\ UNCHANGED <<indent, needsIndent>>

WriteOther(tok) ==
    /\ tok.kind # "whitespace" /\ IsWritable(tok)
    /\ indent' = IF tok = Symbol(RBrace) THEN Max({indent - 1, 0}) ELSE indent
    /\ text' = text \o (IF needsIndent THEN [i \in 1..indent' |-> 9] ELSE <<>>)
                    \o Separator(tok) \o Written(tok)
    /\ needsIndent' = FALSE
    /\ prev' = tok

WriteToken(tok) == WriteWhitespace(tok) \/ WriteOther(tok)
=============================================================================
