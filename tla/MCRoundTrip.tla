----------------------------- MODULE MCRoundTrip -----------------------------
(* Small texts for RoundTrip: all short ones of the characters that matter to *)
(* numbers, to escapes, to URLs, to strings and to comments, and all short    *)
(* sequences of pieces that are whole tokens, with comments between them.     *)
EXTENDS RoundTrip

CONSTANTS MaxNumber, MaxEscape, MaxUrl, MaxLine, MaxPieces, MaxFewPieces

X == 120    \* x, no hexadecimal digit
A == 97     \* a, a hexadecimal digit, and the escape of a newline
C == 99     \* c, the escape of a form feed
E == 101
One == 49

Numbers == BoundedSeq({One, Dot, Plus, Minus, E, Percent}, MaxNumber)

Escapes == BoundedSeq({Backslash, Newline, Space, X, A, One, Minus, LParen, NumberSign}, MaxEscape)

Strings ==
    {<<Quote>> \o s : s \in BoundedSeq({Quote, Apostrophe, Backslash, Newline, A, C}, MaxUrl)}

Urls ==
    {<<117, 114, 108, LParen>> \o s :
        s \in BoundedSeq({Space, Newline, Backslash, Quote, LParen, RParen, A, C}, MaxUrl)}

\* Names, numbers, delimiters and the rest, each a token or the beginning of one.
Pieces ==
    {<<A>>, <<Minus, Minus, A>>, <<Minus>>, <<Minus, Minus, Greater>>, <<Backslash, 49>>, <<A, LParen>>,
     <<117, 114, 108, LParen, A, RParen>>, <<AtSign, A>>, <<AtSign>>, <<NumberSign, One>>, <<NumberSign>>,
     <<One>>, <<Plus, One>>, <<Dot, One>>, <<One, Percent>>, <<One, A>>, <<Percent>>,
     <<Plus>>, <<Dot>>, <<Slash>>, <<Star>>, <<Less>>, <<Bang>>, <<Less, Bang, Minus, Minus>>, <<Greater>>,
     <<Quote, A, Quote>>, <<Space>>, <<LParen>>, <<LBrace>>, <<RBrace>>, <<Semicolon>>}

Joined(ps) ==
    FlattenSeq([i \in 1..Len(ps) |-> IF i = 1 THEN ps[1] ELSE <<Slash, Star, Star, Slash>> \o ps[i]])

\* Those of which more than two in a row matter.
FewPieces ==
    {<<A>>, <<Minus, Minus, A>>, <<One>>, <<Less>>, <<Bang>>, <<Space>>, <<LBrace>>, <<RBrace>>}

Layouts ==
    {Joined(ps) : ps \in BoundedSeq(Pieces, MaxPieces) \cup BoundedSeq(FewPieces, MaxFewPieces)}

\* Ends of lines, between and inside of tokens.
Lines == BoundedSeq({CarriageReturn, FormFeed, Newline, Quote, Backslash, A}, MaxLine)

Comments == BoundedSeq({Slash, Star, A}, MaxUrl)

MCSources == Numbers \cup Escapes \cup Strings \cup Urls \cup Lines \cup Comments \cup Layouts
=============================================================================
