---------------------------- MODULE MCRuleParser ----------------------------
(* Small inputs for RuleParser: every short sequence of all the tokens, and  *)
(* longer ones of those that nest.                                           *)
EXTENDS RuleParser

CONSTANTS MaxShort, MaxLong

Lexeme(kind) == [kind |-> kind, bad |-> FALSE]
Bad(kind) == [kind |-> kind, bad |-> TRUE]

\* A bracketed block is read as one in parentheses is.
AllLexemes ==
    {Lexeme(k) : k \in {"x", "ws", "cdo", ";", "at", "(", "{", ")", "}"}}
        \cup {Bad("x"), Bad("function"), Bad("at")}

NestingLexemes == {Lexeme(k) : k \in {"x", "at", "[", "{", "function", ")", "]", "}"}}

MCSheets ==
    [tokens : BoundedSeq(AllLexemes, MaxShort), unclosed : BOOLEAN, topLevel : BOOLEAN]
        \cup [tokens : BoundedSeq(NestingLexemes, MaxLong), unclosed : {FALSE}, topLevel : {TRUE}]
=============================================================================
