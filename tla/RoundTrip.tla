------------------------------ MODULE RoundTrip ------------------------------
(***************************************************************************)
(* The Scanner and the Writer, one after the other: a source is scanned,   *)
(* its tokens are written, and what was written is scanned again, as the   *)
(* fuzz test of writer_test.go does, and as a browser will with the output *)
(* of the program.                                                         *)
(***************************************************************************)
EXTENDS Characters

CONSTANT Sources    \* the texts

ASSUME SourcesAssumption == Sources \subseteq Seq(0..MaxRune)

VARIABLES
    src, pos, pc, kind, value, number, quote, tokens, failed,   \* Scanner
    text, prev, indent, needsIndent,                            \* Writer
    phase,          \* "scan", "write" or "reread"
    first,          \* the tokens of the source
    next            \* how many of them have been written

scanning == <<src, pos, pc, kind, value, number, quote, tokens, failed>>
writing == <<text, prev, indent, needsIndent>>
vars == <<scanning, writing, phase, first, next>>

S == INSTANCE Scanner
W == INSTANCE Writer

Init ==
    /\ \E s \in Sources : src = Filtered(s)
    /\ S!Init /\ W!Init
    /\ phase = "scan" /\ first = <<>> /\ next = 0

Scan ==
    /\ S!Next
    /\ UNCHANGED <<writing, phase, first, next>>

\* Without errors, as in the test.
StartWriting ==
    /\ phase = "scan" /\ pc = "done" /\ ~failed
    /\ phase' = "write" /\ first' = tokens
    /\ UNCHANGED <<scanning, writing, next>>

Write ==
    /\ phase = "write" /\ next < Len(first)
    /\ W!WriteToken(first[next + 1])
    /\ next' = next + 1
    /\ UNCHANGED <<scanning, phase, first>>

\* A new Scanner, with a reader of its own.
Reread ==
    /\ phase = "write" /\ next = Len(first)
    /\ phase' = "reread"
    /\ src' = Filtered(text) /\ pos' = 0 /\ pc' = "next" /\ tokens' = <<>>
    /\ UNCHANGED <<kind, value, number, quote, failed, writing, first, next>>

Next == Scan \/ StartWriting \/ Write \/ Reread

Spec == Init /\ [][Next]_vars /\ WF_vars(Next)
-----------------------------------------------------------------------------
Kinds ==
    {"ident", "whitespace", "function", "at-keyword", "hash", "string", "bad-string", "url",
     "bad-url", "delim", "number", "percentage", "dimension", "CDO", "CDC", "symbol"}

TypeOK ==
    /\ pos \in 0..Len(src)
    /\ pc \in {"next", "ident", "escape", "unit", "string", "url", "badurl", "done"}
    /\ \A t \in ToSet(tokens) :
          /\ t.kind \in Kinds
          /\ t.kind \in {"ident", "function", "at-keyword", "hash"} => t.value # <<>>
          /\ t.kind \in {"number", "percentage", "dimension"} => IsValidNumber(t.value)
    /\ indent \in 0..Len(first)

Finished == phase = "reread" /\ pc = "done"

\* "FuzzWriter verifies that tokens can be round-tripped through the scanner."
RoundTrips == Finished => ~failed /\ tokens = first

\* White space on both sides of a comment is written once.
Merged(toks) ==
    LET kept == SelectSeq([i \in 1..Len(toks) |-> i],
                    LAMBDA i : ~(i > 1 /\ toks[i].kind = "whitespace" /\ toks[i - 1].kind = "whitespace"))
    IN [i \in 1..Len(kept) |-> toks[kept[i]]]

\* Where the tokens written are known to be read differently: a number before a token
\* that continues it, a unit whose escaped e is a hexadecimal digit, a bad URL that
\* comes without an error, <! before a name that begins with two hyphens, and a form
\* feed or a carriage return, which an escape puts into a string or a URL, or which
\* comes behind a carriage return, and which the Writer writes as it is.
Continues(t) ==
    \/ t = Delim(Percent)
    \/ t.kind \in {"ident", "function", "url", "bad-url", "CDC"}
    \/ t.kind \in {"number", "percentage", "dimension"} /\ t.value[1] \notin {Plus, Minus}

HasGap(toks) ==
    \E i \in 1..Len(toks) :
        \/ toks[i].kind = "bad-url"
        \/ /\ toks[i].kind \in {"string", "url", "delim"}
           /\ W!Spelled(toks[i]) # Filtered(W!Spelled(toks[i]))
        \/ toks[i].kind = "dimension" /\ W!LooksLikeExponent(toks[i].unit)
        \/ i > 1 /\ toks[i - 1].kind = "number" /\ Continues(toks[i])
        \/ /\ i > 2 /\ toks[i - 2] = Delim(Less) /\ toks[i - 1] = Delim(Bang)
           /\ toks[i].kind \in {"ident", "function", "CDC"}
           /\ IsPrefix(<<Minus, Minus>>, W!Spelled(toks[i]))

\* Everything else is read back as it was: no two tokens become one, no escape is
\* lost or left open, and no token written is an error.
OtherwiseRoundTrips ==
    Finished /\ ~HasGap(first) => ~failed /\ tokens = Merged(first)

\* Every source is scanned to its end, errors or not, and if there are none written and
\* scanned again: no token is looked for without getting ahead, unless the Scanner comes
\* to a backslash that starts no escape, in an identifier or at the end.
Terminates == <>(Finished \/ (phase = "scan" /\ ((failed /\ pc = "done") \/ S!Trapped)))
=============================================================================
