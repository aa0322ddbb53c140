----------------------------- MODULE TokenStream -----------------------------
(***************************************************************************)
(* What the interface tokenStream of internal/css/parser.go promises: a    *)
(* position in a fixed sequence of tokens, moved by Next, and a stack of   *)
(* marked positions.  A token carries the parse error that was found while *)
(* it was scanned, if any.  The module knows nothing of buffers.           *)
(***************************************************************************)
EXTENDS Integers, Sequences

CONSTANTS
    Kinds,      \* what the parser can tell about a token
    EOF,        \* the kind of the token at the end of the input
    Sources     \* the inputs the program may be given

\* The outcome of scanning one token: its kind and whether it is malformed.
Lexemes == [kind : Kinds, bad : BOOLEAN]

VARIABLES
    input,      \* the lexemes of the source, never changed
    pos,        \* how many of them are before the current position
    marks,      \* the marked indexes stack, the top last
    answer      \* the token the latest call of Next returned, without its error

streamVars == <<input, pos, marks, answer>>

\* The token at a position, which is the EOF token past the last one.
KindAt(p) == IF p < Len(input) THEN input[p + 1].kind ELSE EOF

\* Next consumes a token; at the end there is nothing to consume.
StreamNext ==
    /\ answer' = KindAt(pos)
    /\ pos' = IF pos < Len(input) THEN pos + 1 ELSE pos
    /\ UNCHANGED <<input, marks>>

\* Mark pushes the position.
StreamMark ==
    /\ marks' = Append(marks, pos)
    /\ UNCHANGED <<input, pos, answer>>

\* RestoreMark pops a position and goes back to it.
StreamRestoreMark ==
    /\ marks # <<>>
    /\ pos' = marks[Len(marks)]
    /\ marks' = SubSeq(marks, 1, Len(marks) - 1)
    /\ UNCHANGED <<input, answer>>

\* DiscardMark pops a position and stays where it is.
StreamDiscardMark ==
    /\ marks # <<>>
    /\ marks' = SubSeq(marks, 1, Len(marks) - 1)
    /\ UNCHANGED <<input, pos, answer>>

StreamInit ==
    /\ input \in Sources
    /\ pos = 0
    /\ marks = <<>>
    /\ answer = EOF

StreamStep == StreamNext \/ StreamMark \/ StreamRestoreMark \/ StreamDiscardMark

StreamSpec == StreamInit /\ [][StreamStep]_streamVars
=============================================================================
