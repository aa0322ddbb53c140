--------------------------- MODULE BufferedScanner ---------------------------
(***************************************************************************)
(* The bufferedScanner of internal/css/parser.go: the token stream of a    *)
(* parser that reads a file.  It scans a token when it is first asked for  *)
(* and remembers it only while a mark could lead back to it.  The client   *)
(* is any sequence of calls that pops no mark it did not push.             *)
(***************************************************************************)
EXTENDS TokenSlice

CONSTANTS
    Kinds,      \* what the parser can tell about a token
    EOF,        \* the kind of the token at the end of the input
    Sources,    \* the inputs the program may be given
    MaxMarks    \* bound on the marks held at once

VARIABLES
    input,      \* the lexemes of the source, never changed
    unclosed,   \* the source ends in a comment that is not closed
    scanned,    \* how many lexemes the Scanner has consumed
    buffer,     \* the tokenSlice that holds the lookahead
    answer,     \* the kind of the token the latest Next returned
    err         \* the error the latest Next returned with it

vars == <<input, unclosed, scanned, buffer, answer, err>>

Lexemes == [kind : Kinds, bad : BOOLEAN]

ASSUME EOFAssumption == EOF \notin Kinds

ASSUME SourcesAssumption == Sources \subseteq Seq(Lexemes)

ASSUME MaxMarksAssumption == MaxMarks \in Nat

\* Mutants of DiscardUnreachable: the position is not reset; the tokens still
\* to be read go instead of those already read; the marks are not looked at.
KeepPosition(b) ==
    IF b.marks = <<>>
    THEN [b EXCEPT !.tokens = SubSeq(b.tokens, b.pos + 1, Len(b.tokens))]
    ELSE b

DropUnread(b) ==
    IF b.marks = <<>>
    THEN [tokens |-> SubSeq(b.tokens, 1, Len(b.tokens) - b.pos),
          pos |-> 0, marks |-> <<>>]
    ELSE b

DiscardUnderMarks(b) ==
    [b EXCEPT !.tokens = SubSeq(b.tokens, b.pos + 1, Len(b.tokens)), !.pos = 0]

\* discardUnreachableBuffer: with no mark left nothing leads back to the
\* tokens before the position, so they go.
DiscardUnreachable(b) ==
    IF b.marks = <<>>
    THEN [tokens |-> SubSeq(b.tokens, b.pos + 1, Len(b.tokens)),
          pos |-> 0, marks |-> <<>>]
    ELSE b

\* Mutant of Remember: the token is kept even when no mark leads back to it.
RememberAlways(b, kind) ==
    [b EXCEPT !.tokens = Append(b.tokens, kind), !.pos = Len(b.tokens) + 1]

\* A scanned token is kept when a mark may lead back to it.
Remember(b, kind) ==
    IF b.marks = <<>>
    THEN b
    ELSE [b EXCEPT !.tokens = Append(b.tokens, kind), !.pos = Len(b.tokens) + 1]

Init ==
    /\ input \in Sources
    /\ unclosed \in BOOLEAN
    /\ scanned = 0
    /\ buffer = EmptySlice
    /\ answer = EOF
    /\ err = "nil"

\* Next, served from the buffer: the error of the first reading is not kept.
ReplayToken ==
    /\ HasUnread(buffer)
    /\ answer' = Unread(buffer)
    /\ err' = "nil"
    /\ buffer' = DiscardUnreachable(Advance(buffer))
    /\ UNCHANGED <<input, unclosed, scanned>>

\* Next, served by the Scanner.
ScanToken ==
    /\ ~HasUnread(buffer)
    /\ scanned < Len(input)
    /\ LET lexeme == input[scanned + 1] IN
        /\ answer' = lexeme.kind
        /\ err' = IF lexeme.bad THEN "parse" ELSE "nil"
        /\ buffer' = Remember(buffer, lexeme.kind)
    /\ scanned' = scanned + 1
    /\ UNCHANGED <<input, unclosed>>

\* Next, at the end of the source: an EOF token, which is never buffered.  The
\* unclosed comment is reported by the call that runs into it, and only once.
ScanEnd ==
    /\ ~HasUnread(buffer)
    /\ scanned = Len(input)
    /\ answer' = EOF
    /\ err' = IF unclosed THEN "parse" ELSE "EOF"
    /\ unclosed' = FALSE
    /\ UNCHANGED <<input, scanned, buffer>>

Mark ==
    /\ Len(buffer.marks) < MaxMarks
    /\ buffer' = Marked(buffer)
    /\ UNCHANGED <<input, unclosed, scanned, answer, err>>

RestoreMark ==
    /\ buffer.marks # <<>>
    /\ buffer' = DiscardUnreachable(Restored(buffer))
    /\ UNCHANGED <<input, unclosed, scanned, answer, err>>

DiscardMark ==
    /\ buffer.marks # <<>>
    /\ buffer' = DiscardUnreachable(Unmarked(buffer))
    /\ UNCHANGED <<input, unclosed, scanned, answer, err>>

Next ==
    \/ ReplayToken
    \/ ScanToken
    \/ ScanEnd
    \/ Mark
    \/ RestoreMark
    \/ DiscardMark

Spec == Init /\ [][Next]_vars

-----------------------------------------------------------------------------
\* Where the first token of the buffer is in the source.
Base == scanned - Len(buffer.tokens)

\* The position and the marks a client of the interface believes in.
StreamPos == Base + buffer.pos
StreamMarks == [i \in 1..Len(buffer.marks) |-> Base + buffer.marks[i]]

Stream == INSTANCE TokenStream WITH pos <- StreamPos, marks <- StreamMarks

\* The program's values stay in their types, and the buffer's position and
\* marks in the buffer's bounds: tokenSlice indexes with them unchecked.
TypeOK ==
    /\ input \in Seq(Lexemes)
    /\ unclosed \in BOOLEAN
    /\ scanned \in 0..Len(input)
    /\ buffer \in TokenSlices(Kinds)
    /\ answer \in Kinds \cup {EOF}
    /\ err \in {"nil", "EOF", "parse"}

\* The buffer is the part of the source scanned last: no token is dropped,
\* repeated or moved by any sequence of Next, Mark, RestoreMark, DiscardMark.
BufferIsWindow ==
    /\ Base >= 0
    /\ \A i \in 1..Len(buffer.tokens) :
          buffer.tokens[i] = input[Base + i].kind

\* The lookahead is released as soon as it can be: the buffer starts at the
\* oldest mark, and with no mark it holds nothing that has been read.
OnlyReachableTokens ==
    IF buffer.marks = <<>> THEN buffer.pos = 0 ELSE buffer.marks[1] = 0

\* A bufferedScanner is a tokenStream: discarding and refilling the buffer
\* never shows in the tokens Next returns or in where a mark leads back to.
ImplementsTokenStream == Stream!StreamSpec

\* tokenStream's doc has Next return "any parse error that occurred" with the
\* token; a malformed token that is read again must come with its error again.
ErrorComesWithToken ==
    [][(Stream!StreamNext /\ StreamPos < Len(input) /\ input[StreamPos + 1].bad)
          => err' = "parse"]_vars

=============================================================================
