------------------------------ MODULE TokenSlice ------------------------------
(***************************************************************************)
(* The tokenSlice of internal/css/parser.go: tokens in memory, a position  *)
(* in them and the marked positions.  The parser reads the contents of a   *)
(* block from one, and a bufferedScanner keeps its lookahead in one.       *)
(***************************************************************************)
EXTENDS Integers, Sequences

\* A slice as the program has it: the position and every mark are in bounds.
TokenSlices(Kind) ==
    {b \in [tokens : Seq(Kind), pos : Nat, marks : Seq(Nat)] :
        /\ b.pos <= Len(b.tokens)
        /\ \A i \in 1..Len(b.marks) : b.marks[i] <= Len(b.tokens)}

EmptySlice == [tokens |-> <<>>, pos |-> 0, marks |-> <<>>]

\* There is a token left to read.
HasUnread(b) == b.pos < Len(b.tokens)

\* Next, when a token is left: the token read and the slice after it.
Unread(b) == b.tokens[b.pos + 1]
Advance(b) == [b EXCEPT !.pos = b.pos + 1]

Marked(b) == [b EXCEPT !.marks = Append(b.marks, b.pos)]

Unmarked(b) == [b EXCEPT !.marks = SubSeq(b.marks, 1, Len(b.marks) - 1)]

Restored(b) == Unmarked([b EXCEPT !.pos = b.marks[Len(b.marks)]])
=============================================================================
