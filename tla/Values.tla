-------------------------------- MODULE Values --------------------------------
(***************************************************************************)
(* Component values over the kinds of tokens: which kinds open a block and *)
(* with what it ends (token.go), and how value.go finds the end of a value *)
(* in a slice with a stack.  The grammar it is compared with is at the end.*)
(***************************************************************************)
EXTENDS Integers, SequencesExt

\* The kind of the token past the end.
EOF == "EOF"

\* The kinds that open a block, and the kind that closes it.
\* A function whose name the code asks for is a kind of its own.
Opens(kind) == kind \in {"(", "[", "{", "function", "var", "--value", "layer("}

EndOf(kind) ==
    CASE kind \in {"(", "function", "var", "--value", "layer("} -> ")"
      [] kind = "[" -> "]"
      [] kind = "{" -> "}"

\* The kinds that close a block.
Closers == {")", "]", "}"}

\* Mutant of Nest: a closing token pops whatever it closes.
NestAnyEnd(stack, kind) ==
    IF kind \in Closers THEN Front(stack)
    ELSE IF Opens(kind) THEN Append(stack, EndOf(kind)) ELSE stack

\* "CSS parsing only considers the top of the stack": a token that does not end
\* the innermost block opens one or is kept as it is.
Nest(stack, kind) ==
    IF kind = Last(stack) THEN Front(stack)
    ELSE IF Opens(kind) THEN Append(stack, EndOf(kind)) ELSE stack

\* The length of the value at the start of a slice of kinds; ok when it is closed.
ValueLength(ks) ==
    LET from[at \in Nat \X Seq(Closers)] ==
            LET i == at[1]
                stack == at[2]
            IN IF stack = <<>> \/ i > Len(ks) THEN [n |-> i - 1, ok |-> stack = <<>>]
               ELSE from[<<i + 1, Nest(stack, ks[i])>>]
    IN IF ks = <<>> THEN [n |-> 0, ok |-> FALSE]
       ELSE IF Opens(ks[1]) THEN from[<<2, <<EndOf(ks[1])>>>>]
       ELSE [n |-> 1, ok |-> TRUE]

\* SplitValues: the values a slice of kinds consists of, by where they start.
ValueStarts(ks) ==
    LET n == Len(ks)
        from[i \in 1..(n + 1)] ==
            IF i > n THEN <<>> ELSE <<i>> \o from[i + ValueLength(SubSeq(ks, i, n)).n]
    IN from[1]

\* The same for tokens, which have a kind and what it says of them.
Tok(kind, text) == [kind |-> kind, text |-> text]

Plain(kind) == Tok(kind, <<>>)

KindsIn(list) == [i \in 1..Len(list) |-> list[i].kind]

\* SplitCommaSeparatedValues: what is between the commas that are values themselves.
SplitCommaSeparatedValues(list) ==
    LET n == Len(list)
        from[i \in 1..(n + 1), j \in 1..(n + 1)] ==
            IF j > n THEN <<SubSeq(list, i, n)>>
            ELSE IF list[j].kind = "," THEN <<SubSeq(list, i, j - 1)>> \o from[j + 1, j + 1]
            ELSE from[i, j + ValueLength(KindsIn(SubSeq(list, j, n))).n]
    IN from[1, 1]

TrimWhitespace(list) ==
    LET solid == {i \in 1..Len(list) : list[i].kind # "ws"}
    IN IF solid = {} THEN <<>> ELSE SubSeq(list, Min(solid), Max(solid))

-----------------------------------------------------------------------------
\* The grammar of CSS Syntax 5: a block is an opening token, values none of
\* which is the closing token, and the closing token or the end of the input;
\* any other token is a value of its own.

\* The tokens first..last are values, none of them the token endKind by itself.
AreValues(ks, first, last, endKind) ==
    LET n == Len(ks)
        are[at \in (1..(n + 1)) \X (0..n) \X Closers] ==
            LET i == at[1]
                j == at[2]
                end == at[3]
            IN \/ i > j
               \/ /\ ks[i] # end
                  /\ IF Opens(ks[i])
                     THEN \E k \in i..j :
                             /\ \/ k > i /\ ks[k] = EndOf(ks[i]) /\ are[<<i + 1, k - 1, EndOf(ks[i])>>]
                                \/ k = n /\ are[<<i + 1, n, EndOf(ks[i])>>]
                             /\ are[<<k + 1, j, end>>]
                     ELSE are[<<i + 1, j, end>>]
    IN are[<<first, last, endKind>>]

IsClosedBlock(ks, i, k) ==
    k > i /\ Opens(ks[i]) /\ ks[k] = EndOf(ks[i]) /\ AreValues(ks, i + 1, k - 1, EndOf(ks[i]))

IsValue(ks, i, k) ==
    IF Opens(ks[i])
    THEN \/ IsClosedBlock(ks, i, k)
         \/ k = Len(ks) /\ AreValues(ks, i + 1, k, EndOf(ks[i]))
    ELSE k = i

\* Where the value at i ends, and the first value from i on of one of the kinds.
EndOfValue(ks, i) == CHOOSE k \in i..Len(ks) : IsValue(ks, i, k)

FirstValue(ks, first, kinds) ==
    LET n == Len(ks)
        at[i \in 1..(n + 1)] ==
            IF i > n \/ ks[i] \in kinds THEN i ELSE at[EndOfValue(ks, i) + 1]
    IN at[first]

\* The positions of an interval, in order.
Positions(first, last) == [i \in 1..(last - first + 1) |-> first + i - 1]
=============================================================================
