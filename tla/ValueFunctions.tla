--------------------------- MODULE ValueFunctions ---------------------------
(***************************************************************************)
(* The arguments of --value() functions in @utility rules                  *)
(* (value_function.go, collect and merge): what a utility takes for the    *)
(* end of a class name.  A block is a sequence of parts, each a            *)
(* declaration, the head or the end of a nested rule, or an at-rule        *)
(* without a block; the code nests them, and goes through them in order.   *)
(***************************************************************************)
EXTENDS Values

BareKeywords == {"number", "integer", "ratio", "percentage"}

ArbitraryKeywords ==
    {"absolute-size", "angle", "bg-size", "color", "family-name", "generic-name", "image",
     "integer", "length", "line-width", "number", "percentage", "position", "ratio",
     "relative-size", "url", "vector", "*"}

\* An identifier that is one of the keywords is of a kind of its own, and so is one
\* that begins with two hyphens.
IsName(tok) ==
    tok.kind \in ({"ident", "custom"} \cup BareKeywords \cup ArbitraryKeywords) \ {"*"}

PartTypes == {"declaration", "head", "end", "statement"}

\* What a --value() function takes: strings, theme variables with a prefix, kinds of
\* bare and of bracketed values; and how many of its arguments are wrong.
NoUsage == [literals |-> {}, prefixes |-> {}, bare |-> {}, arbitrary |-> {}, errors |-> 0]

\* parseArbitraryValueArgument.
ArbitraryFlags(list) ==
    LET arg == TrimWhitespace(list)
    IN IF Len(arg) = 1 THEN {arg[1].kind} \cap ArbitraryKeywords ELSE {}

\* One argument of --value(), trimmed; the code fails on an empty one.
MergeArgument(usage, arg) ==
    LET n == Len(arg)
        flags == ArbitraryFlags(SubSeq(arg, 2, n - 1))
    IN CASE n = 1 /\ arg[1].kind \in BareKeywords ->
               [usage EXCEPT !.bare = @ \cup {arg[1].kind}]
         [] n = 1 /\ arg[1].kind = "string" ->
               [usage EXCEPT !.literals = @ \cup {arg[1].text}]
         [] n = 2 /\ IsName(arg[1]) /\ arg[2].kind = "*" ->
               [usage EXCEPT !.prefixes = @ \cup {arg[1].text}]
         [] n >= 2 /\ arg[1].kind = "[" /\ arg[n].kind = "]" /\ flags # {} ->
               [usage EXCEPT !.arbitrary = @ \cup flags]
         [] OTHER -> [usage EXCEPT !.errors = @ + 1]

\* The arguments of a closed function.
Arguments(function) ==
    LET list == SplitCommaSeparatedValues(SubSeq(function, 2, Len(function) - 1))
    IN [a \in 1..Len(list) |-> TrimWhitespace(list[a])]

HasEmptyArgument(function) == <<>> \in ToSet(Arguments(function))

\* merge, of a --value() function.
Merge(usage, function) == FoldLeft(MergeArgument, usage, Arguments(function))

\* The --value() functions that collect finds in a list of tokens, those that are
\* not closed aside: it goes on behind each.
Functions(list) ==
    LET n == Len(list)
        from[i \in 1..(n + 1)] ==
            LET v == ValueLength(KindsIn(SubSeq(list, i, n)))
            IN IF i > n THEN <<>>
               ELSE IF list[i].kind # "--value" THEN from[i + 1]
               ELSE (IF v.ok THEN <<SubSeq(list, i, i + v.n - 1)>> ELSE <<>>) \o from[i + v.n]
    IN from[1]

\* collect: what all the functions of a block take together.
Collect(list) == FoldLeft(Merge, NoUsage, Functions(list))

\* A nested rule that is no at-rule has no keyword.
Heading(part) == (IF part.name.kind = "none" THEN <<>> ELSE <<part.name>>) \o part.value

\* The tokens of a block without its braces.
PartTokens(part) ==
    CASE part.type = "declaration" ->
            <<part.name, Plain(":"), Plain("ws")>> \o part.value \o <<Plain(";"), Plain("ws")>>
      [] part.type = "head" -> Heading(part) \o <<Plain("{"), Plain("ws")>>
      [] part.type = "end" -> <<Plain("}"), Plain("ws")>>
      [] part.type = "statement" -> Heading(part) \o <<Plain(";"), Plain("ws")>>

BlockTokens(parts) == FlattenSeq([k \in 1..Len(parts) |-> PartTokens(parts[k])])
=============================================================================
