----------------------------- MODULE BlockParser -----------------------------
(***************************************************************************)
(* The contents of a block (internal/css/parser.go): SplitBlockContents    *)
(* calls blockPart until it returns nothing, and blockPart tells           *)
(* declarations from nested rules, some only by trying.  One step is one   *)
(* pass of the loop of the innermost function, or the part of declaration  *)
(* before or after its value.  The tokens are in memory, so errors come    *)
(* with none of them, and SplitBlockContents drops those of the parser.    *)
(***************************************************************************)
EXTENDS Values

CONSTANTS
    Contents    \* the inputs

\* The kinds of names a declaration may have: a custom property, the word
\* important, or any other.
Names == {"ident", "custom", "important"}

Kinds == Names \cup
    {"x", "ws", ";", ":", "!", "at", "(", "[", "{", "function", ")", "]", "}"}

ASSUME ContentsAssumption == Contents \subseteq Seq(Kinds)

VARIABLES
    tokens,     \* the input, never changed
    pos,        \* tokens consumed
    marks,      \* the marks that outlive a step
    fn,         \* "blockPart", "atRule", "qualifiedRule", "declaration" or "done"
    trial,      \* the declaration may turn out to be a rule
    ends,       \* the ends of the blocks and functions that are open
    item,       \* what is read, its tokens by their positions
    field,      \* which field of it
    parts       \* the parts returned

vars == <<tokens, pos, marks, fn, trial, ends, item, field, parts>>

\* A rule, with its at-keyword if it has one, or a declaration with its name.
Item(type, name) ==
    [type |-> type, name |-> name, prelude |-> <<>>, block |-> <<>>, value |-> <<>>,
     important |-> FALSE]

NoItem == Item("none", 0)

here == pos + 1
KindAt(p) == IF p <= Len(tokens) THEN tokens[p] ELSE EOF
Kind == KindAt(here)
KindsAt(positions) == [i \in 1..Len(positions) |-> tokens[positions[i]]]

\* whitespace: the position of the first token from p on that is none.
whitespace(p) ==
    CHOOSE q \in p..(Len(tokens) + 1) :
        KindAt(q) # "ws" /\ \A r \in p..(q - 1) : KindAt(r) = "ws"

Kept == [item EXCEPT ![field] = Append(@, here)]

Return(part) ==
    /\ parts' = Append(parts, part)
    /\ fn' = "blockPart"
    /\ item' = NoItem

Init ==
    /\ tokens \in Contents
    /\ pos = 0 /\ marks = <<>>
    /\ fn = "blockPart" /\ trial = FALSE
    /\ ends = <<>> /\ item = NoItem /\ field = "prelude"
    /\ parts = <<>>

\* Mutant of IsSeparator: a semicolon left by a rule without a block stays.
IsWhitespace == Kind = "ws"

IsSeparator == Kind \in {"ws", ";"}

SkipSeparator ==
    /\ fn = "blockPart" /\ IsSeparator
    /\ pos' = here
    /\ UNCHANGED <<tokens, marks, fn, trial, ends, item, field, parts>>

\* Nothing is left, or a closing brace: blockPart returns no part.
EndOfContents ==
    /\ fn = "blockPart" /\ Kind \in {EOF, "}"}
    /\ fn' = "done"
    /\ UNCHANGED <<tokens, pos, marks, trial, ends, item, field, parts>>

StartAtRule ==
    /\ fn = "blockPart" /\ Kind = "at"
    /\ fn' = "atRule" /\ item' = Item("rule", here) /\ field' = "prelude"
    /\ pos' = here
    /\ UNCHANGED <<tokens, marks, trial, ends, parts>>

\* A name with a colon behind it.
StartsDeclaration == Kind \in Names /\ KindAt(whitespace(here + 1)) = ":"

\* Mutant of TrialMarks: declaration marks after the name.
MarkAfterName == IF Kind = "custom" THEN <<here>> ELSE <<pos, here>>

\* blockPart marks where it tries a declaration, and declaration marks it again
\* and leaves that mark behind.
TrialMarks == IF Kind = "custom" THEN <<pos>> ELSE <<pos, pos>>

\* Mutant of AfterColon: one token of the value is skipped.
PastValueStart == whitespace(whitespace(here + 1) + 1)

\* The name, the colon and the whitespace behind each are consumed.
AfterColon == whitespace(whitespace(here + 1) + 1) - 1

\* blockPart calls declaration, which reads the name and the colon.
StartDeclaration ==
    /\ fn = "blockPart" /\ StartsDeclaration
    /\ fn' = "declaration" /\ item' = Item("declaration", here) /\ field' = "value"
    /\ trial' = (Kind # "custom")
    /\ marks' = marks \o TrialMarks
    /\ pos' = AfterColon
    /\ UNCHANGED <<tokens, ends, parts>>

StartQualifiedRule ==
    /\ fn = "blockPart"
    /\ Kind \notin {EOF, "}", "at"} /\ ~IsSeparator /\ ~StartsDeclaration
    /\ fn' = "qualifiedRule" /\ item' = Item("rule", 0) /\ field' = "prelude"
    /\ UNCHANGED <<tokens, pos, marks, trial, ends, parts>>

\* The loop of atRule, qualifiedRule or valueList, outside of any block.
InList == fn \in {"atRule", "qualifiedRule", "declaration"} /\ ends = <<>>

EndAtRule ==
    /\ InList /\ fn = "atRule" /\ Kind \in {EOF, ";", "}"}
    /\ pos' = IF Kind = ";" THEN here ELSE pos
    /\ Return(item)
    /\ UNCHANGED <<tokens, marks, trial, ends, field>>

\* A qualified rule without a block is none; a closing brace goes with it.
EndQualifiedRule ==
    /\ InList /\ fn = "qualifiedRule" /\ Kind \in {EOF, ";", "}"}
    /\ pos' = IF Kind = "}" THEN here ELSE pos
    /\ fn' = "blockPart" /\ item' = NoItem
    /\ UNCHANGED <<tokens, marks, trial, ends, field, parts>>

StartBlock ==
    /\ InList /\ fn # "declaration" /\ Kind = "{"
    /\ pos' = here
    /\ field' = "block"
    /\ item' = [item EXCEPT !.block = <<here>>]
    /\ ends' = <<EndOf("{")>>
    /\ UNCHANGED <<tokens, marks, fn, trial, parts>>

\* Mutant of StopsList: a brace stops every list.
StopsAtBrace == {EOF, ";", "}", "{"}

StopsList == {EOF, ";", "}"} \cup IF fn = "declaration" THEN {} ELSE {"{"}

ListValue ==
    /\ InList /\ Kind \notin StopsList
    /\ pos' = here
    /\ item' = Kept
    /\ ends' = IF Opens(Kind) THEN <<EndOf(Kind)>> ELSE <<>>
    /\ UNCHANGED <<tokens, marks, fn, trial, field, parts>>

InBlock == ends # <<>>

BlockValue ==
    /\ InBlock /\ Kind \notin {EOF, Last(ends)}
    /\ pos' = here
    /\ item' = Kept
    /\ ends' = IF Opens(Kind) THEN Append(ends, EndOf(Kind)) ELSE ends
    /\ UNCHANGED <<tokens, marks, fn, trial, field, parts>>

\* block or function returns, the block of a rule to blockPart.
CloseBlock ==
    /\ InBlock /\ Kind \in {EOF, Last(ends)}
    /\ ends' = Front(ends)
    /\ LET closed == IF Kind = EOF THEN item ELSE Kept
       IN IF Len(ends) = 1 /\ field = "block"
          THEN Return(closed)
          ELSE item' = closed /\ UNCHANGED <<fn, parts>>
    /\ pos' = IF Kind = EOF THEN pos ELSE here
    /\ UNCHANGED <<tokens, marks, trial, field>>

\* The value without the whitespace at its end.
Trimmed(v) ==
    LET ends_ == {i \in 0..Len(v) : \A j \in (i + 1)..Len(v) : tokens[v[j]] = "ws"}
    IN SubSeq(v, 1, Min(ends_))

IsImportant(v) ==
    LET n == Len(v)
    IN n >= 2 /\ tokens[v[n - 1]] = "!" /\ tokens[v[n]] = "important"

\* The declaration with its flag set and its value trimmed.
Finished ==
    LET v == Trimmed(item.value)
    IN IF IsImportant(v)
       THEN [item EXCEPT !.value = Trimmed(SubSeq(v, 1, Len(v) - 2)), !.important = TRUE]
       ELSE [item EXCEPT !.value = v]

\* Standard properties can only have a singular {}-block.
IsValid(decl) ==
    LET ks == KindsAt(decl.value)
        solid == {p \in ToSet(ValueStarts(ks)) : ks[p] # "ws"}
    IN tokens[decl.name] # "custom" => \A p, q \in solid : ks[p] = "{" => q = p

\* valueList ends before a semicolon, a closing brace or the end, and declaration
\* decides.  If it is none, what was read is read again as a rule.
EndDeclaration ==
    /\ InList /\ fn = "declaration" /\ Kind \in StopsList
    /\ IF IsValid(Finished)
       THEN /\ Return(Finished)
            /\ marks' = IF trial THEN Front(marks) ELSE marks
            /\ UNCHANGED <<pos, field>>
       ELSE /\ fn' = "qualifiedRule" /\ item' = Item("rule", 0) /\ field' = "prelude"
            /\ pos' = Last(marks)
            /\ marks' = Front(marks)
            /\ UNCHANGED parts
    /\ trial' = FALSE
    /\ UNCHANGED <<tokens, ends>>

Next ==
    \/ SkipSeparator \/ EndOfContents
    \/ StartAtRule \/ StartDeclaration \/ StartQualifiedRule
    \/ EndAtRule \/ EndQualifiedRule \/ StartBlock \/ ListValue
    \/ BlockValue \/ CloseBlock \/ EndDeclaration

Spec == Init /\ [][Next]_vars /\ WF_vars(Next)

-----------------------------------------------------------------------------
\* What is between the braces of a block: every block in it is closed, and no
\* closing brace stands by itself.
InsideBraces ==
    ValueLength(<<"{">> \o tokens \o <<"}">>) = [n |-> Len(tokens) + 2, ok |-> TRUE]

\* The reference: CSS Syntax 5, "consume a block's contents", in terms of values.
\* At each token but an at-keyword a declaration is tried first.
ValuesBetween(first, last) ==
    LET from[i \in 1..(Len(tokens) + 1)] ==
            IF i > last THEN {} ELSE {i} \cup from[EndOfValue(tokens, i) + 1]
    IN {i \in from[first] : tokens[i] # "ws"}

LooksLikeDeclaration(i) == tokens[i] \in Names /\ KindAt(whitespace(i + 1)) = ":"

\* The declaration at i: what is left of its value without the flag and the
\* whitespace around it.  CSS allows whitespace within the flag, the program does not.
DeclarationAt(i) ==
    LET colon == whitespace(i + 1)
        stop == FirstValue(tokens, colon + 1, {";"})
        starts == ValuesBetween(colon + 1, stop - 1)
        flag == starts # {} /\ LET p == Max(starts)
                               IN /\ p - 1 \in starts /\ tokens[p - 1] = "!"
                                  /\ tokens[p] = "important"
        kept == IF flag THEN starts \ {Max(starts) - 1, Max(starts)} ELSE starts
    IN [ok   |-> tokens[i] # "custom" => \A p \in kept : tokens[p] = "{" => kept = {p},
        next |-> stop,
        part |-> [Item("declaration", i) EXCEPT
                     !.important = flag,
                     !.value = IF kept = {} THEN <<>>
                               ELSE Positions(Min(kept), EndOfValue(tokens, Max(kept)))]]

Written ==
    LET n == Len(tokens)
        isAt(i) == tokens[i] = "at"
        first(i) == IF isAt(i) THEN i + 1 ELSE i
        stop(i) == FirstValue(tokens, first(i), {";", "{"})
        isBlock(i) == KindAt(stop(i)) = "{"
        rule(i) == [Item("rule", IF isAt(i) THEN i ELSE 0) EXCEPT
                       !.prelude = Positions(first(i), stop(i) - 1),
                       !.block = IF isBlock(i)
                                 THEN Positions(stop(i), EndOfValue(tokens, stop(i)))
                                 ELSE <<>>]
        next(i) == IF stop(i) > n THEN n + 1 ELSE EndOfValue(tokens, stop(i)) + 1
        from[i \in 1..(n + 1)] ==
            IF i > n THEN <<>>
            ELSE IF tokens[i] \in {"ws", ";"} THEN from[i + 1]
            ELSE IF LooksLikeDeclaration(i) /\ DeclarationAt(i).ok
                 THEN <<DeclarationAt(i).part>> \o from[DeclarationAt(i).next]
            ELSE IF isAt(i) \/ isBlock(i) THEN <<rule(i)>> \o from[next(i)]
            ELSE from[stop(i)]
    IN from[1]

TypeOK ==
    /\ pos \in 0..Len(tokens)
    /\ \A i \in 1..Len(marks) : marks[i] \in 0..pos
    /\ fn \in {"blockPart", "atRule", "qualifiedRule", "declaration", "done"}
    /\ trial \in BOOLEAN
    /\ ends \in Seq({")", "]", "}"})
    /\ item.type \in {"none", "rule", "declaration"} /\ item.name \in 0..Len(tokens)
    /\ field \in {"prelude", "block", "value"}

\* A block is the declarations and rules that CSS says it is: the shortcuts that
\* blockPart takes, and the second reading of what only looked like a
\* declaration, lose no part and find none that is not there.
PartsAreAsWritten == fn = "done" /\ InsideBraces => parts = Written

\* What is read a second time is read from the name on, although the mark that
\* leads there is not the one that was set for it, but the one declaration left.
RetriesFromTheName ==
    [][fn = "declaration" /\ fn' = "qualifiedRule" => pos' = item.name - 1]_vars

\* Every block is taken apart to its end: no token is tried over and over.
Terminates == <>(fn = "done")
=============================================================================
