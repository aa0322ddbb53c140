------------------------------ MODULE RuleParser ------------------------------
(***************************************************************************)
(* The rules of a style sheet (internal/css/parser.go): NextRule, atRule,  *)
(* qualifiedRule, and value, block and function below them.  One step is   *)
(* one pass of the loop of the innermost of these functions: it marks,     *)
(* reads a token, and goes back to the mark or discards it.  Blocks and    *)
(* functions call value and value calls them, so the calls that are active *)
(* are the kinds that end them, innermost last.                            *)
(***************************************************************************)
EXTENDS Values

CONSTANTS
    Sheets      \* the inputs

\* What the parser tells about a token that is none of the following kinds: "x".
Kinds == {"x", "ws", "cdo", ";", "at", "(", "[", "{", "function", ")", "]", "}"}

\* A token, and whether the Scanner returns an error with it: none comes with
\* white space or punctuation.
Lexemes == {t \in [kind : Kinds, bad : BOOLEAN] : t.bad => t.kind \in {"x", "at", "function"}}

\* A source, whether it ends in an unclosed comment, and where it is parsed.
SheetType == [tokens : Seq(Lexemes), unclosed : BOOLEAN, topLevel : BOOLEAN]

ASSUME SheetsAssumption == Sheets \subseteq SheetType

VARIABLES
    sheet,      \* the input, never changed
    pos,        \* tokens consumed
    scanned,    \* tokens the Scanner has been asked for, the end of the input included
    fn,         \* "NextRule", "atRule", "qualifiedRule" or "done"
    part,       \* the part of the rule that is read: "prelude" or "block"
    ends,       \* the ends of the blocks and functions that are open
    rule,       \* the rule that is read, its tokens by their positions
    errs,       \* the errors collected since NextRule was called
    returned    \* what the calls of NextRule returned

vars == <<sheet, pos, scanned, fn, part, ends, rule, errs, returned>>

\* A rule; at is the position of the at-keyword, or 0.
EmptyRule == [at |-> 0, prelude |-> <<>>, block |-> <<>>]

\* What NextRule returns at the end for a rule: nil, which no rule is, as one has
\* an at-keyword or a block.
NoRule == EmptyRule

Tokens == sheet.tokens
here == pos + 1
AtEnd == pos = Len(Tokens)
Kind == IF AtEnd THEN EOF ELSE Tokens[here].kind

Err(what) == [what |-> what, at |-> here]

\* The error that comes with the token at hand.  A token read for the second time
\* comes without; the end comes with io.EOF, the first time perhaps with the
\* error of the comment.
TokenError ==
    IF AtEnd
    THEN IF sheet.unclosed /\ scanned < here THEN <<Err("parse")>> ELSE <<Err("EOF")>>
    ELSE IF Tokens[here].bad /\ scanned < here THEN <<Err("parse")>> ELSE <<>>

\* In a block io.EOF is reported as io.ErrUnexpectedEOF.
BlockEndError ==
    IF TokenError = <<Err("EOF")>> THEN <<Err("unexpected EOF")>> ELSE TokenError

Look == scanned' = IF scanned < here THEN here ELSE scanned

\* The token at hand is left for the next step, or consumed.
Leave == Look /\ pos' = pos
Consume == Look /\ pos' = here

\* Mutant of Collect: the token's error is left to the function that reads it again.
CollectNothing == errs' = errs

Collect == errs' = errs \o TokenError

\* Mutant of Kept: the prelude starts anew with every value.
KeptLast(p) == [rule EXCEPT ![p] = IF ends = <<>> THEN <<here>> ELSE Append(@, here)]

\* dst = append(dst, tok).
Kept(p) == [rule EXCEPT ![p] = Append(@, here)]

\* NextRule returns r with the errors it has, and is called again.
Return(r, es) ==
    /\ returned' = Append(returned, [rule |-> r, errs |-> es])
    /\ errs' = <<>>
    /\ rule' = EmptyRule
    /\ fn' = IF r = NoRule THEN "done" ELSE "NextRule"

Init ==
    /\ sheet \in Sheets
    /\ pos = 0 /\ scanned = 0
    /\ fn = "NextRule" /\ part = "prelude" /\ ends = <<>>
    /\ rule = EmptyRule
    /\ errs = <<>>
    /\ returned = <<>>

\* Tokens that NextRule ignores.
Ignored == Kind = "ws" \/ (Kind = "cdo" /\ sheet.topLevel)

SkipToken ==
    /\ fn = "NextRule" /\ Ignored
    /\ Consume /\ Collect
    /\ UNCHANGED <<sheet, fn, part, ends, rule, returned>>

EndOfSheet ==
    /\ fn = "NextRule" /\ AtEnd
    /\ Leave
    /\ Return(NoRule, errs \o TokenError)
    /\ UNCHANGED <<sheet, part, ends>>

StartAtRule ==
    /\ fn = "NextRule" /\ Kind = "at"
    /\ fn' = "atRule" /\ part' = "prelude"
    /\ rule' = [EmptyRule EXCEPT !.at = here]
    /\ Consume /\ Collect
    /\ UNCHANGED <<sheet, ends, returned>>

StartQualifiedRule ==
    /\ fn = "NextRule" /\ ~AtEnd /\ ~Ignored /\ Kind # "at"
    /\ fn' = "qualifiedRule" /\ part' = "prelude"
    /\ rule' = EmptyRule
    /\ Leave /\ Collect
    /\ UNCHANGED <<sheet, ends, returned>>

\* The loop of atRule or qualifiedRule, outside of any block.
InPrelude == fn \in {"atRule", "qualifiedRule"} /\ ends = <<>>

\* @name ... ; or @name ... at the end: there is no block.
EndAtRule ==
    /\ InPrelude /\ fn = "atRule" /\ Kind \in {";", EOF}
    /\ IF AtEnd THEN Leave ELSE Consume
    /\ Return(rule, errs \o TokenError)
    /\ UNCHANGED <<sheet, part, ends>>

\* What should have been a rule ends with the sheet: it is no rule.
EndQualifiedRule ==
    /\ InPrelude /\ fn = "qualifiedRule" /\ AtEnd
    /\ fn' = "NextRule"
    /\ Leave /\ Collect
    /\ UNCHANGED <<sheet, part, ends, rule, returned>>

\* The block of the rule begins.
StartBlock ==
    /\ InPrelude /\ Kind = "{"
    /\ part' = "block"
    /\ ends' = <<EndOf("{")>>
    /\ rule' = Kept("block") /\ Consume /\ Collect
    /\ UNCHANGED <<sheet, fn, returned>>

\* A closing brace where nothing is open goes into the prelude.
StrayBrace ==
    /\ InPrelude /\ Kind = "}"
    /\ rule' = Kept("prelude") /\ Consume
    /\ errs' = errs \o TokenError
                    \o IF fn = "qualifiedRule" THEN <<Err("unexpected }")>> ELSE <<>>
    /\ UNCHANGED <<sheet, fn, part, ends, returned>>

\* Mutant of StopsRule: a semicolon is not taken into the prelude of any rule.
StopsAnyRule(kind) == kind \in {EOF, "{", "}", ";"}

StopsRule(kind) == kind \in {EOF, "{", "}"} \/ (fn = "atRule" /\ kind = ";")

\* Any other value goes into the prelude: a token by itself, or the opening token
\* of a block or function, which is read to its end first.
PreludeValue ==
    /\ InPrelude /\ ~StopsRule(Kind)
    /\ ends' = IF Opens(Kind) THEN <<EndOf(Kind)>> ELSE <<>>
    /\ rule' = Kept("prelude") /\ Consume /\ Collect
    /\ UNCHANGED <<sheet, fn, part, returned>>

\* The loop of block or function.
InBlock == ends # <<>>

\* block or function returns to the function that called it: the block of a rule
\* to NextRule, any other to the loop that reads values.
Close(r, es) ==
    /\ ends' = Front(ends)
    /\ IF Len(ends) = 1 /\ part = "block"
       THEN Return(r, errs \o es)
       ELSE rule' = r /\ errs' = errs \o es /\ UNCHANGED <<fn, returned>>
    /\ UNCHANGED <<sheet, part>>

\* Mutant of IsEnd: any closing token ends the block.
IsAnyEnd == Kind \in {")", "]", "}"}

IsEnd == Kind = Last(ends)

CloseBlock == InBlock /\ IsEnd /\ Consume /\ Close(Kept(part), TokenError)

\* The input ends in a block: every function on the way out says so.
EndInBlock == InBlock /\ AtEnd /\ Leave /\ Close(rule, BlockEndError)

\* A value in a block.  The error that came with it was seen by the loop, which
\* ignores it, and does not come again when value reads it.
BlockValue ==
    /\ InBlock /\ ~AtEnd /\ ~IsEnd
    /\ ends' = IF Opens(Kind) THEN Append(ends, EndOf(Kind)) ELSE ends
    /\ rule' = Kept(part) /\ Consume
    /\ UNCHANGED <<sheet, fn, part, errs, returned>>

Next ==
    \/ SkipToken \/ EndOfSheet \/ StartAtRule \/ StartQualifiedRule
    \/ EndAtRule \/ EndQualifiedRule \/ StartBlock \/ StrayBrace \/ PreludeValue
    \/ CloseBlock \/ EndInBlock \/ BlockValue

Spec == Init /\ [][Next]_vars /\ WF_vars(Next)
-----------------------------------------------------------------------------
\* The reference: the rules in the text, by the grammar of component values.
KindsOf == [i \in 1..Len(Tokens) |-> Tokens[i].kind]

Written ==
    LET ks == KindsOf
        n == Len(ks)
        from[i \in 1..(n + 1)] ==
            LET isAt == ks[i] = "at"
                first == IF isAt THEN i + 1 ELSE i
                stop == FirstValue(ks, first, IF isAt THEN {";", "{"} ELSE {"{"})
                last == IF stop > n THEN n ELSE EndOfValue(ks, stop)
                block == IF stop <= n /\ ks[stop] = "{" THEN Positions(stop, last) ELSE <<>>
            IN IF i > n THEN <<>>
               ELSE IF ks[i] = "ws" \/ (ks[i] = "cdo" /\ sheet.topLevel) THEN from[i + 1]
               ELSE IF ~isAt /\ block = <<>> THEN <<>>
               ELSE <<[at |-> IF isAt THEN i ELSE 0, prelude |-> Positions(first, stop - 1),
                       block |-> block]>> \o from[last + 1]
    IN from[1]

\* The positions that are in no block and no function.
Outer ==
    LET ks == KindsOf
        from[i \in 1..(Len(ks) + 1)] ==
            IF i > Len(ks) THEN {} ELSE {i} \cup from[EndOfValue(ks, i) + 1]
    IN from[1]

\* The rules that have been returned.
Rules ==
    LET upTo[k \in 0..Len(returned)] ==
            IF k = 0 THEN <<>>
            ELSE IF returned[k].rule = NoRule THEN upTo[k - 1]
            ELSE Append(upTo[k - 1], returned[k].rule)
    IN upTo[Len(returned)]

\* The errors that have been returned, in order.
Reported == FlattenSeq([i \in 1..Len(returned) |-> returned[i].errs])

KindsAt(positions) == [i \in 1..Len(positions) |-> Tokens[positions[i]].kind]

\* NextRule returns the rules the text consists of, each with all of its tokens
\* and none of another: nothing is lost or read twice on the way through the
\* functions that mark, look ahead and go back.
RulesAreAsWritten ==
    /\ IsPrefix(Rules, Written)
    /\ fn = "done" => Rules = Written

\* A malformed token outside of blocks is reported once, by the rule it is in or
\* comes before, although every such token is read at least twice.
OuterErrorsAreReported ==
    LET outer == {k \in 1..Len(Reported) :
                     Reported[k].what = "parse" /\ Reported[k].at <= Len(Tokens)}
    IN fn = "done" =>
           /\ {Reported[k].at : k \in outer} = {p \in Outer : Tokens[p].bad}
           /\ \A j, k \in outer : j < k => Reported[j].at < Reported[k].at

\* The parser and ValueLength, one descending and one with a stack, agree on where
\* the block of a rule ends; and importCSS, which goes on if io.EOF is among the
\* errors, sees every rule whose block is cut off fail.
BlocksAreValues ==
    \A i \in 1..Len(returned) :
        LET r == returned[i].rule
            es == returned[i].errs
            length == ValueLength(KindsAt(r.block))
        IN r.block # <<>> =>
               /\ length.n = Len(r.block)
               /\ ~length.ok => \E e \in ToSet(es) : e.at = Len(Tokens) + 1
               /\ \A e \in ToSet(es) : e.what # "EOF"

\* ValueLength finds the value of the grammar at the start of any slice, and tells
\* whether it is closed.
ValueLengthIsTheValue ==
    pos = 0 /\ Tokens # <<>> =>
        LET length == ValueLength(KindsOf)
        IN /\ IsValue(KindsOf, 1, length.n)
           /\ length.ok <=> (Opens(Kind) => IsClosedBlock(KindsOf, 1, length.n))

\* Every call of NextRule returns, and the last finds the end: no token makes the
\* loops go round without being consumed.
Terminates == <>(fn = "done")
=============================================================================
