------------------------------ MODULE ErrorLists ------------------------------
(***************************************************************************)
(* The errors of a style sheet: how --value() functions collect theirs,    *)
(* how location_error.go gives every error a place and, once it is known,  *)
(* a file, and how woosh.go reports them.  An error is a tree: a plain one *)
(* ("other"), one that wraps another ("wrapped"), one with a place         *)
(* ("located", which wraps another, too) and the list that a Collector     *)
(* makes of several ("list").  The variable stack is the Go call stack of  *)
(* AddFileToError.                                                         *)
(***************************************************************************)
EXTENDS Sequences, Naturals, FiniteSets, SequencesExt

CONSTANTS
    Sheets,     \* what the style sheets hold: the rules with errors of each, in order
    File        \* the URL of the style sheet

NoFile == "no file"

VARIABLES
    sheet,      \* the rules, never changed
    rule,       \* the rule being processed
    todo,       \* the errors of the rule that have not been given the file
    stack,      \* the activations of AddFileToError, the innermost last
    files,      \* the file of each located error, by its place
    collected,  \* allErrors of importCSS
    report,     \* what Process returns, for each error the file and the place, if any
    status      \* "process", "walk" or "done"

vars == <<sheet, rule, todo, stack, files, collected, report, status>>

Nil == [kind |-> "nil"]
Other == [kind |-> "other"]
Wrapped(err) == [kind |-> "wrapped", err |-> err]

---------------------------------------------------------------------------
(* The collector.                                                          *)

\* The error of a list of errors.
Error(errs) ==
    CASE Len(errs) = 0 -> Nil
      [] Len(errs) = 1 -> errs[1]
      [] OTHER -> [kind |-> "list", errs |-> errs]

\* The errors of an error: those of a list, none of nil.
All(err) ==
    CASE err.kind = "nil" -> <<>>
      [] err.kind = "list" -> err.errs
      [] OTHER -> <<err>>

\* The list with an error, or all errors of a list, at its end.
Add(errs, err) == errs \o All(err)

\* The places in an error.
RECURSIVE Places(_)
Places(err) ==
    CASE err.kind \in {"nil", "other"} -> {}
      [] err.kind = "wrapped" -> Places(err.err)
      [] err.kind = "located" -> {err.place} \union Places(err.err)
      [] err.kind = "list" -> UNION {Places(e) : e \in Range(err.errs)}

\* Each error of err with the place, unless it has one.
ErrorWithLocation(place, err) ==
    LET Placed(e) == IF Places(e) = {} THEN [kind |-> "located", place |-> place, err |-> e] ELSE e
    IN Error([i \in DOMAIN All(err) |-> Placed(All(err)[i])])

\* The place an error is reported at, as a set of at most one.
RECURSIVE ErrorLocation(_)
ErrorLocation(err) ==
    CASE err.kind \in {"nil", "other"} -> {}
      [] err.kind = "wrapped" -> ErrorLocation(err.err)
      [] err.kind = "located" -> {err.place}
      [] err.kind = "list" -> IF Len(err.errs) = 1 THEN ErrorLocation(err.errs[1]) ELSE {}

---------------------------------------------------------------------------
(* The errors of a rule.                                                   *)

\* What merge returns for the --value() function f of rule r with n unknown arguments.
Merge(r, f, n) == Error([i \in 1 .. n |-> ErrorWithLocation(<<r, f, i>>, Other)])

\* What collect returns for a block, the number of unknown arguments of each --value() function.
Collect(r, block) == Error(FoldLeft(Add, <<>>, [f \in DOMAIN block |-> Merge(r, f, block[f])]))

\* The error of a rule: of a functional @utility rule, of a @custom-variant rule, whose block the
\* parser reads again, or of the parser.
ErrorOf(r) ==
    IF sheet[r].kind = "utility" THEN Collect(r, sheet[r].block) ELSE sheet[r].err

Init ==
    /\ sheet \in Sheets
    /\ rule = 1
    /\ todo = <<>>
    /\ stack = <<>>
    /\ files = [place \in UNION {Places(ErrorOf(r)) : r \in DOMAIN sheet} |-> NoFile]
    /\ collected = <<>>
    /\ report = <<>>
    /\ status = "process"

---------------------------------------------------------------------------
(* newUtilityClass and newVariant walk through their error as a whole,     *)
(* importCSS through each of the parser's errors by itself.                *)

BeginRule ==
    /\ status = "process"
    /\ rule <= Len(sheet)
    /\ todo' = IF sheet[rule].kind = "parser" THEN All(ErrorOf(rule))
               ELSE IF ErrorOf(rule) = Nil THEN <<>> ELSE <<ErrorOf(rule)>>
    /\ status' = "walk"
    /\ UNCHANGED <<sheet, rule, stack, files, collected, report>>

\* AddFileToError is called for an error.
Call ==
    /\ status = "walk"
    /\ stack = <<>>
    /\ todo # <<>>
    /\ stack' = <<[err |-> Head(todo), next |-> 1]>>
    /\ todo' = Tail(todo)
    /\ UNCHANGED <<sheet, rule, files, collected, report, status>>

Top == Last(stack)

\* A located error gets the file if it has none, and the walk returns.
SetFile ==
    /\ stack # <<>>
    /\ Top.err.kind = "located"
    /\ files' = [files EXCEPT ![Top.err.place] = IF @ = NoFile THEN File ELSE @]
    /\ stack' = Front(stack)
    /\ UNCHANGED <<sheet, rule, todo, collected, report, status>>

Unwrap ==
    /\ stack # <<>>
    /\ Top.err.kind = "wrapped"
    /\ stack' = Append(Front(stack), [err |-> Top.err.err, next |-> 1])
    /\ UNCHANGED <<sheet, rule, todo, files, collected, report, status>>

\* The walk of a list calls itself for each of its errors.
Recurse ==
    /\ stack # <<>>
    /\ Top.err.kind = "list"
    /\ Top.next <= Len(Top.err.errs)
    /\ stack' = Append(Front(stack), [Top EXCEPT !.next = @ + 1])
                    \o <<[err |-> Top.err.errs[Top.next], next |-> 1]>>
    /\ UNCHANGED <<sheet, rule, todo, files, collected, report, status>>

\* Behind the last error of a list the loop goes round, err being the list still.
GoRound ==
    /\ stack # <<>>
    /\ Top.err.kind = "list"
    /\ Top.next > Len(Top.err.errs)
    /\ stack' = Append(Front(stack), [Top EXCEPT !.next = 1])
    /\ UNCHANGED <<sheet, rule, todo, files, collected, report, status>>

Return ==
    /\ stack # <<>>
    /\ Top.err.kind = "other"
    /\ stack' = Front(stack)
    /\ UNCHANGED <<sheet, rule, todo, files, collected, report, status>>

\* The error of the rule is collected; that of the parser ends the sheet.
EndRule ==
    /\ status = "walk"
    /\ stack = <<>>
    /\ todo = <<>>
    /\ collected' = Add(collected, ErrorOf(rule))
    /\ rule' = IF sheet[rule].kind = "parser" THEN Len(sheet) + 1 ELSE rule + 1
    /\ status' = "process"
    /\ UNCHANGED <<sheet, todo, stack, files, report>>

\* reformatWithLocations puts the file and the line before each error that has both.
Report ==
    /\ status = "process"
    /\ rule > Len(sheet)
    /\ report' = [i \in DOMAIN collected |->
                    {<<files[place], place>> :
                        place \in {p \in ErrorLocation(collected[i]) : files[p] # NoFile}}]
    /\ status' = "done"
    /\ UNCHANGED <<sheet, rule, todo, stack, files, collected>>

Next ==
    \/ BeginRule \/ Call \/ SetFile \/ Unwrap \/ Recurse \/ GoRound \/ Return
    \/ EndRule \/ Report

Spec == Init /\ [][Next]_vars /\ WF_vars(Next)

---------------------------------------------------------------------------

\* Every error of the sheet that has a place is reported with it and with the sheet's file.  The
\* comment of AddFileToError promises the file for any error a traversal finds (location_error.go).
EveryErrorHasItsFile ==
    <>(/\ status = "done"
       /\ \A i \in DOMAIN collected : Places(collected[i]) # {} =>
            \E place \in Places(collected[i]) : report[i] = {<<File, place>>})

=============================================================================
