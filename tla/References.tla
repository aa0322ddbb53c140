------------------------------ MODULE References ------------------------------
(***************************************************************************)
(* The search for the variables in use (woosh.go, usedVariableNames):      *)
(* findReferences goes through the tokens of a block, or of the value of a *)
(* theme declaration, with an index that jumps over the start of each      *)
(* var().  One step is one pass of its loop, or of the loops around it.    *)
(* ThemeVars says what comes of it.                                        *)
(***************************************************************************)
EXTENDS VarFunctions, FiniteSets

VARIABLES
    blocks,     \* the blocks of the rules that are not @theme, never changed
    decls,      \* the declarations of those that are, with name and value
    result,     \* the names collected
    oldLen,     \* their number when the pass began
    at,         \* the block or the declaration the loops are at
    i,          \* the token findReferences is at, 0 when it is not called
    pc,         \* "idle", "rules", "pass" or "done"
    before,     \* auxiliary: the names collected when findReferences was called
    styles      \* auxiliary: the blocks and declarations as ThemeVars sees them

input == <<blocks, decls, styles>>
vars == <<input, result, oldLen, at, i, pc, before>>

Init ==
    /\ blocks = <<>> /\ decls = <<>> /\ styles = [used |-> {}, decls |-> <<>>]
    /\ result = {} /\ before = {}
    /\ oldLen = 0 /\ at = 0 /\ i = 0
    /\ pc = "idle"

\* usedVariableNames is called.
Begin(bs, ds) ==
    /\ pc = "idle"
    /\ blocks' = bs /\ decls' = ds
    /\ styles' = [used |-> UNION {RefersTo(list) : list \in ToSet(blocks')},
                  decls |-> [k \in DOMAIN decls' |->
                                [name |-> decls'[k].name, refs |-> RefersTo(decls'[k].value)]]]
    /\ pc' = "rules" /\ at' = 1
    /\ UNCHANGED <<result, oldLen, i, before>>

\* What findReferences searches.
tokens == IF pc = "rules" THEN blocks[at] ELSE decls[at].value

\* A pass of the loop of findReferences.
SearchToken ==
    /\ i > 0 /\ i <= Len(tokens)
    /\ \E v \in {ValueLength(KindsIn(SubSeq(tokens, i, Len(tokens))))} :
       \E f \in {VarFunctionPropertyName(SubSeq(tokens, i, i + v.n - 1))} :
          IF tokens[i].kind = "var" /\ v.ok
          THEN result' = result \cup f.names /\ i' = i + f.end
          ELSE i' = i + 1 /\ UNCHANGED result
    /\ UNCHANGED <<input, oldLen, at, pc, before>>

\* findReferences returns, and the loop around it goes on.
EndSearch ==
    /\ i > 0 /\ i > Len(tokens)
    /\ i' = 0 /\ at' = at + 1
    /\ UNCHANGED <<input, result, oldLen, pc, before>>

SearchBlock ==
    /\ pc = "rules" /\ i = 0 /\ at <= Len(blocks)
    /\ i' = 1 /\ before' = result
    /\ UNCHANGED <<input, result, oldLen, at, pc>>

BeginPass ==
    /\ pc' = "pass" /\ at' = 1 /\ oldLen' = Cardinality(result)
    /\ UNCHANGED <<input, result, i, before>>

EndRules ==
    /\ pc = "rules" /\ i = 0 /\ at > Len(blocks)
    /\ BeginPass

IsUsed == decls[at].name \in result

SearchDeclaration ==
    /\ pc = "pass" /\ i = 0 /\ at <= Len(decls) /\ IsUsed
    /\ i' = 1 /\ before' = result
    /\ UNCHANGED <<input, result, oldLen, at, pc>>

SkipDeclaration ==
    /\ pc = "pass" /\ i = 0 /\ at <= Len(decls) /\ ~IsUsed
    /\ at' = at + 1
    /\ UNCHANGED <<input, result, oldLen, i, pc, before>>

\* A pass that added nothing is the last.
EndPass ==
    /\ pc = "pass" /\ i = 0 /\ at > Len(decls)
    /\ IF Cardinality(result) = oldLen
       THEN pc' = "done" /\ UNCHANGED <<input, result, oldLen, at, i, before>>
       ELSE BeginPass

Next ==
    \/ SearchToken \/ EndSearch
    \/ SearchBlock \/ EndRules
    \/ SearchDeclaration \/ SkipDeclaration \/ EndPass

-----------------------------------------------------------------------------
TypeOK ==
    /\ oldLen \in Nat /\ at \in Nat /\ i \in Nat
    /\ pc \in {"idle", "rules", "pass", "done"}
    /\ before \subseteq result
    /\ i > 0 => pc \in {"rules", "pass"} /\ at >= 1
=============================================================================
