------------------------------- MODULE AtRules -------------------------------
(***************************************************************************)
(* The at-rules woosh.go takes for itself, from tokens to what they say:   *)
(* @import and the names of layers (parseImport, parseLayerName,           *)
(* layerNameTokens), @utility (utilities.go, newUtilityClass) and          *)
(* @custom-variant (variants.go, newVariant and injectVariants).  The      *)
(* outcome of a rule says whether it is well formed, and whether the       *)
(* program gets past it.                                                   *)
(***************************************************************************)
EXTENDS ValueFunctions, Characters

\* The tokens between p and the end of a list.
Behind(list, p) == SubSeq(list, p + 1, Len(list))

IsClosed(list) == LET v == ValueLength(KindsIn(list)) IN v.ok /\ v.n = Len(list)

-----------------------------------------------------------------------------
\* The text of a token, and the name of a layer, is a sequence of code points.

\* parseLayerName: identifiers and dots, whatever else there is aside.
ParseLayerName(list) ==
    LET starts == ValueStarts(KindsIn(list))
        said(tok) == IF IsName(tok) THEN tok.text ELSE IF tok.kind = "." THEN <<Dot>> ELSE <<>>
    IN FlattenSeq([k \in 1..Len(starts) |-> said(list[starts[k]])])

\* layerNameTokens: an identifier between two dots, where there is anything.
LayerNameTokens(name) ==
    LET n == Len(name)
        from[i \in 1..(n + 1)] ==
            LET dots == {j \in i..n : name[j] = Dot}
                end == IF dots = {} THEN n ELSE Min(dots) - 1
            IN IF i > n THEN <<>>
               ELSE IF name[i] = Dot THEN <<Plain(".")>> \o from[i + 1]
               ELSE <<Tok("ident", SubSeq(name, i, end))>> \o from[end + 1]
    IN from[1]

\* The names of @layer a, b; and those that stand for a layer.
LayerNames(prelude) ==
    LET names == SplitCommaSeparatedValues(prelude)
    IN [k \in 1..Len(names) |-> ParseLayerName(names[k])]

\* parseImport: what is imported, and whether a layer is given and which.  Of what
\* follows the address only layers count, the last of them if there are several.
ParseImport(rule) ==
    LET list == TrimWhitespace(rule.prelude)
        rest == TrimWhitespace(Behind(list, 1))
        starts == ValueStarts(KindsIn(rest))
        layers == {p \in ToSet(starts) : rest[p].kind \in {"layer", "layer("}}
        last == Behind(rest, Max(layers) - 1)
        value == ValueLength(KindsIn(last))
    IN [ok |-> ~rule.hasBlock /\ list # <<>> /\ list[1].kind \in {"url", "string"},
        file |-> IF list = <<>> THEN <<>> ELSE list[1].text,
        hasLayer |-> layers # {},
        layer |-> IF layers = {} THEN <<>>
                  ELSE IF last[1].kind = "layer(" /\ value.ok
                  THEN ParseLayerName(SubSeq(last, 2, value.n - 1)) ELSE <<>>]

-----------------------------------------------------------------------------
Outcomes == {"ok", "malformed", "stuck", "crashed"}

\* newUtilityClass.  What is wrong with the arguments of a functional utility comes as
\* a list of errors, and AddFileToError does not get to the end of one (ErrorLists).
UtilityOutcome(rule) ==
    LET name == TrimWhitespace(rule.prelude)
        functions == Functions(BlockTokens(rule.block))
    IN IF \/ Len(name) \notin {1, 2} \/ ~IsName(name[1])
          \/ Len(name) = 2 /\ name[2].kind # "*"
       THEN "malformed"
       ELSE IF Len(name) = 1 THEN "ok"
       ELSE IF \E f \in ToSet(functions) : HasEmptyArgument(f) THEN "crashed"
       ELSE CASE Collect(BlockTokens(rule.block)).errors = 0 -> "ok"
              [] Collect(BlockTokens(rule.block)).errors = 1 -> "malformed"
              [] OTHER -> "stuck"

\* blockSingleRule: the parts of a block are one rule, that is a statement, or a head
\* whose end is the last part.
IsSingleRule(parts) ==
    LET n == Len(parts)
        depth[k \in 0..n] ==
            IF k = 0 THEN 0
            ELSE depth[k - 1] + CASE parts[k].type = "head" -> 1
                                  [] parts[k].type = "end" -> -1
                                  [] OTHER -> 0
    IN /\ n > 0 /\ parts[1].type \in {"head", "statement"}
       /\ \A k \in 1..(n - 1) : depth[k] > 0

\* The heads around the innermost rule of a block with a single rule, as long as there
\* is one and it is not @slot.
Wrappers(parts) ==
    LET goesOn(k) == /\ IsSingleRule(SubSeq(parts, k, Len(parts) - k + 1))
                     /\ parts[k].type = "head" /\ parts[k].name.kind # "slot"
        ks == {k \in 1..Len(parts) : \A j \in 1..k : 2 * j <= Len(parts) /\ goesOn(j)}
    IN [k \in 1..Cardinality(ks) |-> parts[k]]

\* newVariant with a block: wrappers around @slot; and nothing else.
BlockOutcome(parts) ==
    LET wrappers == Wrappers(parts)
        k == Len(wrappers)
        inner == SubSeq(parts, k + 1, Len(parts) - k)
    IN IF /\ IsSingleRule(inner) /\ inner[1].name.kind = "slot"
          /\ inner[1].type = "statement" /\ inner[1].value = <<>>
       THEN IF k = 0 THEN "crashed" ELSE "ok"
       ELSE "malformed"

\* newVariant.
VariantOutcome(rule) ==
    LET list == TrimWhitespace(rule.prelude)
        selector == TrimWhitespace(Behind(list, 1))
    IN IF list = <<>> THEN "malformed"
       ELSE IF ~IsName(list[1]) \/ Colon \in ToSet(list[1].text) THEN "malformed"
       ELSE IF rule.hasBlock
       THEN IF Len(list) > 1 THEN "malformed" ELSE BlockOutcome(rule.block)
       ELSE IF selector # <<>> /\ Head(selector).kind = "(" /\ IsClosed(selector)
       THEN "ok" ELSE "malformed"

\* The heads a variant wraps a block in, as tokens.
VariantHeads(rule) ==
    LET selector == TrimWhitespace(Behind(TrimWhitespace(rule.prelude), 1))
        wrappers == Wrappers(rule.block)
    IN IF ~rule.hasBlock
       THEN <<Append(SubSeq(selector, 2, Len(selector) - 1), Plain("ws"))>>
       ELSE [k \in 1..Len(wrappers) |-> Heading(wrappers[k])]

\* injectVariants: the block goes into the heads of the variants, each in the one
\* before it.
InjectVariants(heads, block) ==
    FlattenSeq([k \in 1..Len(heads) |-> <<Plain("{"), Plain("ws")>> \o heads[k]])
        \o block
        \o FlattenSeq([k \in 1..Len(heads) |-> <<Plain("ws"), Plain("}")>>])
=============================================================================
