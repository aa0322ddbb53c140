-------------------------------- MODULE Output --------------------------------
(***************************************************************************)
(* The end of Process (woosh.go): the layers are written one after the     *)
(* other, all but the last in a @layer block of its own, with the theme    *)
(* rules rewritten to what is in use.  The Writer rejects some tokens,     *)
(* and then the output stays as it is.                                     *)
(***************************************************************************)
EXTENDS AtRules

VARIABLES
    sheet,      \* the layers to write, each with its name and rules, never changed
    used,       \* the names of the variables in use
    output,     \* the tokens written
    layer,      \* the layer written, 0 before the first
    rule,       \* the rule of it that comes next, 0 before the layer is begun
    pc          \* "idle", "write", "done" or "failed"

vars == <<sheet, used, output, layer, rule, pc>>

Init ==
    /\ used = {} /\ output = <<>>
    /\ layer = 0 /\ rule = 0 /\ pc = "idle"

\* The part of Process before this is done.
Begin(names) ==
    /\ pc = "idle"
    /\ used' = names /\ pc' = "write" /\ layer' = 1
    /\ UNCHANGED <<sheet, output, rule>>

\* Mutant of InLayer: the last layer is not told from the others.
IsLayer == layer <= Len(sheet)

InLayer == layer < Len(sheet)

\* What the Writer has errors for, among the tokens that get here.
IsWritable(tok) ==
    CASE tok.kind = "delim" -> tok.text # <<>>
      [] tok.kind \in {"number", "percentage"} -> IsValidNumber(tok.text)
      [] OTHER -> TRUE

\* writeTokenSeq: up to the first token that cannot be written.
Write(tokens) ==
    LET bad == {i \in 1..Len(tokens) : ~IsWritable(tokens[i])}
    IN IF bad = {}
       THEN output' = output \o tokens /\ UNCHANGED pc
       ELSE output' = output \o SubSeq(tokens, 1, Min(bad) - 1) /\ pc' = "failed"

OpenLayer ==
    /\ pc = "write" /\ layer <= Len(sheet) /\ rule = 0
    /\ LET name == sheet[layer].name
           title == IF name = <<>> THEN <<>> ELSE Append(LayerNameTokens(name), Plain("ws"))
           head == <<Plain("@layer"), Plain("ws")>> \o title \o <<Plain("{"), Plain("ws")>>
       IN \E tokens \in {IF InLayer THEN head ELSE <<>>} : Write(tokens)
    /\ rule' = 1
    /\ UNCHANGED <<sheet, used, layer>>

\* Mutant of IsKept: whatever the value.
IsDeclaration(part) == part.type = "declaration"

IsKept(part) == part.type = "declaration" /\ part.name.text \in used

\* rewriteThemeRule: a rule for :root with the declarations in use, if there are any.
RewriteThemeRule(parts) ==
    LET kept == SelectSeq(parts, IsKept)
    IN IF kept = <<>> THEN <<>>
       ELSE <<Plain(":"), Tok("ident", <<>>), Plain("ws"), Plain("{"), Plain("ws")>>
                \o BlockTokens(kept) \o <<Plain("ws"), Plain("}")>>

RuleTokens(r) == IF r.isTheme THEN RewriteThemeRule(r.parts) ELSE r.prelude \o r.block

WriteRule ==
    /\ pc = "write" /\ layer <= Len(sheet) /\ rule \in 1..Len(sheet[layer].rules)
    /\ \E tokens \in {RuleTokens(sheet[layer].rules[rule])} :
          Write(IF tokens = <<>> THEN <<>> ELSE Append(tokens, Plain("ws")))
    /\ rule' = rule + 1
    /\ UNCHANGED <<sheet, used, layer>>

CloseLayer ==
    /\ pc = "write" /\ layer <= Len(sheet) /\ rule > Len(sheet[layer].rules)
    /\ Write(IF InLayer THEN <<Plain("}"), Plain("ws")>> ELSE <<>>)
    /\ layer' = layer + 1 /\ rule' = 0
    /\ UNCHANGED <<sheet, used>>

Finish ==
    /\ pc = "write" /\ layer > Len(sheet)
    /\ pc' = "done"
    /\ UNCHANGED <<sheet, used, output, layer, rule>>

Next == OpenLayer \/ WriteRule \/ CloseLayer \/ Finish
-----------------------------------------------------------------------------
\* How the output is read: a rule ends with a block or a semicolon, and the block of
\* a @layer rule consists of rules itself.
Statements(tokens) ==
    LET starts == Append(ValueStarts(KindsIn(tokens)), Len(tokens) + 1)
        ends == SelectSeq([k \in 1..(Len(starts) - 1) |-> k],
                          LAMBDA k : tokens[starts[k]].kind \in {"{", ";"})
        first(e) == IF e = 1 THEN 1 ELSE starts[ends[e - 1] + 1]
    IN [e \in 1..Len(ends) |-> TrimWhitespace(SubSeq(tokens, first(e), starts[ends[e] + 1] - 1))]

ReadLayer(statement) ==
    LET open == Min({k \in 1..Len(statement) : statement[k].kind = "{"})
    IN [name |-> ParseLayerName(SubSeq(statement, 2, open - 1)),
        rules |-> Statements(SubSeq(statement, open + 1, Len(statement) - 1))]

ReadLayers(tokens) ==
    LET all == Statements(tokens)
        isLayer(s) == s[1].kind = "@layer"
        layers == SelectSeq(all, isLayer)
    IN Append([k \in 1..Len(layers) |-> ReadLayer(layers[k])],
              [name |-> <<>>, rules |-> SelectSeq(all, LAMBDA s : ~isLayer(s))])

\* Read again, the output is the layers in their order, each by its name and the last
\* one without a block, with all their rules that have something to say: no rule gets
\* out of its layer or ends one, and none becomes part of another.
OutputIsReadAgain ==
    pc = "done" =>
        ReadLayers(output) =
            [k \in 1..Len(sheet) |->
                [name |-> sheet[k].name,
                 rules |-> LET all == [j \in 1..Len(sheet[k].rules) |-> RuleTokens(sheet[k].rules[j])]
                           IN SelectSeq(all, LAMBDA s : s # <<>>)]]
=============================================================================
