------------------------------- MODULE Imports -------------------------------
(***************************************************************************)
(* How woosh.go gathers the style sheets: importCSS reads a sheet rule by  *)
(* rule, process files each rule under a cascade layer or follows its      *)
(* @import into another sheet, and errors are collected on the way back.   *)
(* The variable stack is the Go call stack of importCSS.  A sheet that is  *)
(* imported is in the directory of the one that imports it.                *)
(***************************************************************************)
EXTENDS AtRules

CONSTANTS
    Libraries,      \* what the style sheets may contain
    Entrypoints     \* the entry points, in order

\* Rules, and the rules in a block, come in sequences.
ASSUME LibrariesAssumption ==
    \A sheets \in Libraries : \A file \in DOMAIN sheets :
        /\ Len(sheets[file].rules) \in Nat
        /\ \A i \in 1..Len(sheets[file].rules) : Len(sheets[file].rules[i].body) \in Nat

\* There is an entry point, and there are sheets for them, that may not open.
ASSUME EntrypointsAssumption ==
    /\ Entrypoints # <<>> /\ Len(Entrypoints) \in Nat
    /\ \A sheets \in Libraries : \A e \in 1..Len(Entrypoints) : Entrypoints[e] \in DOMAIN sheets

\* The layer that unlayered rules go to, created first and kept last.
BaseLayer == 1

VARIABLES
    library,    \* the sheets, never changed: file -> [opens, rules]; a rule has a kind,
                \* a prelude, perhaps a block of parts, or of rules if it is a @layer,
                \* and comes with what is read from it (Parsed)
    entry,      \* how many entry points have been imported
    stack,      \* the activations of importCSS, the innermost last
    order,      \* state.layers, each layer as its number in layers
    layers,     \* the layers, in the order they were created
    classes,    \* the places of the utility rules in state.classes
    variants,   \* state.variants, as pairs of a name and a place
    errors,     \* the error Process returns, as a list
    status      \* "running", "failed", "done", "stuck" in a loop or "crashed"

vars == <<library, entry, stack, order, layers, classes, variants, errors, status>>

\* What the library url takes for no address: a colon and nothing before it.
IsURL(text) == text = <<>> \/ text[1] # Colon

\* What comes of a rule that process takes apart.
Outcome(rule) ==
    CASE rule.kind = "import" ->
            LET import == ParseImport(rule)
            IN IF import.ok /\ IsURL(import.file) THEN "ok" ELSE "malformed"
      [] rule.kind = "utility" -> UtilityOutcome(rule)
      [] rule.kind = "variant" -> VariantOutcome(rule)
      [] OTHER -> "ok"

\* What is read from a rule depends on nothing else, and is read but once; a block of
\* rules comes as rules that were parsed.
Parsed(rule, body) ==
    [text |-> rule, kind |-> rule.kind, parse |-> rule.parse, hasBlock |-> rule.hasBlock,
     body |-> body, outcome |-> Outcome(rule), import |-> ParseImport(rule),
     names |-> IF rule.hasBlock THEN <<ParseLayerName(rule.prelude)>> ELSE LayerNames(rule.prelude),
     variant |-> IF rule.kind = "variant" /\ Outcome(rule) = "ok"
                 THEN TrimWhitespace(rule.prelude)[1].text ELSE <<>>]

ParsedSheet(sheet) ==
    [opens |-> sheet.opens,
     rules |-> [i \in 1..Len(sheet.rules) |->
                   LET rule == sheet.rules[i]
                   IN Parsed(rule, [j \in 1..Len(rule.body) |-> Parsed(rule.body[j], <<>>)])]]

\* An activation: the sheet and the layer its rules go to, the rule it is at,
\* the position in the block of a @layer rule (0 outside of one) or how many of its
\* names are done with, the layer of that block, and the errors collected.
Frame(file, layer) ==
    [file |-> file, layer |-> layer, at |-> 1, inner |-> 0, blockLayer |-> layer,
     errs |-> <<>>]

Top == Last(stack)
SetTop(frame) == Append(Front(stack), frame)

Rules == library[Top.file].rules
InBlock == Top.inner > 0 /\ Rules[Top.at].hasBlock

\* Mutant of Target: the layer of a @layer block is forgotten.
SheetLayer == Top.layer

\* The rule at hand, the layer it is processed for, and its place.
Rule == IF InBlock THEN Rules[Top.at].body[Top.inner] ELSE Rules[Top.at]
Target == IF InBlock THEN Top.blockLayer ELSE Top.layer
Place == <<Top.file, Top.at, Top.inner>>

\* importCSS is about to process a rule.  A rule of a sheet comes with the parse
\* errors NextRule met; a list of them with io.EOF in it goes unnoticed.
HasRule ==
    /\ stack # <<>> /\ status = "running"
    /\ IF InBlock
       THEN Top.inner <= Len(Rules[Top.at].body)
       ELSE Top.at <= Len(Rules) /\ Rules[Top.at].parse # "error"

\* The activation after the rule at hand: allErrors.Add(s.process(l, rule)).
After(errs) ==
    LET frame == [Top EXCEPT !.errs = Top.errs \o errs]
    IN IF InBlock THEN [frame EXCEPT !.inner = Top.inner + 1]
                  ELSE [frame EXCEPT !.at = Top.at + 1]

\* A layer with a name is found again, one without a name never is.
Exists(name) == name # <<>> /\ \E i \in 1..Len(layers) : layers[i].name = name

\* Mutant of GetOrCreateLayer: the new layer goes behind the base layer.
GetOrCreateLayerLast(name) ==
    IF Exists(name)
    THEN UNCHANGED <<order, layers>>
    ELSE /\ order' = Append(order, Len(layers) + 1)
         /\ layers' = Append(layers, [name |-> name, rules |-> <<>>])

\* A new layer goes in front of the base layer.
GetOrCreateLayer(name) ==
    IF Exists(name)
    THEN UNCHANGED <<order, layers>>
    ELSE /\ order' = InsertAt(order, Len(order), Len(layers) + 1)
         /\ layers' = Append(layers, [name |-> name, rules |-> <<>>])

\* Mutant of LayerNumber: the newest layer, whether it was created or found.
NewestLayer(name) == Len(layers) + 1

\* The number of the layer that getOrCreateLayer returns.
LayerNumber(name) ==
    IF Exists(name) THEN CHOOSE i \in 1..Len(layers) : layers[i].name = name ELSE Len(layers) + 1

\* Mutant of AppendRule: the rule goes to the front.
PrependRule == layers' = [layers EXCEPT ![Target].rules = <<Place>> \o @]

\* l.rules = append(l.rules, rule).
AppendRule == layers' = [layers EXCEPT ![Target].rules = Append(@, Place)]

Init ==
    /\ \E sheets \in Libraries : library = [file \in DOMAIN sheets |-> ParsedSheet(sheets[file])]
    /\ entry = 0
    /\ stack = <<>>
    /\ order = <<BaseLayer>>
    /\ layers = <<[name |-> <<>>, rules |-> <<>>]>>
    /\ classes = {}
    /\ variants = {}
    /\ errors = <<>>
    /\ status = "running"

\* Process imports the next entry point into the base layer.
NextEntrypoint ==
    /\ status = "running" /\ stack = <<>> /\ entry < Len(Entrypoints)
    /\ entry' = entry + 1
    /\ IF library[Entrypoints[entry + 1]].opens
       THEN /\ stack' = <<Frame(Entrypoints[entry + 1], BaseLayer)>>
            /\ UNCHANGED <<errors, status>>
       ELSE /\ errors' = <<<<Entrypoints[entry + 1], 0, 0>>>>
            /\ status' = "failed"
            /\ UNCHANGED stack
    /\ UNCHANGED <<library, order, layers, classes, variants>>

\* All entry points are imported.
Finish ==
    /\ status = "running" /\ stack = <<>> /\ entry = Len(Entrypoints)
    /\ status' = "done"
    /\ UNCHANGED <<library, entry, stack, order, layers, classes, variants, errors>>

\* importCSS returns errs: to the process of the importing sheet, which adds
\* them to its own, or to Process, which stops at the first sheet that failed.
ReturnErrors(errs) ==
    IF Len(stack) = 1
    THEN /\ stack' = <<>>
         /\ errors' = errs
         /\ status' = IF errs = <<>> THEN "running" ELSE "failed"
    ELSE /\ stack' = LET caller == stack[Len(stack) - 1]
                     IN Append(SubSeq(stack, 1, Len(stack) - 2),
                               [caller EXCEPT !.errs = caller.errs \o errs])
         /\ UNCHANGED <<errors, status>>

\* Mutant of EndOfSheet: the end is looked for one rule too far.
EndPastSheet ==
    /\ stack # <<>> /\ ~InBlock /\ Top.at > Len(Rules) + 1
    /\ ReturnErrors(Top.errs)
    /\ UNCHANGED <<library, entry, order, layers, classes, variants>>

\* The end of the sheet, where NextRule returns io.EOF.
EndOfSheet ==
    /\ stack # <<>> /\ ~InBlock /\ Top.at > Len(Rules)
    /\ ReturnErrors(Top.errs)
    /\ UNCHANGED <<library, entry, order, layers, classes, variants>>

\* NextRule returns a parse error: the rest of the sheet is not read.
ParseError ==
    /\ stack # <<>> /\ ~InBlock /\ Top.at <= Len(Rules)
    /\ Rules[Top.at].parse = "error"
    /\ ReturnErrors(Append(Top.errs, Place))
    /\ UNCHANGED <<library, entry, order, layers, classes, variants>>

IsLayerRule == ~InBlock /\ Rule.kind = "layer"

\* @layer a, b; one name after the other.
MentionLayer ==
    /\ HasRule /\ IsLayerRule /\ ~Rule.hasBlock /\ Top.inner < Len(Rule.names)
    /\ LET name == Rule.names[Top.inner + 1]
       IN IF name = <<>> THEN UNCHANGED <<order, layers>> ELSE GetOrCreateLayer(name)
    /\ stack' = SetTop([Top EXCEPT !.inner = Top.inner + 1])
    /\ UNCHANGED <<library, entry, classes, variants, errors, status>>

EndOfList ==
    /\ HasRule /\ IsLayerRule /\ ~Rule.hasBlock /\ Top.inner = Len(Rule.names)
    /\ stack' = SetTop([Top EXCEPT !.inner = 0, !.at = Top.at + 1])
    /\ UNCHANGED <<library, entry, order, layers, classes, variants, errors, status>>

\* @layer a { ... }
LayerBlock ==
    /\ HasRule /\ IsLayerRule /\ Rule.hasBlock
    /\ GetOrCreateLayer(Rule.names[1])
    /\ stack' = SetTop([Top EXCEPT !.inner = 1, !.blockLayer = LayerNumber(Rule.names[1])])
    /\ UNCHANGED <<library, entry, classes, variants, errors, status>>

EndOfBlock ==
    /\ stack # <<>> /\ InBlock /\ Top.inner > Len(Rules[Top.at].body)
    /\ stack' = SetTop([Top EXCEPT !.inner = 0, !.at = Top.at + 1])
    /\ UNCHANGED <<library, entry, order, layers, classes, variants, errors, status>>

CanOpen(file) == file \in DOMAIN library /\ library[file].opens

IsTaken == HasRule /\ Rule.kind \in {"import", "utility", "variant"}

\* @import: its layer is found or created before the sheet is opened, and stays when
\* the sheet cannot be opened.
Import ==
    /\ IsTaken /\ Rule.kind = "import" /\ Rule.outcome = "ok"
    /\ LET import == Rule.import
           target == IF import.hasLayer THEN LayerNumber(import.layer) ELSE Target
       IN /\ IF import.hasLayer THEN GetOrCreateLayer(import.layer) ELSE UNCHANGED <<order, layers>>
          /\ stack' = IF CanOpen(import.file)
                      THEN Append(SetTop(After(<<>>)), Frame(import.file, target))
                      ELSE SetTop(After(<<<<import.file, 0, 0>>>>))
    /\ UNCHANGED <<library, entry, classes, variants, errors, status>>

\* @utility
Utility ==
    /\ IsTaken /\ Rule.kind = "utility" /\ Rule.outcome = "ok"
    /\ classes' = classes \cup {Place}
    /\ AppendRule
    /\ stack' = SetTop(After(<<>>))
    /\ UNCHANGED <<library, entry, order, variants, errors, status>>

\* @custom-variant: the latest definition of a name is the one that counts.
CustomVariant ==
    /\ IsTaken /\ Rule.kind = "variant" /\ Rule.outcome = "ok"
    /\ variants' = {v \in variants : v[1] # Rule.variant} \cup {<<Rule.variant, Place>>}
    /\ stack' = SetTop(After(<<>>))
    /\ UNCHANGED <<library, entry, order, layers, classes, errors, status>>

\* An @import, @utility or @custom-variant that is malformed is left out.
Malformed ==
    /\ IsTaken /\ Rule.outcome = "malformed"
    /\ stack' = SetTop(After(<<Place>>))
    /\ UNCHANGED <<library, entry, order, layers, classes, variants, errors, status>>

\* The program goes round in AddFileToError, or fails at a token that is not there.
Trap ==
    /\ IsTaken /\ Rule.outcome \in {"stuck", "crashed"}
    /\ status' = Rule.outcome
    /\ UNCHANGED <<library, entry, stack, order, layers, classes, variants, errors>>

\* Every other rule, and a @layer rule inside the block of a @layer rule.
OtherRule ==
    /\ HasRule
    /\ Rule.kind = "other" \/ (InBlock /\ Rule.kind = "layer")
    /\ AppendRule
    /\ stack' = SetTop(After(<<>>))
    /\ UNCHANGED <<library, entry, order, classes, variants, errors, status>>

Next ==
    \/ NextEntrypoint \/ Finish
    \/ EndOfSheet \/ ParseError
    \/ MentionLayer \/ EndOfList \/ LayerBlock \/ EndOfBlock
    \/ Import \/ Utility \/ CustomVariant \/ Malformed \/ Trap \/ OtherRule

Spec == Init /\ [][Next]_vars /\ WF_vars(Next)

-----------------------------------------------------------------------------
\* Rules, and the sheets that are there or asked for.
RulesIn(file) ==
    LET rules == library[file].rules
    IN ToSet(rules) \cup UNION {ToSet(rules[i].body) : i \in DOMAIN rules}

Files ==
    DOMAIN library \cup UNION {{rule.import.file : rule \in RulesIn(file)} : file \in DOMAIN library}

Places == Files \X Nat \X Nat

Frames ==
    [file : DOMAIN library, layer : 1..Len(layers), at : Nat \ {0}, inner : Nat,
     blockLayer : 1..Len(layers), errs : Seq(Places)]

\* Activations and blocks hold layers that exist, however many were created since; rules
\* and errors are at places of sheets.
TypeOK ==
    /\ entry \in 0..Len(Entrypoints)
    /\ order \in Seq(1..Len(layers))
    /\ \A i \in 1..Len(layers) : layers[i].rules \in Seq(Places)
    /\ stack \in Seq(Frames)
    /\ classes \subseteq Places
    /\ \A v \in variants : v[2] \in Places
    /\ errors \in Seq(Places)
    /\ status \in {"running", "failed", "done", "stuck", "crashed"}

\* Process writes every layer but the last inside @layer, and the rules of the
\* last one bare, so the base layer must stay last however layers are created
\* while sheets are being imported; and each layer must be written once.
BaseLayerIsLast ==
    /\ Last(order) = BaseLayer
    /\ ToSet(order) = 1..Len(layers) /\ Len(order) = Len(layers)

\* A step leaves names, rules and the order of layers but for what it adds.
LayersGrow ==
    /\ Len(layers) <= Len(layers')
    /\ \A i \in 1..Len(layers) :
          layers'[i].name = layers[i].name /\ IsPrefix(layers[i].rules, layers'[i].rules)
    /\ IsPrefix(Front(order), Front(order'))

\* Importing a sheet only adds: no step reorders the layers that exist, or takes
\* a rule out of one.  A layer that activations up the stack hold on to stays
\* the layer they meant.
LayersOnlyGrow == [][LayersGrow]_vars

\* When the sheets do not import each other in a circle, every import ends, if only
\* at a rule that the program does not get past (Trap).
Terminates == <>(status # "running")
=============================================================================
