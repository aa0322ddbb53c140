------------------------------ MODULE MCImports ------------------------------
(***************************************************************************)
(* Imports checked against what the sheets mean: their rules inlined in    *)
(* the order of the text, each with the layer it is under, layers ordered  *)
(* by their first mention.  The sheets are Main, A and B; each imports     *)
(* only later ones.                                                        *)
(***************************************************************************)
EXTENDS Imports

Main == <<109>>
A == <<97>>
B == <<98>>
X == <<120>>
Y == <<121>>

Ident(name) == Tok("ident", name)
Blank == Plain("ws")

\* A rule as NextRule returns it, and what its text means: what comes of it, the
\* layer it names, as tokens, the names in a list of layers, the sheet it imports, the
\* variant it defines.
NoLayer == <<Plain("none")>>

R == [kind |-> "other", parse |-> "none", prelude |-> <<>>, hasBlock |-> FALSE, block |-> <<>>,
      body |-> <<>>,
      means |-> [outcome |-> "ok", layer |-> NoLayer, names |-> <<>>, file |-> <<>>, name |-> <<>>]]

Other == R
BadParse == [R EXCEPT !.parse = "error"]

Taking(args) ==
    <<[type |-> "declaration", name |-> Plain("ident"),
       value |-> <<Plain("--value")>> \o args \o <<Plain(")")>>]>>
UtilityOf(prelude, parts) ==
    [R EXCEPT !.kind = "utility", !.prelude = prelude, !.hasBlock = TRUE, !.block = parts]
UtilityRule == UtilityOf(<<Ident(X), Plain("*")>>, Taking(<<Plain("number")>>))
BadUtility ==
    [UtilityOf(<<Ident(X), Plain("*")>>, Taking(<<Plain("x")>>)) EXCEPT !.means.outcome = "malformed"]
StuckUtility ==
    [UtilityOf(<<Ident(X), Plain("*")>>, Taking(<<Plain("x"), Plain(","), Plain("x")>>))
        EXCEPT !.means.outcome = "stuck"]
CrashUtility ==
    [UtilityOf(<<Ident(X), Plain("*")>>, Taking(<<>>)) EXCEPT !.means.outcome = "crashed"]

Part(type, kind) == [type |-> type, name |-> Plain(kind), value |-> <<>>]
Slot == Part("statement", "slot")
VariantOf(prelude, hasBlock, parts, n) ==
    [R EXCEPT !.kind = "variant", !.prelude = prelude, !.hasBlock = hasBlock, !.block = parts,
              !.means.name = n]
Variant(n) == VariantOf(<<Blank, Ident(n), Blank, Plain("("), Plain("x"), Plain(")")>>, FALSE, <<>>, n)
BlockVariant(n) ==
    VariantOf(<<Ident(n), Blank>>, TRUE, <<Part("head", "@media"), Slot, Part("end", "x")>>, n)
BadVariant ==
    [VariantOf(<<Ident(X)>>, TRUE, <<Part("head", "@media"), Slot, Slot, Part("end", "x")>>, X)
        EXCEPT !.means.outcome = "malformed"]
CrashVariant == [VariantOf(<<Ident(X)>>, TRUE, <<Slot>>, X) EXCEPT !.means.outcome = "crashed"]

\* A layer's name in the text, as a function or a keyword of @import too.
Anonymous == <<>>
LayerOf(name) ==
    IF name = NoLayer THEN <<>>
    ELSE IF name = Anonymous THEN <<Plain("layer")>>
    ELSE <<Plain("layer(")>> \o name \o <<Plain(")")>>

ImportOf(f, name) ==
    [R EXCEPT !.kind = "import", !.prelude = <<Blank, Tok("string", f), Blank>> \o LayerOf(name),
              !.means.file = f, !.means.layer = name]
BadImport ==
    [R EXCEPT !.kind = "import", !.prelude = <<Ident(A)>>, !.means.outcome = "malformed"]
List(ns) ==
    [R EXCEPT !.kind = "layer", !.means.names = ns,
              !.prelude = Tail(FlattenSeq([k \in 1..Len(ns) |-> <<Plain(","), Blank>> \o ns[k]]))]
Block(name, b) ==
    [R EXCEPT !.kind = "layer", !.hasBlock = TRUE, !.means.layer = name, !.prelude = <<Blank>> \o name,
              !.body = b]

LX == <<Ident(X)>>
LY == <<Ident(Y)>>
LXY == <<Ident(X), Plain("."), Ident(Y)>>

\* Every way of naming a layer, across three sheets.
LayerMenu ==
    [main |-> {Other, List(<<LX, LXY>>), ImportOf(A, NoLayer), ImportOf(A, LX),
               ImportOf(B, Anonymous),
               Block(LXY, <<Other, ImportOf(B, NoLayer), ImportOf(A, LXY)>>)},
     a    |-> {Other, ImportOf(B, LXY), Block(LX, <<Other, List(<<LY>>)>>),
               Block(Anonymous, <<Other>>)},
     b    |-> {UtilityRule, List(<<LXY, LX>>)}]

\* Malformed rules and sheets that do not parse or open.
FailureMenu ==
    [main |-> {Other, BadParse, BadUtility, ImportOf(A, NoLayer),
               Block(LX, <<BadImport, ImportOf(B, LY), Variant(X)>>)},
     a    |-> {UtilityRule, BadParse, ImportOf(B, Anonymous), BlockVariant(X)},
     b    |-> {Variant(X), BadVariant, BadParse}]

\* The libraries of sheets with rules of a menu, up to a number for each.
LibrariesOf(menu, max) ==
    LET sheets(f) == [opens : {TRUE}, rules : BoundedSeq(menu[f], max[f])]
    IN {Main :> m @@ A :> a @@ B :> b : m \in sheets("main"), a \in sheets("a"), b \in sheets("b")}

\* One @import, written in every way: its address, a layer, what is not looked at.
Addresses == {Tok("string", A), Tok("url", A), Tok("string", <<Colon>>), Ident(A), Blank}
Conditions ==
    {<<>>, <<Plain("function"), Plain("layer"), Plain(")")>>, <<Ident(X)>>,
     <<Plain("("), Plain("layer("), Ident(Y), Plain(")"), Plain(")")>>}
Spelled ==
    {[ImportOf(A, name) EXCEPT
        !.prelude = <<Blank, address>> \o LayerOf(name) \o <<Blank>> \o condition,
        !.means.outcome = IF address \in {Tok("string", A), Tok("url", A)} /\ ~hasBlock THEN "ok"
                          ELSE "malformed",
        !.hasBlock = hasBlock] :
        address \in Addresses, name \in {NoLayer, Anonymous, LX, LXY},
        condition \in Conditions, hasBlock \in BOOLEAN}

\* @utility and @custom-variant, right and wrong.
Media == Part("head", "@media")
End == Part("end", "x")
Selector == <<Plain("("), Plain("x"), Plain(")")>>
Right ==
    {UtilityOf(<<Blank, Ident(X), Blank>>, Taking(<<>>)),
     UtilityOf(<<Ident(X), Plain("*")>>, Taking(<<Plain("number"), Plain(","), Tok("string", A)>>)),
     VariantOf(<<Ident(X), Blank>> \o Selector \o <<Blank>>, FALSE, <<>>, X),
     VariantOf(<<Ident(X)>>, TRUE, <<Media, Media, Slot, End, End>>, X)}
Wrong ==
    {UtilityOf(<<Ident(X), Blank, Plain("*")>>, <<>>), UtilityOf(<<Ident(X), Ident(Y)>>, <<>>),
     UtilityOf(<<Tok("string", X)>>, <<>>), UtilityOf(<<Blank>>, <<>>)}
    \cup {VariantOf(prelude, FALSE, <<>>, X) :
            prelude \in {<<Ident(X), Blank>>, <<Ident(X)>> \o Front(Selector), Selector,
                        <<Ident(<<120, Colon>>)>> \o Selector, <<Ident(X)>> \o Selector \o LY}}
    \cup {VariantOf(<<Ident(X)>>, TRUE, parts, X) :
            parts \in {<<>>, <<Media, End, Slot>>, <<Media, End>>, <<Media, Media, End, Slot, End>>,
                      <<Media, Part("head", "slot"), End, End>>, <<Media, Part("statement", "x"), End>>}}
    \cup {VariantOf(<<Ident(X)>> \o Selector, TRUE, <<Media, Slot, End>>, X)}

\* Rules that the program does not get past.
Traps == {StuckUtility, CrashUtility, CrashVariant}

\* The sheet b may also be missing.
MCLibraries ==
    LET failing == LibrariesOf(FailureMenu, [main |-> 2, a |-> 2, b |-> 2])
        one(rule) == [opens |-> TRUE, rules |-> <<rule>>]
    IN LibrariesOf(LayerMenu, [main |-> 3, a |-> 2, b |-> 1])
           \cup failing
           \cup {[l EXCEPT ![B] = [opens |-> FALSE, rules |-> <<>>]] : l \in failing}
           \cup {Main :> one(rule) @@ A :> one(Other) @@ B :> one(trap) :
                     rule \in Spelled \cup Right \cup {[r EXCEPT !.means.outcome = "malformed"] : r \in Wrong},
                     trap \in {Other} \cup Traps}

MCEntrypoints == <<Main, B>>

-----------------------------------------------------------------------------
\* What the text of the sheets says happens, in order: a layer is mentioned, a
\* rule is added to one, a variant is defined, or something is wrong.
Event(what, key, place) == [what |-> what, key |-> key, place |-> place]

\* A layer in the text: the base layer, the tokens of a name, or the place of an
\* anonymous one, which is a place in the chain of imports.
Key(what, of) == [what |-> what, of |-> of]
BaseKey == Key("base", <<>>)
KeyOf(name, chain) == IF name = Anonymous THEN Key("place", chain) ELSE Key("name", name)
NameOf(key) == IF key.what = "name" THEN key.of ELSE <<>>

RECURSIVE SheetEvents(_, _, _)

RuleEvents(rule, key, place, chain) ==
    LET here == Append(chain, place)
        layer == IF rule.text.means.layer = NoLayer THEN key ELSE KeyOf(rule.text.means.layer, here)
        mention == IF rule.text.means.layer = NoLayer THEN <<>> ELSE <<Event("layer", layer, place)>>
    IN CASE rule.text.means.outcome = "malformed" ->
               <<Event("error", key, place)>>
         [] rule.kind = "import" /\ rule.text.means.outcome = "ok" ->
               mention \o SheetEvents(rule.text.means.file, layer, here)
         [] rule.kind = "variant" /\ rule.text.means.outcome = "ok" -> 
               <<Event("variant", Key("name", rule.text.means.name), place)>>
         [] rule.kind = "utility" /\ rule.text.means.outcome = "ok" ->
               <<Event("class", key, place), Event("rule", key, place)>>
         [] OTHER -> <<Event("rule", key, place)>>

TopRuleEvents(rule, key, place, chain) ==
    CASE rule.kind = "layer" /\ ~rule.hasBlock ->
            [i \in 1..Len(rule.text.means.names) |-> Event("layer", Key("name", rule.text.means.names[i]), place)]
      [] rule.kind = "layer" /\ rule.hasBlock ->
            LET layer == KeyOf(rule.text.means.layer, Append(chain, place))
            IN <<Event("layer", layer, place)>> \o
               FlattenSeq([i \in 1..Len(rule.body) |->
                   RuleEvents(rule.body[i], layer, <<place[1], place[2], i>>, chain)])
      [] OTHER -> RuleEvents(rule, key, place, chain)

SheetEvents(file, key, chain) ==
    LET rules == library[file].rules
        bad == {i \in 1..Len(rules) : rules[i].parse = "error"}
        end == IF bad = {} THEN Len(rules) ELSE Min(bad) - 1
        events == FlattenSeq([i \in 1..end |->
                      TopRuleEvents(rules[i], key, <<file, i, 0>>, chain)])
    IN CASE ~library[file].opens -> <<Event("error", key, <<file, 0, 0>>)>>
         [] library[file].opens /\ bad = {} -> events
         [] library[file].opens /\ bad # {} ->
               Append(events, Event("error", key, <<file, Min(bad), 0>>))

Only(events, what) == SelectSeq(events, LAMBDA e : e.what = what)

\* The entry points are read up to the first that has something wrong with it.
Meaning ==
    FoldLeft(LAMBDA events, f :
                 IF Only(events, "error") # <<>> THEN events
                 ELSE events \o SheetEvents(f, BaseKey, <<f>>),
             <<>>, Entrypoints)

PlacesOf(events) == [i \in 1..Len(events) |-> events[i].place]

RulesOf(events, key) ==
    PlacesOf(SelectSeq(events, LAMBDA e : e.what = "rule" /\ e.key = key))

\* The layers by first mention, the base layer last.
KeysOf(events) ==
    Append(FoldLeft(LAMBDA keys, e : IF Contains(keys, e.key) THEN keys ELSE Append(keys, e.key),
                    <<>>, Only(events, "layer")),
           BaseKey)

LayersOf(events) ==
    LET keys == KeysOf(events)
    IN [i \in 1..Len(keys) |->
            [name |-> NameOf(keys[i]), rules |-> RulesOf(events, keys[i])]]

\* The last definition of each variant.
VariantsOf(events) ==
    LET defs == Only(events, "variant")
    IN {<<defs[i].key.of, defs[i].place>> :
          i \in {j \in 1..Len(defs) : \A k \in (j + 1)..Len(defs) : defs[k].key # defs[j].key}}

\* However the imports nest, when Process goes on with the sheets every rule is in
\* the layer the text puts it in, in the order of the text; the layers are in
\* order of first mention, and their names are written as they were read; a variant
\* is what its last definition says; and the errors are those of every rule that was
\* read, in order: a sheet that fails costs its importer no other rule.  Nothing but a
\* rule among Traps keeps the program from going on.
MeansWhatTheTextSays ==
    /\ status \in {"stuck", "crashed"} => Rule.text.means.outcome = status
    /\ status \in {"failed", "done"} =>
        LET events == Meaning
        IN /\ [i \in 1..Len(order) |->
                  [name |-> LayerNameTokens(layers[order[i]].name), rules |-> layers[order[i]].rules]]
              = LayersOf(events)
           /\ classes = ToSet(PlacesOf(Only(events, "class")))
           /\ variants = VariantsOf(events)
           /\ errors = PlacesOf(Only(events, "error"))
           /\ status = "failed" <=> errors # <<>>
=============================================================================
