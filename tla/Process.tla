------------------------------- MODULE Process -------------------------------
(***************************************************************************)
(* Process of woosh.go once the style sheets are imported (Imports): the   *)
(* source files are searched with one pattern (ClassScan, Expansion), the  *)
(* names found are grouped by their variants (ClassGroups), in each layer  *)
(* the @utility rules are replaced by rules for them (Rewrite), the        *)
(* variables in use are looked for (References), and all that is left is   *)
(* written (Output).  Every stage reads what the one before left.          *)
(***************************************************************************)
EXTENDS Expansion, AtRules

CONSTANTS
    Url,        \* style sheets
    Inputs      \* source files, variants and layers

VARIABLES
    tree, variants, layers,                         \* the input, never changed
    classes,                                        \* what the pattern matches in it
    expansions,                                     \* what each rule says for those,
    endless,                                        \* for which of them it never comes to it
    pc, at, open, data, foundMap, read,             \* ClassScan
    seen, groups, sorted,                           \* ClassGroups
    turn,                                           \* the layer the loop is at
    rules, index, hasUtilities, newRules, pos, written,  \* Rewrite, of that layer
    blocks, decls, styles, result, oldLen, refAt, refI, refPc, before,  \* References
    sheet, used, output, layer, rule, outPc         \* Output

inputs == <<tree, variants, layers, classes, expansions, endless>>
scan == <<pc, at, open, data, foundMap, read>>
grouping == <<seen, groups, sorted>>
rewriting == <<turn, rules, index, hasUtilities, newRules, pos, written>>
searching == <<blocks, decls, styles, result, oldLen, refAt, refI, refPc, before>>
writing == <<sheet, used, output, layer, rule, outPc>>
vars == <<inputs, scan, grouping, rewriting, searching, writing>>

Code == 0..MaxRune
Word == Seq(Code)

Tokens == [kind : STRING, text : Word]
Parts == [type : PartTypes, name : Tokens, value : Seq(Tokens)]
Kinds == {"utility", "theme", "other"}

\* A rule of a layer: the class name it defines if it is a utility, and its block.
Rules == [kind : Kinds, url : Url, name : Word, usesValue : BOOLEAN,
          prelude : Seq(Tokens), parts : Seq(Parts)]
Layers == [name : Word, rules : Seq(Rules)]

Utilities ==
    UNION {{layers[l].rules[k] : k \in {k \in 1..Len(layers[l].rules) :
                                           layers[l].rules[k].kind = "utility"}}
              : l \in 1..Len(layers)}

S == INSTANCE ClassScan WITH Words <- Word, hasClasses <- Utilities # {}

G == INSTANCE ClassGroups WITH
        Char <- Code, Sep <- Colon, names <- foundMap, variants <- DOMAIN variants

\* The names of each group.
GroupNames == [g \in 1..Len(groups) |-> groups[g].names]

R == INSTANCE Rewrite WITH i <- index, found <- GroupNames

V == INSTANCE References WITH at <- refAt, i <- refI, pc <- refPc

O == INSTANCE Output WITH pc <- outPc

\* The parts of a block that are declarations.
Declarations(parts) ==
    FlattenSeq([p \in 1..Len(parts) |->
                   IF parts[p].type = "declaration" THEN <<parts[p]>> ELSE <<>>])

\* themePropertyNames: the properties of the @theme rules, in the order of the layers.
ThemeParts(l) ==
    FlattenSeq([k \in 1..Len(l.rules) |->
                   IF l.rules[k].kind # "theme" THEN <<>>
                   ELSE Declarations(l.rules[k].parts)])

ThemeDeclarations == FlattenSeq([l \in 1..Len(layers) |-> ThemeParts(layers[l])])

ThemeKeys == [k \in 1..Len(ThemeDeclarations) |-> ThemeDeclarations[k].name.text]

\* collectRegexp: (?:v:|w:)*, variants with their separators,
SpellsVariants(prefix) ==
    LET from[i \in 0..Len(prefix)] ==
            \/ i = Len(prefix)
            \/ \E v \in DOMAIN variants :
                  /\ IsPrefix(Append(v, Colon), SubSeq(prefix, i + 1, Len(prefix)))
                  /\ from[i + Len(v) + 1]
    IN from[0]

\* and a name of some utility.
Matches(word) ==
    \E i \in 0..Len(word) :
        /\ SpellsVariants(SubSeq(word, 1, i))
        /\ \E u \in Utilities : MatchesPattern(u, SubSeq(word, i + 1, Len(word)), ThemeKeys)

\* Mutant of Suffix: the variants are not cut off.
WholeName(name) == name

\* What the expansion looks at.
Suffix(name) == SubSeq(name, Len(G!VariantPrefix(name)) + 1, Len(name))

\* The block of the new rule; nothing for a rule that is no utility.
Expanded(r, name) == IF r.kind = "utility" THEN Expand(r, Suffix(name), ThemeKeys) ELSE <<>>

Ends(r, name) == r.kind = "utility" => ExpandEnds(r, Suffix(name), ThemeKeys)

\* A word with commas is one word, and not several: nothing between them is a class name.
IsWhole(word) ==
    LET cuts == {0, Len(word) + 1} \cup {i \in 1..Len(word) : word[i] = Comma}
    IN \A i, j \in cuts :
          i < j /\ (i > 0 \/ j <= Len(word)) => ~Matches(SubSeq(word, i + 1, j - 1))

Init ==
    /\ \E in \in Inputs : tree = in.tree /\ variants = in.variants /\ layers = in.layers
    /\ \A f \in 1..Len(tree) : \A word \in ToSet(tree[f].words) : IsWhole(word)
    /\ classes = {word \in UNION {ToSet(tree[f].words) : f \in 1..Len(tree)} : Matches(word)}
    /\ expansions = [l \in 1..Len(layers) |-> [k \in 1..Len(layers[l].rules) |->
                        [name \in classes |-> Expanded(layers[l].rules[k], name)]]]
    /\ endless = [l \in 1..Len(layers) |-> [k \in 1..Len(layers[l].rules) |->
                     {name \in classes : ~Ends(layers[l].rules[k], name)}]]
    /\ turn = 0 /\ rules = <<>> /\ sheet = <<>>
    /\ S!Init /\ G!Init /\ R!Init /\ V!Init /\ O!Init

Scan == UNCHANGED <<inputs, grouping, rewriting, searching, writing>> /\ S!Next

Group == pc = "done" /\ UNCHANGED <<inputs, scan, rewriting, searching, writing>> /\ G!Next

BeginLayer ==
    /\ pc = "done" /\ G!Done /\ Len(sheet) = turn /\ turn < Len(layers)
    /\ turn' = turn + 1
    /\ rules' = LET list == layers[turn + 1].rules
                IN [k \in 1..Len(list) |->
                       [isUtility |-> list[k].kind = "utility", url |-> list[k].url,
                        matches |-> {name \in foundMap : expansions[turn + 1][k][name] # <<>>}]]
    /\ index' = 0 /\ hasUtilities' = FALSE /\ newRules' = <<>> /\ pos' = R!Outside
    /\ written' = R!Unsettled
    /\ UNCHANGED <<inputs, scan, grouping, searching, writing>>

\* The parts before the block of a rule: no at-rule that Imports takes for itself.
IsPrelude(prelude) ==
    /\ \A k \in ToSet(ValueStarts(KindsIn(prelude))) : prelude[k].kind # "{"
    /\ prelude # <<>> => prelude[1].kind \notin {"ws", "@layer"}

Braced(tokens) == <<Plain("{"), Plain("ws")>> \o tokens \o <<Plain("}")>>

\* The heads around a rule for a class name with variants.
Heads(prefix) ==
    LET vs == G!VariantsIn(prefix) IN FlattenSeq([m \in 1..Len(vs) |-> variants[vs[m]]])

NameOf(w) == groups[w.group].names[w.place]

\* A rule of the layer, or one for a class name.
NewRule(w) ==
    LET r == layers[turn].rules[w.of]
        className == <<Tok("delim", <<Dot>>), Tok("ident", NameOf(w)), Plain("ws")>>
    IN IF w.group = 0
       THEN [isTheme |-> r.kind = "theme", prelude |-> r.prelude, parts |-> r.parts,
             block |-> Braced(BlockTokens(r.parts))]
       ELSE [isTheme |-> FALSE, prelude |-> className, parts |-> <<>>,
             block |-> InjectVariants(Heads(groups[w.group].prefix),
                                      Braced(BlockTokens(expansions[turn][w.of][NameOf(w)])))]

\* substituteUtilities calls expand for a utility and a name, and it does not return: the
\* value in the brackets of the name ends with a backslash (scanner.go, consumeIdent).
Trapped ==
    /\ turn > Len(sheet) /\ pos # R!Outside
    /\ pos[1] <= Len(groups) /\ pos[3] <= Len(groups[pos[1]].names)
    /\ groups[pos[1]].names[pos[3]] \in endless[turn][index + pos[2]]

Substitute ==
    /\ turn > Len(sheet) /\ ~Trapped
    /\ UNCHANGED <<inputs, scan, grouping, searching, turn, used, output, layer, rule, outPc>>
    /\ R!Next
    /\ sheet' = IF R!Settled'
                THEN Append(sheet, [name |-> layers[turn].name,
                                    rules |-> [k \in DOMAIN written' |-> NewRule(written'[k])]])
                ELSE sheet

\* The blocks of the rules that are not @theme.
OtherBlocks(list) ==
    FlattenSeq([k \in 1..Len(list) |-> IF list[k].isTheme THEN <<>> ELSE <<list[k].block>>])

\* usedVariableNames is called when all layers are rewritten.
BeginSearch ==
    /\ Len(sheet) = Len(layers)
    /\ \E ds \in {ThemeDeclarations} :
          V!Begin(FlattenSeq([l \in 1..Len(sheet) |-> OtherBlocks(sheet[l].rules)]),
                  [k \in 1..Len(ds) |-> [name |-> ds[k].name.text, value |-> ds[k].value]])
    /\ UNCHANGED <<inputs, scan, grouping, rewriting, writing>>

Search == UNCHANGED <<inputs, scan, grouping, rewriting, writing>> /\ V!Next

BeginOutput ==
    /\ refPc = "done" /\ O!Begin(result)
    /\ UNCHANGED <<inputs, scan, grouping, rewriting, searching>>

Write == UNCHANGED <<inputs, scan, grouping, rewriting, searching>> /\ O!Next

Next ==
    \/ Scan \/ Group \/ BeginLayer \/ Substitute
    \/ BeginSearch \/ Search \/ BeginOutput \/ Write

Spec == Init /\ [][Next]_vars /\ WF_vars(Next)
-----------------------------------------------------------------------------
\* The characters of a word.  The separators of the pattern are white space, commas,
\* quotes and angle brackets; inside of brackets it reads over the last three, of which
\* only commas may be in a word here.
IsWordChar(c) == c > Space /\ c \notin Surrogates /\ c \notin {Quote, Apostrophe, Less, Greater}

\* newVariant rejects a name that has a colon in it, newUtilityClass the arguments of a
\* function that are wrong; a block is a value that is closed, and a prelude has none.
IsInput(in) ==
    /\ in.tree \in Seq(S!Entry) /\ S!IsForest(in.tree)
    /\ \A f \in 1..Len(in.tree) : \A word \in ToSet(in.tree[f].words) : \A i \in 1..Len(word) : IsWordChar(word[i])
    /\ \A v \in DOMAIN in.variants :
          v \in Word \ {<<>>} /\ Colon \notin ToSet(v) /\ in.variants[v] \in Seq(Seq(Tokens))
    /\ in.layers \in Seq(Layers) \ {<<>>}
    /\ \A l \in 1..Len(in.layers) : \A k \in 1..Len(in.layers[l].rules) :
          LET r == in.layers[l].rules[k]
              list == BlockTokens(r.parts)
          IN /\ IsClosed(Braced(list))
             /\ \A f \in ToSet(Functions(list)) : ~HasEmptyArgument(f)
             /\ r.kind = "utility" => r.name # <<>> /\ (r.usesValue => Collect(list).errors = 0)
             /\ IsPrelude(r.prelude)

ASSUME InputsAssumption == \A in \in Inputs : IsInput(in)

TypeOK == S!TypeOK /\ G!TypeOK /\ R!TypeOK /\ V!TypeOK

\* The files read are the visible ones, and every file opened is closed.
VisibleFilesAreRead == S!VisibleFilesAreRead

\* Of the class names in the files, only the first word of one can be overlooked.
OnlyFirstIsMissed == S!OnlyFirstIsMissed

\* Every class name in a file that is read is found.
EveryUseIsFound == S!EveryUseIsFound

\* The groups, and with them the output, do not depend on the order of a map.
OrderDoesNotMatter == G!OrderDoesNotMatter

\* Every utility is replaced by one rule for each class name it expands for, and
\* every other rule stays.
EveryRuleOnce == R!EveryRuleOnce

\* Rules stay in order but for the groups of class names in a run of utilities.
OrderIsKept == R!OrderIsKept

\* The ways to read a name as variants and the rest, but for a rest that begins with
\* a variant itself: the name of a utility, or what comes after it, has a colon.
Readings(name) ==
    {i \in 0..Len(name) :
        /\ SpellsVariants(SubSeq(name, 1, i))
        /\ G!VariantPrefixLength(SubSeq(name, i + 1, Len(name))) = 0}

\* By the grammar, what a utility says for a name that is read so.
MeantFor(utility, name, i) ==
    LET suffix == SubSeq(name, i + 1, Len(name))
        n == Len(utility.name)
    IN IF IsPrefix(utility.name, suffix) /\ (utility.usesValue \/ suffix = utility.name)
       THEN MeantBlock(utility.parts, SubSeq(suffix, n + 1, Len(suffix)), ThemeKeys)
       ELSE <<>>

\* Every class name found in the sources gets a rule from every utility that has
\* something to say for it: pattern, groups and expansion agree on where the variants
\* of a name end, and where the name of a utility does.
EveryUseIsGenerated ==
    R!Settled =>
        LET list == layers[turn].rules
        IN \A name \in foundMap : \A i \in Readings(name) :
              \A k \in {k \in 1..Len(list) : list[k].kind = "utility"} :
                 MeantFor(list[k], name, i) # <<>> =>
                    \E w \in ToSet(written) : w.of = k /\ w.group > 0 /\ NameOf(w) = name

\* A rule that is generated says what the utility says for the class name, inside of
\* what the variants spelled in the name wrap it in: a function is replaced as a
\* whole, what replaces it is not looked at again, and what comes behind is.
RulesSayWhatIsMeant ==
    R!Settled =>
        \A j \in {j \in 1..Len(written) : written[j].group > 0} :
            LET name == NameOf(written[j])
            IN \E i \in Readings(name) :
                  LET vs == G!VariantsIn(SubSeq(name, 1, i))
                  IN /\ SubSeq(name, 1, i) = FlattenSeq([m \in 1..Len(vs) |-> Append(vs[m], Colon)])
                     /\ sheet[turn].rules[j].block =
                           InjectVariants(FlattenSeq([m \in 1..Len(vs) |-> variants[vs[m]]]),
                               Braced(BlockTokens(MeantFor(layers[turn].rules[written[j].of], name, i))))

\* Where the pattern is narrower than the expansion.
IsGap(value, usage) ==
    LET isBracketed == value[1] = LBracket
        inner == IF isBracketed THEN SubSeq(value, 2, Len(value) - 1) ELSE value
        flags == IF isBracketed THEN usage.arbitrary ELSE usage.bare
        number == SubSeq(inner, 1, NumberEnd(inner))
        isArgument(c) == c \in Letters \cup Digits \cup {Minus, Underscore, Comma}
    IN \/ isBracketed /\ RBracket \in ToSet(inner)
       \/ /\ flags \cap Unparseable = {}
          /\ \* a percentage without brackets, an exponent without a sign,
             \/ ~isBracketed /\ Last(value) = Percent
             \/ \E i \in 2..(Len(number) - 1) : IsE(number[i]) /\ IsDigit(number[i + 1])
             \* what passes for a ratio or a vector and is none,
             \/ "ratio" \in flags /\ IsRatio(inner) /\ ~IsNumber(inner)
             \/ "vector" \in flags /\ IsVector(inner)
             \* the size of a background that is no single length or keyword,
             \/ /\ "bg-size" \in flags /\ IsBgSize(ReadAll(inner))
                /\ ~HasUnit(inner, LengthUnits) /\ ~IsIn(inner, FitKeywords \cup AutoKeyword)
             \* a keyword in capitals, and var() and url() with more than their patterns allow
             \/ IsIn(inner, WideKeywords) /\ inner \notin WideKeywords
             \/ /\ IsCall(inner, VarName)
                /\ ~(IsPrefix(VarName, inner) /\ \A i \in 5..(Len(inner) - 1) : isArgument(inner[i]))
             \/ IsCall(inner, UrlName) /\ RParen \in ToSet(Front(inner))

\* Whatever a function of a utility takes is found in the sources: a class name that
\* would get a declaration is not overlooked because the pattern is narrower.
AcceptedIsFound ==
    pc = "done" =>
        \A f \in ToSet(read) : \A n \in 2..Len(tree[f].words) : \A u \in Utilities :
            LET word == tree[f].words[n]
                value == SubSeq(word, Len(u.name) + 1, Len(word))
                takes(function) == Replacements(Merge(NoUsage, function), value, ThemeKeys) # <<>>
                usage == Collect(BlockTokens(u.parts))
            IN /\ u.usesValue /\ IsPrefix(u.name, word)
               /\ \E function \in ToSet(Functions(BlockTokens(u.parts))) : takes(function)
               /\ ~IsGap(value, usage)
               => word \in foundMap

\* A list of tokens that opens no block it does not close, and closes none but its own.
StaysInside(list) == IsClosed(Braced(list))

\* That is so of a prelude, of the heads of variants, and of what the rules say for the
\* class names.  The code does not see to it: a value in brackets may hold a brace of its
\* own, or a bracket that is not closed, and so may the selector of a variant; and a
\* semicolon may come in a prelude.
EverythingStaysInside ==
    /\ \A v \in DOMAIN variants : \A head \in ToSet(variants[v]) : StaysInside(head)
    /\ \A l \in 1..Len(layers) : \A k \in 1..Len(layers[l].rules) :
          LET prelude == layers[l].rules[k].prelude
          IN /\ StaysInside(prelude)
             /\ \A p \in ToSet(ValueStarts(KindsIn(prelude))) : prelude[p].kind # ";"
             /\ \A name \in foundMap : StaysInside(BlockTokens(expansions[l][k][name]))

\* Read again, the output is the layers with their rules, if everything in a rule stays
\* inside of it.
OutputIsReadAgain == outPc = "done" /\ EverythingStaysInside => O!OutputIsReadAgain

\* The Writer rejects nothing that is generated but what a ratio or a percentage
\* without brackets is replaced by.
OnlyRatiosFail ==
    outPc = "failed" =>
        \E u \in Utilities : Collect(BlockTokens(u.parts)).bare \cap {"ratio", "percentage"} # {}

\* The search and the output as ThemeVars sees them: a block or a value is searched in
\* one step, and what is kept is known when all is written.
Searching == refPc \in {"pass", "done"}

ThemeResult == IF ~Searching THEN {} ELSE IF refI > 0 THEN before ELSE result
ThemeLen == IF Searching THEN oldLen ELSE 0
ThemeAt == IF Searching THEN refAt ELSE 0
ThemePc == IF ~Searching THEN "rules" ELSE IF refPc = "pass" THEN "pass"
           ELSE IF outPc = "done" THEN "done" ELSE "rewrite"
ThemeWritten == IF outPc # "done" THEN {}
                ELSE {k \in 1..Len(ThemeDeclarations) : O!IsKept(ThemeDeclarations[k])}

T == INSTANCE ThemeVars WITH
        Names <- Word, result <- ThemeResult, oldLen <- ThemeLen, at <- ThemeAt,
        pc <- ThemePc, written <- ThemeWritten

\* From the call of usedVariableNames on, the search and the output do what ThemeVars
\* says: the loop over tokens finds in a block, and in the value of a declaration, the
\* properties that closed var() functions name first, fallbacks and nesting included.
ImplementsThemeVars == [][IF refPc = "idle" THEN T!Init' ELSE [T!Next]_(T!vars)]_vars

\* The theme declarations that are written are those that are needed.
WrittenIsSelfContained == T!WrittenIsSelfContained

\* Process gets to the end of the output, or to an error, unless it meets a class name
\* whose value in brackets the Scanner does not get to the end of.
Terminates == <>(pc = "failed" \/ outPc \in {"done", "failed"} \/ Trapped)
=============================================================================
