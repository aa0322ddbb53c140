------------------------------ MODULE MCProcess ------------------------------
(***************************************************************************)
(* Small inputs for Process, a menu of them for each stage: directory      *)
(* trees, texts, class names with variants, rules of a layer, the ends of  *)
(* class names, functions in a declaration, references, theme declarations *)
(* and layers.                                                             *)
(***************************************************************************)
EXTENDS Process

CONSTANTS MaxEntries, MaxWords, MaxRules, MaxNames, MaxFormat, MaxValue, MaxTokens, MaxInside

a == <<97>>
b == <<98>>
aa == a \o a
D1 == 49
Px == <<112, 120>>
Auto == <<97, 117, 116, 111>>
Unset == <<117, 110, 115, 101, 116>>
Var1 == <<Minus, Minus, 97>>        \* --a
Var2 == <<Minus, Minus, 98>>        \* --b
Var3 == <<Minus, Minus, D1>>       \* --1

MCNames == {Var1, Var2, Var3}

MCWideKeywords == {Unset}
MCLengthUnits == {Px}
MCAngleUnits == {<<114, 97, 100>>}
MCAutoKeyword == {Auto}
MCNoWords == {}

Bracketed(s) == <<LBracket>> \o s \o <<RBracket>>
CallOf(name, s) == name \o <<LParen>> \o s \o <<RParen>>

Decl(value) == [type |-> "declaration", name |-> Plain("ident"), value |-> value]
Property(name, value) == [type |-> "declaration", name |-> Tok("custom", name), value |-> value]
X == Plain("x")
Value(args) == <<Plain("--value")>> \o args \o <<Plain(")")>>
Reference(name) == <<Plain("var"), Tok("custom", name), Plain(")")>>

Rule(kind, url, name, usesValue, parts) ==
    [kind |-> kind, url |-> url, name |-> name, usesValue |-> usesValue,
     prelude |-> <<Plain("selector")>>, parts |-> parts]
Utility(name) == Rule("utility", "x.css", name, FALSE, <<Decl(<<X>>)>>)
Functional(name, parts) == Rule("utility", "x.css", name, TRUE, parts)
Other(parts) == Rule("other", "x.css", <<>>, FALSE, parts)
Theme(parts) == Rule("theme", "x.css", <<>>, FALSE, parts)

Layer(name, list) == [name |-> name, rules |-> list]
Base(list) == <<Layer(<<>>, list)>>

File(leading, words) ==
    [depth |-> 0, kind |-> "file", hidden |-> FALSE, leading |-> leading, words |-> words]

NoVariants == [v \in {} |-> <<>>]
Hover == <<Plain("&"), Plain(":"), Plain("hover"), Plain("ws")>>
Media == <<Plain("@media"), Plain("ws"), Plain("("), X, Plain(")"), Plain("ws")>>

-----------------------------------------------------------------------------
Node ==
    [depth : 0..(MaxEntries - 1), kind : S!EntryKinds, hidden : BOOLEAN, leading : {TRUE},
     words : {<<a>>}]

\* Only a root may be one WalkDir has an error for.
TreeMenu ==
    [tree : {t \in BoundedSeq(Node, MaxEntries) :
                S!IsForest(t) /\ \A i \in 1..Len(t) : t[i].kind = "lost" => t[i].depth = 0},
     variants : {NoVariants}, layers : {Base(<<Utility(a)>>)}]

TextMenu ==
    [tree : {<<File(l, ws)>> : l \in BOOLEAN, ws \in BoundedSeq({a, b, aa}, MaxWords)},
     variants : {NoVariants}, layers : {Base(<<Utility(a), Utility(b)>>)}]

Initials == {<<97>>, <<98>>}

Segmented ==
    LET colon == <<Colon>>
    IN Initials \cup {p \o colon \o q : p, q \in Initials}
        \cup {p \o colon \o q \o colon \o q : p, q \in Initials}
        \cup {p \o p \o colon \o q : p, q \in Initials}

\* With a colon in the name of a utility, too.
NameMenu ==
    [tree : {<<File(TRUE, SetToSeq(names))>> : names \in kSubset(MaxNames, Segmented)},
     variants : {NoVariants, [v \in {a} |-> <<Hover>>], [v \in {a, b} |-> <<Media, Hover>>],
                 [v \in {a, aa} |-> IF v = a THEN <<Hover>> ELSE <<Media>>]},
     layers : {Base(<<Utility(a), Utility(b)>>),
               Base(<<Utility(b), Utility(a \o <<Colon>> \o a)>>)}]

\* A functional utility that says something only for a name that another one finds.
RuleMenu ==
    LET literal == Value(<<Tok("string", a)>>)
        kinds == {Other(<<Decl(<<X>>)>>), Utility(a), Utility(aa),
                  Functional(a, <<Decl(<<X>>), Decl(literal)>>), Functional(aa, <<Decl(literal)>>)}
    IN [tree : {<<File(TRUE, ws)>> : ws \in {<<>>, <<a, aa, a \o <<Colon>> \o a>>}},
        variants : {[v \in {a} |-> <<Hover>>]},
        layers : {Base(rs) : rs \in BoundedSeq({[r EXCEPT !.url = u] : r \in kinds, u \in Url}, MaxRules)}]

\* Ends of class names, bare ones and bracketed ones, and what a utility takes.
Bare == BoundedSeq({D1, Dot, Minus, 101, Percent, Slash}, MaxFormat)

Arbitrary ==
    {<<>>, <<D1>>, <<D1>> \o Px, <<D1, Percent>>, <<D1, Underscore, D1, Underscore, D1>>,
     <<D1, Slash, D1>>, Px, Auto, Unset, <<D1, 101, Plus, D1>> \o Px, <<Minus, Dot, D1>> \o Px,
     <<D1>> \o Px \o <<Plus, D1>> \o Px, <<D1>> \o <<114, 97, 100>>, <<65>>, <<RBracket>>,
     <<85, 78, 83, 69, 84>>, CallOf(VarName, Var1), CallOf(<<86, 97, 114>>, Var1),
     CallOf(VarName, <<Dot>>), CallOf(UrlName, a), CallOf(UrlName, <<RParen>>),
     \* more than the patterns of var() and of sizes say, and what the Scanner has errors
     \* for or does not get to the end of
     CallOf(VarName, Var1 \o <<Slash>> \o b), CallOf(VarName, Var1 \o <<Comma>> \o CallOf(VarName, Var2)),
     <<D1>> \o Px \o <<Dot, D1>> \o Px, <<97, 117, 116, Backslash, 111>>,
     Auto \o <<Slash, Star, Star, Slash>> \o Auto, Auto \o <<Slash, Star>>, CallOf(UrlName, <<Slash>>),
     Auto \o <<Underscore>> \o Auto, <<Backslash>>, <<D1>> \o Px \o <<Backslash>>,
     Auto \o <<Underscore, Backslash>>}

Taken ==
    {<<Plain("[")>> \o <<Plain(k)>> \o <<Plain("]")>> : k \in ArbitraryKeywords}
        \cup {<<Plain(k)>> : k \in BareKeywords}

FormatMenu ==
    LET ends == Bare \cup {Bracketed(s) : s \in Arbitrary}
    IN [tree : {<<File(TRUE, <<b, a \o end>>)>> : end \in ends},
        variants : {NoVariants},
        layers : {Base(<<Functional(a, <<Decl(Value(t))>>)>>) : t \in Taken}]

\* What may come in brackets, and need not stay there: it opens and closes blocks, ends a
\* declaration, begins a comment or an escape, or refers to a variable.
Inside ==
    {FlattenSeq(s) : s \in BoundedSeq(
        {<<LBrace>>, <<RBrace>>, <<LParen>>, <<Semicolon>>, <<Comma>>, <<Backslash>>, <<Underscore>>,
         VarName \o <<LParen>>, CallOf(VarName, Var1), <<D1>> \o Px, <<Slash, Star>>, <<Star, Slash>>}, MaxInside)}

BracketMenu ==
    LET wild == Decl(Value(<<Plain("["), Plain("*"), Plain("]")>>))
        size == Decl(Value(<<Plain("["), Plain("bg-size"), Plain("]")>>))
        colon == <<Colon>>
    IN [tree : {<<File(TRUE, <<b, a \o Bracketed(s), b \o colon \o a \o Bracketed(s)>>)>> : s \in Inside},
        variants : {[v \in {b} |-> <<Hover>>]},
        layers : {<<Layer(b, <<Functional(a, parts), Other(<<Decl(<<X>>)>>)>>),
                    Layer(<<>>, <<Utility(b), Theme(<<Property(Var1, <<X>>)>>)>>)>> :
                     parts \in {<<wild>>, <<size, Decl(<<X>>)>>}}]

\* Values of a declaration in a functional utility, made of functions and other things.
Chunks ==
    {Value(<<Tok("string", b)>>), Value(<<Plain("number"), Plain(","), Tok("string", b)>>),
     Value(<<Tok("custom", <<Minus, Minus>>), Plain("*"), Plain(","), Plain("ws")>>
               \o <<Plain("["), Plain("color"), Plain("]")>>),
     <<X>>, <<Plain("function")>> \o Value(<<Plain("integer")>>) \o <<Plain(")")>>}

ValueMenu ==
    [tree : {<<File(TRUE, <<a \o end>>)>> :
                end \in {b, <<D1>>, Bracketed(CallOf(VarName, Var2)), Bracketed(b)}},
     variants : {NoVariants},
     layers : {Base(<<Functional(a, <<Decl(FlattenSeq(chunks)), Decl(<<X>>)>>),
                      Theme(<<Property(Var2, <<X>>), Property(Var3, Reference(Var2))>>)>>) :
                 chunks \in BoundedSeq(Chunks, MaxValue)}]

\* Blocks of tokens that matter to the search, also where another var() is open.
ReferenceMenu ==
    LET kinds == {<<Plain("var")>>, <<Tok("custom", Var1)>>, <<Plain(",")>>, <<Plain(")")>>,
                  <<Plain("ws")>>, <<Plain("function")>>, Reference(Var2)}
        heads == {<<>>, <<Plain("var"), Tok("custom", Var3)>>}
        lists == {t \in {h \o FlattenSeq(s) : h \in heads, s \in BoundedSeq(kinds, MaxTokens)} :
                     IsClosed(Braced(BlockTokens(<<Decl(t)>>)))}
    IN [tree : {<<>>}, variants : {NoVariants},
        layers : {Base(<<Other(<<Decl(t)>>), Theme(<<Property(Var1, <<X>>)>>)>>) : t \in lists}]

\* Chains and cycles of theme declarations, declared in any order and layer.
ThemeMenu ==
    LET values == {<<X>>} \cup {Reference(n) : n \in MCNames}
        all == {Property(n, v) : n \in MCNames, v \in values}
    IN [tree : {<<>>}, variants : {NoVariants},
        layers : {<<Layer(a, <<Theme(<<d>>)>>),
                    Layer(<<>>, <<Other(<<Decl(Reference(Var1))>>), Theme(<<e, f>>)>>)>> :
                    d, e, f \in all}]

LayerMenu ==
    LET parts == <<Decl(Value(<<Tok("custom", <<Minus, Minus>>), Plain("*")>>))>>
        kinds == {Other(<<Decl(<<X>>)>>), Utility(b), Functional(a, parts),
                  Theme(<<Property(Var1, <<X>>), Property(Var2, Reference(Var1))>>)}
        lists == BoundedSeq(kinds, 1)
    IN [tree : {<<File(TRUE, <<b, a \o b, b \o <<Colon>> \o a \o a>>)>>},
        variants : {[v \in {b} |-> <<Media, Hover>>]},
        layers : {<<Layer(a \o <<Dot>> \o b, p), Layer(<<>>, q), Layer(<<>>, r)>> :
                    p, q \in lists, r \in BoundedSeq(kinds, 2)}]

MCInputs ==
    TreeMenu \cup TextMenu \cup NameMenu \cup RuleMenu \cup FormatMenu \cup BracketMenu \cup ValueMenu
        \cup ReferenceMenu \cup ThemeMenu \cup LayerMenu
=============================================================================
