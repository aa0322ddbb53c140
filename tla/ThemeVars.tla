------------------------------ MODULE ThemeVars ------------------------------
(***************************************************************************)
(* Which custom properties of @theme rules reach the output (woosh.go):    *)
(* usedVariableNames collects the names that the other rules refer to,     *)
(* then goes over the theme declarations until a pass adds no name;        *)
(* rewriteThemeRule keeps the declarations of the names collected.  One    *)
(* step of a pass is one declaration.  References and Output are how the   *)
(* code does it, token by token and rule by rule.                          *)
(***************************************************************************)
EXTENDS Integers, Sequences, FiniteSets

CONSTANT Names      \* the names of custom properties, as many as there are

\* What a block or a value can refer to.
NameSets == {S \in SUBSET Names : IsFiniteSet(S)}

\* A declaration in a @theme rule: its name, and the names its value refers to.
\* The declarations of all the @theme rules come in the order of the layers.
Declarations == [name : Names, refs : NameSets]

\* What the rules that are not @theme refer to, and the declarations of the others.
Stylesheets == [used : NameSets, decls : Seq(Declarations)]

VARIABLES
    styles,     \* the input, never changed
    result,     \* the names collected
    oldLen,     \* their number when the pass began
    at,         \* the declaration the pass is at
    pc,         \* "rules", "pass", "rewrite" or "done"
    written     \* the declarations that are written, by position

vars == <<styles, result, oldLen, at, pc, written>>

decls == styles.decls

Init ==
    /\ styles \in Stylesheets
    /\ result = {}
    /\ oldLen = 0
    /\ at = 0
    /\ pc = "rules"
    /\ written = {}

\* A pass over the declarations begins.
BeginPass(names) ==
    /\ pc' = "pass"
    /\ result' = names
    /\ oldLen' = Cardinality(names)
    /\ at' = 1

\* The references in the rules that are not @theme.
CollectUsed ==
    /\ pc = "rules"
    /\ BeginPass(styles.used)
    /\ UNCHANGED <<styles, written>>

\* What a declaration adds: its references, when its name has been collected.
Added(d) == IF d.name \in result THEN d.refs ELSE {}

VisitDeclaration ==
    /\ pc = "pass" /\ at <= Len(decls)
    /\ result' = result \cup Added(decls[at])
    /\ at' = at + 1
    /\ UNCHANGED <<styles, oldLen, pc, written>>

\* A pass that added nothing is the last.
NothingAdded == Cardinality(result) = oldLen

EndPass ==
    /\ pc = "pass" /\ at > Len(decls)
    /\ IF NothingAdded
       THEN pc' = "rewrite" /\ UNCHANGED <<result, oldLen, at>>
       ELSE BeginPass(result)
    /\ UNCHANGED <<styles, written>>

\* rewriteThemeRule, for every @theme rule.
Kept(i) == decls[i].name \in result

RewriteThemes ==
    /\ pc = "rewrite"
    /\ written' = {i \in 1..Len(decls) : Kept(i)}
    /\ pc' = "done"
    /\ UNCHANGED <<styles, result, oldLen, at>>

Next == CollectUsed \/ VisitDeclaration \/ EndPass \/ RewriteThemes

Spec == Init /\ [][Next]_vars /\ WF_vars(Next)

-----------------------------------------------------------------------------
\* The reference: a set of names is closed when what its declarations refer to is
\* in it, and the names needed are those in every closed set with the used ones.
Closed(S) == \A i \in 1..Len(decls) : decls[i].name \in S => decls[i].refs \subseteq S

Covers(S) == styles.used \subseteq S /\ Closed(S)

\* All names that are declared or referred to.
Mentioned == styles.used \cup UNION {{decls[i].name} \cup decls[i].refs : i \in 1..Len(decls)}

Needed == {n \in Mentioned : \A S \in SUBSET Mentioned : Covers(S) => n \in S}

TypeOK ==
    /\ styles \in Stylesheets
    /\ result \in NameSets
    /\ oldLen \in Nat
    /\ at \in 0..Len(decls) + 1
    /\ pc \in {"rules", "pass", "rewrite", "done"}
    /\ written \subseteq 1..Len(decls)

\* No declaration is kept that the styles do not need: a name enters the set only
\* through a chain of references from a rule.
OnlyNeeded == result \subseteq Needed

\* No declaration is lost, wherever it stands: a value that refers to a variable
\* declared earlier, later or twice still finds it in the output, although the
\* passes stop on a count of names and not on a check that the set is closed.
AllNeeded == pc \in {"rewrite", "done"} => Needed \subseteq result

\* What is written is what is needed, and every reference in it is declared there
\* if it is declared at all.
WrittenIsSelfContained ==
    pc = "done" =>
        /\ written = {i \in 1..Len(decls) : decls[i].name \in Needed}
        /\ \A i \in written, j \in 1..Len(decls) :
              decls[j].name \in decls[i].refs => j \in written
=============================================================================
