------------------------------- MODULE Rewrite -------------------------------
(***************************************************************************)
(* Replacing the @utility rules of one layer by rules for the class names  *)
(* in use (woosh.go, the loop of Process over the layers, with             *)
(* utilityRunLength and substituteUtilities).  Utilities that follow one   *)
(* another in the same file are a run, and a run is replaced as a whole:   *)
(* its rules come by groups of class names first, so that rules with       *)
(* variants come after all rules without.                                  *)
(***************************************************************************)
EXTENDS Integers, SequencesExt

VARIABLES
    rules,          \* the rules of the layer, each with the file it is in (url), and
                    \* if it is a utility the class names it matches; never changed
    found,          \* the groups of class names, never changed
    i,              \* the rules the loop is done with
    hasUtilities,
    newRules,       \* what the layer will consist of
    pos,            \* where substituteUtilities is in its three loops: the group, the
                    \* utility of the run, the name of the group
    written         \* what the layer consists of, once it is settled

vars == <<rules, found, i, hasUtilities, newRules, pos, written>>

\* A rule of the layer as it is, or one that a utility generates for a class name.
Original(k) == [of |-> k, group |-> 0, place |-> 0, url |-> rules[k].url]

Expanded(k, g, p, url) == [of |-> k, group |-> g, place |-> p, url |-> url]

Unsettled == <<[of |-> 0]>>

Outside == <<0, 0, 0>>

Init ==
    /\ i = 0 /\ hasUtilities = FALSE
    /\ newRules = <<>> /\ pos = Outside /\ written = Unsettled

\* A utility in the file of the first one of the run.
IsInRun(k) == rules[k].isUtility /\ rules[k].url = rules[i + 1].url

\* How many of the rules from i on are a run of utilities.
UtilityRunLength ==
    LET ends == {k \in (i + 1)..Len(rules) : ~IsInRun(k)}
    IN IF ends = {} THEN Len(rules) - i ELSE Min(ends) - i - 1

More == i < Len(rules) /\ pos = Outside /\ written = Unsettled

\* Any other rule stays.  Up to the first utility nothing is copied.
KeepRule ==
    /\ More /\ UtilityRunLength = 0
    /\ newRules' = IF hasUtilities THEN Append(newRules, Original(i + 1)) ELSE newRules
    /\ i' = i + 1
    /\ UNCHANGED <<rules, found, hasUtilities, pos, written>>

\* Mutant of RulesSoFar: what comes before the first utility is not copied.
RulesSinceUtility == newRules

\* What is copied at the first utility, and after it.
RulesSoFar ==
    IF hasUtilities THEN newRules ELSE [k \in 1..i |-> Original(k)]

\* substituteUtilities is called for a run.
BeginRun ==
    /\ More /\ UtilityRunLength > 0
    /\ newRules' = RulesSoFar
    /\ hasUtilities' = TRUE
    /\ pos' = <<1, 1, 1>>
    /\ UNCHANGED <<rules, found, i, written>>

\* Mutant of Following: utility by utility, with the groups inside.
FollowingByUtility(g, u, p, n) ==
    IF p < Len(found[g]) THEN <<g, u, p + 1>>
    ELSE IF g < Len(found) THEN <<g + 1, u, 1>>
    ELSE IF u < n THEN <<1, u + 1, 1>> ELSE <<g + 1, 1, 1>>

\* Where the loops over groups, utilities and names go on, for a run of n utilities.
Following(g, u, p, n) ==
    IF p < Len(found[g]) THEN <<g, u, p + 1>>
    ELSE IF u < n THEN <<g, u + 1, 1>> ELSE <<g + 1, 1, 1>>

\* A name of the group, and the rule for it if the utility matches.
SubstituteName ==
    /\ pos # Outside /\ pos[1] <= Len(found)
    /\ LET g == pos[1]
           k == i + pos[2]
           p == pos[3]
       IN newRules' = IF p <= Len(found[g]) /\ found[g][p] \in rules[k].matches
                      THEN Append(newRules, Expanded(k, g, p, rules[i + 1].url))
                      ELSE newRules
    /\ pos' = Following(pos[1], pos[2], pos[3], UtilityRunLength)
    /\ UNCHANGED <<rules, found, i, hasUtilities, written>>

EndRun ==
    /\ pos # Outside /\ pos[1] > Len(found)
    /\ i' = i + UtilityRunLength
    /\ pos' = Outside
    /\ UNCHANGED <<rules, found, hasUtilities, newRules, written>>

\* A layer without utilities keeps its rules.
Finish ==
    /\ i = Len(rules) /\ pos = Outside /\ written = Unsettled
    /\ written' = IF hasUtilities THEN newRules ELSE [k \in 1..Len(rules) |-> Original(k)]
    /\ UNCHANGED <<rules, found, i, hasUtilities, newRules, pos>>

Next == KeepRule \/ BeginRun \/ SubstituteName \/ EndRun \/ Finish
-----------------------------------------------------------------------------
Settled == written # Unsettled

TypeOK ==
    /\ i \in 0..Len(rules)
    /\ hasUtilities = (pos # Outside \/ \E k \in 1..i : rules[k].isUtility)
    /\ pos \in Nat \X Nat \X Nat
    /\ \A k \in 1..Len(newRules) : newRules[k].of \in 1..Len(rules)

\* What a layer has to have: every other rule, and one rule for each utility and
\* class name that match.
Expected ==
    {<<k, 0, 0>> : k \in {k \in 1..Len(rules) : ~rules[k].isUtility}}
        \cup UNION {UNION {{<<k, g, p>> : k \in {k \in 1..Len(rules) :
                                rules[k].isUtility /\ found[g][p] \in rules[k].matches}}
                            : p \in 1..Len(found[g])} : g \in 1..Len(found)}

\* Every rule that is no utility stays, every utility is replaced by one rule for each
\* class name it matches, counted to the file the utility is in, and no rule is
\* written twice.
EveryRuleOnce ==
    Settled =>
        LET keys == [k \in 1..Len(written) |->
                        <<written[k].of, written[k].group, written[k].place>>]
        IN /\ IsInjective(keys) /\ ToSet(keys) = Expected
           /\ \A k \in 1..Len(written) : written[k].url = rules[written[k].of].url

\* Utilities with nothing but utilities of the same file between them.
SameRun(k, l) ==
    \A m \in k..l : rules[m].isUtility /\ rules[m].url = rules[k].url

\* Rules keep their order, so that a rule that overrides another still does; only
\* within a run of utilities do those with more variants come last, and those of
\* an earlier utility or name first among equals.
OrderIsKept ==
    Settled =>
        \A a, b \in 1..Len(written) :
            LET x == written[a]
                y == written[b]
            IN a < b =>
                IF x.of <= y.of /\ ~SameRun(x.of, y.of) THEN TRUE
                ELSE /\ SameRun(Min({x.of, y.of}), Max({x.of, y.of}))
                     /\ x.group <= y.group
                     /\ x.group = y.group => x.of <= y.of
                     /\ x.group = y.group /\ x.of = y.of => x.place < y.place
=============================================================================
