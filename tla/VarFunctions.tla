----------------------------- MODULE VarFunctions -----------------------------
(***************************************************************************)
(* References to custom properties by var() functions (woosh.go,           *)
(* varFunctionPropertyName and findReferences): what one function refers   *)
(* to, as the code finds it, and what a list of tokens does by the grammar.*)
(***************************************************************************)
EXTENDS Values

\* By the grammar, there is only white space between two tokens.
IsBlank(list, p, q) == \A r \in (p + 1)..(q - 1) : list[r].kind = "ws"

\* A closed var() at p has the token at q for its first argument, white space aside.
Refers(list, p, q) ==
    /\ list[p].kind = "var" /\ list[q].kind = "custom" /\ IsBlank(list, p, q)
    /\ \E k \in (q + 1)..Len(list) :
          /\ IsClosedBlock(KindsIn(list), p, k)
          /\ \E r \in (q + 1)..k : IsBlank(list, q, r) /\ (list[r].kind = "," \/ r = k)

\* The custom properties that a list of tokens refers to.
RefersTo(list) ==
    {list[q].text : q \in {q \in 1..Len(list) : \E p \in 1..(q - 1) : Refers(list, p, q)}}

\* The first token of a value from position p on that is no white space.
SkipWhitespace(value, p) ==
    CHOOSE q \in p..(Len(value) + 1) :
        /\ q <= Len(value) => value[q].kind # "ws"
        /\ \A r \in p..(q - 1) : value[r].kind = "ws"

\* Mutant of VarFunctionPropertyName: it goes on behind the whole function.
VarFunctionWhole(value) ==
    LET p == SkipWhitespace(value, 2)
        q == SkipWhitespace(value, p + 1)
        isCustom == p <= Len(value) /\ value[p].kind = "custom"
    IN [names |-> IF isCustom /\ value[q].kind \in {",", ")"} THEN {value[p].text} ELSE {},
        end |-> Len(value)]

\* Mutant of VarFunctionPropertyName: if it finds no name, it is where it was.
VarFunctionStart(value) ==
    LET p == SkipWhitespace(value, 2)
        isCustom == p <= Len(value) /\ value[p].kind = "custom"
    IN [names |-> {}, end |-> IF isCustom THEN p ELSE 0]

\* varFunctionPropertyName, of a closed var() function: the name it refers to, if
\* the first argument is one, and how many tokens the loop goes on.
VarFunctionPropertyName(value) ==
    LET p == SkipWhitespace(value, 2)
        q == SkipWhitespace(value, p + 1)
        isEnd == q <= Len(value) /\ (value[q].kind = "," \/ (value[q].kind = ")" /\ q = Len(value)))
    IN IF p > Len(value) \/ value[p].kind # "custom" THEN [names |-> {}, end |-> p - 1]
       ELSE IF isEnd THEN [names |-> {value[p].text}, end |-> q]
       ELSE [names |-> {}, end |-> q - 1]
=============================================================================
