----------------------------- MODULE MCErrorLists -----------------------------
(***************************************************************************)
(* Instances of ErrorLists: sheets of up to two rules, @utility rules with *)
(* up to two --value() functions of up to two unknown arguments each, and  *)
(* last, perhaps, an error of the parser or of a @custom-variant rule.     *)
(***************************************************************************)
EXTENDS ErrorLists

Utility == [kind : {"utility"}, block : SeqOf(0 .. 2, 2)]

\* The scanner's error with a place, wrapped by the parser (parser.go).
Parsing(place) == Wrapped(ErrorWithLocation(place, Wrapped(Other)))

Parser ==
    [kind : {"parser"},
     err : {Other, Parsing(<<2, 0, 1>>), Error(<<Parsing(<<2, 0, 1>>), Wrapped(Other), Parsing(<<2, 0, 2>>)>>)}]

Variant == [kind : {"variant"}, err : {Nil, Parsing(<<2, 0, 1>>)}]

MCSheets ==
    {<<u>> : u \in Utility} \union {<<u, r>> : u \in Utility, r \in Utility \union Parser \union Variant}

=============================================================================
