------------------------------ MODULE ClassScan ------------------------------
(***************************************************************************)
(* Which class names are in use: the walk over the source files            *)
(* (cmd/woosh/main.go, sources) and the loop of Process that reads each    *)
(* file and searches it with one regular expression (woosh.go).  A file is *)
(* a sequence of words; between two words are separators of the pattern,   *)
(* white space, quotes, commas and angle brackets.  Values in brackets     *)
(* that contain separators themselves are left out.                        *)
(***************************************************************************)
EXTENDS Integers, SequencesExt

CONSTANT Words  \* what a file may contain

\* What WalkDir finds: a directory, a file, one that cannot be opened, one that
\* cannot be read to its end, or a root it has only an error for.
EntryKinds == {"dir", "file", "locked", "torn", "lost"}

\* An entry of the directory trees, in the order of the walk; hidden if its name
\* begins with a dot or an underscore, leading if the file begins with a separator.
Entry == [depth : Nat, kind : EntryKinds, hidden : BOOLEAN, leading : BOOLEAN, words : Seq(Words)]

\* Entries follow one another as WalkDir comes to them.
IsForest(forest) ==
    \A i \in 1..Len(forest) :
        forest[i].depth <= IF i = 1 THEN 0
                           ELSE forest[i - 1].depth + IF forest[i - 1].kind = "dir" THEN 1 ELSE 0

VARIABLES
    tree,       \* the directory trees, never changed
    hasClasses, \* whether there are utilities, never changed
    classes,    \* the words that the pattern matches, never changed
    pc,         \* "walk", "read", "scan", "done" or "failed"
    at,         \* the entry WalkDir is at
    open,       \* the files that are open
    data,       \* what is left of the file to search
    foundMap,   \* the class names found
    read        \* the files read, in order

vars == <<tree, hasClasses, classes, pc, at, open, data, foundMap, read>>

NoData == [leading |-> FALSE, words |-> <<>>]

\* Without any utility classes no file is looked at.
Init ==
    /\ pc = IF hasClasses THEN "walk" ELSE "done"
    /\ at = 1 /\ open = {} /\ data = NoData
    /\ foundMap = {} /\ read = <<>>

entry == tree[at]
Walking == pc = "walk" /\ at <= Len(tree)

\* Mutant of IsSkipped: hidden directories are searched.
IsSkippedFile == entry.depth > 0 /\ entry.hidden /\ entry.kind # "dir"

\* A hidden entry, unless it is named on the command line.
IsSkipped == entry.depth > 0 /\ entry.hidden

\* filepath.SkipDir: the entry after everything in the directory.
AfterDir ==
    CHOOSE j \in (at + 1)..(Len(tree) + 1) :
        /\ j <= Len(tree) => tree[j].depth <= entry.depth
        /\ \A k \in (at + 1)..(j - 1) : tree[k].depth > entry.depth

SkipDir ==
    /\ Walking /\ IsSkipped /\ entry.kind = "dir"
    /\ at' = AfterDir
    /\ UNCHANGED <<tree, hasClasses, classes, pc, open, data, foundMap, read>>

\* Directories, hidden files, and what cannot be looked at or opened.
PassOver ==
    /\ Walking
    /\ \/ IsSkipped /\ entry.kind # "dir"
       \/ ~IsSkipped /\ entry.kind \in {"dir", "lost", "locked"}
    /\ at' = at + 1
    /\ UNCHANGED <<tree, hasClasses, classes, pc, open, data, foundMap, read>>

OpenFile ==
    /\ Walking /\ ~IsSkipped /\ entry.kind \in {"file", "torn"}
    /\ pc' = "read"
    /\ open' = open \cup {at}
    /\ UNCHANGED <<tree, hasClasses, classes, at, data, foundMap, read>>

\* io.ReadAll and Close.  An error ends the program, the walk with it.
ReadFile ==
    /\ pc = "read"
    /\ open' = open \ {at}
    /\ IF entry.kind = "torn"
       THEN pc' = "failed" /\ UNCHANGED <<data, read>>
       ELSE /\ pc' = "scan"
            /\ data' = [leading |-> entry.leading, words |-> entry.words]
            /\ read' = Append(read, at)
    /\ UNCHANGED <<tree, hasClasses, classes, at, foundMap>>

\* Mutant of Candidates: the pattern matches more than the class names.
AnyWord == 1..Len(data.words)

\* The words that the pattern captures if it is tried on its own.
Candidates == {i \in 1..Len(data.words) : data.words[i] \in classes}

\* Those with a separator before them.
AfterSeparator == {i \in Candidates : i > 1 \/ data.leading}

\* The pattern prefers to skip something: the start of the data counts as the start
\* of a word only when no later word matches.
FirstMatch ==
    IF AfterSeparator # {} THEN Min(AfterSeparator) ELSE Min(Candidates)

\* Mutant of Rest: the search goes on behind the separator.
RestOfWords == [leading |-> FALSE, words |-> SubSeq(data.words, FirstMatch + 1, Len(data.words))]

\* The search goes on at the separator behind the match.
Rest == [leading |-> TRUE, words |-> SubSeq(data.words, FirstMatch + 1, Len(data.words))]

MatchClass ==
    /\ pc = "scan" /\ Candidates # {}
    /\ foundMap' = foundMap \cup {data.words[FirstMatch]}
    /\ data' = Rest
    /\ UNCHANGED <<tree, hasClasses, classes, pc, at, open, read>>

EndFile ==
    /\ pc = "scan" /\ Candidates = {}
    /\ pc' = "walk" /\ at' = at + 1 /\ data' = NoData
    /\ UNCHANGED <<tree, hasClasses, classes, open, foundMap, read>>

EndWalk ==
    /\ pc = "walk" /\ at > Len(tree)
    /\ pc' = "done"
    /\ UNCHANGED <<tree, hasClasses, classes, at, open, data, foundMap, read>>

Next ==
    SkipDir \/ PassOver \/ OpenFile \/ ReadFile \/ MatchClass \/ EndFile \/ EndWalk
-----------------------------------------------------------------------------
TypeOK ==
    /\ pc \in {"walk", "read", "scan", "done", "failed"}
    /\ at \in 1..(Len(tree) + 1)
    /\ open \subseteq 1..Len(tree)
    /\ data.leading \in BOOLEAN /\ data.words \in Seq(Words)
    /\ foundMap \subseteq classes
    /\ read \in Seq(1..Len(tree))

\* The directories an entry is in.
Parents(i) ==
    {j \in 1..(i - 1) : \A k \in (j + 1)..i : tree[k].depth > tree[j].depth}

IsVisible(i) == \A j \in Parents(i) \cup {i} : tree[j].depth = 0 \/ ~tree[j].hidden

\* The files read are those that are not hidden and in no hidden directory, each
\* once and in order: leaving out a directory leaves out what it contains and nothing
\* else.  One file is open at a time, and none when the program ends, be it by an error.
VisibleFilesAreRead ==
    /\ pc = "done" /\ hasClasses =>
          /\ ToSet(read) = {i \in 1..Len(tree) : tree[i].kind = "file" /\ IsVisible(i)}
          /\ \A k, l \in 1..Len(read) : k < l => read[k] < read[l]
    /\ open = IF pc = "read" THEN {at} ELSE {}

\* Of the files read, no class name is overlooked but the first word of one that
\* does not begin with a separator, if there is another class name in it.
OnlyFirstIsMissed ==
    pc = "done" =>
        \A f \in ToSet(read) : \A i \in 1..Len(tree[f].words) :
            tree[f].words[i] \in classes \ foundMap =>
                /\ i = 1 /\ ~tree[f].leading
                /\ \E j \in 2..Len(tree[f].words) : tree[f].words[j] \in classes

\* Utility classes are generated if they are used: every class name in a file that
\* is read is found.
EveryUseIsFound ==
    pc = "done" =>
        \A f \in ToSet(read) : ToSet(tree[f].words) \cap classes \subseteq foundMap
=============================================================================
