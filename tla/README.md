# A verification of woosh

woosh is a program that makes one style sheet out of many: it reads the style
sheets that entry points import, sorts their rules by cascade layer, looks
through source files for class names, replaces `@utility` rules by rules for
the names found, keeps the theme variables that something refers to, and writes
the result. This directory holds TLA+ models of that program, configurations
that check them with TLC on small instances, and proofs of some of their
properties that TLAPS checks for instances of any size.

- [The system](#the-system): its parts, what they keep and what makes them correct
- [The models](#the-models): how state and actions correspond to the code
- [The runs](#the-runs): bounds, fairness, and what each shows
- [The proofs](#the-proofs)
- [What the code does otherwise than it says](#what-the-code-does-otherwise-than-it-says)
- [What is not modelled](#what-is-not-modelled)
- [The plan](#the-plan)

## The system

The program is sequential: one goroutine, no timers, nothing persisted but the
output. What makes it hard is not concurrency but that its parts read one
another's data at different times: lookahead that is put back, a recursion that
changes a list its callers hold, a map whose order changes from run to run, a
text that is written to be read again, errors that travel beside the values.

Data flow from top to bottom:

| Part | Code | Keeps | Does |
|---|---|---|---|
| rune reader | `internal/css/scanner.go` `bufferedReader` | a window of four runes, how many were read, a location | `ReadRune`, `UnreadRune`, `peek`, `location`; filters CR, FF and NUL |
| tokenizer | `scanner.go` `Scanner` | the rune reader | `Next`: one token, perhaps with an error |
| token stream | `parser.go` `tokenStream`, `bufferedScanner`, `tokenSlice` | buffered tokens, position, a stack of marks | `Next`, `Mark`, `RestoreMark`, `DiscardMark` |
| rule parser | `parser.go` `NextRule`, `atRule`, `qualifiedRule`, `value` | the rule so far, open blocks, errors | one rule of a sheet |
| block parser | `parser.go` `SplitBlockContents`, `blockPart`, `declaration` | the same, and marks to go back to | a block into declarations and rules |
| values | `value.go`, `token.go` `blockKind` | nothing | the extent of a component value in a slice |
| import | `woosh.go` `importCSS`, `process` | layers and their order, utility classes, variants, errors | a recursion over sheets |
| at-rules | `woosh.go` `parseImport`, `parseLayerName`; `utilities.go` `newUtilityClass`; `variants.go` | nothing | from the tokens of a rule to what it says, or an error |
| value functions | `value_function.go` | what the arguments of a `--value()` allow | collects them, decides on the end of a class name, replaces the function |
| class detection | `cmd/woosh/main.go` `sources`, `woosh.go` `Process`, `utilities.go` `writeRegexp` | names found | walks directories, reads files, searches them with one pattern |
| class groups | `woosh.go` `groupClassNames` | groups by variants | sorts the names of a map |
| utilities | `woosh.go` `substituteUtilities`, `utilities.go` `expand` | the new rules of a layer | a rule for each name and utility |
| theme variables | `woosh.go` `usedVariableNames`, `findReferences` | a set of names | a fixpoint over theme declarations, each searched for `var()` |
| output | `woosh.go` `Process`, `rewriteThemeRule`, `writeTokenSeq` | the layer and the rule it is at | the layers as rules, the theme without what no one needs |
| writer | `internal/css/writer.go` | the token before, indentation | a token as text |
| errors | `internal/multierror`, `location_error.go`, `reformatWithLocations` | lists and wrappers of errors | gives them places, then files, and takes lists apart |
| the rest | `urls.go`, `command.Run`, accessors of tokens and rules | | opening URLs, paths, the output file |

How they interact:

- The Scanner asks the rune reader for up to four runes ahead and unreads one,
  ignoring the error of doing so; it depends on the window never being
  too short.
- The parser reads a `tokenStream`. For a file this is a `bufferedScanner`,
  for a block a `tokenSlice`. The parser sets marks within marks and goes back.
  An error comes with the token when it is scanned, and only then.
- `importCSS` calls the parser rule by rule and itself for each `@import`. It
  shares the list of layers with all activations of itself further up.
- `Process` calls `importCSS` for the entry points, pulls source files out of the
  iterator of `cmd/woosh` (so the walk over directories is suspended while a
  file is searched), groups the names, replaces utilities layer by layer,
  collects variables, and writes.
- What a `@utility` rule takes is decided twice: by the pattern that looks for class
  names in source files, and by the predicates that expand a name found. The two
  must agree, and so must the three places that cut variants off a name.
- The writer's output is read by a browser. The code's own measure of it is to
  scan it again (`FuzzWriter`).

What has to be true of each part, and is hard to see in a test:

- the rune reader and the token stream behave like their unbuffered selves,
  with their arrays and buffers bounded;
- the two parsers read a text as the grammar does even when they start over, find
  block ends where `ValueLength` does, and end;
- each rule ends up in the layer, and at the place, that the text says, for any
  nesting of imports and layers, and each error is reported once, in order;
- a class name in use gets its rules, once, whatever the order of the map, and
  they say what the utility says for this name;
- the theme declarations written are those that are needed, for chains and
  cycles of references;
- what is written is read as what it was, token by token and layer by layer;
- every error gets out, with its file.

`PROJECT.json` lists the hazards at their lines, each with the property that
would catch it.

## The models

An action stands for one pass of a loop, or for a function without one; guards
are the code's conditions in their order. The positions of tokens stand for
the tokens themselves wherever what counts is which ones end up where.

### Token stream: `TokenStream`, `TokenSlice`, `BufferedScanner`

`TokenStream` is what the interface promises: a fixed input, a position, a stack
of marked positions. `TokenSlice` holds the operations of the slice type.
`BufferedScanner` has the source (`input`), how much of it the Scanner has
consumed (`scanned`), and the slice `buffer`. `Next` of the code is three
actions: `ReplayToken` (from the buffer, without the error), `ScanToken`, and
`ScanEnd`; each ends with `DiscardUnreachable`, as the code's `discard` does.
`Mark`, `RestoreMark`, `DiscardMark` are the others. The client is any order of
calls that pops no more marks than it pushed.

The refinement maps the position to `Base + buffer.pos` and every mark to
`Base + mark`, where `Base` is how many tokens have left the buffer.

### Rune reader: `RuneReader`

`window`, `rpos`, `base` are `buf[:wpos]`, `rpos` and the location; `fresh` are
the runes that the loop of `peek` holds in its local arrays. One step is one pass of that
loop (`FillRune`, `FillAfterCR`, `FillLastCR`, `FillEnd`), and `Return` is what
happens behind it. `ReadRune`, `Peek` and `UnreadRune` are called in any order
that the Scanner may call them: an `UnreadRune` follows a `ReadRune`, with at
most one `peek` of one rune between. Runes are CR, LF, FF, NUL and two others of
one byte and three. `Filtered` is the reference, the code points of CSS Syntax 3.3
each with the bytes it stands for; `Past` is what one of them adds to a location.

### Tokenizer and writer: `Characters`, `Scanner`, `Writer`, `RoundTrip`

These models work with code points. `Characters` has the predicates at the end of
`scanner.go`, the parts of the Scanner that look ahead in a text (where a number or a
comment ends, what an escape stands for), and `Filtered`, what `bufferedReader.peek` makes
of a text: line ends are newlines, but the character behind a CR is taken as it is, as
`RuneReader` shows. `Scanner` has an action for each kind of token that begins and for
each turn of the loops of `consumeIdent`, `string` and `url`; runs of digits,
white space and comments are one step. `Writer` is `WriteToken`: what each kind
is spelled as, with `WriteIdent`, `AppendEscape` and the table
`RequiresCommentSeparator`, and the state of its indentation.

`RoundTrip` composes them as `FuzzWriter` does: a source is scanned; if it has
no errors its tokens are written; what was written is scanned again. Both texts go
through `Filtered`, as each Scanner has a reader.

### Rule parser: `Values`, `RuleParser`

`Values` has `blockKind`, `ValueLength` with its stack and `SplitValues` (`ValueStarts`), and
next to them the grammar of component values as a set of intervals, which knows
nothing of stacks. `RuleParser` holds the functions that are active as `fn` and
`ends`, the kinds that end the open blocks. One step is one pass of the loop of
the innermost function, with its mark, its look at the next token, and what it
restores or discards. `scanned` tells whether a token is seen for the first
time, which is when its error comes; `errs` are the errors since `NextRule` was
called, `returned` is what its calls returned.

### Block parser: `BlockParser`

Like `RuleParser`, over a slice; here the marks that outlive a step are kept
(`marks`), because `declaration` may turn out to have been a rule and
`blockPart` starts over (`EndDeclaration`). Errors are left out as
`SplitBlockContents` drops them.

### At-rules and import: `AtRules`, `Imports`

`AtRules` takes the tokens of a rule apart as the code does, with its early
returns: `ParseImport`, `ParseLayerName` and its inverse `LayerNameTokens`,
`UtilityOutcome`, `VariantOutcome`. An outcome is `ok`, `malformed`, or one the
program does not get past: `crashed` (an index out of range, `variants.go:92` and
`value_function.go:212`) or `stuck` (`location_error.go:65`). `Wrappers` and
`InjectVariants` are the heads around a `@slot` and their use.

`Imports`: `stack` is the Go call stack of `importCSS`, a frame per activation. The
rules of a sheet are as `NextRule` returns them, with preludes and blocks of tokens,
and `Parsed` is what `AtRules` says of them; as it depends on the sheets
alone, it is computed once, in the initial state, and stands beside the `text` of the
rule. Layers are numbers in the order of
their creation, `order` is the list of the program, which `getOrCreateLayer` changes
while frames hold numbers, as the program's frames hold pointers.

### Value functions: `ValueFunctions`, `ClassValues`, `Formats`, `Expansion`

`ValueFunctions` has `collect` and `merge`: from a block to the literals, prefixes,
bare and bracketed kinds that its functions allow. `ClassValues` is what the Scanner makes of
a value in brackets: the tokens and errors that its calls return, one call for a token, with underscores
read as blanks. A value may have the Scanner read the same backslash for ever (`stuck`);
whether it does is told by `ScanEnds`, and by `MatchEnds` and `ExpandEnds` for the functions that read
such a value. `Scanner` has the same code step by step over whole texts; `ClassValues` takes a value
at once, so that `Expansion` stays a function of its arguments. `Formats` has for every kind
both what the expansion accepts (`Is...`, the predicates) and what the pattern
matches (regular expressions, as the ends a match may have). `Expansion` puts
them together: `MatchesPattern` is `writeRegexp`, `Replacements` is `match`,
`ReplaceValueFunction` the loop over tokens that grow and shrink under its index,
and `Expand` the whole. Next to them `Meant` says the same by the grammar, for a
reader who knows nothing of indices.

### Class names and utilities: `ClassScan`, `ClassGroups`, `Rewrite`

`ClassScan` walks a forest in the order of `WalkDir`, opens and reads files, and
searches them: a file is a sequence of words between separators, and `FirstMatch`
models the leftmost match of the pattern with its preference for skipping ahead.
`ClassGroups` takes names out of the map in any order (`\E name \in names`),
finds their variants and inserts them into groups with the binary search of the
library; then the names of each group are sorted (`Sorted`, the list of them that
ascends). `OrderDoesNotMatter` says what the groups are in terms of the set of names
alone: one for each prefix, by number of variants and then by name, and in it the names
with this prefix in order.

`Rewrite` goes over a layer and replaces runs of utilities. `pos` is where the
three loops of `substituteUtilities` are: the group, the utility of the run, the name of
the group. `BeginRun` copies what came before the first utility, `SubstituteName` is one
turn of the innermost loop, `EndRun` goes on behind the run, and `Finish` replaces the
rules of the layer. Names are
sequences of code points so that cutting off variants in the pattern
(`SpellsVariants`), in the groups and in the expansion (`Suffix`) can disagree.

### Theme variables: `ThemeVars`, `VarFunctions`, `References`

`ThemeVars` is the abstract specification: `result` is the set, a pass takes in
what a declaration refers to in one step, and `written` is chosen by what was
found. It takes any set of names, finite or not; a declaration refers to finitely many.
`VarFunctions` has `varFunctionPropertyName` and, next to it, what a list of tokens
refers to by the grammar (`RefersTo`). `References` is the code: `findReferences` with its
index into the tokens of a block or a value, moved on by what `varFunctionPropertyName`
returns.

### Output and the whole: `Output`, `Process`

`Output` writes layer by layer and rule by rule; `Write` is `writeTokenSeq`, which
stops at a token that the Writer rejects.

`Process` composes `ClassScan`, `ClassGroups`, `Rewrite`, `References` and
`Output`, each an `INSTANCE` over the variables of its own, with `AtRules` and
`Expansion`: a stage begins when the one before is done, and its constants are what that
one left. It begins where `Imports` ends, with layers, variants and utilities. Which
names of the input the pattern matches, what each utility says for them, and for which it
never comes to it (`classes`, `expansions`, `endless`) are functions of the input and computed in
the initial state; the actions only look them up. At a name for which a utility has no
end, no step is enabled any more (`Trapped`). `IsInput` says what `Imports` leaves: layers of rules with
preludes and parts made of tokens, preludes that are those of a qualified rule or of an at-rule
that is passed on (`IsPrelude`), blocks that are closed, arguments that
`newUtilityClass` did not reject, variants without a colon. The words of a file are what
stands between white space, quotes, angle brackets and commas, or a word with commas in brackets
of which no part would be found on its own (`IsWhole`).

### Errors: `ErrorLists`

Errors are trees (plain, wrapped, located, list), made as `multierror.Collector`,
`ErrorWithLocation` and `fmt.Errorf` make them. `AddFileToError` is a loop that
calls itself, an action for each turn it may take; `Report` is
`reformatWithLocations`.

## The runs

Every run has a module `MC...` with the small inputs and a `.cfg` with bounds.
TLC chooses the input in the initial state; that is where the breadth is. Where
the program ends the configuration turns the deadlock check off, and a property
`Terminates` says that it ends; the clients of the two readers never end, and
deadlock is checked.

Fairness: each specification with a liveness property has `WF_vars(Next)`, and
nothing stronger. It says that a sequential program that can take a step takes
one. No choice between actions is made fair.

| Run | Inputs | Shows |
|---|---|---|
| `buffered_scanner` | all sources of 3 tokens, good or bad, 3 marks at once | `BufferIsWindow`: the buffer is the source from the oldest mark on; `OnlyReachableTokens`: no token stays without a mark; `ImplementsTokenStream`: refinement |
| `rune_reader` | all inputs of 6 of CR, LF, NUL, wide | `ArraysFit`, `UnreadHasRoom`: the two things the code does not check; `LocationIsExact`; `ReadsIsolatedRunes` |
| `rule_parser` | all sequences of 4 of 12 tokens, 5 of 8 | `RulesAreAsWritten` against the grammar; `OuterErrorsAreReported` once; `BlocksAreValues`, `ValueLengthIsTheValue`: the parser and `ValueLength` agree; `Terminates` |
| `block_parser` | all sequences of 3 of all kinds, 5 of 7, 6 of 5 | `PartsAreAsWritten` against CSS Syntax; `RetriesFromTheName`; `Terminates` |
| `imports` | three sheets, each importing later ones, two entry points, rules from three menus: layer forms, failures, and spellings of at-rules | `MeansWhatTheTextSays`: layers, rules, variants and errors are those of the text with imports inlined, and only the rules of `Traps` keep the program from getting there; `BaseLayerIsLast`; `LayersOnlyGrow`; `Terminates` |
| `process` | ten menus, see below | `VisibleFilesAreRead` and closed; `OnlyFirstIsMissed`; `OrderDoesNotMatter`; `EveryRuleOnce`; `OrderIsKept`; `EveryUseIsGenerated`; `RulesSayWhatIsMeant`; `AcceptedIsFound`; `OutputIsReadAgain`; `OnlyRatiosFail`; `WrittenIsSelfContained`; `ImplementsThemeVars`: refinement; `Terminates` |
| `round_trip` | see below | `OtherwiseRoundTrips`, `Terminates`, and in `TypeOK` that every number the tokenizer makes is one the writer accepts |
| `buffered_scanner_errors`, `rune_reader_adjacent`, `utilities_uses`, `round_trip_fuzz`, `error_lists` | smaller | claims the code does not keep, see below |

Why the bounds are enough for the interesting cases:

- Three marks nest an outer mark, an inner one and one restored between them;
  three tokens let each be on a different side of the position.
- A window of four fills, empties and moves within six runes, with a CR in any
  place of it, before an LF, before another CR, and at the end.
- The parsers' states are told apart by the innermost open block, the part that
  is read and the next two tokens; nesting of depth two with a wrong closing
  token needs five tokens, a declaration with a block that has to be read again as a
  rule needs six.
- An import that creates a layer while two importers hold layers, and a failure
  in the middle of each, needs three sheets. The order of two named layers, an
  anonymous one and the base layer is every order there is a rule for.
- Each way of writing an `@import`, a `@utility` or a `@custom-variant` stands alone
  in a sheet, so that what comes of it is seen; trying all pairs would show no more.
- The menus of `process`, each for one stage with the others as they may be: trees
  of 3 entries; texts of 4 words; 3 names with up to two variants each, in every
  order of the map (a group needs two, a wrong order of groups three); layers of 2 rules
  of two files (a run of utilities ends because of a rule or because of a file);
  ends of class names of up to 3 of `1 . - e % /` and 32 in brackets, for every
  kind of argument alone; values in brackets of up to 2 of braces, parentheses, commas,
  semicolons, comments, backslashes, sizes and `var()`, open or closed, for an argument that takes
  anything and for the size of a background; values of 2 chunks, of which one may be replaced by more
  tokens than it had and one by fewer; values of 4 tokens that matter to the search for
  `var()`, with another `var()` open or not; 3 theme declarations over 3 names in two
  layers, which has chains of length three declared in every order, and cycles;
  three layers, one with a dotted name, with up to two rules.
- The tables of units and keywords are parameters with a word in each; the word
  matters to no one else.
- A number looks two characters ahead, an escape takes what follows it: the
  `round_trip` texts are all those of up to 5 of `1 . + - e %`, of up to 4 of
  backslash, newline, space, `x`, `a`, `1`, `-`, `(`, `#`, of strings and URLs
  with up to 4 of what matters in them (the escapes of a newline and a form feed among it), of
  comments, of up to 4 of CR, FF, newline, quote, backslash and `a`; and two of 31 pieces (four
  of 8) with comments between them, which makes every pair of tokens that the
  writer may have to keep apart. An escape of six digits, and the replacement of
  code points that are none, are in the model but not within these bounds.

Each property has a mutation of a definition in `PROJECT.json` under which its
run fails; the mutated forms stand next to the definitions they vary.

### What properties leave out

- `ReadsIsolatedRunes` is about sources where no CR is followed by a rune that is
  filtered; the others are the violation `rune_reader_adjacent`.
- `OnlyFirstIsMissed` lets the first word of a file be missed; it is
  the violation `utilities_uses`.
- `EveryUseIsGenerated` and `RulesSayWhatIsMeant` go by the `Readings` of a name as
  variants and the rest; a rest that itself begins with a variant and a colon is none.
- `AcceptedIsFound` leaves out what `IsGap` lists, format by format, where the pattern is
  narrower than the predicates: a percentage without brackets, an exponent without
  a sign, ratios and vectors that are none, every size of a background but a single length
  or a keyword, keywords in capitals, a `var()` not spelled in small letters or with
  anything but letters, digits, hyphens, underscores and commas in it (`var(--a/b)`,
  `var(--a,var(--b))`), a `url()` with a closing parenthesis in it, and a
  closing bracket in brackets.
- `OutputIsReadAgain` is about programs where `EverythingStaysInside`: what is written within a
  rule opens no block that it does not close, and closes none but its own. The code does not see
  to it. With an argument that takes anything, the class `a-[}]` ends the rule it is
  written in, and `a-[(]` swallows what comes behind it (`value_function.go:129`); a variant's
  selector may do the same (`variants.go:50`). A semicolon in a prelude would end it too.
- `OnlyRatiosFail`: a utility that takes a bare ratio or percentage makes tokens the
  Writer rejects (`value_function.go:246`), when half of the output is written.
- `OtherwiseRoundTrips` leaves out the five situations of `HasGap`, and lets two
  white spaces become one. The fifth is a form feed or carriage return, written as it is, which
  the reader makes a newline of: the string `"\c "` comes back as a bad string.
- `Terminates` of `round_trip` ends in `Trapped`: in an identifier, `consumeIdent` unreads
  a backslash that starts no escape and reads it again, for ever
  (`scanner.go:300`), and a backslash at the end of a source is returned by every
  call of `Next` (`scanner.go:138`). No doc says that the Scanner ends, but it is
  a defect worth knowing: a style sheet with `a\` before a newline hangs woosh.
- `Terminates` of `process` may end in `Trapped`: `a-[b\]` is a class name like any other for
  the pattern, and a utility that takes anything in brackets has the Scanner read `b\`
  (`value_function.go:129`), which is the loop of `scanner.go:300` again.
- `Terminates` of `imports` ends in a trap as well; that nothing else is one is in
  `MeansWhatTheTextSays`. The sheets import without cycles: with one the program
  recurses until it fails.

## The proofs

TLAPS checks these for every value of the constants, under the assumptions
that their modules state: sources are sequences over the token kinds or runes,
the number of marks is a natural number, there is an entry point.

| Module | Theorem | Says |
|---|---|---|
| `BufferedScannerProofs` | `BufferTypes`, `BufferStaysAWindow` | `TypeOK` and `BufferIsWindow` always hold |
| | `NothingPilesUp` | `OnlyReachableTokens` always holds |
| | `Refinement` | `Spec => ImplementsTokenStream` |
| `RuneReaderProofs` | `ArraysAlwaysFit` | no index leaves the arrays of four |
| | `UnreadNeverFails` | the error that the Scanner ignores does not occur |
| | `LocationAlwaysExact` | `LocationIsExact`: lines and bytes are those of the source |
| | `ReadsTheStream` | `ReadsIsolatedRunes`: each call returns the next filtered runes |
| | `ReaderTypes` | `TypeOK` |
| `ImportsProofs` | `BaseLayerStaysLast` | `BaseLayerIsLast`, for any sheets, those that import in circles too |
| | `LayersNeverShrink` | `LayersOnlyGrow` |
| | `ActivationTypes` | `TypeOK`: what activations hold is there, through any nesting |
| `ProcessProofs` | `VisibleFiles` | `VisibleFilesAreRead`: the walk reads the visible files, in order, and closes each |
| | `FirstWords` | `OnlyFirstIsMissed` |
| | `GroupOrder` | `OrderDoesNotMatter` |
| | `RulesOnce`, `RuleOrder` | `EveryRuleOnce`, `OrderIsKept` |
| | `SearchInvariant` | the search for references is at any moment what the grammar says of the tokens behind it |
| | `SearchImplements` | `Spec => ImplementsThemeVars`: `References` and `Output` implement `ThemeVars` |
| | `OnlyNeededNames`, `AllNeededNames` | `OnlyNeeded`, `AllNeeded`: what is collected is what is needed, exactly |
| | `WrittenThemes` | `WrittenIsSelfContained`, of the code |
| | `ProcessTypes` | `TypeOK`, of all the stages |
| `RuleParserProofs` | `RulesAreTheText` | `RulesAreAsWritten`: the rules returned are those of the grammar, for any text |
| | `BlocksAreTheGrammars` | `BlocksAreValues`: a block has the length `ValueLength` says, and one that is cut off comes with an error |
| | `OuterErrorsAreTold` | `OuterErrorsAreReported`: each malformed token outside of blocks once, in order |
| | `ValueLengthGoesByTheGrammar` | `ValueLengthIsTheValue` |
| `BlockParserProofs` | `BlockTypes` | `TypeOK`, with where its marks may be |
| | `RetriedFromTheName` | `RetriesFromTheName` |
| | `PartsAreTheText` | `PartsAreAsWritten`: the declarations and rules of a block are those of CSS Syntax, for any text between braces |
| `Lemmas` | `ValueLengthFinds` | the stack of `ValueLength` finds the end that the grammar gives to a block, or there is none |
| | `PassVar` | a turn of `findReferences` passes no reference of the grammar and invents none |

`ClassGroupsProofs` holds the invariant of that stage, which
`ProcessProofs` instantiates; the proof about `ThemeVars` is at the end of `ProcessProofs`,
over the mapping itself. `Lemmas` holds what several proofs need. First, induction up to a bound and on a rank, stated with a set
instead of an operator (the provers cannot instantiate a theorem about an operator), and
that a function defined by recursion on a rank exists. Without the last a definition such
as `VariantPrefixLength` says nothing to a prover: `f[x \in S] == e` is the choice of a
function, which may not exist. Then, what the models' functions over tokens compute:
`ValueLength`, `VarFunctionPropertyName`, and the type of `FlattenSeq`.

*Buffered scanner.* The inductive invariant joins the bounds (position and
marks within the buffer) with the window: the buffer is the last part of what was scanned.
The window alone is not inductive, because dropping tokens subtracts from the
position, which must not be less than what is dropped. The lemmas
about `DiscardUnreachable` say that it keeps the bounds, the unread tokens, and
the mapped position, and that a token that stays is one a mark or the position can
reach; each step of `Next` then maps to a step of the interface or to none (`NextRefines`).

*Rune reader.* `TypeOK` does not bound the local arrays. `FreshIsBounded` does:
the loop holds at most what is missing and one more, the rune after a
CR. With `WindowFits` (at most four, read position within) this makes what is popped at
most what was read, and `UnreadHasRoom` follows from how many are popped.
The proof goes through the four ways a pass may go with one lemma
(`FillKeepsIInv`) and through `Return` with another.

What the runes are is a second invariant, `Aligned`: where no CR is followed by a rune
that needs filtering, what was popped, the window, the fresh runes and the filtered
form of the rest of the source, one behind the other, are the filtered source, the
location is that of what was popped, and `cursor` counts what was popped and `rpos`. A
pass of the loop moves a rune from the rest to the fresh ones (`FilteredNext`, one
equation for each case of the recursion), `Return` moves runes from the window to what
was popped. Locations are added up rune by rune, so that the location of two sequences
joined is that of the second from where the first ends (an induction over its length).

*Imports.* What a sheet holds does not matter to the layers, nor does the stack.
So the invariant says nothing of either: there are sets that layers and their rules are
of (`ListOfLayers`), `order` holds numbers (`OrderTypes`), the last of which is the
base layer, each once (`BaseLayerIsLast`). A step leaves the layers as they are
(`NothingKeeps`), or is a new layer right before the base layer (`NewLayerKeeps`),
or a rule at the end of one (`NewRuleKeeps`); `NextKeeps` finds for each action which.

The types are a second invariant on top of this one. Since layers only grow, a number that an
activation holds stays one of a layer. What makes the types inductive is `Active`: an
activation that is inside of a rule (`inner > 0`) is at a rule of its sheet, which is a
`@layer` rule, and so no other step may leave it there. The assumptions are that rules
and blocks come in sequences and that there is a sheet, which may fail to open, for
each entry point.

*The walk and the search of files* (`ScanInv`). The walk keeps one position in the
forest; the invariant says of every entry before it that it was passed: a visible
file is in `read`, and what is not visible is not, because it or a directory around it was
skipped. Where the walk goes on after a directory that is skipped is the first entry
that is not below it; that there is one, or none, is an argument about the least element
of a set (`AfterDirFinds`), and that only invisible entries lie between is where the nesting of
directories comes in. The names found are those of the files read, first words aside.

*Groups* (`GroupInv`). The names that came out of the map are spread over groups by
their prefix, each in one, and the prefixes ascend strictly. `Search` is a recursion over
an interval that halves; by induction on its length it ends at the first group that is
not before the prefix, provided that the groups are sorted (`SearchFinds`), and
inserting there keeps them sorted. `Before` compares the number of colons and
`IsLessSpecific` the number of variants; for prefixes that variants were cut off by they
are the same. The names of a group are distinct, so a list that ascends and
holds them exists (an induction over the number of names), and `Sorted` chooses it.

*Rewrite* (`RewriteInv`). The new rules are at every moment the rules before `i`,
replaced, and, within a run, what the three loops have passed, in the order of
group, utility and name. The invariant says so twice, as a set (which triples are
there, each once) and as an order (a later rule comes later, unless both are of one run).
What makes it inductive is that the loops pass the triples in the lexical order of
`pos` and that the run, found by `UtilityRunLength`, is a maximal one.

*Process*. Each stage has an invariant over its own variables; the joined `IInv` says in
addition which stage the program is at, that what a stage reads is what the one before left
(`SameGroups`, `SameRules`), and that no stage begins before. A step of
`Process` is a step of one stage and leaves the others alone, so their invariants stay. The
assumption is `InputsAssumption`: the input is one that `Imports` may leave.

*What the stages hand on* (`ContentInv`). The later stages read tokens that the earlier ones
made: the blocks that `Expand` makes of a utility and a class name, wrapped in the heads of
its variants. That they are lists of tokens is a type, but one that goes through the whole
of the value functions: `replaceValueFunction` (`LoopPassedType`, by induction over the
passes of its loop), `match` with
each of its kinds of arguments (`ReplacementsType`), a value in brackets as the Scanner
reads it, token by token (`ReadTokenType` for a call of `Next`, with a lemma for each kind of token;
`ReadAllType` by induction over the calls; `ScannedType`), and joined lists (`FlattenType`). It needs what the input promises:
no argument is empty, every block is closed.

*Where a value ends* (`ValueLengthFinds`). `ValueLength` keeps a stack of the closing tokens it
waits for; the grammar says with intervals what a value is. `StacksAgree` says what the
loop returns with any stack at any position: where a run of values ends at the closing
token on top, the loop with the rest of the stack goes on behind it. It is proved by
induction on the tokens left: a token that opens a block is a block for the grammar
(`EndBehindBlock`) and one more entry of the stack for the loop.

*Rule parser.* Where the grammar says what comes next it looks ahead, so that every reference
is a recursion from the end of the text: that such functions exist is proved once
(`AheadExists`), and then for the rules, the positions outside of blocks and the first
value of a kind. `RuleInv` says that the rules returned, followed by the rules of the
text from the next token on, are all of them. Inside of a rule it says which rule of the text
it is, and in which part: in the prelude between two values, in a value of the prelude, or in
the block. What is open is told with the grammar: `Inside(v)` says that the stack
`ValueLength` has at the next token, having begun at `v`, is `ends`. A token moves both the same
way (`Nest`), and when the last end is popped the value ends where `ValueLengthFinds` says it
does, which is where the grammar does. `BlocksInv` says it of the blocks returned.
For the errors `ErrInv` keeps one more position, up to which malformed outer tokens have been
told of: what was scanned is not told of again, and a block tells of its first token only.

*Block parser.* `MarkInv` says what the stack of marks holds while a declaration is tried: its last
mark, the one `declaration` set and left there, is right before the name, as the one of
`blockPart` below it is. Outside of a trial nothing is known of the marks, nor need it be: a
custom property leaves its mark on the stack, and no step but the end of a declaration uses one.
The types need what a trimmed value is (`TrimmedIs`, `FinishedIs`), and that the colon looked
for behind white space is within the text (`DeclarationStarts`).

For the parts, `IInv` is that and, for texts between braces, `PartInv`. It is made as `RuleInv` is: the parts
returned, followed by the parts of the text from the next token on, are all of them
(`Reads`); within a part it says at which token that began, which list it is in and whether between
two values (`BetweenValues`), in a value of the list (`InValueAt`) or in the block
(`InBlockAt`). Of a declaration it says only that it looks like one: which of the two it is, is
known when its value has ended, and `PartDeclares` has the two cases. That `Finished` is then what
the reference says, and `IsValid` what it asks, is `Declared`: trimming tokens from the end
leaves what trimming values does, as white space is a value of one token, and the
flag is two values. The reference again looks ahead, so that it is a recursion from the end
(`PartsExist`). `InsideBraces` is a condition on the whole text, which the parser
cannot see; what a step needs of it is that from each place between two values the rest is a
sequence of closed values (`Good`), so that a closing brace there cannot be met (`TokenHere`) and
none of the values is cut off (`InsideIsClosed`). Without it the parser makes other parts, as it may:
`blockPart` returns at a brace, and a rule without a block takes it along.

*References* (`SearchInv`). At every token, `result` is what it was before the list was
begun and what the `var()` functions that begin before the index refer to by the grammar
(`RefersBefore`). A token that is no closed `var()` adds nothing. One that is moves the index
by what `varFunctionPropertyName` returns, which is past other tokens, and the
argument is that no `var()` that counts begins among those (`PassVar`): between the parenthesis
and the name there is only white space, and where there is no name the index is at the
token that should have been one, so a nested `var()` is still looked at. When the index
is behind the list, that is `RefersTo`. The rest of the invariant ties
the position in the blocks and declarations to what has been collected.

*Theme variables.* The passes are not monotone in any one counter; the invariant
is that there is a set `old`, of as many names as when the pass began, whose
visited declarations have been followed (`Followed`). When a pass ends with as
many names as it began with, `old` is a subset of the same finite cardinality,
hence equal, so the set is closed. `Needed` is what is in every closed set of the names
mentioned, with no recursion. The set of names may be infinite; those
collected are finitely many.

*From the code to `ThemeVars`* (`SearchImplements`). While a list is searched, the mapping takes
the set from before it; what is written are the declarations that `rewriteThemeRule` keeps,
once the output has ended. A step inside of a list is a stutter, the step that ends a
list is `VisitDeclaration` if it was a declaration, the end of the blocks is
`CollectUsed`, and the end of the output is `RewriteThemes` (`StepRefines`, one case for each
action). The invariant of `ThemeVars` then holds of the code's states (`ThemesInvariant`), and
`WrittenIsSelfContained` of the code follows.

Only model-checked: termination (liveness is not in the provers' reach);
`MeansWhatTheTextSays`, whose reference is a recursion over the sheets; which names a
pattern matches and what an expansion says (`EveryUseIsGenerated`, `RulesSayWhatIsMeant`, `AcceptedIsFound`,
`OnlyRatiosFail`): both are given by recursion over regular expressions and tokens; the
output and the writer (`OutputIsReadAgain`, `OtherwiseRoundTrips`).

## What the code does otherwise than it says

Five runs look for a counterexample to a claim of the repository and find it.

- `buffered_scanner_errors`: a malformed token that is looked at, put back and
  read again comes without its error (`parser.go:581`).
- `rune_reader_adjacent`: the rune after a CR is not filtered
  (`scanner.go:710`): two CRs make a newline and a CR.
- `utilities_uses`: a class name at the very start of a file is overlooked if
  another follows in it (`woosh.go:183`).
- `round_trip_fuzz`: `1e-` is a number and the unit `e-`. The writer puts a
  backslash before the `e` so that it is not an exponent, but `e` is a
  hexadecimal digit, and what is read back has the unit U+000E and a hyphen.
  `HasGap` lists the other ways in which the claim of `FuzzWriter` fails.
- `error_lists`: `AddFileToError` (`location_error.go:65`) calls itself for each error
  of a list and then goes round with the list still at hand, for ever. A `@utility`
  rule with two wrong arguments of `--value()` hangs the program.

Met on the way, with no claim in the repository to hold them against:

- a `@custom-variant` that is only `@slot` and an empty argument of `--value()` end
  the program with an index out of range (`variants.go:92`, `value_function.go:212`);
- utilities that take a bare ratio or percentage cannot be written (above);
- a class name in brackets that ends with a backslash is scanned for ever
  (`value_function.go:129`, the loop of `scanner.go:300`): `Trapped` of `Process`;
- a brace, or a bracket that is not closed, in the brackets of a class name gets into the rule
  that is written and ends it or runs over its end (`value_function.go:129`), and so does one in
  the selector of a variant (`variants.go:50`): `EverythingStaysInside`;
- errors of tokens in blocks are dropped (`parser.go:272`).

## What is not modelled

- Opening URLs, the command line, the output file: I/O without state. The output
  file is truncated before anything is read (`main.go:43`).
- Errors of the reader under the Scanner and of the file under the writer; the texts
  of errors.
- Limits: the 1024 bytes of a token; memory; the depth of a recursion.
- The regular expression library and `net/url`: external, as what they match.
- In class names: quotes and angle brackets, which a pattern for URLs or for anything in
  brackets may run over although they separate names elsewhere; of the separators only commas
  are in names here. With them strings and URLs with quotes are left out of
  `ClassValues`.
- In sheets: `@import` conditions other than a layer, which the code ignores as well;
  names of layers with spaces around a dot or with escaped dots; `!important`, which is
  part of a value here. Top-level preludes are not searched for `var()` by the
  code either.
- `IsValid`, which nothing calls; `MarshalText`, `AppendText`, `UnmarshalText`, which
  call the parser and the writer.

## The plan

Done: readers, tokenizer, parsers, at-rules, import, value functions, class names,
theme variables, output, writer, errors, and their composition in `Process`.
What is left of the code is I/O, accessors and what the list above leaves out.

Proved are the two readers, the rule parser and the block parser, the layers and activations
of the import, and of `Process` the walk, the groups, the rewriting, the types of all stages, and
the theme variables from tokens to output. Next are proofs, in this order:

1. `Process`: `OutputIsReadAgain`, as far as `Output` goes: blocks that are closed are written
   as blocks that are closed.
2. `RoundTrip`: `TypeOK`.
