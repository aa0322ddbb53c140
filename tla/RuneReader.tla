------------------------------ MODULE RuneReader ------------------------------
(***************************************************************************)
(* The bufferedReader of internal/css/scanner.go: the Scanner's view of a  *)
(* style sheet, one filtered code point at a time, with a window of four   *)
(* runes for UnreadRune and peek.  One step of the model is one pass of    *)
(* the loop in peek that reads the underlying reader.                      *)
(***************************************************************************)
EXTENDS Integers, SequencesExt

CONSTANT Sources    \* the inputs, as sequences of raw runes

\* scannerLookAhead, the size of the window.
LookAhead == 4

\* The raw runes the reader treats differently; the others are plain, of one
\* byte or of several.
RawRunes == {"CR", "LF", "FF", "NUL", "x", "wide"}

ASSUME SourcesAssumption == Sources \subseteq Seq(RawRunes)

\* What takes the place of a NUL.
Replacement == "U+FFFD"

Runes == RawRunes \cup {Replacement}

Size(r) == IF r = "wide" THEN 3 ELSE 1

Slots == [rune : Runes, size : Nat]

VARIABLES
    src,        \* the input, never changed
    taken,      \* raw runes read from the underlying reader
    window,     \* buf and sizes, up to wpos
    rpos,       \* the slots of the window that have been read
    base,       \* location of the first slot of the window
    failed,     \* the underlying reader has returned io.EOF
    pc,         \* "idle", or "filling" inside peek
    op,         \* the call peek serves: "read" or "peek"
    want,       \* peek's argument
    fresh,      \* the runes peek has read but not put into the window
    seen,       \* the runes the latest call returned
    mayUnread,  \* the Scanner may call UnreadRune
    cursor      \* history: the runes read less those unread

vars == <<src, taken, window, rpos, base, failed, pc, op, want, fresh, seen,
          mayUnread, cursor>>

wpos == Len(window)

\* Mutant of Missing: forgets that some of the window has been read.
MissingFromStart == want - wpos

\* toRead.
Missing == want - (wpos - rpos)

\* A single rune after preprocessing, except for \r.
Filter(r) ==
    CASE r = "FF"  -> "LF"
      [] r = "NUL" -> Replacement
      [] OTHER     -> r

Slot(rune, size) == [rune |-> rune, size |-> size]

\* addLocation, for one rune and its size.
Past(loc, slot) ==
    [line   |-> loc.line + (IF slot.rune = "LF" THEN 1 ELSE 0),
     offset |-> loc.offset + slot.size]

\* addLocation.
AddLocation(loc, slots) ==
    LET at[i \in 0..Len(slots)] ==
            IF i = 0 THEN loc ELSE Past(at[i - 1], slots[i])
    IN at[Len(slots)]

\* location.
Location == AddLocation(base, SubSeq(window, 1, rpos))

\* The location of the first rune.
Start == [line |-> 1, offset |-> 0]

Init ==
    /\ src \in Sources
    /\ taken = 0
    /\ window = <<>> /\ rpos = 0
    /\ base = Start
    /\ failed = FALSE
    /\ pc = "idle" /\ op = "read" /\ want = 0 /\ fresh = <<>>
    /\ seen = <<>>
    /\ mayUnread = FALSE
    /\ cursor = 0

\* ReadRune and peek(n) enter peek.
Call(o, n) ==
    /\ pc = "idle"
    /\ pc' = "filling"
    /\ op' = o
    /\ want' = n
    /\ fresh' = <<>>
    /\ seen' = <<>>
    /\ UNCHANGED <<src, taken, window, rpos, base, failed, mayUnread, cursor>>

ReadRune == Call("read", 1)

Peek == \E n \in 1..(LookAhead - 1) : Call("peek", n)

\* The loop of peek goes on, and the underlying reader has a rune.
Filling ==
    /\ pc = "filling"
    /\ Len(fresh) < Missing
    /\ ~failed

\* Mutant of AfterCR: the byte of the carriage return is not counted.
UncountedCR(r2) ==
    IF r2 = "LF"
    THEN <<Slot("LF", Size(r2))>>
    ELSE <<Slot("LF", 1), Slot(r2, Size(r2))>>

\* The runes that a carriage return followed by r2 becomes: r2 is taken as it is.
AfterCR(r2) ==
    IF r2 = "LF"
    THEN <<Slot("LF", 1 + Size(r2))>>
    ELSE <<Slot("LF", 1), Slot(r2, Size(r2))>>

FillRune ==
    /\ Filling
    /\ taken < Len(src)
    /\ src[taken + 1] # "CR"
    /\ fresh' = Append(fresh, Slot(Filter(src[taken + 1]), Size(src[taken + 1])))
    /\ taken' = taken + 1
    /\ UNCHANGED <<src, window, rpos, base, failed, pc, op, want, seen,
                   mayUnread, cursor>>

FillAfterCR ==
    /\ Filling
    /\ taken + 1 < Len(src)
    /\ src[taken + 1] = "CR"
    /\ fresh' = fresh \o AfterCR(src[taken + 2])
    /\ taken' = taken + 2
    /\ UNCHANGED <<src, window, rpos, base, failed, pc, op, want, seen,
                   mayUnread, cursor>>

\* Mutant of FillLastCR: the rune that did not come is counted.
FillLastCRCounted ==
    /\ Filling /\ taken + 1 = Len(src) /\ src[taken + 1] = "CR"
    /\ fresh' = Append(fresh, Slot("LF", 1))
    /\ taken' = taken + 2 /\ failed' = TRUE
    /\ UNCHANGED <<src, window, rpos, base, pc, op, want, seen, mayUnread, cursor>>

\* The carriage return is the last rune.
FillLastCR ==
    /\ Filling
    /\ taken + 1 = Len(src)
    /\ src[taken + 1] = "CR"
    /\ fresh' = Append(fresh, Slot("LF", 1))
    /\ taken' = taken + 1
    /\ failed' = TRUE
    /\ UNCHANGED <<src, window, rpos, base, pc, op, want, seen, mayUnread, cursor>>

FillEnd ==
    /\ Filling
    /\ taken = Len(src)
    /\ failed' = TRUE
    /\ UNCHANGED <<src, taken, window, rpos, base, pc, op, want, fresh, seen,
                   mayUnread, cursor>>

\* Mutants of PopCount: all that has been read goes; one slot too many stays.
PopRead(n) == rpos

PopTooFew(n) == IF wpos + n > LookAhead + 1 THEN wpos + n - LookAhead - 1 ELSE 0

\* popCount: the slots that leave at the front to make room for n runes.
PopCount(n) == IF wpos + n > LookAhead THEN wpos + n - LookAhead ELSE 0

\* peek pops excess runes from the front, pushes the fresh ones to the end and
\* returns what is in front of the read position; ReadRune then steps over it.
Return ==
    /\ pc = "filling"
    /\ Len(fresh) >= Missing \/ failed
    /\ LET pop == PopCount(Len(fresh))
           win == SubSeq(window, pop + 1, wpos) \o fresh
           front == rpos - pop
           ahead == IF front + want <= Len(win) THEN want ELSE Len(win) - front
           step == IF op = "read" THEN ahead ELSE 0
       IN /\ window' = win
          /\ base' = AddLocation(base, SubSeq(window, 1, pop))
          /\ rpos' = front + step
          /\ cursor' = cursor + step
          /\ seen' = SubSeq(win, front + 1, front + ahead)
          /\ mayUnread' = (step = 1 \/ (op = "peek" /\ want = 1 /\ mayUnread))
    /\ pc' = "idle"
    /\ fresh' = <<>>
    /\ UNCHANGED <<src, taken, failed, op, want>>

\* UnreadRune; the Scanner ignores its error.
UnreadRune ==
    /\ pc = "idle"
    /\ mayUnread
    /\ rpos' = IF rpos > 0 THEN rpos - 1 ELSE rpos
    /\ cursor' = cursor - 1
    /\ mayUnread' = FALSE
    /\ seen' = <<>>
    /\ UNCHANGED <<src, taken, window, base, failed, pc, op, want, fresh>>

Next ==
    \/ ReadRune \/ Peek \/ UnreadRune
    \/ FillRune \/ FillAfterCR \/ FillLastCR \/ FillEnd
    \/ Return

Spec == Init /\ [][Next]_vars

-----------------------------------------------------------------------------
\* The reference: the filtered code points of CSS Syntax 3.3, each with the
\* number of bytes it stands for.
Preprocessed ==
    [r \in RawRunes |->
        IF r \in {"CR", "FF", "LF"} THEN "LF" ELSE IF r = "NUL" THEN Replacement ELSE r]

CRLFAt(i) == i < Len(src) /\ src[i] = "CR" /\ src[i + 1] = "LF"

FilteredFrom[i \in 1..(Len(src) + 1)] ==
    IF i > Len(src) THEN <<>>
    ELSE IF CRLFAt(i) THEN <<Slot("LF", 2)>> \o FilteredFrom[i + 2]
    ELSE <<Slot(Preprocessed[src[i]], Size(src[i]))>> \o FilteredFrom[i + 1]

Filtered == FilteredFrom[1]

\* Every rune that may follow a carriage return needs no filtering itself.
CRsAreIsolated ==
    \A i \in 1..(Len(src) - 1) :
        src[i] = "CR" => src[i + 1] \notin {"CR", "FF", "NUL"}

TypeOK ==
    /\ src \in Seq(RawRunes)
    /\ taken \in 0..Len(src)
    /\ window \in Seq(Slots) /\ fresh \in Seq(Slots) /\ seen \in Seq(Slots)
    /\ rpos \in Nat
    /\ failed \in BOOLEAN /\ mayUnread \in BOOLEAN
    /\ pc \in {"idle", "filling"} /\ op \in {"read", "peek"}
    /\ want \in 0..(LookAhead - 1)
    /\ cursor \in Int

\* peek indexes its two arrays of four, buf and br.buf, with counters that it
\* never compares with four: a carriage return stores one rune more than asked
\* for, and popping moves rpos down.  Nothing is lost or out of range.
ArraysFit ==
    /\ Len(fresh) <= LookAhead
    /\ wpos <= LookAhead
    /\ rpos <= wpos
    /\ pc = "filling" => PopCount(Len(fresh)) <= rpos

\* The Scanner ignores the error of UnreadRune, so the rune read last must still
\* be in the window whenever the Scanner may give it back: right after ReadRune
\* or after a peek(1) that may itself have popped runes.
UnreadHasRoom == mayUnread => rpos >= 1

\* The location reported for a token or an error counts the lines and the bytes
\* of the source before it, whatever has been read ahead or popped.
LocationIsExact ==
    CRsAreIsolated =>
        Location = AddLocation(Start, SubSeq(Filtered, 1, cursor))

\* "ReadRune reads the next [filtered code point] in the input stream", and peek
\* shows the ones that come next; a call falls short only where the input ends.
ReturnsNext ==
    LET end == IF cursor + want <= Len(Filtered) THEN cursor + want ELSE Len(Filtered)
    IN seen' = SubSeq(Filtered, cursor + 1, end)

ReadsFilteredRunes == [][Return => ReturnsNext]_vars

\* The same where no carriage return precedes a rune that needs filtering.
ReadsIsolatedRunes == [][Return /\ CRsAreIsolated => ReturnsNext]_vars
=============================================================================
