---------------------------- MODULE MCRuneReader ----------------------------
(* Small inputs for RuneReader: every sequence of up to MaxInput runes of an   *)
(* alphabet.                                                                  *)
EXTENDS RuneReader

CONSTANTS Alphabet, MaxInput

MCSources == BoundedSeq(Alphabet, MaxInput)
=============================================================================
