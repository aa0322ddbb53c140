--------------------------- MODULE MCBufferedScanner ---------------------------
(* Small sources for BufferedScanner: every sequence of up to MaxInput lexemes. *)
EXTENDS BufferedScanner

CONSTANT MaxInput

MCSources ==
    UNION {[1..n -> [kind : Kinds, bad : BOOLEAN]] : n \in 0..MaxInput}
=============================================================================
