---------------------------- MODULE MCBlockParser ----------------------------
(* Small inputs for BlockParser: every short sequence of all the kinds, and   *)
(* longer ones of those that make declarations, and rules that look like one. *)
EXTENDS BlockParser

CONSTANTS MaxShort, MaxMiddle, MaxLong

ShortKinds == Kinds \ {"[", "]"}
MiddleKinds == {"ident", "custom", ":", "ws", "{", "}", ";"}
RuleKinds == MiddleKinds \ {"custom", "ws"}
FlagKinds == {"ident", ":", "ws", "!", "important"}

MCContents ==
    BoundedSeq(ShortKinds, MaxShort)
        \cup BoundedSeq(MiddleKinds, MaxMiddle)
        \cup BoundedSeq(RuleKinds, MaxLong)
        \cup BoundedSeq(FlagKinds, MaxLong)
=============================================================================
