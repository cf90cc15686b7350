---------------------------- MODULE MCBlockParser ----------------------------
(***************************************************************************)
(* BlockParser for TLC: every file of at most MaxLength characters.        *)
(***************************************************************************)
EXTENDS BlockParser, TLC

CONSTANT MaxLength

AllFiles == UNION {[1 .. n -> Char] : n \in 0 .. MaxLength}

=============================================================================
