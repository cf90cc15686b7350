------------------------------ MODULE MCFields -------------------------------
(***************************************************************************)
(* An instance of Fields for TLC: names of which one begins like another   *)
(* and one is another's capital, and values of no, one and two characters. *)
(***************************************************************************)
EXTENDS Fields

MCLower == [letter \in Letter |-> IF letter = "A" THEN "a" ELSE letter]
MCName == {<<"a">>, <<"A">>, <<"b">>, <<"a", "b">>}
MCValue == {<<>>, <<"a">>, <<"b", "b">>}

=============================================================================
