---------------------------- MODULE MCFrontEnds ----------------------------
(* Two keys of different groups, three paths, one with an empty piece, and  *)
(* lines as a hand may write them, the speed also as a setting of another   *)
(* type.                                                                    *)
EXTENDS FrontEnds

mcRoms == {<<"a">>, <<"c", "b">>, <<"a", "", "b">>}

mcHandWritten ==
    {[type |-> "string", value |-> <<"a">>], [type |-> "string", value |-> <<"a", "", "b">>],
     [type |-> "int", value |-> <<"0">>], [type |-> "bool", value |-> <<"1">>]}
=============================================================================
