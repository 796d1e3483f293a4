----------------------------- MODULE MCLibrary -----------------------------
(* Calls of up to three words on two slots; a word may be given twice.     *)
EXTENDS Library

MCFleets == { << >>, <<"bad">>, <<"a">>, <<"bad", "a", "bad">>,
              <<"a", "bad", "b">>, <<"a", "b", "a">> }

MCSel == <<"classic", "size1">>
MCSweep == <<"classic", "size1", "size2">>
=============================================================================
