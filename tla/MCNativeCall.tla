---------------------------- MODULE MCNativeCall ----------------------------
(* Calls and exceptions, with two functions of each side on the stack; and *)
(* the conversions of what is passed, for all types up to two levels deep  *)
(* and numbers of few bits.                                                *)
EXTENDS Passing

MCNames == <<"a", "b">>
MCIndices == <<"0", "1">>

=============================================================================
