------------------------ MODULE MCThreadsafeFunction ------------------------
(* Small instances of ThreadsafeFunction for TLC. *)
EXTENDS ThreadsafeFunction, TLC

=============================================================================
