-------------------------- MODULE MCPromiseFuture --------------------------
(* Small instances of PromiseFuture for TLC. *)
EXTENDS PromiseFuture, TLC

=============================================================================
