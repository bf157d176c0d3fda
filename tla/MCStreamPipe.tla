--------------------------- MODULE MCStreamPipe ---------------------------
(* Small instances of StreamPipe for TLC. *)
EXTENDS StreamPipe, TLC

=============================================================================
