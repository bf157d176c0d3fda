--------------------------- MODULE MCBufferRefs ---------------------------
(* Small instances of BufferRefs, and of ModuleRegister under it, for TLC. *)
EXTENDS BufferRefs, TLC

=============================================================================
