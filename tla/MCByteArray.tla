----------------------------- MODULE MCByteArray -----------------------------
(* Small instances of ByteArray for TLC. *)
EXTENDS ByteArray
=============================================================================
