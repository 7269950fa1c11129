-------------------------- MODULE MCSingleWriterLock --------------------------
(* SingleWriterLock for a few boots of the server. *)
EXTENDS SingleWriterLock
=============================================================================
