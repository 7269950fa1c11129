----------------------------- MODULE MCTtsSidecar -----------------------------
(* TtsSidecar for a few requests, which TLC is given in the configuration. *)
EXTENDS TtsSidecar
=============================================================================
