----------------------------- MODULE MCProxyRun -----------------------------
(* Small instances of ProxyRun for the model checker. *)
EXTENDS ProxyRun
=============================================================================
