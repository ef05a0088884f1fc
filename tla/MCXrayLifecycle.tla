-------------------------- MODULE MCXrayLifecycle --------------------------
(* XrayLifecycle on one server: see XrayLifecycle.cfg for the bounds.      *)
EXTENDS XrayLifecycle
=============================================================================
