---------------------------- MODULE MCSessionLog ----------------------------
(* SessionLog on small instances: see the README for the bounds.           *)
EXTENDS SessionLog
=============================================================================
