----------------------------- MODULE MCListener -----------------------------
(* Model checking of Listener.                                             *)
EXTENDS Listener
=============================================================================
