----------------------------- MODULE MCReattach -----------------------------
(* The one client that each handle of the camera has. *)
EXTENDS Reattach

OneClient == {"main"}
=============================================================================
