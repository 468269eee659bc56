--------------------------- MODULE MCStepperLink ---------------------------
(* The link with few clients and few packets. *)
EXTENDS StepperLink

OneClient  == {"main"}
TwoClients == {"main", "other"}
=============================================================================
