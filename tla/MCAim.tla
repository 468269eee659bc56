-------------------------------- MODULE MCAim --------------------------------
(* The vertical motor is the slower one. *)
EXTENDS Aim

MCMaxSpeed == [a \in Axes |-> IF a = "H" THEN 2 ELSE 1]
=============================================================================
