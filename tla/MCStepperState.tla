---------------------------- MODULE MCStepperState ----------------------------
(* A short way, long enough to be stopped and turned round on it, and a     *)
(* counter that comes round after three packets.                           *)
EXTENDS StepperState

MCPositions == {0, 2}
=============================================================================
