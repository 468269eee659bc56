-------------------------------- MODULE MCFista --------------------------------
(* Pictures of 4 x 4 pixels, two levels; three readings, in all orders and *)
(* from the same pixel too.                                                *)
EXTENDS Fista

MCSamplings == [1..3 -> {0, 1, 6, 15}]
MCReadings == {-4, 3, 10}
=============================================================================
