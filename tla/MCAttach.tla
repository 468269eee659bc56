------------------------------ MODULE MCAttach ------------------------------
(* Small instances of Attach. *)
EXTENDS Attach

CONSTANTS horiz, vert, d1, d2

TwoHandles == {horiz, vert}
OneHandle  == {horiz}
TwoDevices == {d1, d2}
OneDevice  == {d1}

(* -1 for both, as the application does, or the number of one board. *)
OpenMixed   == {<<horiz, Any>>, <<vert, Any>>, <<vert, d2>>}
OpenAny     == {<<h, Any>> : h \in Handles}
OpenSerial  == {<<horiz, d1>>, <<vert, d2>>}
=============================================================================
