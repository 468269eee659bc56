------------------------------- MODULE MCScan -------------------------------
(* Small pictures. *)
EXTENDS Scan

AllScans == {"dumb", "branch", "ist"}
IstScan  == {"ist"}
=============================================================================
