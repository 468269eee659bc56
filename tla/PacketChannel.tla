--------------------------- MODULE PacketChannel ---------------------------
(***************************************************************************)
(* What a setter may rely on: a channel that carries packets to the device *)
(* in the order they were accepted, each at most once, without a gap, and  *)
(* holds no more than Capacity of them at a time.  It may stop for good at *)
(* any moment (the device was unplugged, or the handle closed).            *)
(***************************************************************************)
EXTENDS Naturals

CONSTANT Capacity   (* a natural number above 0                             *)

VARIABLES
  accepted,   (* how many packets have been accepted                        *)
  delivered   (* how many of them, the first ones, the device has received  *)

Init == accepted = 0 /\ delivered = 0

Accept ==
  /\ accepted < delivered + Capacity
  /\ accepted' = accepted + 1
  /\ UNCHANGED delivered

Deliver ==
  /\ delivered < accepted
  /\ delivered' = delivered + 1
  /\ UNCHANGED accepted

Next == Accept \/ Deliver

Spec == Init /\ [][Next]_<<accepted, delivered>>
=============================================================================
