-------------------------------- MODULE Scan --------------------------------
(***************************************************************************)
(* How the camera covers the picture.  dumbCamera, getMeasurementsFromBranch*)
(* and mainIST of brain.c walk over the rows of the picture and from left  *)
(* to right and back, aim the sensor at a pixel, read the temperature and  *)
(* store it: the first two in a picture, at the index of the pixel, mainIST *)
(* in a list of readings y with a list of indices idx, for FISTA.          *)
(*                                                                         *)
(* What a motor does until it has arrived is left out here, and so are the *)
(* readings that are out of range, which are taken again.                  *)
(***************************************************************************)
EXTENDS Integers, Sequences

CONSTANTS
  Width, Height,   (* of the picture, in pixels                             *)
  Upper,           (* (int)(n * p): how many samples FISTA uses             *)
  Scans            (* which of "dumb", "branch" and "ist" are run           *)

ASSUME ScanAssumption ==
  /\ Width \in Nat \ {0} /\ Height \in Nat \ {0}
  /\ Upper \in 0..(Width * Height)
  /\ Scans \subseteq {"dumb", "branch", "ist"}

VARIABLES
  scan,            (* the function that runs                                *)
  region,          (* the part of the picture it is to measure              *)
  yy, xx,          (* its two loop counters                                 *)
  pc,              (* "visit" a pixel, "read" it, "fista", "done"           *)
  aim,             (* the pixel <<row, column>> the sensor points at        *)
  samples          (* what it has stored so far, in that order              *)

vars == <<scan, region, yy, xx, pc, aim, samples>>

Rows    == 0..(Height - 1)
Columns == 0..(Width - 1)
Pixels  == Rows \X Columns

(***************************************************************************)
(* Faults: what the code might plausibly have done instead.  Each breaks a *)
(* property below; none is part of the specification.                      *)
(***************************************************************************)
ColumnUnshifted(y, x) ==             \* width - xx in every scan
  IF y % 2 = 0 THEN x ELSE Width - x

ColumnRaster(y, x) == x              \* every row from left to right

ForcedNothing(y, x) == FALSE         \* rand decides everywhere

AdvanceTooFar ==                     \* <= in the test of the inner loop
  IF xx < region.maxX THEN xx' = xx + 1 /\ yy' = yy /\ pc' = "visit"
  ELSE IF yy + 1 < region.maxY
    THEN xx' = region.minX /\ yy' = yy + 1 /\ pc' = "visit"
    ELSE UNCHANGED <<xx, yy>> /\ pc' = IF scan = "ist" THEN "fista" ELSE "done"

(* The column aimed at in row y when the inner loop counts x. *)
HorizPixel(y, x) ==
  IF y % 2 = 0 THEN x
  ELSE IF scan = "ist" THEN Width - x
  ELSE IF scan = "dumb" THEN Width - x - 1
  ELSE region.maxX - 1 - x + region.minX

(* mainIST measures the corners of the loop whatever rand says, dumbCamera *)
(* everything.                                                             *)
Forced(y, x) ==
  \/ scan = "dumb"
  \/ scan = "ist" /\ x \in {0, Width - 1} /\ y \in {0, Height - 1}

Regions == [minY : Rows, maxY : 1..Height, minX : Columns, maxX : 1..Width]

Whole == [minY |-> 0, maxY |-> Height, minX |-> 0, maxX |-> Width]

Init ==
  /\ scan \in Scans
  /\ region \in IF scan = "branch"
                  THEN {r \in Regions : r.minY < r.maxY /\ r.minX < r.maxX}
                  ELSE {Whole}
  /\ yy = region.minY /\ xx = region.minX
  /\ pc = "visit"
  /\ aim = <<Height \div 2, Width \div 2>>      \* ANGLE/2 on both axes
  /\ samples = <<>>

(* On to the next pixel of the row, the next row, or the end. *)
Advance ==
  IF xx + 1 < region.maxX THEN xx' = xx + 1 /\ yy' = yy /\ pc' = "visit"
  ELSE IF yy + 1 < region.maxY
    THEN xx' = region.minX /\ yy' = yy + 1 /\ pc' = "visit"
    ELSE UNCHANGED <<xx, yy>> /\ pc' = IF scan = "ist" THEN "fista" ELSE "done"

Skip ==                 \* rand() % n is not below upper
  /\ pc = "visit"
  /\ ~Forced(yy, xx)
  /\ Advance
  /\ UNCHANGED <<scan, region, aim, samples>>

Goto ==                 \* gotoPixel2D or gotoPixel2DandExit
  /\ pc = "visit"
  /\ aim' = <<yy, HorizPixel(yy, xx)>>
  /\ pc' = "read"
  /\ UNCHANGED <<scan, region, yy, xx, samples>>

Store ==                \* a reading in range, at index yy*width + horizPixel
  /\ pc = "read"
  /\ samples' = Append(samples, [idx |-> aim[1] * Width + aim[2], pixel |-> aim])
  /\ Advance
  /\ UNCHANGED <<scan, region, aim>>

(* FISTA fits the picture to the first Upper entries of y and idx.         *)
Fista ==
  /\ pc = "fista"
  /\ pc' = "done"
  /\ UNCHANGED <<scan, region, yy, xx, aim, samples>>

Done == pc = "done" /\ UNCHANGED vars

Next == Skip \/ Goto \/ Store \/ Fista \/ Done

Spec == Init /\ [][Next]_vars
-----------------------------------------------------------------------------
(* Every variable stays in its range. *)
TypeOK ==
  /\ scan \in Scans /\ region \in Regions
  /\ yy \in Rows /\ xx \in Columns
  /\ pc \in {"visit", "read", "fista", "done"}
  /\ aim \in Rows \X (0..Width)
  /\ samples \in Seq([idx : Nat, pixel : Rows \X (0..Width)])

(***************************************************************************)
(* A scan into a picture stores every reading inside the picture, at the   *)
(* index of the pixel it was taken from, and none over another one, though *)
(* every other row is walked backwards.                                    *)
(***************************************************************************)
InPicture(s) == s.pixel \in Pixels /\ s.idx \in 0..(Width * Height - 1)

Placed ==
  scan # "ist" =>
    /\ \A i \in DOMAIN samples : InPicture(samples[i])
    /\ \A i, j \in DOMAIN samples : samples[i].idx = samples[j].idx => i = j

(* At its end dumbCamera has measured every pixel. *)
Complete ==
  (scan = "dumb" /\ pc = "done") =>
    Pixels \subseteq {samples[i].pixel : i \in DOMAIN samples}

(***************************************************************************)
(* From its first pixel on, dumbCamera never moves the sensor by more than *)
(* one pixel, at the turn of a row as well as inside it: the motors are "right *)
(* at the limit" of their speed (steppers.c:23).                           *)
(***************************************************************************)
Near(p, q) == \/ p[1] = q[1] /\ p[2] - q[2] \in -1..1
              \/ p[2] = q[2] /\ p[1] - q[1] \in -1..1

ShortMoves == [][scan = "dumb" /\ samples # <<>> => Near(aim, aim')]_vars

(* y and idx of mainIST have n entries: j never runs over their end. *)
SamplesFit == Len(samples) <= Width * Height

(***************************************************************************)
(* What makes Placed and Complete hold: between the loops and the readings *)
(* there is an order.  A pixel of row yy is passed if the loop over that   *)
(* row came to it before the present one.                                  *)
(***************************************************************************)
Passed(p) ==
  \/ p[1] < yy
  \/ /\ p[1] = yy
     /\ IF yy % 2 = 0 THEN p[2] < HorizPixel(yy, xx)
                      ELSE p[2] > HorizPixel(yy, xx)

RegionInv ==
  /\ region.minY <= yy /\ yy < region.maxY
  /\ region.minX <= xx /\ xx < region.maxX
  /\ scan # "branch" => region = Whole
  /\ pc = "fista" => scan = "ist"

AimInv == pc = "read" => aim = <<yy, HorizPixel(yy, xx)>>

SamplesInv ==
  scan # "ist" =>
    \A i \in DOMAIN samples :
      LET s == samples[i] IN
      /\ s.pixel \in Pixels
      /\ s.idx = s.pixel[1] * Width + s.pixel[2]
      /\ pc \in {"visit", "read"} => Passed(s.pixel)

DistinctInv ==
  scan # "ist" => \A i, j \in DOMAIN samples :
                    samples[i].pixel = samples[j].pixel => i = j

CoverInv ==
  scan = "dumb" => \A p \in Pixels :
                     pc = "done" \/ Passed(p) => \E i \in DOMAIN samples :
                                                   samples[i].pixel = p

ScanInv == RegionInv /\ AimInv /\ SamplesInv /\ DistinctInv /\ CoverInv

(* Why there is room, and why the moves are short: the loops are at least  *)
(* as far as the readings, and the next pixel is beside the last one.      *)
CountInv ==
  IF pc \in {"visit", "read"} THEN Len(samples) <= yy * Width + xx
  ELSE Len(samples) <= Width * Height

NearInv ==
  scan = "dumb" /\ pc = "visit" /\ samples # <<>> =>
    Near(aim, <<yy, HorizPixel(yy, xx)>>)

(***************************************************************************)
(* When FISTA runs, each of the Upper entries it uses is a reading of the  *)
(* pixel its index names.  brain.c:208 says of the arrays: "1.2 is there   *)
(* in case random isn't random".                                           *)
(***************************************************************************)
SamplesSound ==
  pc = "fista" => \A i \in 1..Upper : i \in DOMAIN samples /\ InPicture(samples[i])
=============================================================================
