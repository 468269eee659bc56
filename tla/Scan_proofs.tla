---------------------------- MODULE Scan_proofs ----------------------------
(***************************************************************************)
(* Proofs about Scan, for pictures of every size.                          *)
(***************************************************************************)
EXTENDS Scan, TLAPS

(* The arithmetic of yy*width + horizPixel: an index of the picture, ...   *)
LEMMA IndexInRange ==
  ASSUME NEW r \in Rows, NEW c \in Columns
  PROVE  r * Width + c \in 0..(Width * Height - 1)
<1> USE ScanAssumption DEF Rows, Columns
<1>1. /\ r * Width + c >= 0
      /\ r * Width \in Int
  OBVIOUS
<1>2. DEFINE d == Height - 1 - r
<1>3. d \in Nat /\ d * Width >= 0 /\ d * Width \in Int
  OBVIOUS
<1>4. Width * Height = r * Width + d * Width + Width
  BY <1>3
<1> QED
  BY <1>1, <1>3, <1>4

(* ... and never the same one for two pixels. *)
LEMMA IndexInjective ==
  ASSUME NEW r \in Rows, NEW c \in Columns, NEW s \in Rows, NEW e \in Columns,
         r * Width + c = s * Width + e
  PROVE  r = s /\ c = e
<1> USE ScanAssumption DEF Rows, Columns
<1>1. ASSUME NEW a \in Nat, NEW b \in Nat, a < b
      PROVE  a * Width + Width <= b * Width
  <2>1. (b - a - 1) \in Nat
    BY <1>1
  <2>2. (b - a - 1) * Width >= 0
    BY <2>1
  <2>3. b * Width = a * Width + Width + (b - a - 1) * Width
    BY <2>1
  <2> QED
    BY <2>2, <2>3
<1>2. ~(r < s)
  BY <1>1
<1>3. ~(s < r)
  BY <1>1
<1> QED
  BY <1>2, <1>3
-----------------------------------------------------------------------------
(* The types: two loop counters inside the region, one pixel aimed at. *)
LEMMA HorizPixelType ==
  ASSUME TypeOK, RegionInv
  PROVE  /\ HorizPixel(yy, xx) \in 0..Width
         /\ scan # "ist" => HorizPixel(yy, xx) \in Columns
BY ScanAssumption DEF TypeOK, RegionInv, HorizPixel, Regions, Rows, Columns,
   Whole

LEMMA InitInv == Init => TypeOK /\ ScanInv
<1> SUFFICES ASSUME Init PROVE TypeOK /\ ScanInv
  OBVIOUS
<1> USE ScanAssumption DEF Init
<1>1. region \in Regions /\ RegionInv
  BY DEF Regions, Whole, Rows, Columns, RegionInv
<1>2. TypeOK
  BY <1>1 DEF TypeOK, Regions, Rows, Columns
<1>3. AimInv /\ SamplesInv /\ DistinctInv
  BY DEF AimInv, SamplesInv, DistinctInv
<1>4. CoverInv
  BY DEF CoverInv, Passed, HorizPixel, Whole, Pixels, Rows, Columns
<1> QED
  BY <1>1, <1>2, <1>3, <1>4 DEF ScanInv

(* The bounds of the region as numbers. *)
LEMMA RegionBounds ==
  ASSUME TypeOK, RegionInv
  PROVE  /\ region.minY \in Rows /\ region.minX \in Columns
         /\ region.maxY \in 1..Height /\ region.maxX \in 1..Width
         /\ scan # "branch" => /\ region.minY = 0 /\ region.maxY = Height
                               /\ region.minX = 0 /\ region.maxX = Width
         /\ yy \in region.minY..(region.maxY - 1)
         /\ xx \in region.minX..(region.maxX - 1)
<1>1. /\ region.minY \in Rows /\ region.minX \in Columns
      /\ region.maxY \in 1..Height /\ region.maxX \in 1..Width
  BY DEF TypeOK, Regions
<1>2. scan # "branch" => /\ region.minY = 0 /\ region.maxY = Height
                         /\ region.minX = 0 /\ region.maxX = Width
  BY DEF RegionInv, Whole
<1> QED
  BY <1>1, <1>2, ScanAssumption DEF TypeOK, RegionInv, Rows, Columns

(* The three ways the loops can go on, with the bounds they leave. *)
LEMMA AdvanceCases ==
  ASSUME TypeOK, RegionInv, Advance, UNCHANGED region
  PROVE  \/ /\ xx + 1 < region.maxX /\ xx' = xx + 1 /\ yy' = yy
            /\ pc' = "visit"
         \/ /\ xx + 1 = region.maxX /\ yy + 1 < region.maxY
            /\ xx' = region.minX /\ yy' = yy + 1 /\ pc' = "visit"
         \/ /\ xx + 1 = region.maxX /\ yy + 1 = region.maxY
            /\ xx' = xx /\ yy' = yy
            /\ pc' = IF scan = "ist" THEN "fista" ELSE "done"
<1>1. /\ ~(xx + 1 < region.maxX) => xx + 1 = region.maxX
      /\ ~(yy + 1 < region.maxY) => yy + 1 = region.maxY
  BY RegionBounds, ScanAssumption DEF Rows, Columns
<1> QED
  BY <1>1 DEF Advance

(* The step to the next pixel keeps the counters inside the region. *)
LEMMA AdvanceInv ==
  ASSUME TypeOK, RegionInv, Advance, UNCHANGED <<scan, region>>
  PROVE  /\ yy' \in Rows /\ xx' \in Columns
         /\ pc' \in {"visit", "fista", "done"}
         /\ RegionInv'
<1>1. /\ yy' \in region.minY..(region.maxY - 1)
      /\ xx' \in region.minX..(region.maxX - 1)
      /\ pc' \in {"visit", "fista", "done"}
      /\ pc' = "fista" => scan = "ist"
  BY AdvanceCases, RegionBounds, ScanAssumption DEF Rows, Columns
<1>2. yy' \in Rows /\ xx' \in Columns
  BY <1>1, RegionBounds, ScanAssumption DEF Rows, Columns
<1>3. /\ region.minY <= yy' /\ yy' < region.maxY
      /\ region.minX <= xx' /\ xx' < region.maxX
  BY <1>1, RegionBounds, ScanAssumption DEF Rows, Columns
<1> QED
  BY <1>1, <1>2, <1>3 DEF RegionInv

(* It passes the pixel it leaves, and keeps passed what was passed. *)
LEMMA AdvancePasses ==
  ASSUME TypeOK, RegionInv, Advance, UNCHANGED <<scan, region>>,
         scan # "ist", pc' = "visit",
         NEW p \in Pixels, Passed(p) \/ p = <<yy, HorizPixel(yy, xx)>>
  PROVE  Passed(p)'
<1>1. /\ p[1] \in Int /\ p[2] \in Int /\ p[2] >= 0 /\ p[2] < Width
      /\ Width \in Nat /\ xx \in Int /\ yy \in Int
  BY ScanAssumption DEF Pixels, Rows, Columns, TypeOK
<1>2. p[1] < yy \/ p[1] = yy
  BY DEF Passed
<1>3. CASE xx' = xx + 1 /\ yy' = yy
  <2>1. CASE p[1] < yy
    BY <1>3, <2>1 DEF Passed
  <2>2. CASE p[1] = yy /\ yy % 2 = 0
    <3>1. p[2] <= xx
      BY <2>2, <1>1 DEF Passed, HorizPixel
    <3> QED
      BY <3>1, <2>2, <1>1, <1>3 DEF Passed, HorizPixel
  <2>3. CASE p[1] = yy /\ ~(yy % 2 = 0)
    <3>1. p[2] >= HorizPixel(yy, xx)
      BY <2>3, <1>1, HorizPixelType, ScanAssumption DEF Passed, Columns
    <3>2. HorizPixel(yy, xx)' = HorizPixel(yy, xx) - 1
      BY <2>3, <1>1, <1>3, RegionBounds DEF HorizPixel, Rows, Columns
    <3>3. p[2] > HorizPixel(yy, xx)'
      BY <3>1, <3>2, <1>1, HorizPixelType, ScanAssumption DEF Columns
    <3> QED
      BY <3>3, <2>3, <1>3 DEF Passed
  <2> QED
    BY <1>2, <2>1, <2>2, <2>3
<1>4. CASE yy' = yy + 1
  BY <1>1, <1>2, <1>4 DEF Passed
<1>5. \/ xx' = xx + 1 /\ yy' = yy
      \/ yy' = yy + 1
  BY AdvanceCases
<1> QED
  BY <1>3, <1>4, <1>5

(* dumbCamera passes no other pixel, and none is left at the end. *)
LEMMA AdvanceMisses ==
  ASSUME TypeOK, RegionInv, Advance, UNCHANGED <<scan, region>>,
         scan = "dumb",
         NEW p \in Pixels, pc' = "done" \/ Passed(p)'
  PROVE  Passed(p) \/ p = <<yy, HorizPixel(yy, xx)>>
<1>1. /\ p[1] \in Int /\ p[2] \in Int /\ p[2] >= 0 /\ p[2] < Width
      /\ Width \in Nat /\ xx \in Int /\ yy \in Int /\ p[1] < Height
      /\ p = <<p[1], p[2]>>
  BY ScanAssumption DEF Pixels, Rows, Columns, TypeOK
<1>2. /\ region.minX = 0 /\ region.maxX = Width /\ region.maxY = Height
      /\ scan' = "dumb" /\ region' = region
  BY RegionBounds
<1>3. CASE xx' = xx + 1 /\ yy' = yy /\ pc' = "visit"
  <2>1. CASE p[1] < yy
    BY <2>1 DEF Passed
  <2>2. CASE p[1] = yy /\ yy % 2 = 0
    <3>1. p[2] < xx + 1
      BY <2>2, <1>1, <1>3 DEF Passed, HorizPixel
    <3> QED
      BY <3>1, <2>2, <1>1 DEF Passed, HorizPixel
  <2>3. CASE p[1] = yy /\ ~(yy % 2 = 0)
    <3>1. p[2] > Width - (xx + 1) - 1
      BY <2>3, <1>1, <1>2, <1>3 DEF Passed, HorizPixel
    <3> QED
      BY <3>1, <2>3, <1>1, <1>2 DEF Passed, HorizPixel
  <2> QED
    BY <1>1, <1>3, <2>1, <2>2, <2>3 DEF Passed
<1>4. CASE xx + 1 = Width /\ yy + 1 = yy' /\ xx' = 0 /\ pc' = "visit"
  <2>1. p[1] <= yy
    <3>1. CASE p[1] = yy' /\ yy' % 2 = 0
      BY <3>1, <1>1, <1>4 DEF Passed, HorizPixel
    <3>2. CASE p[1] = yy' /\ ~(yy' % 2 = 0)
      BY <3>2, <1>1, <1>2, <1>4 DEF Passed, HorizPixel
    <3> QED
      BY <3>1, <3>2, <1>1, <1>4 DEF Passed
  <2>2. CASE p[1] = yy
    BY <2>2, <1>1, <1>4, <1>2 DEF Passed, HorizPixel
  <2> QED
    BY <2>1, <2>2, <1>1 DEF Passed
<1>5. CASE xx + 1 = Width /\ yy + 1 = Height
  <2>1. p[1] < yy \/ p[1] = yy
    BY <1>1, <1>5
  <2>2. CASE p[1] = yy
    BY <2>2, <1>1, <1>5 DEF Passed, HorizPixel
  <2> QED
    BY <2>1, <2>2 DEF Passed
<1> QED
  BY <1>2, <1>3, <1>4, <1>5, AdvanceCases, <1>1
-----------------------------------------------------------------------------
(* A pixel that is passed is not the one the loops are at. *)
LEMMA NotPassedYet ==
  ASSUME TypeOK, RegionInv
  PROVE  ~Passed(<<yy, HorizPixel(yy, xx)>>)
BY ScanAssumption, HorizPixelType DEF Passed, TypeOK, Rows, Columns

(* A store adds the pixel the loops are at, and no index twice. *)
LEMMA StoreInv ==
  ASSUME TypeOK, ScanInv, Store
  PROVE  TypeOK' /\ ScanInv'
<1> DEFINE s == [idx |-> aim[1] * Width + aim[2], pixel |-> aim]
           n == Len(samples)
<1> USE DEF Store, ScanInv
<1>1. /\ aim = <<yy, HorizPixel(yy, xx)>> /\ pc = "read"
      /\ HorizPixel(yy, xx) \in 0..Width
      /\ scan # "ist" => HorizPixel(yy, xx) \in Columns
      /\ yy \in Rows
  BY HorizPixelType DEF AimInv, TypeOK
<1>2. yy' \in Rows /\ xx' \in Columns /\ pc' \in {"visit", "fista", "done"}
      /\ RegionInv'
  BY AdvanceInv
<1>3. /\ s.pixel = aim /\ s.idx = aim[1] * Width + aim[2]
      /\ s \in [idx : Nat, pixel : Rows \X (0..Width)]
  <2>1. s.pixel = aim /\ s.idx = aim[1] * Width + aim[2]
    OBVIOUS
  <2>2. aim \in Rows \X (0..Width) /\ aim[1] \in Nat /\ aim[2] \in Nat
    BY <1>1, ScanAssumption DEF Rows
  <2>3. aim[1] * Width + aim[2] \in Nat
    BY <2>2, ScanAssumption
  <2> QED
    BY <2>1, <2>2, <2>3
<1>4. samples \in Seq([idx : Nat, pixel : Rows \X (0..Width)])
  BY DEF TypeOK
<1>5. /\ samples' = Append(samples, s)
      /\ n \in Nat /\ DOMAIN samples = 1..n /\ DOMAIN samples' = 1..(n + 1)
      /\ samples'[n + 1] = s
      /\ \A i \in 1..n : samples'[i] = samples[i]
  BY <1>3, <1>4
<1>6. TypeOK'
  <2>1. samples' \in Seq([idx : Nat, pixel : Rows \X (0..Width)])
    BY <1>3, <1>4
  <2> QED
    BY <1>2, <2>1 DEF TypeOK
<1>7. AimInv'
  BY <1>2 DEF AimInv
<1>8. SamplesInv'
  <2>1. aim \in Pixels \/ scan = "ist"
    BY <1>1 DEF Pixels
  <2>2. ASSUME scan # "ist", NEW i \in 1..(n + 1)
        PROVE  LET t == samples'[i] IN
               /\ t.pixel \in Pixels
               /\ t.idx = t.pixel[1] * Width + t.pixel[2]
               /\ t.pixel = aim \/ Passed(t.pixel)
    <3>1. CASE i \in 1..n
      BY <2>2, <3>1, <1>1, <1>5 DEF SamplesInv
    <3>2. CASE i = n + 1
      BY <2>1, <2>2, <3>2, <1>3, <1>5
    <3> QED
      BY <3>1, <3>2, <1>5, <2>2
  <2>3. ASSUME NEW p \in Pixels, p = aim \/ Passed(p), pc' = "visit", scan # "ist"
        PROVE  Passed(p)'
    BY <2>3, <1>1, AdvancePasses
  <2>4. scan' = scan
    OBVIOUS
  <2> SUFFICES ASSUME scan # "ist", NEW i \in 1..(n + 1), pc' = "visit"
               PROVE  Passed(samples[i].pixel)'
    BY <1>2, <1>5, <2>2, <2>4 DEF SamplesInv
  <2> QED
    BY <2>2, <2>3
<1>9. DistinctInv'
  <2> SUFFICES ASSUME scan # "ist", NEW i \in 1..(n + 1), NEW j \in 1..(n + 1),
                      samples'[i].pixel = samples'[j].pixel
               PROVE  i = j
    BY <1>5 DEF DistinctInv
  <2>1. \A k \in 1..n : samples[k].pixel # aim
    <3>1. \A k \in 1..n : Passed(samples[k].pixel)
      BY <1>1, <1>5 DEF SamplesInv
    <3> QED
      BY <3>1, <1>1, NotPassedYet
  <2>2. i \in 1..n /\ j \in 1..n => i = j
    BY <1>5 DEF DistinctInv
  <2> QED
    BY <2>1, <2>2, <1>3, <1>5
<1>10. CoverInv'
  <2> SUFFICES ASSUME scan = "dumb", NEW p \in Pixels,
                      pc' = "done" \/ Passed(p)'
               PROVE  \E i \in 1..(n + 1) : samples'[i].pixel = p
    BY <1>5 DEF CoverInv
  <2>1. Passed(p) \/ p = aim
    BY <1>1, AdvanceMisses
  <2>2. Passed(p) => \E i \in 1..n : samples[i].pixel = p
    BY <1>5 DEF CoverInv
  <2> QED
    BY <2>1, <2>2, <1>3, <1>5
<1> QED
  BY <1>2, <1>6, <1>7, <1>8, <1>9, <1>10

(* The inductive step. *)
LEMMA StepInv ==
  ASSUME TypeOK, ScanInv, [Next]_vars
  PROVE  TypeOK' /\ ScanInv'
<1>1. CASE Skip
  <2> USE <1>1 DEF Skip, ScanInv
  <2>1. yy' \in Rows /\ xx' \in Columns /\ pc' \in {"visit", "fista", "done"}
        /\ RegionInv'
    BY AdvanceInv
  <2>2. TypeOK'
    BY <2>1 DEF TypeOK
  <2>3. AimInv' /\ DistinctInv'
    BY <2>1 DEF AimInv, DistinctInv
  <2>4. SamplesInv'
    <3> SUFFICES ASSUME scan # "ist", NEW i \in DOMAIN samples, pc' = "visit"
                 PROVE  Passed(samples[i].pixel)'
      BY <2>1 DEF SamplesInv
    <3> DEFINE p == samples[i].pixel
    <3>1. p \in Pixels /\ Passed(p) /\ p' = p
      BY DEF SamplesInv
    <3> QED
      BY <3>1, AdvancePasses
  <2>5. scan # "dumb"
    BY DEF Forced
  <2>6. CoverInv'
    BY <2>5 DEF CoverInv
  <2> QED
    BY <2>1, <2>2, <2>3, <2>4, <2>6
<1>2. CASE Goto
  <2> USE <1>2 DEF Goto, ScanInv
  <2>1. /\ aim' \in Rows \X (0..Width)
        /\ aim' = <<yy, HorizPixel(yy, xx)>>
        /\ HorizPixel(yy, xx)' = HorizPixel(yy, xx)
    BY HorizPixelType DEF TypeOK, HorizPixel
  <2>2. TypeOK'
    BY <2>1 DEF TypeOK
  <2>3. RegionInv' /\ AimInv' /\ DistinctInv'
    BY <2>1 DEF RegionInv, AimInv, DistinctInv
  <2>4. \A p : Passed(p)' <=> Passed(p)
    BY <2>1 DEF Passed
  <2>5. SamplesInv' /\ CoverInv'
    BY <2>4 DEF SamplesInv, CoverInv
  <2> QED
    BY <2>2, <2>3, <2>5
<1>3. CASE Store
  BY <1>3, StoreInv
<1>4. CASE Fista
  <2> USE <1>4 DEF Fista, ScanInv
  <2>1. scan = "ist"
    BY DEF RegionInv
  <2>2. TypeOK' /\ RegionInv' /\ AimInv'
    BY DEF TypeOK, RegionInv, AimInv
  <2>3. SamplesInv' /\ DistinctInv' /\ CoverInv'
    BY <2>1 DEF SamplesInv, DistinctInv, CoverInv
  <2> QED
    BY <2>2, <2>3
<1>5. CASE UNCHANGED vars
  <2> USE <1>5 DEF vars, ScanInv
  <2>1. \A p : Passed(p)' <=> Passed(p)
    BY DEF Passed, HorizPixel
  <2>2. TypeOK' /\ RegionInv' /\ AimInv'
    BY DEF TypeOK, RegionInv, AimInv, HorizPixel
  <2>3. SamplesInv' /\ DistinctInv' /\ CoverInv'
    BY <2>1 DEF SamplesInv, DistinctInv, CoverInv
  <2> QED
    BY <2>2, <2>3
<1> QED
  BY <1>1, <1>2, <1>3, <1>4, <1>5 DEF Next, Done

(***************************************************************************)
(* For a picture of any size and any choice of rand: the loops of the      *)
(* three scans (brain.c:59, 151 and 216) stay in their region, the column  *)
(* aimed at is one of the picture or the one after it, what dumbCamera and *)
(* getMeasurementsFromBranch have stored are pixels already passed, each   *)
(* once, and dumbCamera has stored all of those.                           *)
(***************************************************************************)
THEOREM ScanCorrect == Spec => [](TypeOK /\ ScanInv)
<1>1. TypeOK /\ ScanInv /\ [Next]_vars => (TypeOK /\ ScanInv)'
  BY StepInv
<1> QED
  BY InitInv, <1>1, PTL DEF Spec

(***************************************************************************)
(* For a picture of any size dumbCamera and getMeasurementsFromBranch      *)
(* store each reading at the index of its pixel and none over another one. *)
(***************************************************************************)
THEOREM ReadingsPlaced == Spec => []Placed
<1>1. TypeOK /\ ScanInv => Placed
  <2> SUFFICES ASSUME TypeOK, ScanInv, scan # "ist" PROVE Placed
    BY DEF Placed
  <2>1. ASSUME NEW i \in DOMAIN samples
        PROVE  /\ InPicture(samples[i])
               /\ samples[i].pixel[1] \in Rows /\ samples[i].pixel[2] \in Columns
               /\ samples[i].pixel = <<samples[i].pixel[1], samples[i].pixel[2]>>
               /\ samples[i].idx = samples[i].pixel[1] * Width
                                     + samples[i].pixel[2]
    <3>1. /\ samples[i].pixel \in Pixels
          /\ samples[i].idx = samples[i].pixel[1] * Width + samples[i].pixel[2]
      BY DEF ScanInv, SamplesInv
    <3>2. /\ samples[i].pixel[1] \in Rows /\ samples[i].pixel[2] \in Columns
          /\ samples[i].pixel = <<samples[i].pixel[1], samples[i].pixel[2]>>
      BY <3>1 DEF Pixels
    <3> QED
      BY <3>1, <3>2, IndexInRange DEF InPicture
  <2>2. ASSUME NEW i \in DOMAIN samples, NEW j \in DOMAIN samples,
               samples[i].idx = samples[j].idx
        PROVE  i = j
    <3>1. samples[i].pixel = samples[j].pixel
      BY <2>1, <2>2, IndexInjective
    <3> QED
      BY <3>1 DEF ScanInv, DistinctInv
  <2> QED
    BY <2>1, <2>2 DEF Placed
<1> QED
  BY <1>1, ScanCorrect, PTL

(* For a picture of any size dumbCamera ends with every pixel measured. *)
THEOREM PictureComplete == Spec => []Complete
<1>1. TypeOK /\ ScanInv => Complete
  BY DEF ScanInv, CoverInv, Complete
<1> QED
  BY <1>1, ScanCorrect, PTL

(* The loops do not lag behind the readings. *)
LEMMA AdvanceCount ==
  ASSUME TypeOK, RegionInv, Advance, UNCHANGED <<scan, region>>,
         NEW m \in Nat, m <= yy * Width + xx + 1
  PROVE  IF pc' \in {"visit", "read"} THEN m <= yy' * Width + xx'
         ELSE m <= Width * Height
<1>1. /\ Width \in Nat /\ Height \in Nat /\ yy \in Nat /\ xx \in Nat /\ yy + 1 <= Height
      /\ region.maxX <= Width /\ region.minX \in Nat /\ region.maxX \in Nat
      /\ region.maxY <= Height /\ region.maxY \in Nat
  BY RegionBounds, ScanAssumption DEF TypeOK, Rows, Columns
<1>2. yy * Width \in Nat /\ (yy + 1) * Width = yy * Width + Width
  BY <1>1
<1>3. CASE xx + 1 < region.maxX /\ xx' = xx + 1 /\ yy' = yy /\ pc' = "visit"
  BY <1>1, <1>2, <1>3
<1>4. CASE /\ xx + 1 = region.maxX /\ xx' = region.minX /\ yy' = yy + 1 /\ pc' = "visit"
  BY <1>1, <1>2, <1>4
<1>5. CASE /\ xx + 1 = region.maxX /\ pc' = IF scan = "ist" THEN "fista" ELSE "done"
  <2>1. yy \in Rows /\ Width - 1 \in Columns
    BY ScanAssumption DEF TypeOK, Columns
  <2>2. yy * Width + (Width - 1) \in 0..(Width * Height - 1)
    BY <2>1, IndexInRange
  <2>3. Width * Height \in Nat
    BY <1>1
  <2> QED
    BY <1>1, <1>2, <1>5, <2>2, <2>3
<1> QED
  BY <1>3, <1>4, <1>5, AdvanceCases

LEMMA CountStep ==
  ASSUME TypeOK, ScanInv, CountInv, [Next]_vars
  PROVE  CountInv'
<1> USE DEF CountInv, ScanInv
<1>1. /\ Len(samples) \in Nat /\ yy * Width + xx \in Nat
      /\ samples \in Seq([idx : Nat, pixel : Rows \X (0..Width)])
  BY ScanAssumption DEF TypeOK, Rows, Columns
<1>2. CASE Skip
  <2>1. Len(samples) <= yy * Width + xx + 1
    BY <1>1, <1>2 DEF Skip
  <2> QED
    BY <1>1, <1>2, <2>1, AdvanceCount DEF Skip
<1>3. CASE Goto
  BY <1>3 DEF Goto
<1>4. CASE Store
  <2>1. Len(samples') = Len(samples) + 1
    BY <1>1, <1>4 DEF Store
  <2>2. Len(samples') <= yy * Width + xx + 1 /\ Len(samples') \in Nat
    BY <1>1, <1>4, <2>1 DEF Store
  <2> QED
    BY <1>4, <2>2, AdvanceCount DEF Store
<1>5. CASE Fista
  BY <1>5 DEF Fista
<1>6. CASE UNCHANGED vars
  BY <1>6 DEF vars
<1> QED
  BY <1>2, <1>3, <1>4, <1>5, <1>6 DEF Next, Done

(***************************************************************************)
(* For a picture of any size and any choice of rand there is a place for   *)
(* every reading in the arrays of n entries that mainIST allocates.        *)
(***************************************************************************)
THEOREM ReadingsFit == Spec => []SamplesFit
<1>1. Init => CountInv
  <2> SUFFICES ASSUME Init PROVE CountInv
    OBVIOUS
  <2>1. TypeOK
    BY InitInv
  <2>2. yy * Width + xx \in 0..(Width * Height - 1)
    BY <2>1, IndexInRange DEF TypeOK
  <2> QED
    BY <2>2 DEF Init, CountInv
<1>2. TypeOK /\ ScanInv /\ CountInv => SamplesFit
  <2> SUFFICES ASSUME TypeOK, ScanInv, CountInv PROVE SamplesFit
    OBVIOUS
  <2>1. yy * Width + xx \in 0..(Width * Height - 1)
    BY IndexInRange DEF TypeOK
  <2>2. Len(samples) \in Nat /\ Width * Height \in Nat
    BY ScanAssumption DEF TypeOK
  <2> QED
    BY <2>1, <2>2 DEF CountInv, SamplesFit
<1>3. TypeOK /\ ScanInv /\ CountInv /\ [Next]_vars => CountInv'
  BY CountStep
<1> QED
  BY <1>1, <1>2, <1>3, ScanCorrect, PTL DEF Spec

(* From one pixel of dumbCamera to the next is one pixel. *)
LEMMA NearStep ==
  ASSUME TypeOK, ScanInv, NearInv, [Next]_vars
  PROVE  NearInv'
<1> USE DEF NearInv, ScanInv
<1>1. CASE Store
  <2> SUFFICES ASSUME scan = "dumb", pc' = "visit"
               PROVE  Near(aim, <<yy, HorizPixel(yy, xx)>>')
    BY <1>1 DEF Store
  <2>1. aim = <<yy, HorizPixel(yy, xx)>>
    BY <1>1 DEF Store, AimInv
  <2>2. /\ region.minX = 0 /\ region.maxX = Width /\ Width \in Nat
        /\ yy \in Nat /\ xx \in Nat /\ scan' = scan /\ region' = region
    BY <1>1, RegionBounds, ScanAssumption DEF TypeOK, Rows, Columns, Store
  <2>3. CASE xx' = xx + 1 /\ yy' = yy
    BY <2>1, <2>2, <2>3 DEF Near, HorizPixel
  <2>4. CASE xx + 1 = Width /\ xx' = 0 /\ yy' = yy + 1
    <3>1. HorizPixel(yy, xx)' = HorizPixel(yy, xx)
      BY <2>2, <2>4 DEF HorizPixel
    <3> QED
      BY <2>1, <2>2, <2>4, <3>1 DEF Near
  <2> QED
    BY <1>1, <2>2, <2>3, <2>4, AdvanceCases DEF Store
<1>2. CASE Skip
  BY <1>2 DEF Skip, Forced
<1>3. CASE Goto \/ Fista
  BY <1>3 DEF Goto, Fista
<1>4. CASE UNCHANGED vars
  BY <1>4 DEF vars, Near, HorizPixel
<1> QED
  BY <1>1, <1>2, <1>3, <1>4 DEF Next, Done

(***************************************************************************)
(* For a picture of any size dumbCamera moves by at most one pixel, at the *)
(* turns of its rows too.                                                  *)
(***************************************************************************)
THEOREM MovesShort == Spec => ShortMoves
<1>1. Init => NearInv
  BY DEF Init, NearInv
<1>2. TypeOK /\ ScanInv /\ NearInv /\ [Next]_vars => NearInv'
  BY NearStep
<1>3. TypeOK /\ ScanInv /\ NearInv /\ [Next]_vars
        => [scan = "dumb" /\ samples # <<>> => Near(aim, aim')]_vars
  <2> SUFFICES ASSUME TypeOK, NearInv, Next, scan = "dumb", samples # <<>>
               PROVE  Near(aim, aim')
    OBVIOUS
  <2>1. CASE Goto
    BY <2>1 DEF Goto, NearInv
  <2>2. CASE aim' = aim
    BY <2>2 DEF Near, TypeOK, Rows
  <2> QED
    BY <2>1, <2>2 DEF Next, Skip, Store, Fista, Done, vars
<1> QED
  BY <1>1, <1>2, <1>3, ScanCorrect, PTL DEF Spec, ShortMoves
=============================================================================
