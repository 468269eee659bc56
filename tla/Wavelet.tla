-------------------------------- MODULE Wavelet --------------------------------
(***************************************************************************)
(* The Haar transform of brain.c: dwt and idwt of one line, dwt2 and idwt2 *)
(* of the rows and then the columns of a picture, and what dwt2_full and   *)
(* idwt2_full do at one level, in the corner of a picture that they        *)
(* overwrite.  A picture is an array over 0..n-1, row after row.           *)
(*                                                                         *)
(* The two divisions by sqrt(2) that every coefficient undergoes in a level *)
(* are one division by 2 here; see Fista for why it leaves no rest.        *)
(***************************************************************************)
EXTENDS Integers

(* A shift to the right divides by it: width>>k is width \div Pow2[k]. *)
Pow2[n \in Nat] == IF n = 0 THEN 1 ELSE 2 * Pow2[n - 1]

GetRow(in, row, w) == [x \in 0..(w - 1) |-> in[row * w + x]]

GetCol(in, col, w, h) == [y \in 0..(h - 1) |-> in[y * w + col]]

Dwt(x, N) ==
  LET l == N \div 2 IN
  [i \in 0..(N - 1) |-> IF i < l THEN x[2 * i] + x[2 * i + 1]
                        ELSE x[2 * (i - l)] - x[2 * (i - l) + 1]]

Idwt(x, N) ==
  LET le == N \div 2 IN
  [i \in 0..(N - 1) |-> IF i % 2 = 0 THEN x[i \div 2] + x[i \div 2 + le]
                        ELSE x[i \div 2] - x[i \div 2 + le]]

Halved(x) == [i \in DOMAIN x |-> x[i] \div 2]

(* A transform of the lines, applied to the rows and then to the columns,   *)
(* each put back where it was taken from.                                  *)
AlongRows(T(_, _), x, w, h) ==
  LET rows == [row \in 0..(h - 1) |-> T(GetRow(x, row, w), w)] IN
  [i \in 0..(w * h - 1) |-> rows[i \div w][i % w]]

AlongColumns(T(_, _), x, w, h) ==
  LET cols == [col \in 0..(w - 1) |-> T(GetCol(x, col, w, h), h)] IN
  [i \in 0..(w * h - 1) |-> cols[i % w][i \div w]]

Dwt2(x, w, h)  == Halved(AlongColumns(Dwt, AlongRows(Dwt, x, w, h), w, h))
Idwt2(x, w, h) == Halved(AlongColumns(Idwt, AlongRows(Idwt, x, w, h), w, h))

(***************************************************************************)
(* Faults: what the code might plausibly have done instead.  Each breaks a *)
(* property of Fista; none is part of the specification.                   *)
(***************************************************************************)
CopyPartsPacked(in, maxX, maxY, w) ==         \* the start of the array, not the corner
  [i \in 0..(maxX * maxY - 1) |-> in[i]]

CopyPartsInverseCut(in, out, maxX, maxY, w) == in        \* the rest is lost

(* copyPartsOfArray and copyPartsOfArrayInverse: the corner, and back. *)
CopyParts(in, maxX, maxY, w) ==
  [i \in 0..(maxX * maxY - 1) |-> in[(i \div maxX) * w + (i % maxX)]]

CopyPartsInverse(in, out, maxX, maxY, w) ==
  [i \in DOMAIN out |-> IF i % w < maxX /\ i \div w < maxY
                        THEN in[(i \div w) * maxX + (i % w)] ELSE out[i]]

(* One turn of the loops of dwt2_full and idwt2_full, on a w x w picture.  *)
DwtLevel(x, w, k) ==
  LET s == w \div Pow2[k] IN
  CopyPartsInverse(Dwt2(CopyParts(x, s, s, w), s, s), x, s, s, w)

IdwtLevelLate(x, w, k) ==                     \* a fault: k where it is k-1
  LET s == w \div Pow2[k] IN
  CopyPartsInverse(Idwt2(CopyParts(x, s, s, w), s, s), x, s, s, w)

IdwtLevel(x, w, k) ==
  LET s == w \div Pow2[k - 1] IN
  CopyPartsInverse(Idwt2(CopyParts(x, s, s, w), s, s), x, s, s, w)
=============================================================================
