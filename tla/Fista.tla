--------------------------------- MODULE Fista ---------------------------------
(***************************************************************************)
(* FISTA of brain.c: from the readings y of the pixels idx, iterations on  *)
(* the wavelet coefficients xold of a picture that is to fit them and to   *)
(* have few coefficients.  The transforms work level by level in place, in *)
(* t1 and temp3.  ISTcomplete holds the same loop for a picture it makes   *)
(* up itself.                                                              *)
(*                                                                         *)
(* Numbers are multiples of 1/Scale: a reading is a multiple of Scale, each *)
(* of the 2 * Order levels of an iteration (and the Order levels at the    *)
(* end) halves once, and Scale allows for all of them.                     *)
(***************************************************************************)
EXTENDS Wavelet, Sequences, FiniteSetsExt

CONSTANTS
  Order,           (* width = height = 2^Order                              *)
  Its,             (* iterations: 400 in mainIST                            *)
  Cut,             (* CUT, a whole number                                   *)
  Samplings,       (* the possible idx[0..upper-1]                          *)
  Readings         (* the possible elements of y                            *)

N == Pow2[Order]
Places == 0..(N * N - 1)
Scale == Pow2[Order * (2 * Its + 1)]

ASSUME FistaAssumption ==
  /\ Order \in Nat /\ Its \in Nat /\ Cut \in Nat
  /\ Samplings \subseteq Seq(Places) /\ Readings \subseteq Int

VARIABLES
  idx, y,          (* the pixels that were read, and the readings           *)
  pc,              (* where in the loop's body                              *)
  k,               (* iterations done                                       *)
  level,           (* of the transform that is under way                    *)
  xold, xold1,     (* the coefficients, and those before this iteration     *)
  t1,              (* the picture that xold stands for                      *)
  temp3            (* the misfit at the pixels that were read               *)

vars == <<idx, y, pc, k, level, xold, xold1, t1, temp3>>

Zeros == [i \in Places |-> 0]

Magnitude(a) == IF a < 0 THEN -a ELSE a
Sign(a) == IF a < 0 THEN -1 ELSE IF a > 0 THEN 1 ELSE 0

(* The entry of idx that is written last for a pixel, as temp3 is filled.  *)
LastFor(p) == Max({i \in DOMAIN idx : idx[i] = p})

Sampled == {idx[i] : i \in DOMAIN idx}

(***************************************************************************)
(* Fault: what the code might plausibly have done instead.  It breaks a    *)
(* property below and is not part of the specification.                    *)
(***************************************************************************)
ThresholdedUp(a) ==              \* the sign forgotten
  IF Magnitude(a) \div Scale < Cut THEN 0 ELSE a - Cut * Scale

Misfit(picture) ==
  [p \in Places |-> IF p \in Sampled THEN y[LastFor(p)] - picture[p] ELSE 0]

(* abs is the one of the integers: the fraction is cut off before it.      *)
Thresholded(a) ==
  IF Magnitude(a) \div Scale < Cut THEN 0 ELSE a - Sign(a) * Cut * Scale
-----------------------------------------------------------------------------
Init ==
  /\ idx \in Samplings
  /\ y \in [DOMAIN idx -> {r * Scale : r \in Readings}]
  /\ pc = "extrapolate" /\ k = 0 /\ level = 0
  /\ xold = Zeros /\ xold1 = Zeros /\ t1 = Zeros /\ temp3 = Zeros

(* xold += (tn-1)/tn1 * (xold - xold1), by which FISTA differs from IST.    *)
(* The factor is about k/(k+3); it does not matter, as the difference is 0. *)
Extrapolate ==
  /\ pc = "extrapolate" /\ k < Its
  /\ xold' = [i \in Places |-> xold[i] + (k * (xold[i] - xold1[i])) \div (k + 3)]
  /\ t1' = xold' /\ level' = Order
  /\ pc' = "synthesise"
  /\ UNCHANGED <<idx, y, k, xold1, temp3>>

Synthesise ==                    \* a level of idwt2_full(t1)
  /\ pc = "synthesise" /\ level > 0
  /\ t1' = IdwtLevel(t1, N, level)
  /\ level' = level - 1
  /\ UNCHANGED <<idx, y, pc, k, xold, xold1, temp3>>

Compare ==                       \* copySelectedInstances, temp2, temp3
  /\ pc = "synthesise" /\ level = 0
  /\ temp3' = Misfit(t1)
  /\ pc' = "analyse"
  /\ UNCHANGED <<idx, y, k, level, xold, xold1, t1>>

Analyse ==                       \* a level of dwt2_full(temp3)
  /\ pc = "analyse" /\ level < Order
  /\ temp3' = DwtLevel(temp3, N, level)
  /\ level' = level + 1
  /\ UNCHANGED <<idx, y, pc, k, xold, xold1, t1>>

Correct ==                       \* the step, and the soft threshold
  /\ pc = "analyse" /\ level = Order
  /\ xold' = [i \in Places |-> Thresholded(temp3[i] + xold[i])]
  /\ xold1' = xold'
  /\ k' = k + 1 /\ level' = 0
  /\ pc' = "extrapolate"
  /\ UNCHANGED <<idx, y, t1, temp3>>

Finish ==                        \* the picture is left in xold
  /\ pc = "extrapolate" /\ k = Its
  /\ level' = Order
  /\ pc' = "picture"
  /\ UNCHANGED <<idx, y, k, xold, xold1, t1, temp3>>

Picture ==                       \* a level of idwt2_full(xold)
  /\ pc = "picture" /\ level > 0
  /\ xold' = IdwtLevel(xold, N, level)
  /\ level' = level - 1
  /\ UNCHANGED <<idx, y, pc, k, xold1, t1, temp3>>

Next == Extrapolate \/ Synthesise \/ Compare \/ Analyse \/ Correct \/ Finish \/ Picture

Spec == Init /\ [][Next]_vars
-----------------------------------------------------------------------------
(***************************************************************************)
(* The reference: the Haar wavelets of a picture, one for each place i of  *)
(* the coefficients.  With (r, c) its row and column, i belongs to the size *)
(* s = 2^j for which (r, c) is in the corner of size 2s and not in that of *)
(* size s; the wavelet covers a block of N/s by N/s pixels, with a minus in *)
(* the lower half of the block if r is beyond s and in the right half if c *)
(* is.  Divided by the side of the block, they are orthonormal: the same   *)
(* signs lead to the coefficients and back.                                *)
(***************************************************************************)
SizeOf(i) == Max({1} \cup {Pow2[j] : j \in {l \in 0..(Order - 1) : Pow2[l] <= i \div N \/ Pow2[l] <= i % N}})

Wave(i, p) ==
  LET s == SizeOf(i)
      b == N \div s
      Half(place, pixel) ==
        IF place % s # pixel \div b THEN 0
        ELSE IF place >= s /\ 2 * (pixel % b) >= b THEN -1 ELSE 1
  IN Half(i \div N, p \div N) * Half(i % N, p % N)

Waves == [i \in Places |-> [p \in Places |-> Wave(i, p)]]

HaarOf(picture) ==
  [i \in Places |-> SumFunction([p \in Places |-> Waves[i][p] * picture[p] * SizeOf(i)]) \div N]

PictureOf(coefficients) ==
  [p \in Places |->
     SumFunction([i \in Places |-> Waves[i][p] * coefficients[i] * SizeOf(i)]) \div N]

(* Twice what FISTA minimises, in units of 1/Scale^2. *)
Objective(coefficients) ==
  LET misfit == Misfit(PictureOf(coefficients)) IN
  SumFunction([p \in Sampled |-> misfit[p] * misfit[p]])
  + 2 * Cut * Scale * SumFunction([i \in Places |-> Magnitude(coefficients[i])])
-----------------------------------------------------------------------------
(* Every variable stays in its range, the arrays keep their size. *)
TypeOK ==
  /\ idx \in Samplings /\ DOMAIN y = DOMAIN idx
  /\ pc \in {"extrapolate", "synthesise", "analyse", "picture"}
  /\ k \in 0..Its /\ level \in 0..Order
  /\ \A a \in {xold, xold1, t1, temp3} : a \in [Places -> Int]

(***************************************************************************)
(* dwt2_full, which works level by level in a corner of its own result,    *)
(* computes the Haar coefficients of what it is given ...                  *)
(***************************************************************************)
Analysed == (pc = "analyse" /\ level = Order) => temp3 = HaarOf(Misfit(t1))

(***************************************************************************)
(* ... and idwt2_full the picture that has these coefficients, in the loop *)
(* and at its end (xold1 still holds the coefficients then).               *)
(***************************************************************************)
Synthesised ==
  /\ (pc = "synthesise" /\ level = 0) => t1 = PictureOf(xold)
  /\ (pc = "picture" /\ level = 0) => xold = PictureOf(xold1)

(***************************************************************************)
(* No iteration makes the fit worse: neither the step, which has the length *)
(* 1 because the transform keeps lengths, nor the threshold, nor a pixel   *)
(* that is in idx twice, whose last reading counts.                        *)
(***************************************************************************)
Descent == [][k' = k + 1 => Objective(xold') <= Objective(xold1)]_vars
=============================================================================
