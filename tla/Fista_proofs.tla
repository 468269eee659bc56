----------------------------- MODULE Fista_proofs -----------------------------
(***************************************************************************)
(* The transforms of Wavelet and the iterations of Fista, for lines and     *)
(* pictures of any size, any number of iterations and any readings: TLC    *)
(* runs Fista on pictures of 4 x 4.                                        *)
(***************************************************************************)
EXTENDS Fista, FiniteSetTheorems, WellFoundedInduction, TLAPS

(* A set of naturals that is not empty has a least element. *)
LEMMA Least ==
  ASSUME NEW T \in SUBSET Nat, T # {}
  PROVE  \E m \in T : \A n \in T : m <= n
<1> DEFINE R == OpToRel(<, Nat)
<1>1. IsWellFoundedOn(R, Nat)
  BY NatLessThanWellFounded
<1>2. PICK m \in T : \A n \in Nat : <<n, m>> \in R => n \notin T
  <2> HIDE DEF R
  <2>1. PICK x : x \in T
    OBVIOUS
  <2>2. \E m \in T : \A n \in Nat : <<n, m>> \in R => ~(n \in T)
    BY <1>1, <2>1, WFMin
  <2> QED
    BY <2>2
<1>3. ASSUME NEW n \in T PROVE m <= n
  <2>1. m \in Nat /\ n \in Nat
    OBVIOUS
  <2>2. n < m => <<n, m>> \in R
    BY <2>1 DEF OpToRel
  <2> HIDE DEF R
  <2> QED
    BY <1>2, <2>1, <2>2
<1> QED
  BY <1>3

(* Induction, with the set of the numbers for which the claim holds. *)
LEMMA Induction ==
  ASSUME NEW S, 0 \in S, \A n \in Nat : n \in S => n + 1 \in S
  PROVE  Nat \subseteq S
<1> DEFINE T == {n \in Nat : n \notin S}
<1>1. SUFFICES ASSUME T # {} PROVE FALSE
  OBVIOUS
<1>2. PICK m \in T : \A n \in T : m <= n
  BY <1>1, Least
<1>3. m # 0 /\ m - 1 \in Nat /\ m - 1 \notin T
  BY <1>2
<1> QED
  BY <1>3

LEMMA InductionEach ==
  ASSUME NEW S, 0 \in S, \A n \in Nat : n \in S => n + 1 \in S, NEW n \in Nat
  PROVE  n \in S
  BY Induction

-----------------------------------------------------------------------------
(* Powers of two: the recursion of Pow2 has a solution, built up from the  *)
(* ones for 0..n.                                                          *)
IsPow(f, n) == /\ f \in [0..n -> Nat] /\ f[0] = 1
               /\ \A i \in 0..(n - 1) : f[i + 1] = 2 * f[i]

LEMMA PowExists == ASSUME NEW n \in Nat PROVE \E f : IsPow(f, n)
<1> DEFINE S == {m \in Nat : \E f : IsPow(f, m)}
<1>1. 0 \in S
  <2>1. IsPow([i \in 0..0 |-> 1], 0)
    BY DEF IsPow
  <2> QED
    BY <2>1
<1>2. ASSUME NEW m \in Nat, m \in S PROVE m + 1 \in S
  <2>1. PICK f : IsPow(f, m)
    BY <1>2
  <2> DEFINE g == [i \in 0..(m + 1) |-> IF i = m + 1 THEN 2 * f[m] ELSE f[i]]
  <2>2. f \in [0..m -> Nat] /\ f[0] = 1 /\ \A i \in 0..(m - 1) : f[i + 1] = 2 * f[i]
    BY <2>1 DEF IsPow
  <2>3. g \in [0..(m + 1) -> Nat] /\ g[0] = 1
    BY <2>2
  <2>4. ASSUME NEW i \in 0..((m + 1) - 1) PROVE g[i + 1] = 2 * g[i]
    <3>1. CASE i = m
      BY <2>2, <3>1
    <3>2. CASE i # m
      BY <2>2, <3>2
    <3> QED
      BY <3>1, <3>2
  <2>5. IsPow(g, m + 1)
    BY <2>3, <2>4 DEF IsPow
  <2> QED
    BY <2>5
<1> HIDE DEF S
<1>3. n \in S
  BY <1>1, <1>2, InductionEach
<1> QED
  BY <1>3 DEF S

LEMMA PowUnique ==
  ASSUME NEW m \in Nat, NEW n \in Nat, NEW f, NEW g, IsPow(f, m), IsPow(g, n),
         NEW i \in Nat, i <= m, i <= n
  PROVE  f[i] = g[i]
<1> DEFINE S == {j \in Nat : j <= m /\ j <= n => f[j] = g[j]}
<1>1. 0 \in S
  BY DEF IsPow
<1>2. ASSUME NEW j \in Nat, j \in S PROVE j + 1 \in S
  <2>1. SUFFICES ASSUME j + 1 <= m, j + 1 <= n PROVE f[j + 1] = g[j + 1]
    OBVIOUS
  <2>2. f[j] = g[j] /\ j \in 0..(m - 1) /\ j \in 0..(n - 1)
    BY <1>2, <2>1
  <2> QED
    BY <2>2 DEF IsPow
<1> HIDE DEF S
<1>3. i \in S
  BY <1>1, <1>2, InductionEach
<1> QED
  BY <1>3 DEF S

LEMMA Pow2Facts ==
  /\ Pow2[0] = 1
  /\ \A n \in Nat : Pow2[n + 1] = 2 * Pow2[n] /\ Pow2[n] \in Nat
<1> DEFINE f(n) == CHOOSE g : IsPow(g, n)
           F == [n \in Nat |-> f(n)[n]]
           Rule(G) == G = [n \in Nat |-> IF n = 0 THEN 1 ELSE 2 * G[n - 1]]
<1>1. \A n \in Nat : IsPow(f(n), n)
  BY PowExists
<1> HIDE DEF f
<1>2. \A n \in Nat : F[n] = f(n)[n]
  OBVIOUS
<1>3. F[0] = 1
  BY <1>1 DEF IsPow
<1>4. ASSUME NEW n \in Nat PROVE F[n] \in Nat /\ F[n + 1] = 2 * F[n]
  <2>1. IsPow(f(n), n) /\ IsPow(f(n + 1), n + 1)
    BY <1>1
  <2>2. f(n + 1)[n] = f(n)[n]
    BY <2>1, PowUnique
  <2>3. f(n + 1)[n + 1] = 2 * f(n + 1)[n] /\ f(n)[n] \in Nat
    BY <2>1 DEF IsPow
  <2> QED
    BY <1>2, <2>2, <2>3
<1>5. \A n \in Nat : F[n] = IF n = 0 THEN 1 ELSE 2 * F[n - 1]
  <2>1. SUFFICES ASSUME NEW n \in Nat, n # 0 PROVE F[n] = 2 * F[n - 1]
    BY <1>3
  <2>2. n - 1 \in Nat /\ (n - 1) + 1 = n
    BY <2>1
  <2> QED
    BY <1>4, <2>2
<1>6. Rule(F)
  <2>1. F = [n \in Nat |-> F[n]]
    OBVIOUS
  <2> HIDE DEF F
  <2> QED
    BY <1>5, <2>1
<1> HIDE DEF F
<1>7. Pow2 = CHOOSE G : Rule(G)
  BY DEF Pow2
<1>8. Rule(Pow2)
  BY <1>6, <1>7
<1>9. \A n \in Nat : Pow2[n] = IF n = 0 THEN 1 ELSE 2 * Pow2[n - 1]
  BY <1>8
<1>10. \A n \in Nat : Pow2[n + 1] = 2 * Pow2[n]
  <2>1. ASSUME NEW n \in Nat PROVE n + 1 \in Nat /\ n + 1 # 0 /\ (n + 1) - 1 = n
    OBVIOUS
  <2> QED
    BY <1>9, <2>1
<1> DEFINE S == {n \in Nat : Pow2[n] \in Nat}
<1>11. 0 \in S /\ \A n \in Nat : n \in S => n + 1 \in S
  BY <1>9, <1>10
<1>12. \A n \in Nat : Pow2[n] \in Nat
  <2> HIDE DEF S
  <2>1. Nat \subseteq S
    BY <1>11, Induction
  <2> QED
    BY <2>1 DEF S
<1> QED
  BY <1>9, <1>10, <1>12
-----------------------------------------------------------------------------
LEMMA ProductNat == ASSUME NEW a \in Nat, NEW b \in Nat PROVE a * b \in Nat
  OBVIOUS

Lines(n) == [0..(n - 1) -> Int]

LEMMA HalfOf ==
  ASSUME NEW i \in Nat
  PROVE  /\ i \div 2 \in Nat /\ i % 2 \in {0, 1} /\ i = 2 * (i \div 2) + (i % 2)
  OBVIOUS

(***************************************************************************)
(* idwt undoes dwt: the two together multiply every pixel by two, which    *)
(* the divisions by the root of two in both take away again.               *)
(***************************************************************************)
THEOREM LineInverse ==
  ASSUME NEW l \in Nat, NEW x \in Lines(2 * l)
  PROVE  \A i \in 0..(2 * l - 1) : Idwt(Dwt(x, 2 * l), 2 * l)[i] = 2 * x[i]
<1> DEFINE n == 2 * l
           d == Dwt(x, n)
<1>1. n \div 2 = l
  OBVIOUS
<1>2. d = [i \in 0..(n - 1) |-> IF i < l THEN x[2 * i] + x[2 * i + 1]
                                ELSE x[2 * (i - l)] - x[2 * (i - l) + 1]]
  BY <1>1 DEF Dwt
<1>3. \A j \in 0..(l - 1) : d[j] = x[2 * j] + x[2 * j + 1] /\ d[j + l] = x[2 * j] - x[2 * j + 1]
  BY <1>2
<1>4. SUFFICES ASSUME NEW i \in 0..(n - 1) PROVE Idwt(d, n)[i] = 2 * x[i]
  OBVIOUS
<1>5. Idwt(d, n)[i] = IF i % 2 = 0 THEN d[i \div 2] + d[i \div 2 + l] ELSE d[i \div 2] - d[i \div 2 + l]
  BY <1>1 DEF Idwt
<1>6. i \div 2 \in 0..(l - 1) /\ i % 2 \in {0, 1} /\ i = 2 * (i \div 2) + (i % 2)
  BY HalfOf
<1>7. x[2 * (i \div 2)] \in Int /\ x[2 * (i \div 2) + 1] \in Int
  BY <1>6 DEF Lines
<1>8. QED
  BY <1>3, <1>5, <1>6, <1>7

(* ... and dwt undoes idwt: no two pictures have the same coefficients, and *)
(* every choice of coefficients is that of a line (times two).             *)
THEOREM CoefficientInverse ==
  ASSUME NEW l \in Nat, NEW x \in Lines(2 * l)
  PROVE  \A i \in 0..(2 * l - 1) : Dwt(Idwt(x, 2 * l), 2 * l)[i] = 2 * x[i]
<1> DEFINE n == 2 * l
           e == Idwt(x, n)
<1>1. n \div 2 = l
  OBVIOUS
<1>2. e = [i \in 0..(n - 1) |-> IF i % 2 = 0 THEN x[i \div 2] + x[i \div 2 + l]
                                ELSE x[i \div 2] - x[i \div 2 + l]]
  BY <1>1 DEF Idwt
<1>3. ASSUME NEW j \in 0..(l - 1)
      PROVE  e[2 * j] = x[j] + x[j + l] /\ e[2 * j + 1] = x[j] - x[j + l]
  <2>1. /\ 2 * j \in 0..(n - 1) /\ (2 * j) % 2 = 0 /\ (2 * j) \div 2 = j
        /\ 2 * j + 1 \in 0..(n - 1) /\ (2 * j + 1) % 2 = 1 /\ (2 * j + 1) \div 2 = j
    OBVIOUS
  <2>2. e[2 * j] = x[j] + x[j + l]
    BY <1>2, <2>1
  <2>3. e[2 * j + 1] = x[j] - x[j + l]
    <3>1. ASSUME NEW q \in 0..(n - 1), q % 2 = 1, q \div 2 = j
          PROVE  e[q] = x[j] - x[j + l]
      <4>1. e[q] = IF q % 2 = 0 THEN x[q \div 2] + x[q \div 2 + l]
                               ELSE x[q \div 2] - x[q \div 2 + l]
        BY <1>2
      <4>2. ~(q % 2 = 0)
        BY <3>1
      <4>3. QED
        BY <3>1, <4>1, <4>2
    <3>2. QED
      BY <3>1, <2>1
  <2>4. QED
    BY <2>2, <2>3
<1>4. SUFFICES ASSUME NEW i \in 0..(n - 1) PROVE Dwt(e, n)[i] = 2 * x[i]
  OBVIOUS
<1>5. Dwt(e, n)[i] = IF i < l THEN e[2 * i] + e[2 * i + 1]
                     ELSE e[2 * (i - l)] - e[2 * (i - l) + 1]
  BY <1>1 DEF Dwt
<1>6. x[i] \in Int
  BY DEF Lines
<1>7. CASE i < l
  <2>1. i \in 0..(l - 1) /\ x[i + l] \in Int
    BY <1>7 DEF Lines
  <2>2. QED
    BY <1>3, <1>5, <1>6, <1>7, <2>1
<1>8. CASE i >= l
  <2>1. i - l \in 0..(l - 1) /\ x[i - l] \in Int /\ (i - l) + l = i
    BY <1>8 DEF Lines
  <2>2. QED
    BY <1>3, <1>5, <1>6, <1>8, <2>1
<1>9. QED
  BY <1>7, <1>8
-----------------------------------------------------------------------------
(* Lines. *)
LEMMA DwtLine ==
  ASSUME NEW m \in Nat, NEW x \in Lines(2 * m)
  PROVE  /\ Dwt(x, 2 * m) \in Lines(2 * m)
         /\ \A j \in 0..(m - 1) : /\ Dwt(x, 2 * m)[j] = x[2 * j] + x[2 * j + 1]
                                 /\ Dwt(x, 2 * m)[j + m] = x[2 * j] - x[2 * j + 1]
<1> DEFINE d == Dwt(x, 2 * m)
<1>1. (2 * m) \div 2 = m
  OBVIOUS
<1>2. d = [i \in 0..(2 * m - 1) |-> IF i < m THEN x[2 * i] + x[2 * i + 1]
                                    ELSE x[2 * (i - m)] - x[2 * (i - m) + 1]]
  BY <1>1 DEF Dwt
<1>3. d \in Lines(2 * m)
  <2>1. ASSUME NEW i \in 0..(2 * m - 1)
        PROVE  (IF i < m THEN x[2 * i] + x[2 * i + 1] ELSE x[2 * (i - m)] - x[2 * (i - m) + 1]) \in Int
    <3>1. CASE i < m
      BY <3>1 DEF Lines
    <3>2. CASE i >= m
      BY <3>2 DEF Lines
    <3> QED
      BY <3>1, <3>2
  <2> QED
    BY <1>2, <2>1 DEF Lines
<1>4. \A j \in 0..(m - 1) : d[j] = x[2 * j] + x[2 * j + 1] /\ d[j + m] = x[2 * j] - x[2 * j + 1]
  BY <1>2
<1> QED
  BY <1>3, <1>4

LEMMA IdwtLine ==
  ASSUME NEW m \in Nat, NEW x \in Lines(2 * m)
  PROVE  /\ Idwt(x, 2 * m) \in Lines(2 * m)
         /\ \A j \in 0..(m - 1) : /\ Idwt(x, 2 * m)[2 * j] = x[j] + x[j + m]
                                 /\ Idwt(x, 2 * m)[2 * j + 1] = x[j] - x[j + m]
<1> DEFINE e == Idwt(x, 2 * m)
<1>1. (2 * m) \div 2 = m
  OBVIOUS
<1>2. e = [i \in 0..(2 * m - 1) |-> IF i % 2 = 0 THEN x[i \div 2] + x[i \div 2 + m]
                                    ELSE x[i \div 2] - x[i \div 2 + m]]
  BY <1>1 DEF Idwt
<1>3. e \in Lines(2 * m)
  <2>1. ASSUME NEW i \in 0..(2 * m - 1)
        PROVE  x[i \div 2] \in Int /\ x[i \div 2 + m] \in Int
    BY HalfOf DEF Lines
  <2>2. ASSUME NEW i \in 0..(2 * m - 1)
        PROVE  (IF i % 2 = 0 THEN x[i \div 2] + x[i \div 2 + m] ELSE x[i \div 2] - x[i \div 2 + m]) \in Int
    BY <2>1
  <2> HIDE DEF e
  <2> QED
    BY <1>2, <2>2 DEF Lines
<1>4. ASSUME NEW j \in 0..(m - 1)
      PROVE  e[2 * j] = x[j] + x[j + m] /\ e[2 * j + 1] = x[j] - x[j + m]
  <2>1. /\ 2 * j \in 0..(2 * m - 1) /\ (2 * j) % 2 = 0 /\ (2 * j) \div 2 = j
        /\ 2 * j + 1 \in 0..(2 * m - 1) /\ (2 * j + 1) % 2 = 1 /\ (2 * j + 1) \div 2 = j
    OBVIOUS
  <2>2. e[2 * j] = x[j] + x[j + m]
    BY <1>2, <2>1
  <2>3. ASSUME NEW q \in 0..(2 * m - 1), q % 2 = 1, q \div 2 = j
        PROVE  e[q] = x[j] - x[j + m]
    <3>1. e[q] = IF q % 2 = 0 THEN x[q \div 2] + x[q \div 2 + m] ELSE x[q \div 2] - x[q \div 2 + m]
      BY <1>2
    <3>2. ~(q % 2 = 0)
      BY <2>3
    <3> QED
      BY <2>3, <3>1, <3>2
  <2> QED
    BY <2>1, <2>2, <2>3
<1> QED
  BY <1>3, <1>4
-----------------------------------------------------------------------------
(* Places of a picture with rows of w pixels. *)
LEMMA CellIn ==
  ASSUME NEW w \in Nat, NEW h \in Nat, NEW r \in 0..(h - 1), NEW c \in 0..(w - 1)
  PROVE  r * w + c \in 0..(w * h - 1)
<1>1. r * w \in Nat
  BY ProductNat
<1>2. (h - 1 - r) * w \in Nat
  BY ProductNat
<1>3. (h - 1 - r) * w = w * h - w - r * w
  OBVIOUS
<1>4. w * h \in Int
  OBVIOUS
<1> QED
  BY <1>1, <1>2, <1>3, <1>4

LEMMA Cell ==
  ASSUME NEW w \in Nat, NEW r \in Nat, NEW c \in 0..(w - 1)
  PROVE  (r * w + c) \div w = r /\ (r * w + c) % w = c
  OBVIOUS

LEMMA CellOf ==
  ASSUME NEW w \in Nat \ {0}, NEW h \in Nat, NEW i \in 0..(w * h - 1)
  PROVE  /\ i \div w \in 0..(h - 1) /\ i % w \in 0..(w - 1)
         /\ i = (i \div w) * w + (i % w)
<1>1. i \div w \in Nat /\ i % w \in 0..(w - 1) /\ i = (i \div w) * w + (i % w)
  OBVIOUS
<1>2. i \div w < h
  <2>1. SUFFICES ASSUME i \div w >= h PROVE FALSE
    BY <1>1
  <2>2. ((i \div w) - h) * w \in Nat
    BY <1>1, <2>1, ProductNat
  <2>3. ((i \div w) - h) * w = (i \div w) * w - w * h
    BY <1>1
  <2> QED
    BY <1>1, <2>2, <2>3
<1> QED
  BY <1>1, <1>2
-----------------------------------------------------------------------------
(* Square pictures, and the pixel in a row and a column. *)
Pictures(s) == [0..(s * s - 1) -> Int]

At(x, s, r, c) == x[r * s + c]

LEMMA AtInt ==
  ASSUME NEW s \in Nat, NEW x \in Pictures(s), NEW r \in 0..(s - 1), NEW c \in 0..(s - 1)
  PROVE  At(x, s, r, c) \in Int
  BY CellIn DEF At, Pictures

LEMMA SamePicture ==
  ASSUME NEW s \in Nat \ {0}, NEW x \in Pictures(s), NEW z \in Pictures(s),
         \A r, c \in 0..(s - 1) : At(x, s, r, c) = At(z, s, r, c)
  PROVE  x = z
<1>1. ASSUME NEW i \in 0..(s * s - 1) PROVE x[i] = z[i]
  <2>1. i \div s \in 0..(s - 1) /\ i % s \in 0..(s - 1) /\ i = (i \div s) * s + (i % s)
    BY CellOf
  <2>2. At(x, s, i \div s, i % s) = At(z, s, i \div s, i % s)
    BY <2>1
  <2> QED
    BY <2>1, <2>2 DEF At
<1> QED
  BY <1>1 DEF Pictures

LEMMA RowLine ==
  ASSUME NEW s \in Nat, NEW x \in Pictures(s), NEW r \in 0..(s - 1)
  PROVE  /\ GetRow(x, r, s) \in Lines(s)
         /\ \A c \in 0..(s - 1) : GetRow(x, r, s)[c] = At(x, s, r, c)
<1>1. \A c \in 0..(s - 1) : At(x, s, r, c) \in Int
  BY AtInt
<1>2. GetRow(x, r, s) = [c \in 0..(s - 1) |-> At(x, s, r, c)]
  BY DEF GetRow, At
<1> QED
  BY <1>1, <1>2 DEF Lines

LEMMA ColumnLine ==
  ASSUME NEW s \in Nat, NEW x \in Pictures(s), NEW c \in 0..(s - 1)
  PROVE  /\ GetCol(x, c, s, s) \in Lines(s)
         /\ \A r \in 0..(s - 1) : GetCol(x, c, s, s)[r] = At(x, s, r, c)
<1>1. \A r \in 0..(s - 1) : At(x, s, r, c) \in Int
  BY AtInt
<1>2. GetCol(x, c, s, s) = [r \in 0..(s - 1) |-> At(x, s, r, c)]
  BY DEF GetCol, At
<1> QED
  BY <1>1, <1>2 DEF Lines

(* A picture put together from its rows, and from its columns. *)
ByRows(lines, s)    == [i \in 0..(s * s - 1) |-> lines[i \div s][i % s]]
ByColumns(lines, s) == [i \in 0..(s * s - 1) |-> lines[i % s][i \div s]]

LEMMA CellBoth ==
  ASSUME NEW s \in Nat \ {0}, NEW r \in 0..(s - 1), NEW c \in 0..(s - 1)
  PROVE  r * s + c \in 0..(s * s - 1) /\ (r * s + c) \div s = r /\ (r * s + c) % s = c
<1>1. r * s + c \in 0..(s * s - 1)
  BY CellIn
<1>2. r \in Nat /\ s \in Nat
  OBVIOUS
<1>3. (r * s + c) \div s = r /\ (r * s + c) % s = c
  BY <1>2, Cell
<1> QED
  BY <1>1, <1>3

LEMMA FromRows ==
  ASSUME NEW s \in Nat \ {0}, NEW lines \in [0..(s - 1) -> Lines(s)]
  PROVE  /\ ByRows(lines, s) \in Pictures(s)
         /\ \A r, c \in 0..(s - 1) : At(ByRows(lines, s), s, r, c) = lines[r][c]
<1>1. \A r, c \in 0..(s - 1) : lines[r][c] \in Int
  BY DEF Lines
<1>2. \A i \in 0..(s * s - 1) : lines[i \div s][i % s] \in Int
  BY <1>1, CellOf
<1>3. \A r, c \in 0..(s - 1) : At(ByRows(lines, s), s, r, c) = lines[r][c]
  BY CellBoth DEF At, ByRows
<1> QED
  BY <1>2, <1>3 DEF Pictures, ByRows

LEMMA FromColumns ==
  ASSUME NEW s \in Nat \ {0}, NEW lines \in [0..(s - 1) -> Lines(s)]
  PROVE  /\ ByColumns(lines, s) \in Pictures(s)
         /\ \A r, c \in 0..(s - 1) : At(ByColumns(lines, s), s, r, c) = lines[c][r]
<1>1. \A r, c \in 0..(s - 1) : lines[c][r] \in Int
  BY DEF Lines
<1>2. \A i \in 0..(s * s - 1) : lines[i % s][i \div s] \in Int
  BY <1>1, CellOf
<1>3. \A r, c \in 0..(s - 1) : At(ByColumns(lines, s), s, r, c) = lines[c][r]
  BY CellBoth DEF At, ByColumns
<1> QED
  BY <1>2, <1>3 DEF Pictures, ByColumns

-----------------------------------------------------------------------------
(* Multiples, and halves without a rest. *)
Multiples(n) == {n * q : q \in Int}

LEMMA MultiplesInt == ASSUME NEW n \in Nat PROVE Multiples(n) \subseteq Int
  BY DEF Multiples

LEMMA MultiplesSum ==
  ASSUME NEW n \in Nat, NEW a \in Multiples(n), NEW b \in Multiples(n)
  PROVE  a + b \in Multiples(n) /\ a - b \in Multiples(n)
<1>1. PICK q \in Int : a = n * q
  BY DEF Multiples
<1>2. PICK u \in Int : b = n * u
  BY DEF Multiples
<1>3. a + b = n * (q + u) /\ a - b = n * (q - u)
  BY <1>1, <1>2
<1>4. q + u \in Int /\ q - u \in Int
  OBVIOUS
<1> QED
  BY <1>3, <1>4 DEF Multiples

LEMMA MultiplesHalf ==
  ASSUME NEW n \in Nat, NEW a \in Multiples(2 * n)
  PROVE  a \div 2 \in Multiples(n) /\ 2 * (a \div 2) = a
<1>1. PICK q \in Int : a = (2 * n) * q
  BY DEF Multiples
<1>2. n * q \in Int /\ a = 2 * (n * q)
  BY <1>1
<1>3. a \div 2 = n * q
  BY <1>2
<1> QED
  BY <1>2, <1>3 DEF Multiples

LEMMA MultiplesDouble ==
  ASSUME NEW n \in Nat, NEW a \in Multiples(2 * n)
  PROVE  a \in Multiples(n)
<1>1. PICK q \in Int : a = (2 * n) * q
  BY DEF Multiples
<1>2. a = n * (2 * q) /\ 2 * q \in Int
  BY <1>1
<1> QED
  BY <1>2 DEF Multiples

(* Pictures of multiples of n. *)
Grained(s, n) == [0..(s * s - 1) -> Multiples(n)]

LEMMA GrainedPicture ==
  ASSUME NEW s \in Nat, NEW n \in Nat, NEW x \in Grained(s, n)
  PROVE  /\ x \in Pictures(s)
         /\ \A r, c \in 0..(s - 1) : At(x, s, r, c) \in Multiples(n)
<1>1. x \in Pictures(s)
  BY MultiplesInt DEF Grained, Pictures
<1>2. \A r, c \in 0..(s - 1) : r * s + c \in 0..(s * s - 1)
  BY CellIn
<1> QED
  BY <1>1, <1>2 DEF Grained, At

LEMMA PictureGrained ==
  ASSUME NEW s \in Nat \ {0}, NEW n \in Nat, NEW x \in Pictures(s),
         \A r, c \in 0..(s - 1) : At(x, s, r, c) \in Multiples(n)
  PROVE  x \in Grained(s, n)
<1>1. ASSUME NEW i \in 0..(s * s - 1) PROVE x[i] \in Multiples(n)
  <2>1. i \div s \in 0..(s - 1) /\ i % s \in 0..(s - 1) /\ i = (i \div s) * s + (i % s)
    BY CellOf
  <2>2. At(x, s, i \div s, i % s) \in Multiples(n)
    BY <2>1
  <2> QED
    BY <2>1, <2>2 DEF At
<1> QED
  BY <1>1 DEF Grained, Pictures

LEMMA HalvedPicture ==
  ASSUME NEW s \in Nat \ {0}, NEW n \in Nat, NEW x \in Grained(s, 2 * n)
  PROVE  /\ Halved(x) \in Grained(s, n)
         /\ \A r, c \in 0..(s - 1) : 2 * At(Halved(x), s, r, c) = At(x, s, r, c)
<1>1. DOMAIN x = 0..(s * s - 1) /\ \A i \in DOMAIN x : x[i] \in Multiples(2 * n)
  BY DEF Grained
<1>2. \A i \in DOMAIN x : x[i] \div 2 \in Multiples(n) /\ 2 * (x[i] \div 2) = x[i]
  BY <1>1, MultiplesHalf
<1>3. Halved(x) \in Grained(s, n)
  BY <1>1, <1>2 DEF Halved, Grained
<1>4. ASSUME NEW r \in 0..(s - 1), NEW c \in 0..(s - 1)
      PROVE  2 * At(Halved(x), s, r, c) = At(x, s, r, c)
  <2>1. r * s + c \in DOMAIN x
    BY <1>1, CellIn
  <2> QED
    BY <1>2, <2>1 DEF Halved, At
<1> QED
  BY <1>3, <1>4
(* dwt and idwt of the rows, and of the columns. *)
LEMMA DwtRows ==
  ASSUME NEW m \in Nat \ {0}, NEW s, s = 2 * m, NEW x \in Pictures(s),
         NEW z, z = AlongRows(Dwt, x, s, s)
  PROVE  /\ z \in Pictures(s)
         /\ \A r \in 0..(s - 1), c \in 0..(m - 1) :
              /\ At(z, s, r, c) = At(x, s, r, 2 * c) + At(x, s, r, 2 * c + 1)
              /\ At(z, s, r, c + m) = At(x, s, r, 2 * c) - At(x, s, r, 2 * c + 1)
         /\ \A n \in Nat : x \in Grained(s, n) => z \in Grained(s, n)
<1> DEFINE lines == [r \in 0..(s - 1) |-> Dwt(GetRow(x, r, s), s)]
<1>0. s \in Nat \ {0}
  OBVIOUS
<1>1. ASSUME NEW r \in 0..(s - 1)
      PROVE  /\ lines[r] \in Lines(s)
             /\ \A c \in 0..(m - 1) : /\ lines[r][c] = At(x, s, r, 2 * c) + At(x, s, r, 2 * c + 1)
                                     /\ lines[r][c + m] = At(x, s, r, 2 * c) - At(x, s, r, 2 * c + 1)
  <2> DEFINE g == GetRow(x, r, s)
  <2>1. g \in Lines(s) /\ \A c \in 0..(s - 1) : g[c] = At(x, s, r, c)
    BY RowLine
  <2>2. lines[r] = Dwt(g, s)
    OBVIOUS
  <2> HIDE DEF g, lines
  <2>3. /\ Dwt(g, s) \in Lines(s)
        /\ \A c \in 0..(m - 1) : /\ Dwt(g, s)[c] = g[2 * c] + g[2 * c + 1]
                                /\ Dwt(g, s)[c + m] = g[2 * c] - g[2 * c + 1]
    BY <2>1, DwtLine
  <2> QED
    BY <2>1, <2>2, <2>3
<1>2. z = ByRows(lines, s)
  BY DEF AlongRows, ByRows
<1>3. lines \in [0..(s - 1) -> Lines(s)]
  BY <1>1
<1> HIDE DEF lines
<1>4. /\ z \in Pictures(s)
      /\ \A r, c \in 0..(s - 1) : At(z, s, r, c) = lines[r][c]
  BY <1>0, <1>2, <1>3, FromRows
<1>5. ASSUME NEW r \in 0..(s - 1), NEW c \in 0..(m - 1)
      PROVE  /\ At(z, s, r, c) = At(x, s, r, 2 * c) + At(x, s, r, 2 * c + 1)
             /\ At(z, s, r, c + m) = At(x, s, r, 2 * c) - At(x, s, r, 2 * c + 1)
  <2>1. c \in 0..(s - 1) /\ c + m \in 0..(s - 1)
    OBVIOUS
  <2> QED
    BY <1>1, <1>4, <2>1
<1>6. ASSUME NEW n \in Nat, x \in Grained(s, n) PROVE z \in Grained(s, n)
  <2>1. \A r, c \in 0..(s - 1) : At(x, s, r, c) \in Multiples(n)
    BY <1>6, GrainedPicture
  <2>2. ASSUME NEW r \in 0..(s - 1), NEW c \in 0..(s - 1) PROVE At(z, s, r, c) \in Multiples(n)
    <3> DEFINE u == IF c < m THEN c ELSE c - m
    <3>1. /\ u \in 0..(m - 1) /\ 2 * u \in 0..(s - 1) /\ 2 * u + 1 \in 0..(s - 1)
          /\ c = u \/ c = u + m
      OBVIOUS
    <3> HIDE DEF u
    <3>2. At(x, s, r, 2 * u) \in Multiples(n) /\ At(x, s, r, 2 * u + 1) \in Multiples(n)
      BY <2>1, <3>1
    <3>3. At(z, s, r, u) \in Multiples(n) /\ At(z, s, r, u + m) \in Multiples(n)
      BY <1>5, <3>1, <3>2, MultiplesSum
    <3> QED
      BY <3>1, <3>3
  <2> QED
    BY <1>0, <1>4, <2>2, PictureGrained
<1> QED
  BY <1>4, <1>5, <1>6

LEMMA DwtColumns ==
  ASSUME NEW m \in Nat \ {0}, NEW s, s = 2 * m, NEW x \in Pictures(s),
         NEW z, z = AlongColumns(Dwt, x, s, s)
  PROVE  /\ z \in Pictures(s)
         /\ \A r \in 0..(m - 1), c \in 0..(s - 1) :
              /\ At(z, s, r, c) = At(x, s, 2 * r, c) + At(x, s, 2 * r + 1, c)
              /\ At(z, s, r + m, c) = At(x, s, 2 * r, c) - At(x, s, 2 * r + 1, c)
         /\ \A n \in Nat : x \in Grained(s, n) => z \in Grained(s, n)
<1> DEFINE lines == [c \in 0..(s - 1) |-> Dwt(GetCol(x, c, s, s), s)]
<1>0. s \in Nat \ {0}
  OBVIOUS
<1>1. ASSUME NEW c \in 0..(s - 1)
      PROVE  /\ lines[c] \in Lines(s)
             /\ \A r \in 0..(m - 1) : /\ lines[c][r] = At(x, s, 2 * r, c) + At(x, s, 2 * r + 1, c)
                                     /\ lines[c][r + m] = At(x, s, 2 * r, c) - At(x, s, 2 * r + 1, c)
  <2> DEFINE g == GetCol(x, c, s, s)
  <2>1. g \in Lines(s) /\ \A r \in 0..(s - 1) : g[r] = At(x, s, r, c)
    BY ColumnLine
  <2>2. lines[c] = Dwt(g, s)
    OBVIOUS
  <2> HIDE DEF g, lines
  <2>3. /\ Dwt(g, s) \in Lines(s)
        /\ \A r \in 0..(m - 1) : /\ Dwt(g, s)[r] = g[2 * r] + g[2 * r + 1]
                                /\ Dwt(g, s)[r + m] = g[2 * r] - g[2 * r + 1]
    BY <2>1, DwtLine
  <2> QED
    BY <2>1, <2>2, <2>3
<1>2. z = ByColumns(lines, s)
  BY DEF AlongColumns, ByColumns
<1>3. lines \in [0..(s - 1) -> Lines(s)]
  BY <1>1
<1> HIDE DEF lines
<1>4. /\ z \in Pictures(s)
      /\ \A r, c \in 0..(s - 1) : At(z, s, r, c) = lines[c][r]
  BY <1>0, <1>2, <1>3, FromColumns
<1>5. ASSUME NEW r \in 0..(m - 1), NEW c \in 0..(s - 1)
      PROVE  /\ At(z, s, r, c) = At(x, s, 2 * r, c) + At(x, s, 2 * r + 1, c)
             /\ At(z, s, r + m, c) = At(x, s, 2 * r, c) - At(x, s, 2 * r + 1, c)
  <2>1. r \in 0..(s - 1) /\ r + m \in 0..(s - 1)
    OBVIOUS
  <2> QED
    BY <1>1, <1>4, <2>1
<1>6. ASSUME NEW n \in Nat, x \in Grained(s, n) PROVE z \in Grained(s, n)
  <2>1. \A r, c \in 0..(s - 1) : At(x, s, r, c) \in Multiples(n)
    BY <1>6, GrainedPicture
  <2>2. ASSUME NEW r \in 0..(s - 1), NEW c \in 0..(s - 1) PROVE At(z, s, r, c) \in Multiples(n)
    <3> DEFINE u == IF r < m THEN r ELSE r - m
    <3>1. /\ u \in 0..(m - 1) /\ 2 * u \in 0..(s - 1) /\ 2 * u + 1 \in 0..(s - 1)
          /\ r = u \/ r = u + m
      OBVIOUS
    <3> HIDE DEF u
    <3>2. At(x, s, 2 * u, c) \in Multiples(n) /\ At(x, s, 2 * u + 1, c) \in Multiples(n)
      BY <2>1, <3>1
    <3>3. At(z, s, u, c) \in Multiples(n) /\ At(z, s, u + m, c) \in Multiples(n)
      BY <1>5, <3>1, <3>2, MultiplesSum
    <3> QED
      BY <3>1, <3>3
  <2> QED
    BY <1>0, <1>4, <2>2, PictureGrained
<1> QED
  BY <1>4, <1>5, <1>6

LEMMA IdwtRows ==
  ASSUME NEW m \in Nat \ {0}, NEW s, s = 2 * m, NEW x \in Pictures(s),
         NEW z, z = AlongRows(Idwt, x, s, s)
  PROVE  /\ z \in Pictures(s)
         /\ \A r \in 0..(s - 1), c \in 0..(m - 1) :
              /\ At(z, s, r, 2 * c) = At(x, s, r, c) + At(x, s, r, c + m)
              /\ At(z, s, r, 2 * c + 1) = At(x, s, r, c) - At(x, s, r, c + m)
         /\ \A n \in Nat : x \in Grained(s, n) => z \in Grained(s, n)
<1> DEFINE lines == [r \in 0..(s - 1) |-> Idwt(GetRow(x, r, s), s)]
<1>0. s \in Nat \ {0}
  OBVIOUS
<1>1. ASSUME NEW r \in 0..(s - 1)
      PROVE  /\ lines[r] \in Lines(s)
             /\ \A c \in 0..(m - 1) : /\ lines[r][2 * c] = At(x, s, r, c) + At(x, s, r, c + m)
                                     /\ lines[r][2 * c + 1] = At(x, s, r, c) - At(x, s, r, c + m)
  <2> DEFINE g == GetRow(x, r, s)
  <2>1. g \in Lines(s) /\ \A c \in 0..(s - 1) : g[c] = At(x, s, r, c)
    BY RowLine
  <2>2. lines[r] = Idwt(g, s)
    OBVIOUS
  <2> HIDE DEF g, lines
  <2>3. /\ Idwt(g, s) \in Lines(s)
        /\ \A c \in 0..(m - 1) : /\ Idwt(g, s)[2 * c] = g[c] + g[c + m]
                                /\ Idwt(g, s)[2 * c + 1] = g[c] - g[c + m]
    BY <2>1, IdwtLine
  <2> QED
    BY <2>1, <2>2, <2>3
<1>2. z = ByRows(lines, s)
  BY DEF AlongRows, ByRows
<1>3. lines \in [0..(s - 1) -> Lines(s)]
  BY <1>1
<1> HIDE DEF lines
<1>4. /\ z \in Pictures(s)
      /\ \A r, c \in 0..(s - 1) : At(z, s, r, c) = lines[r][c]
  BY <1>0, <1>2, <1>3, FromRows
<1>5. ASSUME NEW r \in 0..(s - 1), NEW c \in 0..(m - 1)
      PROVE  /\ At(z, s, r, 2 * c) = At(x, s, r, c) + At(x, s, r, c + m)
             /\ At(z, s, r, 2 * c + 1) = At(x, s, r, c) - At(x, s, r, c + m)
  <2>1. 2 * c \in 0..(s - 1) /\ 2 * c + 1 \in 0..(s - 1)
    OBVIOUS
  <2> QED
    BY <1>1, <1>4, <2>1
<1>6. ASSUME NEW n \in Nat, x \in Grained(s, n) PROVE z \in Grained(s, n)
  <2>1. \A r, c \in 0..(s - 1) : At(x, s, r, c) \in Multiples(n)
    BY <1>6, GrainedPicture
  <2>2. ASSUME NEW r \in 0..(s - 1), NEW c \in 0..(s - 1) PROVE At(z, s, r, c) \in Multiples(n)
    <3> DEFINE u == c \div 2
    <3>1. /\ u \in 0..(m - 1) /\ u + m \in 0..(s - 1) /\ u \in 0..(s - 1)
          /\ c = 2 * u \/ c = 2 * u + 1
      BY HalfOf
    <3> HIDE DEF u
    <3>2. At(x, s, r, u) \in Multiples(n) /\ At(x, s, r, u + m) \in Multiples(n)
      BY <2>1, <3>1
    <3>3. At(z, s, r, 2 * u) \in Multiples(n) /\ At(z, s, r, 2 * u + 1) \in Multiples(n)
      BY <1>5, <3>1, <3>2, MultiplesSum
    <3> QED
      BY <3>1, <3>3
  <2> QED
    BY <1>0, <1>4, <2>2, PictureGrained
<1> QED
  BY <1>4, <1>5, <1>6

LEMMA IdwtColumns ==
  ASSUME NEW m \in Nat \ {0}, NEW s, s = 2 * m, NEW x \in Pictures(s),
         NEW z, z = AlongColumns(Idwt, x, s, s)
  PROVE  /\ z \in Pictures(s)
         /\ \A r \in 0..(m - 1), c \in 0..(s - 1) :
              /\ At(z, s, 2 * r, c) = At(x, s, r, c) + At(x, s, r + m, c)
              /\ At(z, s, 2 * r + 1, c) = At(x, s, r, c) - At(x, s, r + m, c)
         /\ \A n \in Nat : x \in Grained(s, n) => z \in Grained(s, n)
<1> DEFINE lines == [c \in 0..(s - 1) |-> Idwt(GetCol(x, c, s, s), s)]
<1>0. s \in Nat \ {0}
  OBVIOUS
<1>1. ASSUME NEW c \in 0..(s - 1)
      PROVE  /\ lines[c] \in Lines(s)
             /\ \A r \in 0..(m - 1) : /\ lines[c][2 * r] = At(x, s, r, c) + At(x, s, r + m, c)
                                     /\ lines[c][2 * r + 1] = At(x, s, r, c) - At(x, s, r + m, c)
  <2> DEFINE g == GetCol(x, c, s, s)
  <2>1. g \in Lines(s) /\ \A r \in 0..(s - 1) : g[r] = At(x, s, r, c)
    BY ColumnLine
  <2>2. lines[c] = Idwt(g, s)
    OBVIOUS
  <2> HIDE DEF g, lines
  <2>3. /\ Idwt(g, s) \in Lines(s)
        /\ \A r \in 0..(m - 1) : /\ Idwt(g, s)[2 * r] = g[r] + g[r + m]
                                /\ Idwt(g, s)[2 * r + 1] = g[r] - g[r + m]
    BY <2>1, IdwtLine
  <2> QED
    BY <2>1, <2>2, <2>3
<1>2. z = ByColumns(lines, s)
  BY DEF AlongColumns, ByColumns
<1>3. lines \in [0..(s - 1) -> Lines(s)]
  BY <1>1
<1> HIDE DEF lines
<1>4. /\ z \in Pictures(s)
      /\ \A r, c \in 0..(s - 1) : At(z, s, r, c) = lines[c][r]
  BY <1>0, <1>2, <1>3, FromColumns
<1>5. ASSUME NEW r \in 0..(m - 1), NEW c \in 0..(s - 1)
      PROVE  /\ At(z, s, 2 * r, c) = At(x, s, r, c) + At(x, s, r + m, c)
             /\ At(z, s, 2 * r + 1, c) = At(x, s, r, c) - At(x, s, r + m, c)
  <2>1. 2 * r \in 0..(s - 1) /\ 2 * r + 1 \in 0..(s - 1)
    OBVIOUS
  <2> QED
    BY <1>1, <1>4, <2>1
<1>6. ASSUME NEW n \in Nat, x \in Grained(s, n) PROVE z \in Grained(s, n)
  <2>1. \A r, c \in 0..(s - 1) : At(x, s, r, c) \in Multiples(n)
    BY <1>6, GrainedPicture
  <2>2. ASSUME NEW r \in 0..(s - 1), NEW c \in 0..(s - 1) PROVE At(z, s, r, c) \in Multiples(n)
    <3> DEFINE u == r \div 2
    <3>1. /\ u \in 0..(m - 1) /\ u + m \in 0..(s - 1) /\ u \in 0..(s - 1)
          /\ r = 2 * u \/ r = 2 * u + 1
      BY HalfOf
    <3> HIDE DEF u
    <3>2. At(x, s, u, c) \in Multiples(n) /\ At(x, s, u + m, c) \in Multiples(n)
      BY <2>1, <3>1
    <3>3. At(z, s, 2 * u, c) \in Multiples(n) /\ At(z, s, 2 * u + 1, c) \in Multiples(n)
      BY <1>5, <3>1, <3>2, MultiplesSum
    <3> QED
      BY <3>1, <3>3
  <2> QED
    BY <1>0, <1>4, <2>2, PictureGrained
<1> QED
  BY <1>4, <1>5, <1>6
-----------------------------------------------------------------------------
(* A level before its division: four pixels that form a square are mixed   *)
(* into four coefficients, and the coefficients back in the same way.      *)
LEMMA Dwt2Sums ==
  ASSUME NEW m \in Nat \ {0}, NEW s, s = 2 * m, NEW x \in Pictures(s),
         NEW z, z = AlongColumns(Dwt, AlongRows(Dwt, x, s, s), s, s)
  PROVE  /\ z \in Pictures(s)
         /\ \A r, c \in 0..(m - 1) :
              LET a == At(x, s, 2 * r, 2 * c)      b == At(x, s, 2 * r, 2 * c + 1)
                  d == At(x, s, 2 * r + 1, 2 * c)  e == At(x, s, 2 * r + 1, 2 * c + 1)
              IN /\ At(z, s, r, c) = (a + b) + (d + e)
                 /\ At(z, s, r, c + m) = (a - b) + (d - e)
                 /\ At(z, s, r + m, c) = (a + b) - (d + e)
                 /\ At(z, s, r + m, c + m) = (a - b) - (d - e)
         /\ \A n \in Nat : x \in Grained(s, n) => z \in Grained(s, n)
<1> DEFINE p == AlongRows(Dwt, x, s, s)
<1>1. /\ p \in Pictures(s)
      /\ \A r \in 0..(s - 1), c \in 0..(m - 1) :
           /\ At(p, s, r, c) = At(x, s, r, 2 * c) + At(x, s, r, 2 * c + 1)
           /\ At(p, s, r, c + m) = At(x, s, r, 2 * c) - At(x, s, r, 2 * c + 1)
      /\ \A n \in Nat : x \in Grained(s, n) => p \in Grained(s, n)
  BY DwtRows
<1>2. z = AlongColumns(Dwt, p, s, s)
  OBVIOUS
<1> HIDE DEF p
<1>3. p \in Pictures(s)
  BY <1>1
<1>4. /\ z \in Pictures(s)
      /\ \A r \in 0..(m - 1), c \in 0..(s - 1) :
           /\ At(z, s, r, c) = At(p, s, 2 * r, c) + At(p, s, 2 * r + 1, c)
           /\ At(z, s, r + m, c) = At(p, s, 2 * r, c) - At(p, s, 2 * r + 1, c)
      /\ \A n \in Nat : p \in Grained(s, n) => z \in Grained(s, n)
  BY <1>2, <1>3, DwtColumns
<1>5. ASSUME NEW r \in 0..(m - 1), NEW c \in 0..(m - 1)
      PROVE  LET a == At(x, s, 2 * r, 2 * c)      b == At(x, s, 2 * r, 2 * c + 1)
                 d == At(x, s, 2 * r + 1, 2 * c)  e == At(x, s, 2 * r + 1, 2 * c + 1)
             IN /\ At(z, s, r, c) = (a + b) + (d + e)
                /\ At(z, s, r, c + m) = (a - b) + (d - e)
                /\ At(z, s, r + m, c) = (a + b) - (d + e)
                /\ At(z, s, r + m, c + m) = (a - b) - (d - e)
  <2>1. /\ 2 * r \in 0..(s - 1) /\ 2 * r + 1 \in 0..(s - 1)
        /\ c \in 0..(s - 1) /\ c + m \in 0..(s - 1)
    OBVIOUS
  <2> QED
    BY <1>1, <1>4, <2>1
<1> QED
  BY <1>1, <1>4, <1>5

LEMMA Idwt2Sums ==
  ASSUME NEW m \in Nat \ {0}, NEW s, s = 2 * m, NEW x \in Pictures(s),
         NEW z, z = AlongColumns(Idwt, AlongRows(Idwt, x, s, s), s, s)
  PROVE  /\ z \in Pictures(s)
         /\ \A r, c \in 0..(m - 1) :
              LET a == At(x, s, r, c)      b == At(x, s, r, c + m)
                  d == At(x, s, r + m, c)  e == At(x, s, r + m, c + m)
              IN /\ At(z, s, 2 * r, 2 * c) = (a + b) + (d + e)
                 /\ At(z, s, 2 * r, 2 * c + 1) = (a - b) + (d - e)
                 /\ At(z, s, 2 * r + 1, 2 * c) = (a + b) - (d + e)
                 /\ At(z, s, 2 * r + 1, 2 * c + 1) = (a - b) - (d - e)
         /\ \A n \in Nat : x \in Grained(s, n) => z \in Grained(s, n)
<1> DEFINE p == AlongRows(Idwt, x, s, s)
<1>1. /\ p \in Pictures(s)
      /\ \A r \in 0..(s - 1), c \in 0..(m - 1) :
           /\ At(p, s, r, 2 * c) = At(x, s, r, c) + At(x, s, r, c + m)
           /\ At(p, s, r, 2 * c + 1) = At(x, s, r, c) - At(x, s, r, c + m)
      /\ \A n \in Nat : x \in Grained(s, n) => p \in Grained(s, n)
  BY IdwtRows
<1>2. z = AlongColumns(Idwt, p, s, s)
  OBVIOUS
<1> HIDE DEF p
<1>3. p \in Pictures(s)
  BY <1>1
<1>4. /\ z \in Pictures(s)
      /\ \A r \in 0..(m - 1), c \in 0..(s - 1) :
           /\ At(z, s, 2 * r, c) = At(p, s, r, c) + At(p, s, r + m, c)
           /\ At(z, s, 2 * r + 1, c) = At(p, s, r, c) - At(p, s, r + m, c)
      /\ \A n \in Nat : p \in Grained(s, n) => z \in Grained(s, n)
  BY <1>2, <1>3, IdwtColumns
<1>5. ASSUME NEW r \in 0..(m - 1), NEW c \in 0..(m - 1)
      PROVE  LET a == At(x, s, r, c)      b == At(x, s, r, c + m)
                 d == At(x, s, r + m, c)  e == At(x, s, r + m, c + m)
             IN /\ At(z, s, 2 * r, 2 * c) = (a + b) + (d + e)
                /\ At(z, s, 2 * r, 2 * c + 1) = (a - b) + (d - e)
                /\ At(z, s, 2 * r + 1, 2 * c) = (a + b) - (d + e)
                /\ At(z, s, 2 * r + 1, 2 * c + 1) = (a - b) - (d - e)
  <2>1. /\ r \in 0..(s - 1) /\ r + m \in 0..(s - 1)
        /\ 2 * c \in 0..(s - 1) /\ 2 * c + 1 \in 0..(s - 1)
    OBVIOUS
  <2> QED
    BY <1>1, <1>4, <2>1
<1> QED
  BY <1>1, <1>4, <1>5

(* The division leaves no rest and makes the grain half as coarse. *)
LEMMA TransformsGrained ==
  ASSUME NEW m \in Nat \ {0}, NEW s, s = 2 * m, NEW n \in Nat, NEW x \in Grained(s, 2 * n)
  PROVE  Dwt2(x, s, s) \in Grained(s, n) /\ Idwt2(x, s, s) \in Grained(s, n)
<1>1. s \in Nat \ {0} /\ 2 * n \in Nat /\ x \in Pictures(s)
  BY GrainedPicture
<1>2. AlongColumns(Dwt, AlongRows(Dwt, x, s, s), s, s) \in Grained(s, 2 * n)
  BY <1>1, Dwt2Sums
<1>3. AlongColumns(Idwt, AlongRows(Idwt, x, s, s), s, s) \in Grained(s, 2 * n)
  BY <1>1, Idwt2Sums
<1>4. Dwt2(x, s, s) \in Grained(s, n)
  BY <1>1, <1>2, HalvedPicture DEF Dwt2
<1>5. Idwt2(x, s, s) \in Grained(s, n)
  BY <1>1, <1>3, HalvedPicture DEF Idwt2
<1> QED
  BY <1>4, <1>5
-----------------------------------------------------------------------------
(* A level of the picture, and back. *)
LEMMA HalfWay ==
  ASSUME NEW m \in Nat, NEW u \in 0..(2 * m - 1)
  PROVE  \E j \in 0..(m - 1) : u = 2 * j \/ u = 2 * j + 1
<1>1. u \div 2 \in 0..(m - 1) /\ (u = 2 * (u \div 2) \/ u = 2 * (u \div 2) + 1)
  BY HalfOf
<1> QED
  BY <1>1

LEMMA LowOrHigh ==
  ASSUME NEW m \in Nat, NEW u \in 0..(2 * m - 1)
  PROVE  \E j \in 0..(m - 1) : u = j \/ u = j + m
<1>1. CASE u < m
  BY <1>1
<1>2. CASE u >= m
  <2>1. u - m \in 0..(m - 1) /\ u = (u - m) + m
    BY <1>2
  <2> QED
    BY <2>1
<1> QED
  BY <1>1, <1>2

(***************************************************************************)
(* idwt2 undoes dwt2: a picture of even numbers, of any even length and    *)
(* width, is what it was.                                                  *)
(***************************************************************************)
THEOREM PictureInverse ==
  ASSUME NEW m \in Nat \ {0}, NEW s, s = 2 * m, NEW x \in Grained(s, 2)
  PROVE  Idwt2(Dwt2(x, s, s), s, s) = x
<1> DEFINE y1 == AlongColumns(Dwt, AlongRows(Dwt, x, s, s), s, s)
           z == Halved(y1)
           y2 == AlongColumns(Idwt, AlongRows(Idwt, z, s, s), s, s)
<1>0. s \in Nat \ {0} /\ x \in Pictures(s)
  BY GrainedPicture
<1>1. /\ y1 \in Grained(s, 2)
      /\ \A r, c \in 0..(m - 1) :
           LET a == At(x, s, 2 * r, 2 * c)      b == At(x, s, 2 * r, 2 * c + 1)
               d == At(x, s, 2 * r + 1, 2 * c)  e == At(x, s, 2 * r + 1, 2 * c + 1)
           IN /\ At(y1, s, r, c) = (a + b) + (d + e)
              /\ At(y1, s, r, c + m) = (a - b) + (d - e)
              /\ At(y1, s, r + m, c) = (a + b) - (d + e)
              /\ At(y1, s, r + m, c + m) = (a - b) - (d - e)
  BY <1>0, Dwt2Sums
<1> HIDE DEF y1
<1>2. y1 \in Grained(s, 2 * 1)
  BY <1>1
<1>3. z \in Grained(s, 1) /\ \A r, c \in 0..(s - 1) : 2 * At(z, s, r, c) = At(y1, s, r, c)
  BY <1>0, <1>2, HalvedPicture
<1> HIDE DEF z
<1>4. z \in Pictures(s)
  BY <1>0, <1>3, GrainedPicture
<1>5. /\ y2 \in Pictures(s)
      /\ \A r, c \in 0..(m - 1) :
           LET a == At(z, s, r, c)      b == At(z, s, r, c + m)
               d == At(z, s, r + m, c)  e == At(z, s, r + m, c + m)
           IN /\ At(y2, s, 2 * r, 2 * c) = (a + b) + (d + e)
              /\ At(y2, s, 2 * r, 2 * c + 1) = (a - b) + (d - e)
              /\ At(y2, s, 2 * r + 1, 2 * c) = (a + b) - (d + e)
              /\ At(y2, s, 2 * r + 1, 2 * c + 1) = (a - b) - (d - e)
  BY <1>4, Idwt2Sums
<1> HIDE DEF y2
<1>6. ASSUME NEW r \in 0..(m - 1), NEW c \in 0..(m - 1)
      PROVE  /\ At(y2, s, 2 * r, 2 * c) = 2 * At(x, s, 2 * r, 2 * c)
             /\ At(y2, s, 2 * r, 2 * c + 1) = 2 * At(x, s, 2 * r, 2 * c + 1)
             /\ At(y2, s, 2 * r + 1, 2 * c) = 2 * At(x, s, 2 * r + 1, 2 * c)
             /\ At(y2, s, 2 * r + 1, 2 * c + 1) = 2 * At(x, s, 2 * r + 1, 2 * c + 1)
  <2>1. /\ r \in 0..(s - 1) /\ r + m \in 0..(s - 1) /\ c \in 0..(s - 1) /\ c + m \in 0..(s - 1)
        /\ 2 * r \in 0..(s - 1) /\ 2 * r + 1 \in 0..(s - 1)
        /\ 2 * c \in 0..(s - 1) /\ 2 * c + 1 \in 0..(s - 1)
    OBVIOUS
  <2> DEFINE a == At(x, s, 2 * r, 2 * c)      b == At(x, s, 2 * r, 2 * c + 1)
             d == At(x, s, 2 * r + 1, 2 * c)  e == At(x, s, 2 * r + 1, 2 * c + 1)
             f == At(z, s, r, c)      g == At(z, s, r, c + m)
             h == At(z, s, r + m, c)  i == At(z, s, r + m, c + m)
  <2>2. a \in Int /\ b \in Int /\ d \in Int /\ e \in Int
    BY <1>0, <2>1, AtInt
  <2>3. f \in Int /\ g \in Int /\ h \in Int /\ i \in Int
    BY <1>0, <1>4, <2>1, AtInt
  <2>4. /\ 2 * f = At(y1, s, r, c) /\ 2 * g = At(y1, s, r, c + m)
        /\ 2 * h = At(y1, s, r + m, c) /\ 2 * i = At(y1, s, r + m, c + m)
    BY <1>3, <2>1
  <2>5. /\ At(y1, s, r, c) = (a + b) + (d + e)
        /\ At(y1, s, r, c + m) = (a - b) + (d - e)
        /\ At(y1, s, r + m, c) = (a + b) - (d + e)
        /\ At(y1, s, r + m, c + m) = (a - b) - (d - e)
    BY <1>1
  <2>6. /\ At(y2, s, 2 * r, 2 * c) = (f + g) + (h + i)
        /\ At(y2, s, 2 * r, 2 * c + 1) = (f - g) + (h - i)
        /\ At(y2, s, 2 * r + 1, 2 * c) = (f + g) - (h + i)
        /\ At(y2, s, 2 * r + 1, 2 * c + 1) = (f - g) - (h - i)
    BY <1>5
  <2> HIDE DEF a, b, d, e, f, g, h, i
  <2>7. /\ (f + g) + (h + i) = 2 * a /\ (f - g) + (h - i) = 2 * b
        /\ (f + g) - (h + i) = 2 * d /\ (f - g) - (h - i) = 2 * e
    BY <2>2, <2>3, <2>4, <2>5
  <2> QED
    BY <2>6, <2>7 DEF a, b, d, e
<1>7. ASSUME NEW r \in 0..(s - 1), NEW c \in 0..(s - 1)
      PROVE  At(y2, s, r, c) = 2 * At(x, s, r, c)
  <2>1. PICK q \in 0..(m - 1) : r = 2 * q \/ r = 2 * q + 1
    BY HalfWay
  <2>2. PICK u \in 0..(m - 1) : c = 2 * u \/ c = 2 * u + 1
    BY HalfWay
  <2>3. /\ At(y2, s, 2 * q, 2 * u) = 2 * At(x, s, 2 * q, 2 * u)
        /\ At(y2, s, 2 * q, 2 * u + 1) = 2 * At(x, s, 2 * q, 2 * u + 1)
        /\ At(y2, s, 2 * q + 1, 2 * u) = 2 * At(x, s, 2 * q + 1, 2 * u)
        /\ At(y2, s, 2 * q + 1, 2 * u + 1) = 2 * At(x, s, 2 * q + 1, 2 * u + 1)
    BY <1>6
  <2> QED
    BY <2>1, <2>2, <2>3
<1>8. ASSUME NEW r \in 0..(s - 1), NEW c \in 0..(s - 1)
      PROVE  At(y2, s, r, c) \in Multiples(2 * 1)
  <2>1. At(x, s, r, c) \in Int
    BY <1>0, AtInt
  <2> QED
    BY <1>7, <2>1 DEF Multiples
<1>9. y2 \in Grained(s, 2 * 1)
  <2>1. 2 * 1 \in Nat
    OBVIOUS
  <2> QED
    BY <1>0, <1>5, <1>8, <2>1, PictureGrained
<1>10. /\ Halved(y2) \in Grained(s, 1)
       /\ \A r, c \in 0..(s - 1) : 2 * At(Halved(y2), s, r, c) = At(y2, s, r, c)
  BY <1>0, <1>9, HalvedPicture
<1>11. Halved(y2) \in Pictures(s)
  BY <1>0, <1>10, GrainedPicture
<1>12. ASSUME NEW r \in 0..(s - 1), NEW c \in 0..(s - 1)
       PROVE  At(Halved(y2), s, r, c) = At(x, s, r, c)
  <2>1. At(x, s, r, c) \in Int /\ At(Halved(y2), s, r, c) \in Int
    BY <1>0, <1>11, AtInt
  <2>2. 2 * At(Halved(y2), s, r, c) = 2 * At(x, s, r, c)
    BY <1>7, <1>10
  <2> QED
    BY <2>1, <2>2
<1>13. Halved(y2) = x
  BY <1>0, <1>11, <1>12, SamePicture
<1> QED
  BY <1>13 DEF Dwt2, Idwt2, y1, y2, z

(***************************************************************************)
(* ... and dwt2 undoes idwt2: every choice of even coefficients is that of  *)
(* a picture, and of one only.                                             *)
(***************************************************************************)
THEOREM CoefficientsInverse ==
  ASSUME NEW m \in Nat \ {0}, NEW s, s = 2 * m, NEW x \in Grained(s, 2)
  PROVE  Dwt2(Idwt2(x, s, s), s, s) = x
<1> DEFINE y1 == AlongColumns(Idwt, AlongRows(Idwt, x, s, s), s, s)
           z == Halved(y1)
           y2 == AlongColumns(Dwt, AlongRows(Dwt, z, s, s), s, s)
<1>0. s \in Nat \ {0} /\ x \in Pictures(s)
  BY GrainedPicture
<1>1. /\ y1 \in Grained(s, 2)
      /\ \A r, c \in 0..(m - 1) :
           LET a == At(x, s, r, c)      b == At(x, s, r, c + m)
               d == At(x, s, r + m, c)  e == At(x, s, r + m, c + m)
           IN /\ At(y1, s, 2 * r, 2 * c) = (a + b) + (d + e)
              /\ At(y1, s, 2 * r, 2 * c + 1) = (a - b) + (d - e)
              /\ At(y1, s, 2 * r + 1, 2 * c) = (a + b) - (d + e)
              /\ At(y1, s, 2 * r + 1, 2 * c + 1) = (a - b) - (d - e)
  BY <1>0, Idwt2Sums
<1> HIDE DEF y1
<1>2. y1 \in Grained(s, 2 * 1)
  BY <1>1
<1>3. z \in Grained(s, 1) /\ \A r, c \in 0..(s - 1) : 2 * At(z, s, r, c) = At(y1, s, r, c)
  BY <1>0, <1>2, HalvedPicture
<1> HIDE DEF z
<1>4. z \in Pictures(s)
  BY <1>0, <1>3, GrainedPicture
<1>5. /\ y2 \in Pictures(s)
      /\ \A r, c \in 0..(m - 1) :
           LET a == At(z, s, 2 * r, 2 * c)      b == At(z, s, 2 * r, 2 * c + 1)
               d == At(z, s, 2 * r + 1, 2 * c)  e == At(z, s, 2 * r + 1, 2 * c + 1)
           IN /\ At(y2, s, r, c) = (a + b) + (d + e)
              /\ At(y2, s, r, c + m) = (a - b) + (d - e)
              /\ At(y2, s, r + m, c) = (a + b) - (d + e)
              /\ At(y2, s, r + m, c + m) = (a - b) - (d - e)
  BY <1>4, Dwt2Sums
<1> HIDE DEF y2
<1>6. ASSUME NEW r \in 0..(m - 1), NEW c \in 0..(m - 1)
      PROVE  /\ At(y2, s, r, c) = 2 * At(x, s, r, c)
             /\ At(y2, s, r, c + m) = 2 * At(x, s, r, c + m)
             /\ At(y2, s, r + m, c) = 2 * At(x, s, r + m, c)
             /\ At(y2, s, r + m, c + m) = 2 * At(x, s, r + m, c + m)
  <2>1. /\ r \in 0..(s - 1) /\ r + m \in 0..(s - 1) /\ c \in 0..(s - 1) /\ c + m \in 0..(s - 1)
        /\ 2 * r \in 0..(s - 1) /\ 2 * r + 1 \in 0..(s - 1)
        /\ 2 * c \in 0..(s - 1) /\ 2 * c + 1 \in 0..(s - 1)
    OBVIOUS
  <2> DEFINE a == At(x, s, r, c)      b == At(x, s, r, c + m)
             d == At(x, s, r + m, c)  e == At(x, s, r + m, c + m)
             f == At(z, s, 2 * r, 2 * c)      g == At(z, s, 2 * r, 2 * c + 1)
             h == At(z, s, 2 * r + 1, 2 * c)  i == At(z, s, 2 * r + 1, 2 * c + 1)
  <2>2. a \in Int /\ b \in Int /\ d \in Int /\ e \in Int
    BY <1>0, <2>1, AtInt
  <2>3. f \in Int /\ g \in Int /\ h \in Int /\ i \in Int
    BY <1>0, <1>4, <2>1, AtInt
  <2>4. /\ 2 * f = At(y1, s, 2 * r, 2 * c) /\ 2 * g = At(y1, s, 2 * r, 2 * c + 1)
        /\ 2 * h = At(y1, s, 2 * r + 1, 2 * c) /\ 2 * i = At(y1, s, 2 * r + 1, 2 * c + 1)
    BY <1>3, <2>1
  <2>5. /\ At(y1, s, 2 * r, 2 * c) = (a + b) + (d + e)
        /\ At(y1, s, 2 * r, 2 * c + 1) = (a - b) + (d - e)
        /\ At(y1, s, 2 * r + 1, 2 * c) = (a + b) - (d + e)
        /\ At(y1, s, 2 * r + 1, 2 * c + 1) = (a - b) - (d - e)
    BY <1>1
  <2>6. /\ At(y2, s, r, c) = (f + g) + (h + i)
        /\ At(y2, s, r, c + m) = (f - g) + (h - i)
        /\ At(y2, s, r + m, c) = (f + g) - (h + i)
        /\ At(y2, s, r + m, c + m) = (f - g) - (h - i)
    BY <1>5
  <2> HIDE DEF a, b, d, e, f, g, h, i
  <2>7. /\ (f + g) + (h + i) = 2 * a /\ (f - g) + (h - i) = 2 * b
        /\ (f + g) - (h + i) = 2 * d /\ (f - g) - (h - i) = 2 * e
    BY <2>2, <2>3, <2>4, <2>5
  <2> QED
    BY <2>6, <2>7 DEF a, b, d, e
<1>7. ASSUME NEW r \in 0..(s - 1), NEW c \in 0..(s - 1)
      PROVE  At(y2, s, r, c) = 2 * At(x, s, r, c)
  <2>1. PICK q \in 0..(m - 1) : r = q \/ r = q + m
    BY LowOrHigh
  <2>2. PICK u \in 0..(m - 1) : c = u \/ c = u + m
    BY LowOrHigh
  <2>3. /\ At(y2, s, q, u) = 2 * At(x, s, q, u)
        /\ At(y2, s, q, u + m) = 2 * At(x, s, q, u + m)
        /\ At(y2, s, q + m, u) = 2 * At(x, s, q + m, u)
        /\ At(y2, s, q + m, u + m) = 2 * At(x, s, q + m, u + m)
    BY <1>6
  <2> QED
    BY <2>1, <2>2, <2>3
<1>8. ASSUME NEW r \in 0..(s - 1), NEW c \in 0..(s - 1)
      PROVE  At(y2, s, r, c) \in Multiples(2 * 1)
  <2>1. At(x, s, r, c) \in Int
    BY <1>0, AtInt
  <2> QED
    BY <1>7, <2>1 DEF Multiples
<1>9. y2 \in Grained(s, 2 * 1)
  <2>1. 2 * 1 \in Nat
    OBVIOUS
  <2> QED
    BY <1>0, <1>5, <1>8, <2>1, PictureGrained
<1>10. /\ Halved(y2) \in Grained(s, 1)
       /\ \A r, c \in 0..(s - 1) : 2 * At(Halved(y2), s, r, c) = At(y2, s, r, c)
  BY <1>0, <1>9, HalvedPicture
<1>11. Halved(y2) \in Pictures(s)
  BY <1>0, <1>10, GrainedPicture
<1>12. ASSUME NEW r \in 0..(s - 1), NEW c \in 0..(s - 1)
       PROVE  At(Halved(y2), s, r, c) = At(x, s, r, c)
  <2>1. At(x, s, r, c) \in Int /\ At(Halved(y2), s, r, c) \in Int
    BY <1>0, <1>11, AtInt
  <2>2. 2 * At(Halved(y2), s, r, c) = 2 * At(x, s, r, c)
    BY <1>7, <1>10
  <2> QED
    BY <2>1, <2>2
<1>13. Halved(y2) = x
  BY <1>0, <1>11, <1>12, SamePicture
<1> QED
  BY <1>13 DEF Idwt2, Dwt2, y1, y2, z
-----------------------------------------------------------------------------
(* The corner of a picture of multiples of n, taken out and put back. *)
LEMMA CornerOut ==
  ASSUME NEW w \in Nat \ {0}, NEW s \in Nat \ {0}, s <= w, NEW n \in Nat, NEW x \in Grained(w, n)
  PROVE  /\ CopyParts(x, s, s, w) \in Grained(s, n)
         /\ \A r, c \in 0..(s - 1) : At(CopyParts(x, s, s, w), s, r, c) = At(x, w, r, c)
<1> DEFINE p == CopyParts(x, s, s, w)
           V == Multiples(n)
<1>1. p = [i \in 0..(s * s - 1) |-> At(x, w, i \div s, i % s)]
  BY DEF CopyParts, At
<1>2. ASSUME NEW r \in 0..(s - 1), NEW c \in 0..(s - 1) PROVE At(x, w, r, c) \in V
  <2>1. r \in 0..(w - 1) /\ c \in 0..(w - 1)
    OBVIOUS
  <2> QED
    BY <2>1, GrainedPicture
<1> HIDE DEF V
<1>3. \A i \in 0..(s * s - 1) : At(x, w, i \div s, i % s) \in V
  BY <1>2, CellOf
<1>4. \A r, c \in 0..(s - 1) : p[r * s + c] = At(x, w, r, c)
  BY <1>1, CellBoth
<1>5. p \in [0..(s * s - 1) -> V]
  BY <1>1, <1>3
<1> QED
  BY <1>4, <1>5 DEF At, Grained, V

Patched(z, p, x, s, w) ==            \* z is x, with p in its corner
  \A r, c \in 0..(w - 1) :
    At(z, w, r, c) = IF c < s /\ r < s THEN At(p, s, r, c) ELSE At(x, w, r, c)

LEMMA CornerIn ==
  ASSUME NEW w \in Nat \ {0}, NEW s \in Nat \ {0}, s <= w, NEW n \in Nat,
         NEW x \in Grained(w, n), NEW p \in Grained(s, n)
  PROVE  /\ CopyPartsInverse(p, x, s, s, w) \in Grained(w, n)
         /\ Patched(CopyPartsInverse(p, x, s, s, w), p, x, s, w)
<1> DEFINE z == CopyPartsInverse(p, x, s, s, w)
           f(i) == IF i % w < s /\ i \div w < s THEN At(p, s, i \div w, i % w) ELSE x[i]
           V == Multiples(n)
<1>0. x \in [0..(w * w - 1) -> V]
  BY DEF Grained
<1>1. z = [i \in 0..(w * w - 1) |-> f(i)]
  BY <1>0 DEF CopyPartsInverse, At
<1>2. \A r, c \in 0..(s - 1) : At(p, s, r, c) \in V
  BY GrainedPicture
<1> HIDE DEF V
<1>3. ASSUME NEW i \in 0..(w * w - 1) PROVE f(i) \in V
  <2>1. i \div w \in 0..(w - 1) /\ i % w \in 0..(w - 1)
    BY CellOf
  <2> QED
    BY <1>0, <1>2, <2>1
<1> HIDE DEF f
<1>4. z \in [0..(w * w - 1) -> V]
  BY <1>1, <1>3
<1>5. ASSUME NEW r \in 0..(w - 1), NEW c \in 0..(w - 1)
      PROVE  At(z, w, r, c) = IF c < s /\ r < s THEN At(p, s, r, c) ELSE At(x, w, r, c)
  <2>1. r * w + c \in 0..(w * w - 1) /\ (r * w + c) \div w = r /\ (r * w + c) % w = c
    BY CellBoth
  <2>2. At(z, w, r, c) = f(r * w + c)
    BY <1>1, <2>1 DEF At
  <2>3. f(r * w + c) = IF c < s /\ r < s THEN At(p, s, r, c) ELSE x[r * w + c]
    BY <2>1 DEF f
  <2> QED
    BY <2>2, <2>3 DEF At
<1> QED
  BY <1>4, <1>5 DEF V, Grained, Patched

(* What was put into the corner is taken out again ... *)
LEMMA CornerKept ==
  ASSUME NEW w \in Nat \ {0}, NEW s \in Nat \ {0}, s <= w, NEW n \in Nat,
         NEW x \in Grained(w, n), NEW p \in Grained(s, n)
  PROVE  CopyParts(CopyPartsInverse(p, x, s, s, w), s, s, w) = p
<1> DEFINE z == CopyPartsInverse(p, x, s, s, w)
           q == CopyParts(z, s, s, w)
<1>1. z \in Grained(w, n) /\ Patched(z, p, x, s, w)
  BY CornerIn
<1> HIDE DEF z
<1>2. q \in Grained(s, n) /\ \A r, c \in 0..(s - 1) : At(q, s, r, c) = At(z, w, r, c)
  BY <1>1, CornerOut
<1> HIDE DEF q
<1>3. ASSUME NEW r \in 0..(s - 1), NEW c \in 0..(s - 1) PROVE At(q, s, r, c) = At(p, s, r, c)
  <2>1. r \in 0..(w - 1) /\ c \in 0..(w - 1) /\ c < s /\ r < s
    OBVIOUS
  <2> QED
    BY <1>1, <1>2, <2>1 DEF Patched
<1>4. q \in Pictures(s) /\ p \in Pictures(s)
  BY <1>2, GrainedPicture
<1>5. q = p
  BY <1>3, <1>4, SamePicture
<1> QED
  BY <1>5 DEF q, z

(* ... and what was taken out of it makes the picture whole again. *)
LEMMA CornerRestored ==
  ASSUME NEW w \in Nat \ {0}, NEW s \in Nat \ {0}, s <= w, NEW n \in Nat,
         NEW x \in Grained(w, n), NEW p \in Grained(s, n)
  PROVE  CopyPartsInverse(CopyParts(x, s, s, w), CopyPartsInverse(p, x, s, s, w), s, s, w) = x
<1> DEFINE z == CopyPartsInverse(p, x, s, s, w)
           q == CopyParts(x, s, s, w)
           v == CopyPartsInverse(q, z, s, s, w)
<1>1. z \in Grained(w, n) /\ Patched(z, p, x, s, w)
  BY CornerIn
<1> HIDE DEF z
<1>2. q \in Grained(s, n) /\ \A r, c \in 0..(s - 1) : At(q, s, r, c) = At(x, w, r, c)
  BY CornerOut
<1> HIDE DEF q
<1>3. v \in Grained(w, n) /\ Patched(v, q, z, s, w)
  BY <1>1, <1>2, CornerIn
<1> HIDE DEF v
<1>4. ASSUME NEW r \in 0..(w - 1), NEW c \in 0..(w - 1) PROVE At(v, w, r, c) = At(x, w, r, c)
  <2>1. CASE c < s /\ r < s
    <3>1. r \in 0..(s - 1) /\ c \in 0..(s - 1)
      BY <2>1
    <3> QED
      BY <1>2, <1>3, <2>1, <3>1 DEF Patched
  <2>2. CASE ~(c < s /\ r < s)
    BY <1>1, <1>3, <2>2 DEF Patched
  <2> QED
    BY <2>1, <2>2
<1>5. v \in Pictures(w) /\ x \in Pictures(w)
  BY <1>3, GrainedPicture
<1>6. v = x
  BY <1>4, <1>5, SamePicture
<1> QED
  BY <1>6 DEF v, q, z
-----------------------------------------------------------------------------
(* The sides of the corners: positive, even until the last, at most N. *)
LEMMA PowPositive == ASSUME NEW n \in Nat PROVE Pow2[n] \in Nat \ {0}
<1> DEFINE S == {m \in Nat : Pow2[m] # 0}
<1>1. 0 \in S
  BY Pow2Facts
<1>2. ASSUME NEW m \in Nat, m \in S PROVE m + 1 \in S
  BY <1>2, Pow2Facts
<1> HIDE DEF S
<1>3. n \in S
  BY <1>1, <1>2, InductionEach
<1> QED
  BY <1>3, Pow2Facts DEF S

LEMMA PowSum ==
  ASSUME NEW m \in Nat, NEW n \in Nat PROVE Pow2[m + n] = Pow2[m] * Pow2[n]
<1> DEFINE S == {j \in Nat : Pow2[m + j] = Pow2[m] * Pow2[j]}
<1>1. 0 \in S
  BY Pow2Facts
<1>2. ASSUME NEW j \in Nat, j \in S PROVE j + 1 \in S
  <2> DEFINE a == Pow2[m]  b == Pow2[j]
  <2>1. a \in Nat /\ b \in Nat
    BY Pow2Facts
  <2>2. Pow2[m + j] = a * b /\ Pow2[j + 1] = 2 * b
    BY <1>2, Pow2Facts
  <2>3. Pow2[(m + j) + 1] = 2 * Pow2[m + j] /\ m + (j + 1) = (m + j) + 1
    BY Pow2Facts
  <2> HIDE DEF a, b
  <2>4. 2 * (a * b) = a * (2 * b)
    BY <2>1
  <2>5. Pow2[m + (j + 1)] = a * Pow2[j + 1]
    BY <2>2, <2>3, <2>4
  <2> QED
    BY <2>5 DEF a
<1> HIDE DEF S
<1>3. n \in S
  BY <1>1, <1>2, InductionEach
<1> QED
  BY <1>3 DEF S

LEMMA Quotient == ASSUME NEW a \in Nat \ {0}, NEW b \in Nat PROVE (a * b) \div a = b
  OBVIOUS

LEMMA PowDivides ==
  ASSUME NEW m \in Nat, NEW n \in Nat, n <= m
  PROVE  Pow2[m] \div Pow2[n] = Pow2[m - n] /\ Pow2[m - n] <= Pow2[m]
<1>1. m - n \in Nat /\ n + (m - n) = m
  OBVIOUS
<1>2. Pow2[m] = Pow2[n] * Pow2[m - n]
  BY <1>1, PowSum
<1>3. Pow2[n] \in Nat \ {0} /\ Pow2[m - n] \in Nat \ {0}
  BY <1>1, PowPositive
<1> DEFINE a == Pow2[n]  b == Pow2[m - n]
<1>4. a \in Nat \ {0} /\ b \in Nat
  BY <1>3
<1> HIDE DEF a, b
<1>5. (a * b) \div a = b
  BY <1>4, Quotient
<1>6. (a - 1) * b \in Nat /\ (a - 1) * b = a * b - b
  <2>1. a - 1 \in Nat
    BY <1>4
  <2> QED
    BY <1>4, <2>1, ProductNat
<1>7. b <= a * b
  BY <1>4, <1>6
<1> QED
  BY <1>2, <1>5, <1>7 DEF a, b

(* The corner of level q, of half the side s, for q from 0 to Order - 1. *)
LEMMA Side ==
  ASSUME NEW q \in 0..(Order - 1)
  PROVE  \E m \in Nat \ {0} : N \div Pow2[q] = 2 * m /\ 2 * m <= N
<1>1. q \in Nat /\ Order \in Nat /\ q <= Order /\ Order - q - 1 \in Nat
  BY FistaAssumption
<1>2. N \div Pow2[q] = Pow2[Order - q] /\ Pow2[Order - q] <= N
  BY <1>1, PowDivides DEF N
<1>3. Pow2[Order - q] = 2 * Pow2[Order - q - 1]
  <2>1. Pow2[(Order - q - 1) + 1] = 2 * Pow2[Order - q - 1]
    BY <1>1, Pow2Facts
  <2>2. (Order - q - 1) + 1 = Order - q
    BY <1>1
  <2> QED
    BY <2>1, <2>2
<1>4. Pow2[Order - q - 1] \in Nat \ {0}
  BY <1>1, PowPositive
<1> QED
  BY <1>2, <1>3, <1>4
-----------------------------------------------------------------------------
(* One level of dwt2_full and of idwt2_full, on a picture of N x N. *)
LEMMA GrainedTwice ==
  ASSUME NEW n \in Nat, NEW x \in Grained(N, 2 * n) PROVE x \in Grained(N, n)
<1> DEFINE V == Multiples(n)  W == Multiples(2 * n)
<1>1. W \subseteq V
  BY MultiplesDouble
<1>2. x \in [0..(N * N - 1) -> W]
  BY DEF Grained
<1> HIDE DEF V, W
<1>3. x \in [0..(N * N - 1) -> V]
  BY <1>1, <1>2
<1> QED
  BY <1>3 DEF Grained, V

LEMMA NPositive == N \in Nat \ {0}
  BY PowPositive, FistaAssumption DEF N

LEMMA DwtLevelGrained ==
  ASSUME NEW q \in 0..(Order - 1), NEW n \in Nat, NEW x \in Grained(N, 2 * n)
  PROVE  DwtLevel(x, N, q) \in Grained(N, n)
<1>1. PICK m \in Nat \ {0} : N \div Pow2[q] = 2 * m /\ 2 * m <= N
  BY Side
<1> DEFINE s == 2 * m
           p == CopyParts(x, s, s, N)
           d == Dwt2(p, s, s)
<1>2. s \in Nat \ {0} /\ s <= N /\ N \in Nat \ {0} /\ 2 * n \in Nat
  BY <1>1, NPositive
<1>3. DwtLevel(x, N, q) = CopyPartsInverse(d, x, s, s, N)
  BY <1>1 DEF DwtLevel
<1>4. s = 2 * m
  OBVIOUS
<1> HIDE DEF s
<1>5. p \in Grained(s, 2 * n)
  BY <1>2, CornerOut
<1> HIDE DEF p
<1>6. d \in Grained(s, n)
  BY <1>4, <1>5, TransformsGrained
<1>7. x \in Grained(N, n)
  BY GrainedTwice
<1> HIDE DEF d
<1> QED
  BY <1>2, <1>3, <1>6, <1>7, CornerIn

LEMMA IdwtLevelGrained ==
  ASSUME NEW q \in 0..(Order - 1), NEW n \in Nat, NEW x \in Grained(N, 2 * n)
  PROVE  IdwtLevel(x, N, q + 1) \in Grained(N, n)
<1>1. PICK m \in Nat \ {0} : N \div Pow2[q] = 2 * m /\ 2 * m <= N
  BY Side
<1> DEFINE s == 2 * m
           p == CopyParts(x, s, s, N)
           d == Idwt2(p, s, s)
<1>2. s \in Nat \ {0} /\ s <= N /\ N \in Nat \ {0} /\ 2 * n \in Nat
  BY <1>1, NPositive
<1>3. IdwtLevel(x, N, q + 1) = CopyPartsInverse(d, x, s, s, N)
  <2>1. (q + 1) - 1 = q
    OBVIOUS
  <2> QED
    BY <1>1, <2>1 DEF IdwtLevel
<1>4. s = 2 * m
  OBVIOUS
<1> HIDE DEF s
<1>5. p \in Grained(s, 2 * n)
  BY <1>2, CornerOut
<1> HIDE DEF p
<1>6. d \in Grained(s, n)
  BY <1>4, <1>5, TransformsGrained
<1>7. x \in Grained(N, n)
  BY GrainedTwice
<1> HIDE DEF d
<1> QED
  BY <1>2, <1>3, <1>6, <1>7, CornerIn

(***************************************************************************)
(* A level of idwt2_full undoes the same level of dwt2_full, in a corner   *)
(* of a picture that both overwrite ...                                    *)
(***************************************************************************)
THEOREM LevelInverse ==
  ASSUME NEW q \in 0..(Order - 1), NEW x \in Grained(N, 2)
  PROVE  IdwtLevel(DwtLevel(x, N, q), N, q + 1) = x
<1>1. PICK m \in Nat \ {0} : N \div Pow2[q] = 2 * m /\ 2 * m <= N
  BY Side
<1> DEFINE s == 2 * m
           p == CopyParts(x, s, s, N)
           d == Dwt2(p, s, s)
           z == CopyPartsInverse(d, x, s, s, N)
<1>2. s \in Nat \ {0} /\ s <= N /\ N \in Nat \ {0} /\ 2 \in Nat /\ 1 \in Nat /\ 2 * 1 = 2
  BY <1>1, NPositive
<1>3. DwtLevel(x, N, q) = z
  BY <1>1 DEF DwtLevel
<1>4. IdwtLevel(z, N, q + 1) = CopyPartsInverse(Idwt2(CopyParts(z, s, s, N), s, s), z, s, s, N)
  <2>1. (q + 1) - 1 = q
    OBVIOUS
  <2> QED
    BY <1>1, <2>1 DEF IdwtLevel
<1>5. s = 2 * m
  OBVIOUS
<1> HIDE DEF s
<1>6. p \in Grained(s, 2)
  BY <1>2, CornerOut
<1>7. p = CopyParts(x, s, s, N)
  OBVIOUS
<1> HIDE DEF p
<1>8. d \in Grained(s, 1)
  BY <1>2, <1>5, <1>6, TransformsGrained
<1>9. Idwt2(d, s, s) = p
  BY <1>5, <1>6, PictureInverse
<1> HIDE DEF d
<1>10. x \in Grained(N, 1)
  BY <1>2, GrainedTwice
<1>11. CopyParts(z, s, s, N) = d
  BY <1>2, <1>8, <1>10, CornerKept
<1>12. CopyPartsInverse(p, z, s, s, N) = x
  BY <1>2, <1>7, <1>8, <1>10, CornerRestored
<1> QED
  BY <1>3, <1>4, <1>9, <1>11, <1>12

(* ... and a level of dwt2_full the same level of idwt2_full. *)
THEOREM LevelInverseBack ==
  ASSUME NEW q \in 0..(Order - 1), NEW x \in Grained(N, 2)
  PROVE  DwtLevel(IdwtLevel(x, N, q + 1), N, q) = x
<1>1. PICK m \in Nat \ {0} : N \div Pow2[q] = 2 * m /\ 2 * m <= N
  BY Side
<1> DEFINE s == 2 * m
           p == CopyParts(x, s, s, N)
           d == Idwt2(p, s, s)
           z == CopyPartsInverse(d, x, s, s, N)
<1>2. s \in Nat \ {0} /\ s <= N /\ N \in Nat \ {0} /\ 2 \in Nat /\ 1 \in Nat /\ 2 * 1 = 2
  BY <1>1, NPositive
<1>3. IdwtLevel(x, N, q + 1) = z
  <2>1. (q + 1) - 1 = q
    OBVIOUS
  <2> QED
    BY <1>1, <2>1 DEF IdwtLevel
<1>4. DwtLevel(z, N, q) = CopyPartsInverse(Dwt2(CopyParts(z, s, s, N), s, s), z, s, s, N)
  BY <1>1 DEF DwtLevel
<1>5. s = 2 * m
  OBVIOUS
<1> HIDE DEF s
<1>6. p \in Grained(s, 2)
  BY <1>2, CornerOut
<1>7. p = CopyParts(x, s, s, N)
  OBVIOUS
<1> HIDE DEF p
<1>8. d \in Grained(s, 1)
  BY <1>2, <1>5, <1>6, TransformsGrained
<1>9. Dwt2(d, s, s) = p
  BY <1>5, <1>6, CoefficientsInverse
<1> HIDE DEF d
<1>10. x \in Grained(N, 1)
  BY <1>2, GrainedTwice
<1>11. CopyParts(z, s, s, N) = d
  BY <1>2, <1>8, <1>10, CornerKept
<1>12. CopyPartsInverse(p, z, s, s, N) = x
  BY <1>2, <1>7, <1>8, <1>10, CornerRestored
<1> QED
  BY <1>3, <1>4, <1>9, <1>11, <1>12
-----------------------------------------------------------------------------
(* Pictures of multiples of 2^n: n levels halve them without a rest. *)
Exact(n) == Grained(N, Pow2[n])

LEMMA MultiplesPow ==
  ASSUME NEW m \in Nat, NEW n \in Nat, n <= m
  PROVE  Multiples(Pow2[m]) \subseteq Multiples(Pow2[n])
<1> DEFINE a == Pow2[n]  b == Pow2[m - n]
<1>1. m - n \in Nat /\ n + (m - n) = m
  OBVIOUS
<1>2. Pow2[m] = a * b
  BY <1>1, PowSum
<1>3. a \in Nat /\ b \in Nat
  BY <1>1, Pow2Facts
<1> HIDE DEF a, b
<1>4. ASSUME NEW q \in Int PROVE (a * b) * q \in Multiples(a)
  <2>1. (a * b) * q = a * (b * q) /\ b * q \in Int
    BY <1>3
  <2> QED
    BY <2>1 DEF Multiples
<1>5. Multiples(a * b) \subseteq Multiples(a)
  BY <1>4 DEF Multiples
<1> QED
  BY <1>2, <1>5 DEF a

LEMMA ExactLess ==
  ASSUME NEW m \in Nat, NEW n \in Nat, n <= m, NEW x \in Exact(m)
  PROVE  x \in Exact(n)
<1> DEFINE V == Multiples(Pow2[n])  W == Multiples(Pow2[m])
<1>1. W \subseteq V
  BY MultiplesPow
<1>2. x \in [0..(N * N - 1) -> W]
  BY DEF Exact, Grained
<1> HIDE DEF V, W
<1>3. x \in [0..(N * N - 1) -> V]
  BY <1>1, <1>2
<1> QED
  BY <1>3 DEF Exact, Grained, V

LEMMA ExactPicture == ASSUME NEW n \in Nat, NEW x \in Exact(n) PROVE x \in Pictures(N)
<1>1. N \in Nat /\ Pow2[n] \in Nat
  BY NPositive, Pow2Facts
<1> QED
  BY <1>1, GrainedPicture DEF Exact

LEMMA ExactTwice ==
  ASSUME NEW n \in Nat, NEW x \in Exact(n + 1)
  PROVE  x \in Grained(N, 2 * Pow2[n]) /\ x \in Grained(N, 2)
<1>1. Pow2[n + 1] = 2 * Pow2[n]
  BY Pow2Facts
<1>2. x \in Exact(0 + 1)
  <2>1. 0 + 1 \in Nat /\ n + 1 \in Nat /\ 0 + 1 <= n + 1
    OBVIOUS
  <2> QED
    BY <2>1, ExactLess
<1>3. Pow2[0 + 1] = 2
  <2>1. Pow2[0] = 1 /\ Pow2[0 + 1] = 2 * Pow2[0]
    BY Pow2Facts
  <2> QED
    BY <2>1
<1> QED
  BY <1>1, <1>2, <1>3 DEF Exact

(* A level of each transform on such a picture: exact, and not lost. *)
LEMMA DwtExact ==
  ASSUME NEW q \in 0..(Order - 1), NEW n \in Nat, NEW x \in Exact(n + 1)
  PROVE  /\ DwtLevel(x, N, q) \in Exact(n)
         /\ IdwtLevel(DwtLevel(x, N, q), N, q + 1) = x
<1>1. x \in Grained(N, 2 * Pow2[n]) /\ x \in Grained(N, 2)
  BY ExactTwice
<1>2. Pow2[n] \in Nat
  BY Pow2Facts
<1>3. DwtLevel(x, N, q) \in Grained(N, Pow2[n])
  BY <1>1, <1>2, DwtLevelGrained
<1> QED
  BY <1>1, <1>3, LevelInverse DEF Exact

LEMMA IdwtExact ==
  ASSUME NEW q \in 0..(Order - 1), NEW n \in Nat, NEW x \in Exact(n + 1)
  PROVE  /\ IdwtLevel(x, N, q + 1) \in Exact(n)
         /\ DwtLevel(IdwtLevel(x, N, q + 1), N, q) = x
<1>1. x \in Grained(N, 2 * Pow2[n]) /\ x \in Grained(N, 2)
  BY ExactTwice
<1>2. Pow2[n] \in Nat
  BY Pow2Facts
<1>3. IdwtLevel(x, N, q + 1) \in Grained(N, Pow2[n])
  BY <1>1, <1>2, IdwtLevelGrained
<1> QED
  BY <1>1, <1>3, LevelInverseBack DEF Exact
-----------------------------------------------------------------------------
(* The halvings that are still to come when i iterations are done.         *)
Room(i) == Order * (2 * (Its - i) + 1)

LEMMA RoomRange ==
  ASSUME NEW i \in 0..Its
  PROVE  Room(i) \in Nat /\ Order <= Room(i) /\ Room(i) <= Room(0)
<1>1. Order \in Nat /\ Its \in Nat /\ i \in Nat /\ Its - i \in Nat
  BY FistaAssumption
<1>2. Order * (Its - i) \in Nat /\ Order * i \in Nat
  BY <1>1, ProductNat
<1>3. Room(i) = 2 * (Order * (Its - i)) + Order
  BY <1>1 DEF Room
<1>4. Room(0) = Room(i) + 2 * (Order * i)
  BY <1>1 DEF Room
<1> QED
  BY <1>1, <1>2, <1>3, <1>4

LEMMA RoomStep ==
  ASSUME NEW i \in 0..Its, i < Its PROVE Room(i) = Room(i + 1) + 2 * Order
<1>1. Order \in Nat /\ Its \in Nat /\ i \in Nat
  BY FistaAssumption
<1> QED
  BY <1>1 DEF Room

LEMMA RoomEnds == Room(Its) = Order /\ Scale = Pow2[Room(0)]
<1>1. Order \in Nat /\ Its \in Nat
  BY FistaAssumption
<1>2. Room(Its) = Order
  BY <1>1 DEF Room
<1>3. Room(0) = Order * (2 * Its + 1)
  BY <1>1 DEF Room
<1> QED
  BY <1>2, <1>3 DEF Scale
-----------------------------------------------------------------------------
(* What an iteration does to the numbers of a picture. *)
LEMMA Latest ==
  ASSUME NEW S \in SUBSET Nat, S # {}, NEW b \in Nat, \A i \in S : i <= b
  PROVE  Max(S) \in S
<1> DEFINE T == {b - i : i \in S}
<1>1. T \in SUBSET Nat /\ T # {}
  <2>1. \A i \in S : i \in Nat /\ b - i \in Nat
    OBVIOUS
  <2>2. T \subseteq Nat
    BY <2>1
  <2>3. PICK i : i \in S
    OBVIOUS
  <2>4. b - i \in T
    BY <2>3
  <2> QED
    BY <2>2, <2>4
<1>2. PICK m \in T : \A n \in T : m <= n
  BY <1>1, Least
<1>3. PICK i \in S : m = b - i
  BY <1>2
<1>4. \A j \in S : i >= j
  <2>1. ASSUME NEW j \in S PROVE i >= j
    <3>1. b - j \in T /\ i \in Nat /\ j \in Nat
      OBVIOUS
    <3>2. b - i <= b - j
      BY <1>2, <1>3, <3>1
    <3> QED
      BY <3>1, <3>2
  <2> QED
    BY <2>1
<1> QED
  BY <1>4 DEF Max

LEMMA LastForIn ==
  ASSUME idx \in Samplings, NEW p \in Sampled PROVE LastFor(p) \in DOMAIN idx
<1> DEFINE S == {i \in DOMAIN idx : idx[i] = p}
<1>1. DOMAIN idx = 1..Len(idx) /\ Len(idx) \in Nat
  BY FistaAssumption
<1>2. S \in SUBSET Nat /\ S # {} /\ \A i \in S : i <= Len(idx)
  BY <1>1 DEF Sampled
<1> HIDE DEF S
<1>3. Max(S) \in S
  BY <1>1, <1>2, Latest
<1> QED
  BY <1>3 DEF S, LastFor

LEMMA MultiplesZero == ASSUME NEW n \in Nat PROVE 0 \in Multiples(n)
<1>1. 0 = n * 0
  OBVIOUS
<1> QED
  BY <1>1 DEF Multiples

LEMMA MultiplesTimes ==
  ASSUME NEW n \in Nat, NEW c \in Int, NEW a \in Multiples(n) PROVE c * a \in Multiples(n)
<1>1. PICK q \in Int : a = n * q
  BY DEF Multiples
<1>2. c * a = n * (c * q) /\ c * q \in Int
  BY <1>1
<1> QED
  BY <1>2 DEF Multiples

LEMMA MisfitExact ==
  ASSUME idx \in Samplings, NEW n \in Nat, y \in [DOMAIN idx -> Multiples(Pow2[n])],
         NEW x \in Exact(n)
  PROVE  Misfit(x) \in Exact(n)
<1> DEFINE V == Multiples(Pow2[n])
<1>1. Pow2[n] \in Nat
  BY Pow2Facts
<1>2. 0 \in V
  BY <1>1, MultiplesZero
<1>3. \A a, b \in V : a - b \in V
  BY <1>1, MultiplesSum
<1>4. x \in [Places -> V]
  BY DEF Exact, Grained, Places
<1> HIDE DEF V
<1>5. ASSUME NEW p \in Places PROVE Misfit(x)[p] \in V
  <2>1. CASE p \in Sampled
    <3>1. y[LastFor(p)] \in V
      BY <2>1, LastForIn DEF V
    <3> QED
      BY <1>3, <1>4, <2>1, <3>1 DEF Misfit
  <2>2. CASE p \notin Sampled
    BY <1>2, <2>2 DEF Misfit
  <2> QED
    BY <2>1, <2>2
<1>6. Misfit(x) \in [Places -> V]
  BY <1>5 DEF Misfit
<1> QED
  BY <1>6 DEF Exact, Grained, Places, V

LEMMA ThresholdedMultiple ==
  ASSUME NEW n \in Nat, NEW a \in Multiples(n), Scale \in Multiples(n)
  PROVE  Thresholded(a) \in Multiples(n)
<1>1. a \in Int /\ Cut \in Int
  BY MultiplesInt, FistaAssumption
<1> DEFINE c == Sign(a) * Cut
<1>2. c \in Int
  BY <1>1 DEF Sign
<1>3. Thresholded(a) = IF Magnitude(a) \div Scale < Cut THEN 0 ELSE a - c * Scale
  BY DEF Thresholded
<1> HIDE DEF c
<1>4. c * Scale \in Multiples(n)
  BY <1>2, MultiplesTimes
<1>5. a - c * Scale \in Multiples(n)
  BY <1>4, MultiplesSum
<1>6. 0 \in Multiples(n)
  BY MultiplesZero
<1> QED
  BY <1>3, <1>5, <1>6

LEMMA CorrectedExact ==
  ASSUME NEW n \in Nat, Scale \in Multiples(Pow2[n]), NEW x \in Exact(n), NEW z \in Exact(n)
  PROVE  [i \in Places |-> Thresholded(x[i] + z[i])] \in Exact(n)
<1> DEFINE V == Multiples(Pow2[n])
<1>1. Pow2[n] \in Nat
  BY Pow2Facts
<1>2. \A a, b \in V : a + b \in V
  BY <1>1, MultiplesSum
<1>3. \A a \in V : Thresholded(a) \in V
  BY <1>1, ThresholdedMultiple
<1>4. x \in [Places -> V] /\ z \in [Places -> V]
  BY DEF Exact, Grained, Places
<1> HIDE DEF V
<1>5. [i \in Places |-> Thresholded(x[i] + z[i])] \in [Places -> V]
  BY <1>2, <1>3, <1>4
<1> QED
  BY <1>5 DEF Exact, Grained, Places, V
-----------------------------------------------------------------------------
(* Levels from..to-1 of dwt2_full lead from the picture a to b. *)
Leads(a, from, b, to) ==
  \E seq \in [from..to -> Pictures(N)] :
    /\ seq[from] = a /\ seq[to] = b
    /\ \A q \in from..(to - 1) : seq[q + 1] = DwtLevel(seq[q], N, q)

LEMMA LeadsStart == ASSUME NEW a \in Pictures(N), NEW q \in Int PROVE Leads(a, q, a, q)
<1> DEFINE V == Pictures(N)
           seq == [j \in q..q |-> a]
<1>1. a \in V
  OBVIOUS
<1> HIDE DEF V
<1>2. seq \in [q..q -> V] /\ seq[q] = a /\ q..(q - 1) = {}
  BY <1>1
<1> QED
  BY <1>2 DEF Leads, V

LEMMA LeadsBefore ==
  ASSUME NEW from \in Int, NEW to \in Int, from < to, NEW b, NEW c, Leads(b, from + 1, c, to),
         NEW a \in Pictures(N), DwtLevel(a, N, from) = b
  PROVE  Leads(a, from, c, to)
<1> DEFINE V == Pictures(N)
<1>1. PICK seq \in [(from + 1)..to -> V] :
        /\ seq[from + 1] = b /\ seq[to] = c
        /\ \A q \in (from + 1)..(to - 1) : seq[q + 1] = DwtLevel(seq[q], N, q)
  BY DEF Leads
<1> DEFINE seq2 == [j \in from..to |-> IF j = from THEN a ELSE seq[j]]
<1>2. a \in V
  OBVIOUS
<1> HIDE DEF V
<1>3. seq2 \in [from..to -> V] /\ seq2[from] = a /\ seq2[to] = c
  BY <1>1, <1>2
<1>4. ASSUME NEW q \in from..(to - 1) PROVE seq2[q + 1] = DwtLevel(seq2[q], N, q)
  <2>1. seq2[q + 1] = seq[q + 1]
    OBVIOUS
  <2>2. CASE q = from
    BY <1>1, <1>3, <2>1, <2>2
  <2>3. CASE q # from
    <3>1. q \in (from + 1)..(to - 1) /\ seq2[q] = seq[q]
      BY <2>3
    <3> QED
      BY <1>1, <2>1, <3>1
  <2> QED
    BY <2>2, <2>3
<1> HIDE DEF seq2
<1> QED
  BY <1>3, <1>4 DEF Leads, V

LEMMA LeadsAfter ==
  ASSUME NEW from \in Int, NEW to \in Int, from <= to, NEW a, NEW b, Leads(a, from, b, to),
         NEW c \in Pictures(N), DwtLevel(b, N, to) = c
  PROVE  Leads(a, from, c, to + 1)
<1> DEFINE V == Pictures(N)
<1>1. PICK seq \in [from..to -> V] :
        /\ seq[from] = a /\ seq[to] = b
        /\ \A q \in from..(to - 1) : seq[q + 1] = DwtLevel(seq[q], N, q)
  BY DEF Leads
<1> DEFINE seq2 == [j \in from..(to + 1) |-> IF j = to + 1 THEN c ELSE seq[j]]
<1>2. c \in V
  OBVIOUS
<1> HIDE DEF V
<1>3. seq2 \in [from..(to + 1) -> V] /\ seq2[from] = a /\ seq2[to + 1] = c
  BY <1>1, <1>2
<1>4. ASSUME NEW q \in from..((to + 1) - 1) PROVE seq2[q + 1] = DwtLevel(seq2[q], N, q)
  <2>1. seq2[q] = seq[q]
    OBVIOUS
  <2>2. CASE q = to
    BY <1>1, <1>3, <2>1, <2>2
  <2>3. CASE q # to
    <3>1. q \in from..(to - 1) /\ seq2[q + 1] = seq[q + 1]
      BY <2>3
    <3> QED
      BY <1>1, <2>1, <3>1
  <2> QED
    BY <2>2, <2>3
<1> HIDE DEF seq2
<1> QED
  BY <1>3, <1>4 DEF Leads, V
-----------------------------------------------------------------------------
(***************************************************************************)
(* Sums over finite sets.  SumFunctionOnSet is a recursion over the subsets *)
(* of the set; it has a solution, and the order of the summands does not   *)
(* matter.                                                                 *)
(***************************************************************************)
Chosen(s) == CHOOSE x \in s : TRUE

PartialSum(f, g, s) == IF s = {} THEN 0 ELSE g[Chosen(s)] + f[s \ {Chosen(s)}]

IsSum(f, g, S) == f \in [SUBSET S -> Int] /\ \A s \in SUBSET S : f[s] = PartialSum(f, g, s)

LEMMA ChosenIn == ASSUME NEW s, s # {} PROVE Chosen(s) \in s
  BY DEF Chosen

(* Induction over the subsets of a finite set, with the set of those for   *)
(* which the claim holds.                                                  *)
LEMMA SmallerFirst ==
  ASSUME NEW S, IsFiniteSet(S), NEW C,
         \A T \in SUBSET S : (\A x \in T : T \ {x} \in C) => T \in C
  PROVE  SUBSET S \subseteq C
<1> DEFINE P == {n \in Nat : \A T \in SUBSET S : Cardinality(T) = n => T \in C}
<1>0. \A T \in SUBSET S : IsFiniteSet(T) /\ Cardinality(T) \in Nat
  BY FS_Subset, FS_CardinalityType
<1>1. 0 \in P
  <2>1. ASSUME NEW T \in SUBSET S, Cardinality(T) = 0 PROVE T = {}
    BY <1>0, <2>1, FS_EmptySet
  <2>2. {} \in C
    OBVIOUS
  <2> QED
    BY <2>1, <2>2
<1>2. ASSUME NEW n \in Nat, n \in P PROVE n + 1 \in P
  <2>1. SUFFICES ASSUME NEW T \in SUBSET S, Cardinality(T) = n + 1 PROVE T \in C
    OBVIOUS
  <2>2. ASSUME NEW x \in T PROVE T \ {x} \in C
    <3>1. Cardinality(T \ {x}) = Cardinality(T) - 1
      BY <1>0, FS_RemoveElement
    <3>2. Cardinality(T \ {x}) = n
      BY <2>1, <3>1
    <3> QED
      BY <1>2, <3>2
  <2> QED
    BY <2>2
<1> HIDE DEF P
<1>3. \A n \in Nat : n \in P
  BY <1>1, <1>2, InductionEach
<1> QED
  BY <1>0, <1>3 DEF P

LEMMA SumExists ==
  ASSUME NEW S, IsFiniteSet(S), NEW g, \A x \in S : g[x] \in Int
  PROVE  \E f : IsSum(f, g, S)
<1> DEFINE P == {n \in Nat : \E f \in [SUBSET S -> Int] :
                   \A s \in SUBSET S : Cardinality(s) <= n => f[s] = PartialSum(f, g, s)}
<1>0. \A s \in SUBSET S : IsFiniteSet(s) /\ Cardinality(s) \in Nat
  BY FS_Subset, FS_CardinalityType
<1>1. 0 \in P
  <2> DEFINE f == [s \in SUBSET S |-> 0]
  <2>1. ASSUME NEW s \in SUBSET S, Cardinality(s) <= 0 PROVE f[s] = PartialSum(f, g, s)
    <3>1. s = {}
      BY <1>0, <2>1, FS_EmptySet
    <3> QED
      BY <3>1 DEF PartialSum
  <2> QED
    BY <2>1
<1>2. ASSUME NEW n \in Nat, n \in P PROVE n + 1 \in P
  <2>1. PICK f \in [SUBSET S -> Int] :
          \A s \in SUBSET S : Cardinality(s) <= n => f[s] = PartialSum(f, g, s)
    BY <1>2
  <2> DEFINE h == [s \in SUBSET S |-> PartialSum(f, g, s)]
  <2>2. \A s \in SUBSET S : PartialSum(f, g, s) \in Int
    <3> SUFFICES ASSUME NEW s \in SUBSET S PROVE PartialSum(f, g, s) \in Int
      OBVIOUS
    <3>1. CASE s = {}
      BY <3>1 DEF PartialSum
    <3>2. CASE s # {}
      <4>1. Chosen(s) \in S /\ s \ {Chosen(s)} \in SUBSET S
        BY <3>2, ChosenIn
      <4>2. g[Chosen(s)] \in Int /\ f[s \ {Chosen(s)}] \in Int
        BY <4>1
      <4> QED
        BY <3>2, <4>2 DEF PartialSum
    <3> QED
      BY <3>1, <3>2
  <2>3. h \in [SUBSET S -> Int]
    BY <2>2
  <2>4. ASSUME NEW s \in SUBSET S, Cardinality(s) <= n + 1 PROVE h[s] = PartialSum(h, g, s)
    <3>1. CASE s = {}
      BY <3>1 DEF PartialSum
    <3>2. CASE s # {}
      <4> DEFINE u == s \ {Chosen(s)}
      <4>1. u \in SUBSET S /\ Chosen(s) \in s
        BY <3>2, ChosenIn
      <4>2. Cardinality(u) <= n
        <5>1. Cardinality(u) = Cardinality(s) - 1
          BY <1>0, <4>1, FS_RemoveElement
        <5> QED
          BY <1>0, <2>4, <5>1
      <4>3. h[u] = f[u]
        BY <2>1, <4>1, <4>2
      <4>4. h[s] = g[Chosen(s)] + f[u]
        BY <3>2 DEF PartialSum
      <4> QED
        BY <3>2, <4>3, <4>4 DEF PartialSum
    <3> QED
      BY <3>1, <3>2
  <2> HIDE DEF h
  <2> QED
    BY <2>3, <2>4
<1>3. Cardinality(S) \in Nat
  BY FS_CardinalityType
<1>4. Cardinality(S) \in P
  <2> HIDE DEF P
  <2> QED
    BY <1>1, <1>2, <1>3, InductionEach
<1>5. PICK f \in [SUBSET S -> Int] :
        \A s \in SUBSET S : Cardinality(s) <= Cardinality(S) => f[s] = PartialSum(f, g, s)
  BY <1>4
<1>6. \A s \in SUBSET S : f[s] = PartialSum(f, g, s)
  BY <1>5, FS_Subset
<1> QED
  BY <1>6 DEF IsSum

LEMMA SumIs ==
  ASSUME NEW S, IsFiniteSet(S), NEW g, \A x \in S : g[x] \in Int
  PROVE  \E f : IsSum(f, g, S) /\ SumFunctionOnSet(g, S) = f[S]
<1> DEFINE Rule(h) == h = [s \in SUBSET S |-> IF s = {} THEN 0
                             ELSE g[CHOOSE x \in s : TRUE] + h[s \ {CHOOSE x \in s : TRUE}]]
           f == CHOOSE h : Rule(h)
<1>1. SumFunctionOnSet(g, S) = f[S]
  BY DEF SumFunctionOnSet, FoldFunctionOnSet, MapThenFoldSet
<1>2. PICK h : IsSum(h, g, S)
  BY SumExists
<1>3. Rule(h)
  <2>1. h \in [SUBSET S -> Int] /\ \A s \in SUBSET S : h[s] = PartialSum(h, g, s)
    BY <1>2 DEF IsSum
  <2>2. h = [s \in SUBSET S |-> PartialSum(h, g, s)]
    BY <2>1
  <2> QED
    BY <2>2 DEF PartialSum, Chosen
<1>4. Rule(f)
  <2> HIDE DEF Rule
  <2> QED
    BY <1>3
<1> HIDE DEF f
<1>5. \A s \in SUBSET S : f[s] = PartialSum(f, g, s)
  BY <1>4 DEF PartialSum, Chosen
<1>6. f \in [SUBSET S -> Int]
  <2> DEFINE C == {s \in SUBSET S : f[s] \in Int}
  <2>1. ASSUME NEW T \in SUBSET S, \A x \in T : f[T \ {x}] \in Int PROVE f[T] \in Int
    <3>1. f[T] = PartialSum(f, g, T)
      BY <1>5
    <3>2. CASE T = {}
      BY <3>1, <3>2 DEF PartialSum
    <3>3. CASE T # {}
      <4>1. Chosen(T) \in T
        BY <3>3, ChosenIn
      <4>2. f[T \ {Chosen(T)}] \in Int /\ g[Chosen(T)] \in Int
        BY <2>1, <4>1
      <4> QED
        BY <3>1, <3>3, <4>2 DEF PartialSum
    <3> QED
      BY <3>2, <3>3
  <2>5. \A T \in SUBSET S : (\A x \in T : T \ {x} \in C) => T \in C
    BY <2>1
  <2> HIDE DEF C
  <2>2. SUBSET S \subseteq C
    BY <2>5, SmallerFirst
  <2>3. \A T \in SUBSET S : f[T] \in Int
    BY <2>2 DEF C
  <2>4. f = [s \in SUBSET S |-> f[s]]
    BY <1>4
  <2> QED
    BY <2>3, <2>4
<1> QED
  BY <1>1, <1>5, <1>6 DEF IsSum

(* Any element may be taken out first ... *)
LEMMA SumRemove ==
  ASSUME NEW S, IsFiniteSet(S), NEW g, \A x \in S : g[x] \in Int, NEW f, IsSum(f, g, S),
         NEW s \in SUBSET S, NEW x \in s
  PROVE  f[s] = g[x] + f[s \ {x}]
<1> DEFINE C == {T \in SUBSET S : \A z \in T : f[T] = g[z] + f[T \ {z}]}
<1>1. ASSUME NEW T \in SUBSET S, \A z \in T : T \ {z} \in C PROVE T \in C
  <2>1. SUFFICES ASSUME NEW z \in T PROVE f[T] = g[z] + f[T \ {z}]
    OBVIOUS
  <2> DEFINE c == Chosen(T)
  <2>2. c \in T
    BY ChosenIn
  <2>3. f[T] = g[c] + f[T \ {c}]
    BY DEF IsSum, PartialSum
  <2>4. CASE z = c
    BY <2>3, <2>4
  <2>5. CASE z # c
    <3> HIDE DEF c
    <3>1. f[T \ {c}] = g[z] + f[(T \ {c}) \ {z}]
      BY <1>1, <2>2, <2>5
    <3>2. f[T \ {z}] = g[c] + f[(T \ {z}) \ {c}]
      BY <1>1, <2>2, <2>5
    <3>3. (T \ {z}) \ {c} = (T \ {c}) \ {z}
      OBVIOUS
    <3> DEFINE r == f[(T \ {c}) \ {z}]
    <3>4. r \in Int /\ g[c] \in Int /\ g[z] \in Int
      BY <2>2 DEF IsSum
    <3>5. f[T] = g[c] + (g[z] + r) /\ f[T \ {z}] = g[c] + r
      BY <2>3, <3>1, <3>2, <3>3
    <3> HIDE DEF r
    <3> QED
      BY <3>4, <3>5
  <2> QED
    BY <2>4, <2>5
<1> HIDE DEF C
<1>2. SUBSET S \subseteq C
  BY <1>1, SmallerFirst
<1> QED
  BY <1>2 DEF C

(* ... and only the summands count, not the set that the sum was begun for. *)
LEMMA SumUnique ==
  ASSUME NEW S, IsFiniteSet(S), NEW g, \A x \in S : g[x] \in Int, NEW f, IsSum(f, g, S),
         NEW T, IsFiniteSet(T), NEW h, \A x \in T : h[x] \in Int, NEW e, IsSum(e, h, T),
         NEW s \in SUBSET (S \cap T), \A x \in s : g[x] = h[x]
  PROVE  f[s] = e[s]
<1> DEFINE C == {u \in SUBSET s : f[u] = e[u]}
<1>0. s \in SUBSET S /\ s \in SUBSET T /\ IsFiniteSet(s)
  BY FS_Subset
<1>1. ASSUME NEW u \in SUBSET s, \A z \in u : u \ {z} \in C PROVE u \in C
  <2>1. f[u] = PartialSum(f, g, u) /\ e[u] = PartialSum(e, h, u)
    BY DEF IsSum
  <2>2. CASE u = {}
    BY <2>1, <2>2 DEF PartialSum
  <2>3. CASE u # {}
    <3>1. Chosen(u) \in u
      BY <2>3, ChosenIn
    <3>2. g[Chosen(u)] = h[Chosen(u)] /\ f[u \ {Chosen(u)}] = e[u \ {Chosen(u)}]
      BY <1>1, <3>1
    <3> QED
      BY <2>1, <2>3, <3>2 DEF PartialSum
  <2> QED
    BY <2>2, <2>3
<1> HIDE DEF C
<1>2. SUBSET s \subseteq C
  BY <1>0, <1>1, SmallerFirst
<1> QED
  BY <1>2 DEF C

(* What is used of it from here on. *)
SumOf(g, S) == SumFunctionOnSet(g, S)

Summable(g, S) == IsFiniteSet(S) /\ \A x \in S : g[x] \in Int

LEMMA SumEmpty == ASSUME NEW g PROVE SumOf(g, {}) = 0
<1>1. IsFiniteSet({}) /\ \A x \in {} : g[x] \in Int
  BY FS_EmptySet
<1> DEFINE S == {}
<1>2. S = {}
  OBVIOUS
<1> HIDE DEF S
<1>3. PICK f : IsSum(f, g, S) /\ SumFunctionOnSet(g, S) = f[S]
  BY <1>1, <1>2, SumIs
<1>4. f[S] = 0
  BY <1>2, <1>3 DEF IsSum, PartialSum
<1> QED
  BY <1>2, <1>3, <1>4 DEF SumOf

LEMMA SumInt == ASSUME NEW g, NEW S, Summable(g, S) PROVE SumOf(g, S) \in Int
<1>1. PICK f : IsSum(f, g, S) /\ SumFunctionOnSet(g, S) = f[S]
  BY SumIs DEF Summable
<1> QED
  BY <1>1 DEF IsSum, SumOf

LEMMA SumSame ==
  ASSUME NEW g, NEW h, NEW S, Summable(g, S), \A x \in S : g[x] = h[x]
  PROVE  SumOf(g, S) = SumOf(h, S)
<1>1. \A x \in S : g[x] \in Int /\ h[x] \in Int
  BY DEF Summable
<1>2. IsFiniteSet(S)
  BY DEF Summable
<1>3. PICK f : IsSum(f, g, S) /\ SumFunctionOnSet(g, S) = f[S]
  BY <1>1, <1>2, SumIs
<1>4. PICK e : IsSum(e, h, S) /\ SumFunctionOnSet(h, S) = e[S]
  BY <1>1, <1>2, SumIs
<1>5. S \in SUBSET (S \cap S)
  OBVIOUS
<1>6. f[S] = e[S]
  BY <1>1, <1>2, <1>3, <1>4, <1>5, SumUnique
<1> QED
  BY <1>3, <1>4, <1>6 DEF SumOf

LEMMA SumOut ==
  ASSUME NEW g, NEW S, Summable(g, S), NEW x \in S
  PROVE  SumOf(g, S) = g[x] + SumOf(g, S \ {x}) /\ Summable(g, S \ {x})
<1> DEFINE T == S \ {x}
<1>1. IsFiniteSet(S) /\ IsFiniteSet(T) /\ T \in SUBSET S
  BY FS_Subset DEF Summable
<1>2. (\A z \in S : g[z] \in Int) /\ (\A z \in T : g[z] \in Int)
  BY DEF Summable
<1>3. PICK f : IsSum(f, g, S) /\ SumFunctionOnSet(g, S) = f[S]
  BY <1>1, <1>2, SumIs
<1>4. f[S] = g[x] + f[T]
  <2>1. S \in SUBSET S
    OBVIOUS
  <2>2. IsFiniteSet(S) /\ \A z \in S : g[z] \in Int
    BY <1>1, <1>2
  <2>3. f[S] = g[x] + f[S \ {x}]
    BY <1>3, <2>1, <2>2, SumRemove
  <2> QED
    BY <2>3
<1> HIDE DEF T
<1>5. PICK e : IsSum(e, g, T) /\ SumFunctionOnSet(g, T) = e[T]
  BY <1>1, <1>2, SumIs
<1>6. f[T] = e[T]
  <2>1. T \in SUBSET (S \cap T)
    BY <1>1
  <2>2. \A z \in T : g[z] = g[z]
    OBVIOUS
  <2> QED
    BY <1>1, <1>2, <1>3, <1>5, <2>1, <2>2, SumUnique
<1> QED
  BY <1>1, <1>2, <1>3, <1>4, <1>5, <1>6 DEF SumOf, Summable, T


(* Sums over two sets apart, of multiples, and of zeros. *)
LEMMA SumUnion ==
  ASSUME NEW g, NEW S, Summable(g, S), NEW T, Summable(g, T), S \cap T = {}
  PROVE  SumOf(g, S \cup T) = SumOf(g, S) + SumOf(g, T) /\ Summable(g, S \cup T)
<1>0. Summable(g, S \cup T)
  BY FS_Union DEF Summable
<1> DEFINE C == {U \in SUBSET T : SumOf(g, S \cup U) = SumOf(g, S) + SumOf(g, U)}
<1>1. ASSUME NEW U \in SUBSET T, \A x \in U : U \ {x} \in C PROVE U \in C
  <2>1. CASE U = {}
    <3> DEFINE v == SumOf(g, S)
    <3>1. v \in Int
      BY SumInt
    <3>2. SumOf(g, S \cup U) = v
      <4>1. S \cup U = S
        BY <2>1
      <4> QED
        BY <4>1
    <3>3. SumOf(g, U) = 0
      BY <2>1, SumEmpty
    <3> HIDE DEF v
    <3>4. v = v + 0
      BY <3>1
    <3>5. SumOf(g, S \cup U) = v + SumOf(g, U)
      BY <3>2, <3>3, <3>4
    <3>6. SumOf(g, S \cup U) = SumOf(g, S) + SumOf(g, U)
      BY <3>5 DEF v
    <3> QED
      BY <3>6
  <2>2. CASE U # {}
    <3>1. PICK x \in U : TRUE
      BY <2>2
    <3>2. Summable(g, U) /\ Summable(g, S \cup U)
      <4>1. IsFiniteSet(U) /\ IsFiniteSet(S \cup U)
        BY FS_Subset, FS_Union DEF Summable
      <4> QED
        BY <4>1 DEF Summable
    <3>3. SumOf(g, U) = g[x] + SumOf(g, U \ {x}) /\ Summable(g, U \ {x})
      BY <3>1, <3>2, SumOut
    <3>4. x \in S \cup U /\ (S \cup U) \ {x} = S \cup (U \ {x})
      BY <3>1
    <3>5. SumOf(g, S \cup U) = g[x] + SumOf(g, (S \cup U) \ {x})
      BY <3>2, <3>4, SumOut
    <3>6. SumOf(g, S \cup (U \ {x})) = SumOf(g, S) + SumOf(g, U \ {x})
      BY <1>1, <3>1
    <3>7. SumOf(g, S) \in Int /\ SumOf(g, U \ {x}) \in Int /\ g[x] \in Int
      BY <3>1, <3>2, <3>3, SumInt DEF Summable
    <3>8. SumOf(g, S \cup U) = g[x] + (SumOf(g, S) + SumOf(g, U \ {x}))
      BY <3>4, <3>5, <3>6
    <3>9. SumOf(g, S \cup U) = SumOf(g, S) + SumOf(g, U)
      BY <3>3, <3>7, <3>8
    <3> QED
      BY <3>9
  <2> QED
    BY <2>1, <2>2
<1>2. IsFiniteSet(T)
  BY DEF Summable
<1> HIDE DEF C
<1>3. SUBSET T \subseteq C
  BY <1>1, <1>2, SmallerFirst
<1>4. T \in C
  BY <1>3
<1> QED
  BY <1>0, <1>4 DEF C

LEMMA SumScale ==
  ASSUME NEW g, NEW h, NEW S, Summable(g, S), NEW c \in Int, \A x \in S : h[x] = c * g[x]
  PROVE  SumOf(h, S) = c * SumOf(g, S) /\ Summable(h, S)
<1>0. Summable(h, S) /\ IsFiniteSet(S)
  BY DEF Summable
<1> DEFINE C == {U \in SUBSET S : SumOf(h, U) = c * SumOf(g, U)}
<1>1. ASSUME NEW U \in SUBSET S, \A x \in U : U \ {x} \in C PROVE U \in C
  <2>1. CASE U = {}
    <3>1. SumOf(h, U) = 0 /\ SumOf(g, U) = 0
      BY <2>1, SumEmpty
    <3>2. SumOf(h, U) = c * SumOf(g, U)
      BY <3>1
    <3> QED
      BY <3>2
  <2>2. CASE U # {}
    <3>1. PICK x \in U : TRUE
      BY <2>2
    <3>2. Summable(g, U) /\ Summable(h, U)
      BY <1>0, FS_Subset DEF Summable
    <3>3. SumOf(g, U) = g[x] + SumOf(g, U \ {x}) /\ Summable(g, U \ {x})
      BY <3>1, <3>2, SumOut
    <3>4. SumOf(h, U) = h[x] + SumOf(h, U \ {x})
      BY <3>1, <3>2, SumOut
    <3>5. SumOf(h, U \ {x}) = c * SumOf(g, U \ {x})
      BY <1>1, <3>1
    <3>6. SumOf(g, U \ {x}) \in Int /\ g[x] \in Int /\ h[x] = c * g[x]
      BY <3>1, <3>2, <3>3, SumInt DEF Summable
    <3> DEFINE r == SumOf(g, U \ {x})  v == g[x]
    <3>7. r \in Int /\ v \in Int
      BY <3>6
    <3> HIDE DEF r, v
    <3>8. c * v + c * r = c * (v + r)
      BY <3>7
    <3>9. SumOf(h, U) = c * SumOf(g, U)
      BY <3>3, <3>4, <3>5, <3>6, <3>8 DEF r, v
    <3> QED
      BY <3>9
  <2> QED
    BY <2>1, <2>2
<1> HIDE DEF C
<1>2. SUBSET S \subseteq C
  BY <1>0, <1>1, SmallerFirst
<1>3. S \in C
  BY <1>2
<1> QED
  BY <1>0, <1>3 DEF C

LEMMA SumOver ==
  ASSUME NEW g, NEW S, IsFiniteSet(S), NEW T \in SUBSET S, Summable(g, T),
         \A x \in S \ T : g[x] = 0
  PROVE  SumOf(g, S) = SumOf(g, T) /\ Summable(g, S)
<1> DEFINE U == S \ T
<1>1. IsFiniteSet(U) /\ T \cap U = {} /\ T \cup U = S
  BY FS_Subset
<1>2. Summable(g, U)
  BY <1>1 DEF Summable
<1>3. SumOf(g, S) = SumOf(g, T) + SumOf(g, U) /\ Summable(g, S)
  BY <1>1, <1>2, SumUnion
<1>4. SumOf(g, U) = 0
  <2>1. \A x \in U : g[x] = 0 * g[x]
    OBVIOUS
  <2> HIDE DEF U
  <2>2. SumOf(g, U) = 0 * SumOf(g, U) /\ SumOf(g, U) \in Int
    BY <1>2, <2>1, SumScale, SumInt
  <2> QED
    BY <2>2
<1> HIDE DEF U
<1>5. SumOf(g, T) \in Int
  BY SumInt
<1> QED
  BY <1>3, <1>4, <1>5

LEMMA SumIn ==
  ASSUME NEW g, NEW S, Summable(g, S), NEW x, x \notin S, g[x] \in Int
  PROVE  SumOf(g, S \cup {x}) = SumOf(g, S) + g[x] /\ Summable(g, S \cup {x})
<1> DEFINE T == S \cup {x}
<1>1. Summable(g, T) /\ x \in T /\ T \ {x} = S
  BY FS_AddElement DEF Summable
<1>2. SumOf(g, S) \in Int
  BY SumInt
<1> HIDE DEF T
<1>3. SumOf(g, T) = g[x] + SumOf(g, S)
  BY <1>1, SumOut
<1>4. SumOf(g, T) = SumOf(g, S) + g[x]
  BY <1>2, <1>3
<1> QED
  BY <1>1, <1>4 DEF T

(* Sums of sums, of larger terms, and in the other order. *)
LEMMA SumAdd ==
  ASSUME NEW g, NEW h, NEW f, NEW S, Summable(g, S), Summable(h, S), \A x \in S : f[x] = g[x] + h[x]
  PROVE  SumOf(f, S) = SumOf(g, S) + SumOf(h, S) /\ Summable(f, S)
<1>0. Summable(f, S) /\ IsFiniteSet(S)
  BY DEF Summable
<1> DEFINE C == {U \in SUBSET S : SumOf(f, U) = SumOf(g, U) + SumOf(h, U)}
<1>1. ASSUME NEW U \in SUBSET S, \A x \in U : U \ {x} \in C PROVE U \in C
  <2>1. CASE U = {}
    <3>1. SumOf(f, U) = 0 /\ SumOf(g, U) = 0 /\ SumOf(h, U) = 0
      BY <2>1, SumEmpty
    <3>2. SumOf(f, U) = SumOf(g, U) + SumOf(h, U)
      BY <3>1
    <3> QED
      BY <3>2
  <2>2. CASE U # {}
    <3>1. PICK x \in U : TRUE
      BY <2>2
    <3>2. Summable(f, U) /\ Summable(g, U) /\ Summable(h, U)
      BY <1>0, FS_Subset DEF Summable
    <3>3. /\ SumOf(f, U) = f[x] + SumOf(f, U \ {x})
          /\ SumOf(g, U) = g[x] + SumOf(g, U \ {x}) /\ Summable(g, U \ {x})
          /\ SumOf(h, U) = h[x] + SumOf(h, U \ {x}) /\ Summable(h, U \ {x})
      BY <3>1, <3>2, SumOut
    <3>4. SumOf(f, U \ {x}) = SumOf(g, U \ {x}) + SumOf(h, U \ {x})
      BY <1>1, <3>1
    <3>5. /\ SumOf(g, U \ {x}) \in Int /\ SumOf(h, U \ {x}) \in Int
          /\ g[x] \in Int /\ h[x] \in Int /\ f[x] = g[x] + h[x]
      BY <3>1, <3>2, <3>3, SumInt DEF Summable
    <3>6. SumOf(f, U) = SumOf(g, U) + SumOf(h, U)
      BY <3>3, <3>4, <3>5
    <3> QED
      BY <3>6
  <2> QED
    BY <2>1, <2>2
<1> HIDE DEF C
<1>2. SUBSET S \subseteq C
  BY <1>0, <1>1, SmallerFirst
<1>3. S \in C
  BY <1>2
<1> QED
  BY <1>0, <1>3 DEF C

LEMMA SumNotNegative ==
  ASSUME NEW g, NEW S, Summable(g, S), \A x \in S : g[x] >= 0
  PROVE  SumOf(g, S) >= 0
<1>0. IsFiniteSet(S)
  BY DEF Summable
<1> DEFINE C == {U \in SUBSET S : SumOf(g, U) >= 0}
<1>1. ASSUME NEW U \in SUBSET S, \A x \in U : U \ {x} \in C PROVE U \in C
  <2>1. CASE U = {}
    <3>1. SumOf(g, U) = 0
      BY <2>1, SumEmpty
    <3> QED
      BY <3>1
  <2>2. CASE U # {}
    <3>1. PICK x \in U : TRUE
      BY <2>2
    <3>2. Summable(g, U)
      BY <1>0, FS_Subset DEF Summable
    <3>3. SumOf(g, U) = g[x] + SumOf(g, U \ {x}) /\ Summable(g, U \ {x})
      BY <3>1, <3>2, SumOut
    <3>4. SumOf(g, U \ {x}) \in Int /\ SumOf(g, U \ {x}) >= 0 /\ g[x] \in Int /\ g[x] >= 0
      BY <1>1, <3>1, <3>2, <3>3, SumInt DEF Summable
    <3>5. SumOf(g, U) >= 0
      BY <3>3, <3>4
    <3> QED
      BY <3>5
  <2> QED
    BY <2>1, <2>2
<1> HIDE DEF C
<1>2. SUBSET S \subseteq C
  BY <1>0, <1>1, SmallerFirst
<1>3. S \in C
  BY <1>2
<1> QED
  BY <1>3 DEF C

LEMMA SumLess ==
  ASSUME NEW g, NEW h, NEW S, Summable(g, S), Summable(h, S), \A x \in S : g[x] <= h[x]
  PROVE  SumOf(g, S) <= SumOf(h, S)
<1> DEFINE f == [x \in S |-> h[x] - g[x]]
<1>1. Summable(f, S) /\ \A x \in S : f[x] >= 0 /\ h[x] = g[x] + f[x]
  BY DEF Summable
<1> HIDE DEF f
<1>2. SumOf(h, S) = SumOf(g, S) + SumOf(f, S)
  BY <1>1, SumAdd
<1>3. SumOf(f, S) >= 0
  BY <1>1, SumNotNegative
<1>4. SumOf(g, S) \in Int /\ SumOf(f, S) \in Int
  BY <1>1, SumInt
<1> QED
  BY <1>2, <1>3, <1>4

(* The sums over U, one for each z. *)
SumsOver(G, T, U) == [z \in T |-> SumOf(G[z], U)]

LEMMA SumSwap ==
  ASSUME NEW S, IsFiniteSet(S), NEW T, IsFiniteSet(T), NEW F, NEW G,
         \A x \in S, z \in T : F[x][z] \in Int /\ G[z][x] = F[x][z]
  PROVE  /\ SumOf(SumsOver(F, S, T), S) = SumOf(SumsOver(G, T, S), T)
         /\ Summable(SumsOver(F, S, T), S) /\ Summable(SumsOver(G, T, S), T)
<1> DEFINE g == SumsOver(F, S, T)
<1>1. \A x \in S : Summable(F[x], T)
  BY DEF Summable
<1>2. \A z \in T : Summable(G[z], S)
  BY DEF Summable
<1>3. Summable(g, S)
  <2>1. \A x \in S : SumOf(F[x], T) \in Int
    BY <1>1, SumInt
  <2> QED
    BY <2>1 DEF Summable, SumsOver
<1>4. \A U \in SUBSET S, z \in T : Summable(G[z], U)
  BY <1>2, FS_Subset DEF Summable
<1>5. \A U \in SUBSET S : Summable(SumsOver(G, T, U), T)
  <2>1. \A U \in SUBSET S, z \in T : SumOf(G[z], U) \in Int
    BY <1>4, SumInt
  <2> QED
    BY <2>1 DEF Summable, SumsOver
<1> DEFINE C == {U \in SUBSET S : SumOf(g, U) = SumOf(SumsOver(G, T, U), T)}
<1>6. ASSUME NEW U \in SUBSET S, \A x \in U : U \ {x} \in C PROVE U \in C
  <2>1. CASE U = {}
    <3> DEFINE h == SumsOver(G, T, U)
    <3>1. \A z \in T : h[z] = 0
      BY <2>1, SumEmpty DEF SumsOver
    <3>2. Summable(h, T)
      BY <1>5
    <3> HIDE DEF h
    <3>3. \A z \in T : h[z] = 0 * h[z]
      BY <3>1
    <3>4. SumOf(h, T) = 0 * SumOf(h, T) /\ SumOf(h, T) \in Int
      BY <3>2, <3>3, SumScale, SumInt
    <3>5. SumOf(h, T) = 0
      BY <3>4
    <3>6. SumOf(g, U) = 0
      BY <2>1, SumEmpty
    <3> QED
      BY <3>5, <3>6 DEF h
  <2>2. CASE U # {}
    <3>1. PICK x \in U : TRUE
      BY <2>2
    <3> DEFINE V == U \ {x}
    <3>2. Summable(g, U) /\ V \in SUBSET S
      BY <1>3, FS_Subset DEF Summable
    <3>3. SumOf(g, U) = g[x] + SumOf(g, V)
      BY <3>1, <3>2, SumOut
    <3>4. SumOf(g, V) = SumOf(SumsOver(G, T, V), T)
      BY <1>6, <3>1
    <3>5. g[x] = SumOf(F[x], T)
      BY <3>1 DEF SumsOver
    <3>6. ASSUME NEW z \in T PROVE SumOf(G[z], U) = F[x][z] + SumOf(G[z], V)
      <4> DEFINE o == G[z]
      <4>1. Summable(o, U) /\ o[x] = F[x][z]
        BY <1>4, <3>1
      <4> HIDE DEF o
      <4>2. SumOf(o, U) = o[x] + SumOf(o, U \ {x})
        BY <3>1, <4>1, SumOut
      <4> QED
        BY <4>1, <4>2 DEF o
    <3> HIDE DEF V
    <3>7. \A z \in T : SumsOver(G, T, U)[z] = F[x][z] + SumsOver(G, T, V)[z]
      BY <3>6 DEF SumsOver
    <3>8. Summable(F[x], T) /\ Summable(SumsOver(G, T, V), T)
      BY <1>1, <1>5, <3>1, <3>2
    <3>9. SumOf(SumsOver(G, T, U), T) = SumOf(F[x], T) + SumOf(SumsOver(G, T, V), T)
      BY <3>7, <3>8, SumAdd
    <3> QED
      BY <3>3, <3>4, <3>5, <3>9
  <2> QED
    BY <2>1, <2>2
<1> HIDE DEF C, g
<1>7. SUBSET S \subseteq C
  BY <1>6, SmallerFirst
<1>8. S \in C
  BY <1>7
<1> QED
  BY <1>3, <1>5, <1>8 DEF C, g
-----------------------------------------------------------------------------
(***************************************************************************)
(* The wavelets, in terms of the halves that a level splits a block into:  *)
(* with e = 0 for the first and e = 1 for the second half, and u = 1 for   *)
(* the coefficients of differences.                                        *)
(***************************************************************************)
Sgn(u, e) == IF u = 1 /\ e = 1 THEN -1 ELSE 1

HalfWave(place, pixel, s, b) ==
  IF place % s # pixel \div b THEN 0
  ELSE IF place >= s /\ 2 * (pixel % b) >= b THEN -1 ELSE 1

LEMMA SgnUnit == ASSUME NEW u, NEW e PROVE Sgn(u, e) \in {-1, 1}
  BY DEF Sgn

LEMMA BlockHalf ==
  ASSUME NEW h \in Nat \ {0}, NEW q \in Nat, NEW r \in Nat, NEW e \in {0, 1}, q \div h = 2 * r + e
  PROVE  q \div (2 * h) = r /\ (2 * (q % (2 * h)) >= 2 * h <=> e = 1)
<1>1. q % h \in 0..(h - 1) /\ q = (q \div h) * h + (q % h)
  OBVIOUS
<1> DEFINE o == q % h
<1>2. o \in 0..(h - 1) /\ q = (2 * r + e) * h + o
  BY <1>1
<1> HIDE DEF o
<1>3. (2 * r + e) * h = r * (2 * h) + e * h
  <2>1. CASE e = 0
    BY <2>1
  <2>2. CASE e = 1
    BY <2>2
  <2> QED
    BY <2>1, <2>2
<1> DEFINE c == e * h + o
           w == 2 * h
<1>4. c \in 0..(w - 1) /\ (c >= h <=> e = 1)
  <2>1. CASE e = 0
    BY <1>2, <2>1
  <2>2. CASE e = 1
    BY <1>2, <2>2
  <2> QED
    BY <2>1, <2>2
<1>5. q = r * w + c
  BY <1>2, <1>3
<1>6. w \in Nat
  OBVIOUS
<1> HIDE DEF c
<1>7. w = 2 * h
  OBVIOUS
<1> HIDE DEF w
<1>8. (r * w + c) \div w = r /\ (r * w + c) % w = c
  BY <1>4, <1>6, Cell
<1>9. q \div w = r /\ q % w = c
  BY <1>5, <1>8
<1> QED
  BY <1>4, <1>7, <1>9

(* Row q is in half e of the blocks of row r (of 2h rows each); coefficient *)
(* R is the sum (u = 0) or the difference (u = 1) of the halves of row r.  *)
InHalf(q, h, r, e) == q \in Nat /\ r \in Nat /\ e \in {0, 1} /\ q \div h = 2 * r + e

Stands(R, r, u, m) == r \in 0..(m - 1) /\ u \in {0, 1} /\ R = r + u * m

LEMMA StandsIn ==
  ASSUME NEW m \in Nat \ {0}, NEW R, NEW r, NEW u, Stands(R, r, u, m)
  PROVE  /\ R \in 0..(2 * m - 1) /\ (u = 1 <=> R >= m) /\ R % m = r
         /\ r \in 0..(m - 1) /\ u \in {0, 1} /\ R = IF u = 0 THEN r ELSE r + m
<1>1. r \in 0..(m - 1) /\ u \in {0, 1} /\ R = u * m + r
  BY DEF Stands
<1>2. (u * m + r) % m = r
  BY <1>1, Cell
<1>3. CASE u = 0
  BY <1>1, <1>2, <1>3
<1>4. CASE u = 1
  BY <1>1, <1>2, <1>4
<1> QED
  BY <1>1, <1>3, <1>4

LEMMA HalfAt ==
  ASSUME NEW m \in Nat \ {0}, NEW h \in Nat \ {0}, NEW R, NEW r, NEW u, Stands(R, r, u, m),
         NEW q, NEW r2, NEW e, InHalf(q, h, r2, e)
  PROVE  HalfWave(R, q, m, 2 * h) = IF r = r2 THEN Sgn(u, e) ELSE 0
<1>1. q \div (2 * h) = r2 /\ (2 * (q % (2 * h)) >= 2 * h <=> e = 1)
  BY BlockHalf DEF InHalf
<1>2. R % m = r /\ (u = 1 <=> R >= m)
  BY StandsIn
<1> QED
  BY <1>1, <1>2 DEF HalfWave, Sgn

LEMMA PowMonotone ==
  ASSUME NEW m \in Nat, NEW n \in Nat, n <= m PROVE Pow2[n] <= Pow2[m]
<1>1. m - n \in Nat /\ m - n <= m /\ m - (m - n) = n
  OBVIOUS
<1> QED
  BY <1>1, PowDivides

(* The corner of 2m x 2m that level q works in, made of blocks of h x h.   *)
LEMMA LevelSides ==
  ASSUME NEW q \in 0..(Order - 1), NEW m, m = Pow2[Order - q - 1], NEW h, h = Pow2[q]
  PROVE  /\ m \in Nat \ {0} /\ h \in Nat \ {0}
         /\ N = m * (2 * h) /\ N \div m = 2 * h
         /\ N \div Pow2[q] = 2 * m /\ 2 * m <= N
<1>1. q \in Nat /\ Order \in Nat /\ Order - q - 1 \in Nat /\ Order - q \in Nat /\ q + 1 \in Nat
  BY FistaAssumption
<1>2. m \in Nat \ {0} /\ h \in Nat \ {0}
  BY <1>1, PowPositive
<1>3. Pow2[q + 1] = 2 * h
  BY <1>1, Pow2Facts
<1>4. N = m * (2 * h)
  <2>1. (Order - q - 1) + (q + 1) = Order
    BY <1>1
  <2>2. Pow2[(Order - q - 1) + (q + 1)] = Pow2[Order - q - 1] * Pow2[q + 1]
    BY <1>1, PowSum
  <2> QED
    BY <1>3, <2>1, <2>2 DEF N
<1>5. N \div m = 2 * h
  <2>1. 2 * h \in Nat
    BY <1>2
  <2> QED
    BY <1>2, <1>4, <2>1, Quotient
<1>6. N \div Pow2[q] = Pow2[Order - q] /\ Pow2[Order - q] <= N
  BY <1>1, PowDivides DEF N
<1>7. Pow2[Order - q] = 2 * m
  <2>1. Pow2[(Order - q - 1) + 1] = 2 * Pow2[Order - q - 1]
    BY <1>1, Pow2Facts
  <2>2. (Order - q - 1) + 1 = Order - q
    BY <1>1
  <2> QED
    BY <2>1, <2>2
<1> QED
  BY <1>2, <1>4, <1>5, <1>6, <1>7

LEMMA MaxIs ==
  ASSUME NEW S \in SUBSET Int, NEW a \in S, \A b \in S : b <= a PROVE Max(S) = a
<1>1. \A b \in S : a >= b
  OBVIOUS
<1>2. \A c \in S : (\A b \in S : c >= b) => c = a
  OBVIOUS
<1> QED
  BY <1>1, <1>2 DEF Max

(* Where a level puts its differences, the wavelets have its size. *)
LEMMA SizeIs ==
  ASSUME NEW j \in 0..(Order - 1), NEW m, m = Pow2[j], NEW i,
         i \div N \in 0..(2 * m - 1), i % N \in 0..(2 * m - 1), i \div N >= m \/ i % N >= m
  PROVE  SizeOf(i) = m
<1> DEFINE L == {l \in 0..(Order - 1) : Pow2[l] <= i \div N \/ Pow2[l] <= i % N}
           S == {1} \cup {Pow2[l] : l \in L}
<1>1. Order \in Nat /\ j \in Nat
  BY FistaAssumption
<1>2. \A l \in Nat : Pow2[l] \in Nat \ {0}
  BY PowPositive
<1>3. S \in SUBSET Int
  BY <1>1, <1>2
<1>4. j \in L
  OBVIOUS
<1>5. m \in S
  BY <1>4
<1>6. ASSUME NEW l \in L PROVE Pow2[l] <= m
  <2>1. l \in Nat /\ Pow2[l] < 2 * m
    BY <1>1, <1>2
  <2>2. l <= j
    <3>1. SUFFICES ASSUME j + 1 <= l PROVE FALSE
      BY <1>1, <2>1
    <3>2. Pow2[j + 1] <= Pow2[l]
      BY <1>1, <2>1, <3>1, PowMonotone
    <3>3. Pow2[j + 1] = 2 * m
      BY <1>1, Pow2Facts
    <3> QED
      BY <1>1, <1>2, <2>1, <3>2, <3>3
  <2> QED
    BY <1>1, <2>1, <2>2, PowMonotone
<1>7. \A b \in S : b <= m
  BY <1>1, <1>2, <1>6
<1> HIDE DEF S
<1>8. Max(S) = m
  BY <1>3, <1>5, <1>7, MaxIs
<1> QED
  BY <1>8 DEF SizeOf, S

LEMMA SizeFirst == SizeOf(0) = 1
<1> DEFINE L == {l \in 0..(Order - 1) : Pow2[l] <= 0 \div N \/ Pow2[l] <= 0 % N}
           S == {1} \cup {Pow2[l] : l \in L}
<1>1. 0 \div N = 0 /\ 0 % N = 0
  BY NPositive
<1>2. \A l \in Nat : Pow2[l] \in Nat \ {0}
  BY PowPositive
<1>3. L = {}
  BY <1>1, <1>2, FistaAssumption
<1>4. S = {1}
  BY <1>3
<1>5. 1 \in {1} /\ {1} \in SUBSET Int /\ \A b \in {1} : b <= 1
  OBVIOUS
<1>6. Max({1}) = 1
  BY <1>5, MaxIs
<1> QED
  BY <1>4, <1>6 DEF SizeOf

LEMMA WaveHalves ==
  ASSUME NEW i, NEW p, NEW s, s = SizeOf(i), NEW b, b = N \div s
  PROVE  Wave(i, p) = HalfWave(i \div N, p \div N, s, b) * HalfWave(i % N, p % N, s, b)
  BY DEF Wave, HalfWave

(* Level q, of a corner of 2m x 2m; the coefficient i that it writes as the *)
(* difference (u, v) of block (r, c); the pixel p in quarter (e, f) of      *)
(* block (r, c), of 2h x 2h pixels.                                         *)
IsLevel(q, m, h) == q \in 0..(Order - 1) /\ m = Pow2[Order - q - 1] /\ h = Pow2[q]

Difference(i, r, u, c, v, m) ==
  i \in Places /\ Stands(i \div N, r, u, m) /\ Stands(i % N, c, v, m) /\ (u = 1 \/ v = 1)

InQuarter(p, r, e, c, f, h) ==
  p \in Places /\ InHalf(p \div N, h, r, e) /\ InHalf(p % N, h, c, f)

LEMMA LevelIs ==
  ASSUME NEW q, NEW m, NEW h, IsLevel(q, m, h)
  PROVE  /\ m \in Nat \ {0} /\ h \in Nat \ {0} /\ N = m * (2 * h) /\ N \div m = 2 * h
         /\ N \div Pow2[q] = 2 * m /\ 2 * m <= N
         /\ Pow2[Order - q] = 2 * m /\ Pow2[q + 1] = 2 * h /\ Order - (q + 1) = Order - q - 1
<1>1. q \in 0..(Order - 1) /\ m = Pow2[Order - q - 1] /\ h = Pow2[q]
  BY DEF IsLevel
<1>2. /\ m \in Nat \ {0} /\ h \in Nat \ {0} /\ N = m * (2 * h) /\ N \div m = 2 * h
      /\ N \div Pow2[q] = 2 * m /\ 2 * m <= N
  BY <1>1, LevelSides
<1>3. q \in Nat /\ Order - q - 1 \in Nat /\ (Order - q - 1) + 1 = Order - q /\ Order - (q + 1) = Order - q - 1
  BY <1>1, FistaAssumption
<1>4. Pow2[(Order - q - 1) + 1] = 2 * m /\ Pow2[q + 1] = 2 * h
  BY <1>1, <1>3, Pow2Facts
<1> QED
  BY <1>2, <1>3, <1>4

LEMMA WaveOf ==
  ASSUME NEW q, NEW m, NEW h, IsLevel(q, m, h),
         NEW i, NEW r, NEW u, NEW c, NEW v, Difference(i, r, u, c, v, m), NEW p
  PROVE  /\ SizeOf(i) = m
         /\ Wave(i, p) = HalfWave(i \div N, p \div N, m, 2 * h) * HalfWave(i % N, p % N, m, 2 * h)
<1>1. m \in Nat \ {0} /\ N \div m = 2 * h
  BY LevelIs
<1>2. Stands(i \div N, r, u, m) /\ Stands(i % N, c, v, m) /\ (u = 1 \/ v = 1)
  BY DEF Difference
<1>3. /\ i \div N \in 0..(2 * m - 1) /\ (u = 1 <=> i \div N >= m)
      /\ i % N \in 0..(2 * m - 1) /\ (v = 1 <=> i % N >= m)
  BY <1>1, <1>2, StandsIn
<1>4. SizeOf(i) = m
  <2>1. Order - q - 1 \in 0..(Order - 1) /\ m = Pow2[Order - q - 1]
    BY FistaAssumption DEF IsLevel
  <2>2. i \div N >= m \/ i % N >= m
    BY <1>2, <1>3
  <2> QED
    BY <1>3, <2>1, <2>2, SizeIs
<1> QED
  BY <1>1, <1>4, WaveHalves

LEMMA SignsTimes ==
  ASSUME NEW a \in BOOLEAN, NEW b \in BOOLEAN, NEW c \in {-1, 1}, NEW d \in {-1, 1}
  PROVE  (IF a THEN c ELSE 0) * (IF b THEN d ELSE 0) = IF a /\ b THEN c * d ELSE 0
  OBVIOUS

LEMMA WaveAt ==
  ASSUME NEW q, NEW m, NEW h, IsLevel(q, m, h),
         NEW i, NEW r, NEW u, NEW c, NEW v, Difference(i, r, u, c, v, m),
         NEW p, NEW r2, NEW e, NEW c2, NEW f, InQuarter(p, r2, e, c2, f, h)
  PROVE  /\ SizeOf(i) = m
         /\ Wave(i, p) = IF r = r2 /\ c = c2 THEN Sgn(u, e) * Sgn(v, f) ELSE 0
<1>1. m \in Nat \ {0} /\ h \in Nat \ {0}
  BY LevelIs
<1>2. /\ Stands(i \div N, r, u, m) /\ Stands(i % N, c, v, m)
      /\ InHalf(p \div N, h, r2, e) /\ InHalf(p % N, h, c2, f)
  BY DEF Difference, InQuarter
<1>4. /\ SizeOf(i) = m
      /\ Wave(i, p) = HalfWave(i \div N, p \div N, m, 2 * h) * HalfWave(i % N, p % N, m, 2 * h)
  BY WaveOf
<1>5. HalfWave(i \div N, p \div N, m, 2 * h) = IF r = r2 THEN Sgn(u, e) ELSE 0
  BY <1>1, <1>2, HalfAt
<1>6. HalfWave(i % N, p % N, m, 2 * h) = IF c = c2 THEN Sgn(v, f) ELSE 0
  BY <1>1, <1>2, HalfAt
<1>7. Sgn(u, e) \in {-1, 1} /\ Sgn(v, f) \in {-1, 1}
  BY SgnUnit
<1> DEFINE X == r = r2  Y == c = c2  S == Sgn(u, e)  T == Sgn(v, f)
<1>8. X \in BOOLEAN /\ Y \in BOOLEAN /\ S \in {-1, 1} /\ T \in {-1, 1}
  BY <1>7
<1>9. Wave(i, p) = (IF X THEN S ELSE 0) * (IF Y THEN T ELSE 0)
  BY <1>4, <1>5, <1>6
<1> HIDE DEF X, Y, S, T
<1>10. Wave(i, p) = IF X /\ Y THEN S * T ELSE 0
  BY <1>8, <1>9, SignsTimes
<1> QED
  BY <1>4, <1>10 DEF X, Y, S, T

LEMMA WaveFirst == ASSUME NEW p \in Places PROVE Wave(0, p) = 1
<1>1. N \in Nat \ {0} /\ 0 \div N = 0 /\ 0 % N = 0 /\ N \div 1 = N
  BY NPositive
<1>2. p \div N \in 0..(N - 1) /\ p % N \in 0..(N - 1)
  BY <1>1, CellOf DEF Places
<1>3. (p \div N) \div N = 0 /\ (p % N) \div N = 0
  BY <1>1, <1>2
<1>4. HalfWave(0, p \div N, 1, N) = 1 /\ HalfWave(0, p % N, 1, N) = 1
  BY <1>3 DEF HalfWave
<1>5. Wave(0, p) = HalfWave(0, p \div N, 1, N) * HalfWave(0, p % N, 1, N)
  BY <1>1, SizeFirst, WaveHalves
<1> QED
  BY <1>4, <1>5

-----------------------------------------------------------------------------
(* What a level writes, in the corner and outside of it. *)
LEMMA PatchedAt ==
  ASSUME NEW w, NEW s, NEW x, NEW p, NEW z, Patched(z, p, x, s, w),
         NEW r \in 0..(w - 1), NEW c \in 0..(w - 1)
  PROVE  /\ (c < s /\ r < s) => At(z, w, r, c) = At(p, s, r, c)
         /\ ~(c < s /\ r < s) => At(z, w, r, c) = At(x, w, r, c)
  BY DEF Patched

(* d is the corner x of N x N transformed by sums and differences, before they are halved. *)
LEMMA LevelSums ==
  ASSUME NEW s \in Nat \ {0}, s <= N, NEW x \in Grained(N, 2), NEW d \in Grained(s, 2),
         NEW z, z = CopyPartsInverse(Halved(d), x, s, s, N)
  PROVE  \A r, c \in 0..(N - 1) :
           /\ (r < s /\ c < s) => 2 * At(z, N, r, c) = At(d, s, r, c)
           /\ ~(r < s /\ c < s) => At(z, N, r, c) = At(x, N, r, c)
<1>1. N \in Nat \ {0} /\ 1 \in Nat /\ 2 * 1 = 2
  BY NPositive
<1> DEFINE g == Halved(d)
<1>2. g \in Grained(s, 1) /\ \A r, c \in 0..(s - 1) : 2 * At(g, s, r, c) = At(d, s, r, c)
  BY <1>1, HalvedPicture
<1>3. x \in Grained(N, 1)
  BY <1>1, GrainedTwice
<1> HIDE DEF g
<1>4. Patched(CopyPartsInverse(g, x, s, s, N), g, x, s, N)
  BY <1>1, <1>2, <1>3, CornerIn
<1>5. Patched(z, g, x, s, N)
  BY <1>4 DEF g
<1> SUFFICES ASSUME NEW r \in 0..(N - 1), NEW c \in 0..(N - 1)
             PROVE  /\ (r < s /\ c < s) => 2 * At(z, N, r, c) = At(d, s, r, c)
                    /\ ~(r < s /\ c < s) => At(z, N, r, c) = At(x, N, r, c)
  OBVIOUS
<1>6. /\ (c < s /\ r < s) => At(z, N, r, c) = At(g, s, r, c)
      /\ ~(c < s /\ r < s) => At(z, N, r, c) = At(x, N, r, c)
  BY <1>5, PatchedAt
<1>7. (r < s /\ c < s) => r \in 0..(s - 1) /\ c \in 0..(s - 1)
  BY <1>1
<1> QED
  BY <1>2, <1>6, <1>7

LEMMA DwtLevelSums ==
  ASSUME NEW q \in 0..(Order - 1), NEW m, m = Pow2[Order - q - 1],
         NEW x \in Grained(N, 2), NEW z, z = DwtLevel(x, N, q)
  PROVE  /\ \A r, c \in 0..(m - 1) :
              LET a == At(x, N, 2 * r, 2 * c)      b == At(x, N, 2 * r, 2 * c + 1)
                  d == At(x, N, 2 * r + 1, 2 * c)  e == At(x, N, 2 * r + 1, 2 * c + 1)
              IN /\ 2 * At(z, N, r, c) = (a + b) + (d + e)
                 /\ 2 * At(z, N, r, c + m) = (a - b) + (d - e)
                 /\ 2 * At(z, N, r + m, c) = (a + b) - (d + e)
                 /\ 2 * At(z, N, r + m, c + m) = (a - b) - (d - e)
         /\ \A r, c \in 0..(N - 1) : ~(r < 2 * m /\ c < 2 * m) => At(z, N, r, c) = At(x, N, r, c)
<1> DEFINE s == 2 * m
           p == CopyParts(x, s, s, N)
           d == AlongColumns(Dwt, AlongRows(Dwt, p, s, s), s, s)
<1>1. m \in Nat \ {0} /\ N \div Pow2[q] = s /\ s <= N /\ s \in Nat \ {0} /\ N \in Nat \ {0} /\ 2 \in Nat
  BY LevelSides, NPositive
<1>2. z = CopyPartsInverse(Halved(d), x, s, s, N)
  BY <1>1 DEF DwtLevel, Dwt2
<1>3. s = 2 * m
  OBVIOUS
<1> HIDE DEF s
<1>4. p \in Grained(s, 2) /\ \A r, c \in 0..(s - 1) : At(p, s, r, c) = At(x, N, r, c)
  BY <1>1, CornerOut
<1> HIDE DEF p
<1>5. p \in Pictures(s)
  BY <1>1, <1>4, GrainedPicture
<1>6. /\ d \in Grained(s, 2)
      /\ \A r, c \in 0..(m - 1) :
           LET a == At(p, s, 2 * r, 2 * c)      b == At(p, s, 2 * r, 2 * c + 1)
               f == At(p, s, 2 * r + 1, 2 * c)  e == At(p, s, 2 * r + 1, 2 * c + 1)
           IN /\ At(d, s, r, c) = (a + b) + (f + e)
              /\ At(d, s, r, c + m) = (a - b) + (f - e)
              /\ At(d, s, r + m, c) = (a + b) - (f + e)
              /\ At(d, s, r + m, c + m) = (a - b) - (f - e)
  BY <1>1, <1>3, <1>4, <1>5, Dwt2Sums
<1> HIDE DEF d
<1>7. \A r, c \in 0..(N - 1) :
        /\ (r < s /\ c < s) => 2 * At(z, N, r, c) = At(d, s, r, c)
        /\ ~(r < s /\ c < s) => At(z, N, r, c) = At(x, N, r, c)
  BY <1>1, <1>2, <1>6, LevelSums
<1>8. ASSUME NEW r \in 0..(m - 1), NEW c \in 0..(m - 1)
      PROVE  LET a == At(x, N, 2 * r, 2 * c)      b == At(x, N, 2 * r, 2 * c + 1)
                 f == At(x, N, 2 * r + 1, 2 * c)  e == At(x, N, 2 * r + 1, 2 * c + 1)
             IN /\ 2 * At(z, N, r, c) = (a + b) + (f + e)
                /\ 2 * At(z, N, r, c + m) = (a - b) + (f - e)
                /\ 2 * At(z, N, r + m, c) = (a + b) - (f + e)
                /\ 2 * At(z, N, r + m, c + m) = (a - b) - (f - e)
  <2>1. /\ {2 * r, 2 * r + 1, 2 * c, 2 * c + 1} \subseteq 0..(s - 1)
        /\ {r, r + m, c, c + m} \subseteq 0..(N - 1)
        /\ r < s /\ r + m < s /\ c < s /\ c + m < s
    BY <1>1, <1>3
  <2>2. /\ At(p, s, 2 * r, 2 * c) = At(x, N, 2 * r, 2 * c)
        /\ At(p, s, 2 * r, 2 * c + 1) = At(x, N, 2 * r, 2 * c + 1)
        /\ At(p, s, 2 * r + 1, 2 * c) = At(x, N, 2 * r + 1, 2 * c)
        /\ At(p, s, 2 * r + 1, 2 * c + 1) = At(x, N, 2 * r + 1, 2 * c + 1)
    BY <1>4, <2>1
  <2>3. /\ 2 * At(z, N, r, c) = At(d, s, r, c)
        /\ 2 * At(z, N, r, c + m) = At(d, s, r, c + m)
        /\ 2 * At(z, N, r + m, c) = At(d, s, r + m, c)
        /\ 2 * At(z, N, r + m, c + m) = At(d, s, r + m, c + m)
    BY <1>7, <2>1
  <2> QED
    BY <1>6, <2>2, <2>3
<1> QED
  BY <1>3, <1>7, <1>8

LEMMA IdwtLevelSums ==
  ASSUME NEW q \in 0..(Order - 1), NEW m, m = Pow2[Order - q - 1],
         NEW x \in Grained(N, 2), NEW z, z = IdwtLevel(x, N, q + 1)
  PROVE  /\ \A r, c \in 0..(m - 1) :
              LET a == At(x, N, r, c)      b == At(x, N, r, c + m)
                  d == At(x, N, r + m, c)  e == At(x, N, r + m, c + m)
              IN /\ 2 * At(z, N, 2 * r, 2 * c) = (a + b) + (d + e)
                 /\ 2 * At(z, N, 2 * r, 2 * c + 1) = (a - b) + (d - e)
                 /\ 2 * At(z, N, 2 * r + 1, 2 * c) = (a + b) - (d + e)
                 /\ 2 * At(z, N, 2 * r + 1, 2 * c + 1) = (a - b) - (d - e)
         /\ \A r, c \in 0..(N - 1) : ~(r < 2 * m /\ c < 2 * m) => At(z, N, r, c) = At(x, N, r, c)
<1> DEFINE s == 2 * m
           p == CopyParts(x, s, s, N)
           d == AlongColumns(Idwt, AlongRows(Idwt, p, s, s), s, s)
<1>1. m \in Nat \ {0} /\ N \div Pow2[q] = s /\ s <= N /\ s \in Nat \ {0} /\ N \in Nat \ {0} /\ 2 \in Nat
  BY LevelSides, NPositive
<1>2. z = CopyPartsInverse(Halved(d), x, s, s, N)
  <2>1. (q + 1) - 1 = q
    OBVIOUS
  <2> QED
    BY <1>1, <2>1 DEF IdwtLevel, Idwt2
<1>3. s = 2 * m
  OBVIOUS
<1> HIDE DEF s
<1>4. p \in Grained(s, 2) /\ \A r, c \in 0..(s - 1) : At(p, s, r, c) = At(x, N, r, c)
  BY <1>1, CornerOut
<1> HIDE DEF p
<1>5. p \in Pictures(s)
  BY <1>1, <1>4, GrainedPicture
<1>6. d = AlongColumns(Idwt, AlongRows(Idwt, p, s, s), s, s)
  OBVIOUS
<1> HIDE DEF d
<1>7. d \in Grained(s, 2)
  BY <1>1, <1>3, <1>4, <1>5, <1>6, Idwt2Sums
<1>8. \A r, c \in 0..(m - 1) :
           LET a == At(p, s, r, c)      b == At(p, s, r, c + m)
               f == At(p, s, r + m, c)  e == At(p, s, r + m, c + m)
           IN /\ At(d, s, 2 * r, 2 * c) = (a + b) + (f + e)
              /\ At(d, s, 2 * r, 2 * c + 1) = (a - b) + (f - e)
              /\ At(d, s, 2 * r + 1, 2 * c) = (a + b) - (f + e)
              /\ At(d, s, 2 * r + 1, 2 * c + 1) = (a - b) - (f - e)
  BY <1>1, <1>3, <1>5, <1>6, Idwt2Sums
<1>9. \A r, c \in 0..(N - 1) :
        /\ (r < s /\ c < s) => 2 * At(z, N, r, c) = At(d, s, r, c)
        /\ ~(r < s /\ c < s) => At(z, N, r, c) = At(x, N, r, c)
  BY <1>1, <1>2, <1>6, <1>7, LevelSums
<1>10. ASSUME NEW r \in 0..(m - 1), NEW c \in 0..(m - 1)
      PROVE  LET a == At(x, N, r, c)      b == At(x, N, r, c + m)
                 f == At(x, N, r + m, c)  e == At(x, N, r + m, c + m)
             IN /\ 2 * At(z, N, 2 * r, 2 * c) = (a + b) + (f + e)
                /\ 2 * At(z, N, 2 * r, 2 * c + 1) = (a - b) + (f - e)
                /\ 2 * At(z, N, 2 * r + 1, 2 * c) = (a + b) - (f + e)
                /\ 2 * At(z, N, 2 * r + 1, 2 * c + 1) = (a - b) - (f - e)
  <2>1. /\ {r, r + m, c, c + m} \subseteq 0..(s - 1)
        /\ {2 * r, 2 * r + 1, 2 * c, 2 * c + 1} \subseteq 0..(N - 1)
        /\ 2 * r < s /\ 2 * r + 1 < s /\ 2 * c < s /\ 2 * c + 1 < s
    BY <1>1, <1>3
  <2>2. /\ At(p, s, r, c) = At(x, N, r, c) /\ At(p, s, r, c + m) = At(x, N, r, c + m)
        /\ At(p, s, r + m, c) = At(x, N, r + m, c)
        /\ At(p, s, r + m, c + m) = At(x, N, r + m, c + m)
    BY <1>4, <2>1
  <2>3. /\ 2 * At(z, N, 2 * r, 2 * c) = At(d, s, 2 * r, 2 * c)
        /\ 2 * At(z, N, 2 * r, 2 * c + 1) = At(d, s, 2 * r, 2 * c + 1)
        /\ 2 * At(z, N, 2 * r + 1, 2 * c) = At(d, s, 2 * r + 1, 2 * c)
        /\ 2 * At(z, N, 2 * r + 1, 2 * c + 1) = At(d, s, 2 * r + 1, 2 * c + 1)
    BY <1>9, <2>1
  <2> QED
    BY <1>8, <2>2, <2>3
<1> QED
  BY <1>3, <1>9, <1>10

-----------------------------------------------------------------------------
(* The pixels of a block of b x b, and its four quarters. *)
Within(q, b, r) == q \div b = r

Block(r, c, b) == {p \in Places : Within(p \div N, b, r) /\ Within(p % N, b, c)}

LEMMA DivHalves ==
  ASSUME NEW q \in Nat, NEW h \in Nat \ {0}, NEW r \in Nat
  PROVE  Within(q, 2 * h, r) <=> Within(q, h, 2 * r) \/ Within(q, h, 2 * r + 1)
<1> DEFINE a == q \div h
<1>1. a \in Nat
  OBVIOUS
<1>2. a = q \div h
  OBVIOUS
<1> HIDE DEF a
<1>3. a \div 2 \in Nat /\ a % 2 \in {0, 1} /\ a = 2 * (a \div 2) + (a % 2)
  BY <1>1, HalfOf
<1>4. q \div (2 * h) = a \div 2
  <2> DEFINE v == a \div 2  e == a % 2
  <2>1. v \in Nat /\ e \in {0, 1} /\ q \div h = 2 * v + e
    BY <1>2, <1>3
  <2> HIDE DEF v, e
  <2>2. q \div (2 * h) = v
    BY <2>1, BlockHalf
  <2> QED
    BY <2>2 DEF v
<1>5. a \div 2 = r <=> a = 2 * r \/ a = 2 * r + 1
  BY <1>1, <1>3
<1> QED
  BY <1>2, <1>4, <1>5 DEF Within

LEMMA PlaceOf ==
  ASSUME NEW p \in Places
  PROVE  p \div N \in 0..(N - 1) /\ p % N \in 0..(N - 1) /\ p = (p \div N) * N + (p % N)
  BY NPositive, CellOf DEF Places

LEMMA PlacesFinite == IsFiniteSet(Places)
<1>1. N * N - 1 \in Int
  BY NPositive
<1> QED
  BY <1>1, FS_Interval DEF Places

LEMMA BlockParts ==
  ASSUME NEW h \in Nat \ {0}, NEW r \in Nat, NEW c \in Nat
  PROVE  Block(r, c, 2 * h) = (Block(2 * r, 2 * c, h) \cup Block(2 * r, 2 * c + 1, h))
                              \cup (Block(2 * r + 1, 2 * c, h) \cup Block(2 * r + 1, 2 * c + 1, h))
<1>1. ASSUME NEW p \in Places
      PROVE  p \in Block(r, c, 2 * h) <=>
               p \in (Block(2 * r, 2 * c, h) \cup Block(2 * r, 2 * c + 1, h))
                     \cup (Block(2 * r + 1, 2 * c, h) \cup Block(2 * r + 1, 2 * c + 1, h))
  <2> DEFINE R == p \div N  C == p % N
  <2>1. R \in Nat /\ C \in Nat
    BY PlaceOf
  <2> HIDE DEF R, C
  <2>2. Within(R, 2 * h, r) <=> Within(R, h, 2 * r) \/ Within(R, h, 2 * r + 1)
    BY <2>1, DivHalves
  <2>3. Within(C, 2 * h, c) <=> Within(C, h, 2 * c) \/ Within(C, h, 2 * c + 1)
    BY <2>1, DivHalves
  <2> QED
    BY <2>2, <2>3 DEF Block, R, C
<1> QED
  BY <1>1 DEF Block

LEMMA BlocksApart ==
  ASSUME NEW h, NEW r, NEW c, NEW e, NEW f, r # e \/ c # f
  PROVE  Block(r, c, h) \cap Block(e, f, h) = {}
  BY DEF Block, Within

LEMMA BlockSummable ==
  ASSUME NEW g, Summable(g, Places), NEW r, NEW c, NEW b
  PROVE  Summable(g, Block(r, c, b))
<1>1. Block(r, c, b) \subseteq Places
  BY DEF Block
<1> QED
  BY <1>1, FS_Subset DEF Summable

LEMMA SumFour ==
  ASSUME NEW g, NEW S1, Summable(g, S1), NEW S2, Summable(g, S2), NEW S3, Summable(g, S3),
         NEW S4, Summable(g, S4), S1 \cap S2 = {}, S1 \cap S3 = {}, S1 \cap S4 = {},
         S2 \cap S3 = {}, S2 \cap S4 = {}, S3 \cap S4 = {}
  PROVE  /\ SumOf(g, (S1 \cup S2) \cup (S3 \cup S4))
              = (SumOf(g, S1) + SumOf(g, S2)) + (SumOf(g, S3) + SumOf(g, S4))
         /\ Summable(g, (S1 \cup S2) \cup (S3 \cup S4))
<1>1. SumOf(g, S1 \cup S2) = SumOf(g, S1) + SumOf(g, S2) /\ Summable(g, S1 \cup S2)
  BY SumUnion
<1>2. SumOf(g, S3 \cup S4) = SumOf(g, S3) + SumOf(g, S4) /\ Summable(g, S3 \cup S4)
  BY SumUnion
<1> DEFINE A == S1 \cup S2  B == S3 \cup S4
<1>3. Summable(g, A) /\ Summable(g, B) /\ A \cap B = {}
  BY <1>1, <1>2
<1> HIDE DEF A, B
<1>4. SumOf(g, A \cup B) = SumOf(g, A) + SumOf(g, B) /\ Summable(g, A \cup B)
  BY <1>3, SumUnion
<1> QED
  BY <1>1, <1>2, <1>4 DEF A, B

LEMMA QuartersSum ==
  ASSUME NEW g, NEW h \in Nat \ {0}, NEW r \in Nat, NEW c \in Nat,
         Summable(g, Block(2 * r, 2 * c, h)), Summable(g, Block(2 * r, 2 * c + 1, h)),
         Summable(g, Block(2 * r + 1, 2 * c, h)), Summable(g, Block(2 * r + 1, 2 * c + 1, h))
  PROVE  /\ SumOf(g, Block(r, c, 2 * h))
              = (SumOf(g, Block(2 * r, 2 * c, h)) + SumOf(g, Block(2 * r, 2 * c + 1, h)))
                + (SumOf(g, Block(2 * r + 1, 2 * c, h)) + SumOf(g, Block(2 * r + 1, 2 * c + 1, h)))
         /\ Summable(g, Block(r, c, 2 * h))
<1> DEFINE S1 == Block(2 * r, 2 * c, h)      S2 == Block(2 * r, 2 * c + 1, h)
           S3 == Block(2 * r + 1, 2 * c, h)  S4 == Block(2 * r + 1, 2 * c + 1, h)
<1>1. 2 * r # 2 * r + 1 /\ 2 * c # 2 * c + 1
  OBVIOUS
<1>2. /\ S1 \cap S2 = {} /\ S1 \cap S3 = {} /\ S1 \cap S4 = {}
      /\ S2 \cap S3 = {} /\ S2 \cap S4 = {} /\ S3 \cap S4 = {}
  BY <1>1, BlocksApart
<1>3. Summable(g, S1) /\ Summable(g, S2) /\ Summable(g, S3) /\ Summable(g, S4)
  OBVIOUS
<1>4. Block(r, c, 2 * h) = (S1 \cup S2) \cup (S3 \cup S4)
  BY BlockParts
<1> DEFINE S == Block(r, c, 2 * h)
<1>5. S = (S1 \cup S2) \cup (S3 \cup S4)
  BY <1>4
<1> HIDE DEF S, S1, S2, S3, S4
<1>6. /\ SumOf(g, (S1 \cup S2) \cup (S3 \cup S4))
           = (SumOf(g, S1) + SumOf(g, S2)) + (SumOf(g, S3) + SumOf(g, S4))
      /\ Summable(g, (S1 \cup S2) \cup (S3 \cup S4))
  BY <1>2, <1>3, SumFour
<1>7. /\ SumOf(g, S) = (SumOf(g, S1) + SumOf(g, S2)) + (SumOf(g, S3) + SumOf(g, S4))
      /\ Summable(g, S)
  BY <1>5, <1>6
<1> QED
  BY <1>7 DEF S, S1, S2, S3, S4

-----------------------------------------------------------------------------
(***************************************************************************)
(* dwt2_full after l levels: its corner holds the sums over blocks of b x b *)
(* pixels (divided by b), the rest the finished coefficients.              *)
(***************************************************************************)
AnalysisTerms(i, x) == [p \in Places |-> Waves[i][p] * x[p] * SizeOf(i)]

(* g is what the reference says for x, before its division. *)
Analysis(g, x) == \A i \in Places : g[i] * N = SumOf(AnalysisTerms(i, x), Places)

BlockSums(t, x, s, b) ==
  \A r, c \in 0..(s - 1) : At(t, N, r, c) * b = SumOf(x, Block(r, c, b))

Finished(t, x, s) ==
  \A r, c \in 0..(N - 1) :
    ~(r < s /\ c < s) => At(t, N, r, c) * N = SumOf(AnalysisTerms(r * N + c, x), Places)

Coarse(t, x, l) ==
  BlockSums(t, x, Pow2[Order - l], Pow2[l]) /\ Finished(t, x, Pow2[Order - l])

(* Four numbers with the signs of one of the four wavelets of a block. *)
Signed(u, v, a, b, d, e) ==
  (a + Sgn(v, 1) * b) + (Sgn(u, 1) * d + (Sgn(u, 1) * Sgn(v, 1)) * e)

LEMMA DwtSigned ==
  ASSUME NEW q \in 0..(Order - 1), NEW m, m = Pow2[Order - q - 1],
         NEW x \in Grained(N, 2), NEW z, z = DwtLevel(x, N, q),
         NEW R, NEW r, NEW u, Stands(R, r, u, m), NEW C, NEW c, NEW v, Stands(C, c, v, m)
  PROVE  2 * At(z, N, R, C) = Signed(u, v, At(x, N, 2 * r, 2 * c), At(x, N, 2 * r, 2 * c + 1),
                                     At(x, N, 2 * r + 1, 2 * c), At(x, N, 2 * r + 1, 2 * c + 1))
<1> DEFINE a == At(x, N, 2 * r, 2 * c)      b == At(x, N, 2 * r, 2 * c + 1)
           d == At(x, N, 2 * r + 1, 2 * c)  e == At(x, N, 2 * r + 1, 2 * c + 1)
<1>1. m \in Nat \ {0} /\ 2 * m <= N /\ N \in Nat \ {0} /\ 2 \in Nat
  BY LevelSides, NPositive
<1>2. /\ r \in 0..(m - 1) /\ u \in {0, 1} /\ R = IF u = 0 THEN r ELSE r + m
      /\ c \in 0..(m - 1) /\ v \in {0, 1} /\ C = IF v = 0 THEN c ELSE c + m
  BY <1>1, StandsIn
<1>3. /\ 2 * r \in 0..(N - 1) /\ 2 * r + 1 \in 0..(N - 1)
      /\ 2 * c \in 0..(N - 1) /\ 2 * c + 1 \in 0..(N - 1)
  BY <1>1, <1>2
<1>4. x \in Pictures(N)
  BY <1>1, GrainedPicture
<1>5. a \in Int /\ b \in Int /\ d \in Int /\ e \in Int
  BY <1>1, <1>3, <1>4, AtInt
<1>6. /\ 2 * At(z, N, r, c) = (a + b) + (d + e)
      /\ 2 * At(z, N, r, c + m) = (a - b) + (d - e)
      /\ 2 * At(z, N, r + m, c) = (a + b) - (d + e)
      /\ 2 * At(z, N, r + m, c + m) = (a - b) - (d - e)
  BY <1>2, DwtLevelSums
<1> HIDE DEF a, b, d, e
<1>8. /\ Signed(0, 0, a, b, d, e) = (a + b) + (d + e)
      /\ Signed(0, 1, a, b, d, e) = (a - b) + (d - e)
      /\ Signed(1, 0, a, b, d, e) = (a + b) - (d + e)
      /\ Signed(1, 1, a, b, d, e) = (a - b) - (d - e)
  <2>1. Sgn(0, 1) = 1 /\ Sgn(1, 1) = -1
    BY DEF Sgn
  <2> QED
    BY <1>5, <2>1 DEF Signed
<1>7. 2 * At(z, N, R, C) = Signed(u, v, a, b, d, e)
  <2>1. CASE u = 0 /\ v = 0
    BY <1>2, <1>6, <1>8, <2>1
  <2>2. CASE u = 0 /\ v = 1
    BY <1>2, <1>6, <1>8, <2>2
  <2>3. CASE u = 1 /\ v = 0
    BY <1>2, <1>6, <1>8, <2>3
  <2>4. CASE u = 1 /\ v = 1
    BY <1>2, <1>6, <1>8, <2>4
  <2> QED
    BY <1>2, <2>1, <2>2, <2>3, <2>4
<1> QED
  BY <1>7 DEF a, b, d, e

(* The arithmetic of a level: w is half of the signed sum of a, b, d and e. *)
Weighted(m, u, v, a, b, d, e) ==
  (m * a + (Sgn(v, 1) * m) * b) + ((Sgn(u, 1) * m) * d + ((Sgn(u, 1) * Sgn(v, 1)) * m) * e)

TimesSides(w, m, h) == w * (m * (2 * h))

LEMMA SignedTimes ==
  ASSUME NEW m \in Nat, NEW h \in Nat, NEW a \in Int, NEW b \in Int, NEW d \in Int, NEW e \in Int,
         NEW w \in Int, NEW u, NEW v, 2 * w = Signed(u, v, a, b, d, e)
  PROVE  TimesSides(w, m, h) = Weighted(m, u, v, a * h, b * h, d * h, e * h)
<1> DEFINE f == Sgn(u, 1)  g == Sgn(v, 1)  q == m * h
<1>1. f \in {-1, 1} /\ g \in {-1, 1} /\ 2 * w = (a + g * b) + (f * d + (f * g) * e)
  BY SgnUnit DEF Signed
<1>2. q \in Nat
  BY ProductNat
<1>3. w * (m * (2 * h)) = (2 * w) * q
  OBVIOUS
<1>4. m * (a * h) = a * q /\ m * (b * h) = b * q /\ m * (d * h) = d * q /\ m * (e * h) = e * q
  OBVIOUS
<1> HIDE DEF f, g
<1>5. /\ (g * m) * (b * h) = g * (b * q) /\ (f * m) * (d * h) = f * (d * q)
      /\ ((f * g) * m) * (e * h) = (f * g) * (e * q)
  <2>1. ASSUME NEW j \in {-1, 1}, NEW i \in Int PROVE (j * m) * (i * h) = j * (i * q)
    <3>1. CASE j = 1
      BY <3>1
    <3>2. CASE j = -1
      BY <3>2
    <3> QED
      BY <3>1, <3>2
  <2>2. f * g \in {-1, 1}
    BY <1>1
  <2> QED
    BY <1>1, <2>1, <2>2
<1> HIDE DEF q
<1>6. (2 * w) * q = (a * q + g * (b * q)) + (f * (d * q) + (f * g) * (e * q))
  <2>1. CASE f = 1 /\ g = 1
    <3>1. 2 * w = (a + b) + (d + e)
      BY <1>1, <2>1
    <3> QED
      BY <1>2, <2>1, <3>1
  <2>2. CASE f = 1 /\ g = -1
    <3>1. 2 * w = (a - b) + (d - e)
      BY <1>1, <2>2
    <3> QED
      BY <1>2, <2>2, <3>1
  <2>3. CASE f = -1 /\ g = 1
    <3>1. 2 * w = (a + b) - (d + e)
      BY <1>1, <2>3
    <3> QED
      BY <1>2, <2>3, <3>1
  <2>4. CASE f = -1 /\ g = -1
    <3>1. 2 * w = (a - b) - (d - e)
      BY <1>1, <2>4
    <3> QED
      BY <1>2, <2>4, <3>1
  <2> QED
    BY <1>1, <2>1, <2>2, <2>3, <2>4
<1> QED
  BY <1>3, <1>4, <1>5, <1>6 DEF f, g, Weighted, TimesSides

LEMMA PictureSummable == ASSUME NEW x \in Pictures(N) PROVE Summable(x, Places)
<1>1. \A p \in Places : x[p] \in Int
  BY DEF Pictures, Places
<1> QED
  BY <1>1, PlacesFinite DEF Summable

Quarter(r, e, c, f, h) == Block(2 * r + e, 2 * c + f, h)

LEMMA InBlock ==
  ASSUME NEW h, NEW r \in Nat, NEW e \in {0, 1}, NEW c \in Nat, NEW f \in {0, 1},
         NEW p \in Quarter(r, e, c, f, h)
  PROVE  InQuarter(p, r, e, c, f, h)
<1>1. p \in Places /\ Within(p \div N, h, 2 * r + e) /\ Within(p % N, h, 2 * c + f)
  BY DEF Block, Quarter
<1>2. p \div N \in Nat /\ p % N \in Nat
  BY <1>1, PlaceOf
<1> QED
  BY <1>1, <1>2 DEF Within, InHalf, InQuarter

LEMMA SomeHalf ==
  ASSUME NEW q \in Nat, NEW h \in Nat \ {0}
  PROVE  \E r \in Nat, e \in {0, 1} : InHalf(q, h, r, e)
<1> DEFINE a == q \div h
<1>1. a \in Nat
  OBVIOUS
<1> HIDE DEF a
<1>2. a \div 2 \in Nat /\ a % 2 \in {0, 1} /\ a = 2 * (a \div 2) + (a % 2)
  BY <1>1, HalfOf
<1>3. InHalf(q, h, a \div 2, a % 2)
  BY <1>2 DEF InHalf, a
<1> QED
  BY <1>2, <1>3

LEMMA SomeQuarter ==
  ASSUME NEW p \in Places, NEW h \in Nat \ {0}
  PROVE  \E r, e, c, f : InQuarter(p, r, e, c, f, h)
<1>1. p \div N \in Nat /\ p % N \in Nat
  BY PlaceOf
<1>2. PICK r \in Nat, e \in {0, 1} : InHalf(p \div N, h, r, e)
  BY <1>1, SomeHalf
<1>3. PICK c \in Nat, f \in {0, 1} : InHalf(p % N, h, c, f)
  BY <1>1, SomeHalf
<1> QED
  BY <1>2, <1>3 DEF InQuarter

LEMMA QuarterBlock ==
  ASSUME NEW h \in Nat \ {0}, NEW p, NEW r, NEW e, NEW c, NEW f, InQuarter(p, r, e, c, f, h)
  PROVE  p \in Block(r, c, 2 * h)
<1>1. p \in Places /\ InHalf(p \div N, h, r, e) /\ InHalf(p % N, h, c, f)
  BY DEF InQuarter
<1>2. ASSUME NEW q, NEW a, NEW b, InHalf(q, h, a, b) PROVE Within(q, 2 * h, a)
  BY <1>2, BlockHalf DEF InHalf, Within
<1>3. Within(p \div N, 2 * h, r) /\ Within(p % N, 2 * h, c)
  BY <1>1, <1>2
<1> QED
  BY <1>1, <1>3 DEF Block

(* What a pixel contributes to a difference. *)
LEMMA TermAt ==
  ASSUME NEW q, NEW m, NEW h, IsLevel(q, m, h), NEW x \in Pictures(N),
         NEW i, NEW r, NEW u, NEW c, NEW v, Difference(i, r, u, c, v, m),
         NEW p, NEW r2, NEW e, NEW c2, NEW f, InQuarter(p, r2, e, c2, f, h)
  PROVE  AnalysisTerms(i, x)[p] = IF r = r2 /\ c = c2 THEN ((Sgn(u, e) * Sgn(v, f)) * m) * x[p] ELSE 0
<1>1. SizeOf(i) = m /\ Wave(i, p) = IF r = r2 /\ c = c2 THEN Sgn(u, e) * Sgn(v, f) ELSE 0
  BY WaveAt
<1>2. i \in Places /\ p \in Places
  BY DEF Difference, InQuarter
<1>3. m \in Nat /\ x[p] \in Int
  BY <1>2, LevelIs DEF Pictures, Places
<1>4. AnalysisTerms(i, x)[p] = Wave(i, p) * x[p] * SizeOf(i)
  BY <1>2 DEF AnalysisTerms, Waves
<1> DEFINE S == Sgn(u, e) * Sgn(v, f)  a == x[p]
<1>5. S \in Int /\ a \in Int
  <2>1. Sgn(u, e) \in {-1, 1} /\ Sgn(v, f) \in {-1, 1}
    BY SgnUnit
  <2> QED
    BY <1>3, <2>1
<1>6. AnalysisTerms(i, x)[p] = (IF r = r2 /\ c = c2 THEN S ELSE 0) * a * m
  BY <1>1, <1>4
<1> HIDE DEF S, a
<1>7. CASE r = r2 /\ c = c2
  <2>1. S * a * m = (S * m) * a
    BY <1>3, <1>5
  <2> QED
    BY <1>6, <1>7, <2>1 DEF S, a
<1>8. CASE ~(r = r2 /\ c = c2)
  <2>1. 0 * a * m = 0
    BY <1>3, <1>5
  <2> QED
    BY <1>6, <1>8, <2>1
<1> QED
  BY <1>7, <1>8

LEMMA QuarterTerms ==
  ASSUME NEW q, NEW m, NEW h, IsLevel(q, m, h), NEW x \in Pictures(N),
         NEW i, NEW r, NEW u, NEW c, NEW v, Difference(i, r, u, c, v, m),
         NEW e \in {0, 1}, NEW f \in {0, 1}, NEW S, S = Quarter(r, e, c, f, h)
  PROVE  /\ SumOf(AnalysisTerms(i, x), S) = ((Sgn(u, e) * Sgn(v, f)) * m) * SumOf(x, S)
         /\ Summable(AnalysisTerms(i, x), S)
<1> DEFINE g == AnalysisTerms(i, x)
           z == (Sgn(u, e) * Sgn(v, f)) * m
<1>1. m \in Nat \ {0} /\ r \in Nat /\ c \in Nat
  BY LevelIs DEF Difference, Stands
<1>2. \A p \in S : g[p] = z * x[p]
  <2> SUFFICES ASSUME NEW p \in S PROVE g[p] = z * x[p]
    OBVIOUS
  <2>1. InQuarter(p, r, e, c, f, h)
    BY <1>1, InBlock
  <2> QED
    BY <2>1, TermAt
<1>3. z \in Int
  <2>1. Sgn(u, e) \in {-1, 1} /\ Sgn(v, f) \in {-1, 1}
    BY SgnUnit
  <2> QED
    BY <1>1, <2>1
<1>4. Summable(x, S)
  BY PictureSummable, BlockSummable DEF Quarter
<1> HIDE DEF g, z
<1>5. SumOf(g, S) = z * SumOf(x, S) /\ Summable(g, S)
  BY <1>2, <1>3, <1>4, SumScale
<1> QED
  BY <1>5 DEF g, z

LEMMA DifferenceSum ==
  ASSUME NEW q, NEW m, NEW h, IsLevel(q, m, h), NEW x \in Pictures(N),
         NEW i, NEW r, NEW u, NEW c, NEW v, Difference(i, r, u, c, v, m)
  PROVE  SumOf(AnalysisTerms(i, x), Places) =
           (m * SumOf(x, Block(2 * r, 2 * c, h))
            + (Sgn(v, 1) * m) * SumOf(x, Block(2 * r, 2 * c + 1, h)))
           + ((Sgn(u, 1) * m) * SumOf(x, Block(2 * r + 1, 2 * c, h))
              + ((Sgn(u, 1) * Sgn(v, 1)) * m) * SumOf(x, Block(2 * r + 1, 2 * c + 1, h)))
<1> DEFINE g == AnalysisTerms(i, x)
           S00 == Block(2 * r, 2 * c, h)      S01 == Block(2 * r, 2 * c + 1, h)
           S10 == Block(2 * r + 1, 2 * c, h)  S11 == Block(2 * r + 1, 2 * c + 1, h)
           S == Block(r, c, 2 * h)
<1>1. m \in Nat \ {0} /\ h \in Nat \ {0} /\ r \in Nat /\ c \in Nat
  BY LevelIs DEF Difference, Stands
<1>2. Sgn(u, 0) = 1 /\ Sgn(v, 0) = 1 /\ Sgn(u, 1) \in {-1, 1} /\ Sgn(v, 1) \in {-1, 1}
  BY SgnUnit DEF Sgn
<1>3. /\ S00 = Quarter(r, 0, c, 0, h) /\ S01 = Quarter(r, 0, c, 1, h)
      /\ S10 = Quarter(r, 1, c, 0, h) /\ S11 = Quarter(r, 1, c, 1, h)
  BY <1>1 DEF Quarter
<1> HIDE DEF S00, S01, S10, S11
<1>4. \A e, f \in {0, 1} :
        /\ SumOf(g, Quarter(r, e, c, f, h))
             = ((Sgn(u, e) * Sgn(v, f)) * m) * SumOf(x, Quarter(r, e, c, f, h))
        /\ Summable(g, Quarter(r, e, c, f, h))
  BY QuarterTerms
<1> HIDE DEF g
<1>5. /\ SumOf(g, S00) = ((Sgn(u, 0) * Sgn(v, 0)) * m) * SumOf(x, S00) /\ Summable(g, S00)
      /\ SumOf(g, S01) = ((Sgn(u, 0) * Sgn(v, 1)) * m) * SumOf(x, S01) /\ Summable(g, S01)
  BY <1>3, <1>4
<1>6. /\ SumOf(g, S10) = ((Sgn(u, 1) * Sgn(v, 0)) * m) * SumOf(x, S10) /\ Summable(g, S10)
      /\ SumOf(g, S11) = ((Sgn(u, 1) * Sgn(v, 1)) * m) * SumOf(x, S11) /\ Summable(g, S11)
  BY <1>3, <1>4
<1>7. (Sgn(u, 0) * Sgn(v, 0)) * m = m /\ Sgn(u, 0) * Sgn(v, 1) = Sgn(v, 1) /\ Sgn(u, 1) * Sgn(v, 0) = Sgn(u, 1)
  BY <1>1, <1>2
<1>8. /\ SumOf(g, S) = (SumOf(g, S00) + SumOf(g, S01)) + (SumOf(g, S10) + SumOf(g, S11))
      /\ Summable(g, S)
  BY <1>1, <1>5, <1>6, QuartersSum DEF S00, S01, S10, S11
<1>9. S \in SUBSET Places /\ IsFiniteSet(Places)
  BY PlacesFinite DEF Block
<1>10. \A p \in Places \ S : g[p] = 0
  <2> SUFFICES ASSUME NEW p \in Places \ S PROVE g[p] = 0
    OBVIOUS
  <2>1. PICK r2, e, c2, f : InQuarter(p, r2, e, c2, f, h)
    BY <1>1, SomeQuarter
  <2>2. g[p] = IF r = r2 /\ c = c2 THEN ((Sgn(u, e) * Sgn(v, f)) * m) * x[p] ELSE 0
    BY <2>1, TermAt DEF g
  <2>3. p \in Block(r2, c2, 2 * h)
    BY <1>1, <2>1, QuarterBlock
  <2>4. ~(r = r2 /\ c = c2)
    BY <2>3
  <2> QED
    BY <2>2, <2>4
<1> HIDE DEF S
<1>11. SumOf(g, Places) = SumOf(g, S)
  BY <1>8, <1>9, <1>10, SumOver
<1> QED
  BY <1>5, <1>6, <1>7, <1>8, <1>11 DEF g, S00, S01, S10, S11

LEMMA SomeStands ==
  ASSUME NEW m \in Nat \ {0}, NEW R \in 0..(2 * m - 1)
  PROVE  \E r, u : Stands(R, r, u, m) /\ (u = 1 <=> R >= m)
<1>1. CASE R < m
  <2>1. Stands(R, R, 0, m)
    BY <1>1 DEF Stands
  <2> QED
    BY <1>1, <2>1
<1>2. CASE R >= m
  <2>1. Stands(R, R - m, 1, m)
    BY <1>2 DEF Stands
  <2> QED
    BY <1>2, <2>1
<1> QED
  BY <1>1, <1>2

LEMMA SomeDifference ==
  ASSUME NEW q, NEW m, NEW h, IsLevel(q, m, h),
         NEW R \in 0..(2 * m - 1), NEW C \in 0..(2 * m - 1), R >= m \/ C >= m, NEW i, i = R * N + C
  PROVE  \E r, u, c, v : Stands(R, r, u, m) /\ Stands(C, c, v, m) /\ Difference(i, r, u, c, v, m)
<1>1. m \in Nat \ {0} /\ 2 * m <= N /\ N \in Nat \ {0}
  BY LevelIs, NPositive
<1>2. PICK r, u : Stands(R, r, u, m) /\ (u = 1 <=> R >= m)
  BY <1>1, SomeStands
<1>3. PICK c, v : Stands(C, c, v, m) /\ (v = 1 <=> C >= m)
  BY <1>1, SomeStands
<1>4. R \in 0..(N - 1) /\ C \in 0..(N - 1)
  BY <1>1
<1>5. i \in Places /\ i \div N = R /\ i % N = C
  BY <1>1, <1>4, CellBoth DEF Places
<1>6. u = 1 \/ v = 1
  BY <1>2, <1>3
<1>7. Difference(i, r, u, c, v, m)
  BY <1>2, <1>3, <1>5, <1>6 DEF Difference
<1> QED
  BY <1>2, <1>3, <1>7

LEMMA FourBlocks ==
  ASSUME NEW q, NEW m, NEW h, IsLevel(q, m, h), NEW t, NEW x, BlockSums(t, x, 2 * m, h),
         NEW r \in 0..(m - 1), NEW c \in 0..(m - 1)
  PROVE  /\ At(t, N, 2 * r, 2 * c) * h = SumOf(x, Block(2 * r, 2 * c, h))
         /\ At(t, N, 2 * r, 2 * c + 1) * h = SumOf(x, Block(2 * r, 2 * c + 1, h))
         /\ At(t, N, 2 * r + 1, 2 * c) * h = SumOf(x, Block(2 * r + 1, 2 * c, h))
         /\ At(t, N, 2 * r + 1, 2 * c + 1) * h = SumOf(x, Block(2 * r + 1, 2 * c + 1, h))
<1>1. m \in Nat \ {0}
  BY LevelIs
<1>2. /\ 2 * r \in 0..(2 * m - 1) /\ 2 * r + 1 \in 0..(2 * m - 1)
      /\ 2 * c \in 0..(2 * m - 1) /\ 2 * c + 1 \in 0..(2 * m - 1)
  BY <1>1
<1> QED
  BY <1>2 DEF BlockSums

LEMMA FourInt ==
  ASSUME NEW q, NEW m, NEW h, IsLevel(q, m, h), NEW t \in Pictures(N),
         NEW r \in 0..(m - 1), NEW c \in 0..(m - 1)
  PROVE  /\ At(t, N, 2 * r, 2 * c) \in Int /\ At(t, N, 2 * r, 2 * c + 1) \in Int
         /\ At(t, N, 2 * r + 1, 2 * c) \in Int /\ At(t, N, 2 * r + 1, 2 * c + 1) \in Int
<1>1. m \in Nat \ {0} /\ 2 * m <= N /\ N \in Nat \ {0}
  BY LevelIs, NPositive
<1>2. /\ 2 * r \in 0..(N - 1) /\ 2 * r + 1 \in 0..(N - 1)
      /\ 2 * c \in 0..(N - 1) /\ 2 * c + 1 \in 0..(N - 1)
  BY <1>1
<1> QED
  BY <1>1, <1>2, AtInt

LEMMA BlockSumsStep ==
  ASSUME NEW q, NEW m, NEW h, IsLevel(q, m, h), NEW x \in Pictures(N), NEW t \in Grained(N, 2),
         BlockSums(t, x, 2 * m, h), NEW z, z = DwtLevel(t, N, q)
  PROVE  BlockSums(z, x, m, 2 * h)
<1> SUFFICES ASSUME NEW r \in 0..(m - 1), NEW c \in 0..(m - 1)
             PROVE  At(z, N, r, c) * (2 * h) = SumOf(x, Block(r, c, 2 * h))
  BY DEF BlockSums
<1> DEFINE a == At(t, N, 2 * r, 2 * c)      b == At(t, N, 2 * r, 2 * c + 1)
           d == At(t, N, 2 * r + 1, 2 * c)  e == At(t, N, 2 * r + 1, 2 * c + 1)
           w == At(z, N, r, c)
<1>1. m \in Nat \ {0} /\ h \in Nat \ {0} /\ r \in Nat /\ c \in Nat /\ N \in Nat \ {0} /\ 2 * m <= N
  BY LevelIs, NPositive
<1>2. q \in 0..(Order - 1) /\ m = Pow2[Order - q - 1]
  BY DEF IsLevel
<1>3. t \in Pictures(N)
  BY <1>1, GrainedPicture
<1>4. 2 * w = (a + b) + (d + e)
  BY <1>2, DwtLevelSums
<1>5. a \in Int /\ b \in Int /\ d \in Int /\ e \in Int
  BY <1>3, FourInt
<1>6. w \in Int
  <2>1. 1 \in Nat /\ 2 * 1 = 2
    OBVIOUS
  <2>2. z \in Grained(N, 1)
    BY <1>2, <2>1, DwtLevelGrained
  <2>3. z \in Pictures(N)
    BY <1>1, <2>1, <2>2, GrainedPicture
  <2>4. r \in 0..(N - 1) /\ c \in 0..(N - 1)
    BY <1>1
  <2> QED
    BY <1>1, <2>3, <2>4, AtInt
<1> DEFINE S00 == Block(2 * r, 2 * c, h)      S01 == Block(2 * r, 2 * c + 1, h)
           S10 == Block(2 * r + 1, 2 * c, h)  S11 == Block(2 * r + 1, 2 * c + 1, h)
<1>7. a * h = SumOf(x, S00) /\ b * h = SumOf(x, S01) /\ d * h = SumOf(x, S10) /\ e * h = SumOf(x, S11)
  BY FourBlocks
<1>8. SumOf(x, Block(r, c, 2 * h)) = (SumOf(x, S00) + SumOf(x, S01)) + (SumOf(x, S10) + SumOf(x, S11))
  <2>1. Summable(x, S00) /\ Summable(x, S01) /\ Summable(x, S10) /\ Summable(x, S11)
    BY PictureSummable, BlockSummable
  <2> QED
    BY <1>1, <2>1, QuartersSum
<1>9. w * (2 * h) = (a * h + b * h) + (d * h + e * h)
  <2> HIDE DEF a, b, d, e, w
  <2>1. w * (2 * h) = (2 * w) * h
    BY <1>1, <1>6
  <2>2. ((a + b) + (d + e)) * h = (a * h + b * h) + (d * h + e * h)
    BY <1>1, <1>5
  <2> QED
    BY <1>4, <2>1, <2>2
<1> QED
  BY <1>7, <1>8, <1>9

LEMMA FinishedStep ==
  ASSUME NEW q, NEW m, NEW h, IsLevel(q, m, h), NEW x \in Pictures(N), NEW t \in Grained(N, 2),
         BlockSums(t, x, 2 * m, h), Finished(t, x, 2 * m), NEW z, z = DwtLevel(t, N, q)
  PROVE  Finished(z, x, m)
<1> SUFFICES ASSUME NEW R \in 0..(N - 1), NEW C \in 0..(N - 1), ~(R < m /\ C < m)
             PROVE  At(z, N, R, C) * N = SumOf(AnalysisTerms(R * N + C, x), Places)
  BY DEF Finished
<1>1. m \in Nat \ {0} /\ h \in Nat \ {0} /\ N \in Nat \ {0} /\ 2 * m <= N /\ N = m * (2 * h)
  BY LevelIs, NPositive
<1>2. q \in 0..(Order - 1) /\ m = Pow2[Order - q - 1]
  BY DEF IsLevel
<1>3. t \in Pictures(N) /\ z \in Pictures(N)
  <2>1. 1 \in Nat /\ 2 * 1 = 2 /\ 2 \in Nat
    OBVIOUS
  <2>2. z \in Grained(N, 1)
    BY <1>2, <2>1, DwtLevelGrained
  <2> QED
    BY <1>1, <2>1, <2>2, GrainedPicture
<1>4. CASE ~(R < 2 * m /\ C < 2 * m)
  <2>1. At(z, N, R, C) = At(t, N, R, C)
    BY <1>2, <1>4, DwtLevelSums
  <2> QED
    BY <1>4, <2>1 DEF Finished
<1>5. CASE R < 2 * m /\ C < 2 * m
  <2> DEFINE i == R * N + C
             w == At(z, N, R, C)
  <2>1. R \in 0..(2 * m - 1) /\ C \in 0..(2 * m - 1) /\ (R >= m \/ C >= m)
    BY <1>1, <1>5
  <2>2. i = R * N + C
    OBVIOUS
  <2> HIDE DEF i
  <2>3. PICK r, u, c, v : Stands(R, r, u, m) /\ Stands(C, c, v, m) /\ Difference(i, r, u, c, v, m)
    BY <2>1, <2>2, SomeDifference
  <2>4. r \in 0..(m - 1) /\ c \in 0..(m - 1)
    BY <2>3 DEF Stands
  <2> DEFINE a == At(t, N, 2 * r, 2 * c)      b == At(t, N, 2 * r, 2 * c + 1)
             d == At(t, N, 2 * r + 1, 2 * c)  e == At(t, N, 2 * r + 1, 2 * c + 1)
             S00 == SumOf(x, Block(2 * r, 2 * c, h))
             S01 == SumOf(x, Block(2 * r, 2 * c + 1, h))
             S10 == SumOf(x, Block(2 * r + 1, 2 * c, h))
             S11 == SumOf(x, Block(2 * r + 1, 2 * c + 1, h))
  <2>5. 2 * w = Signed(u, v, a, b, d, e)
    BY <1>2, <2>3, DwtSigned
  <2>6. a \in Int /\ b \in Int /\ d \in Int /\ e \in Int
    BY <1>3, <2>4, FourInt
  <2>7. w \in Int
    BY <1>1, <1>3, AtInt
  <2>8. a * h = S00 /\ b * h = S01 /\ d * h = S10 /\ e * h = S11
    BY <2>4, FourBlocks
  <2>9. SumOf(AnalysisTerms(i, x), Places) =
          (m * S00 + (Sgn(v, 1) * m) * S01)
          + ((Sgn(u, 1) * m) * S10 + ((Sgn(u, 1) * Sgn(v, 1)) * m) * S11)
    BY <2>3, DifferenceSum
  <2> HIDE DEF a, b, d, e, w, S00, S01, S10, S11
  <2>10. TimesSides(w, m, h) = Weighted(m, u, v, a * h, b * h, d * h, e * h)
    <3>1. m \in Nat /\ h \in Nat
      BY <1>1
    <3> QED
      BY <2>5, <2>6, <2>7, <3>1, SignedTimes
  <2>11. w * N = SumOf(AnalysisTerms(i, x), Places)
    BY <1>1, <2>8, <2>9, <2>10 DEF Weighted, TimesSides
  <2> QED
    BY <2>2, <2>11 DEF w
<1> QED
  BY <1>4, <1>5

(* The claim about dwt2_full before its first level, after one more, and at the end. *)
LEMMA CoarseStart ==
  ASSUME NEW x \in Pictures(N) PROVE Coarse(x, x, 0)
<1>1. Order \in Nat /\ Order - 0 = Order /\ Pow2[0] = 1 /\ N \in Nat \ {0}
  BY FistaAssumption, Pow2Facts, NPositive
<1>2. Pow2[Order - 0] = N
  BY <1>1 DEF N
<1>3. ASSUME NEW r \in 0..(N - 1), NEW c \in 0..(N - 1) PROVE At(x, N, r, c) * 1 = SumOf(x, Block(r, c, 1))
  <2> DEFINE p == r * N + c
  <2>1. p \in Places /\ p \div N = r /\ p % N = c
    BY <1>1, CellBoth DEF Places
  <2>2. \A a \in Places : a \in Block(r, c, 1) <=> a \div N = r /\ a % N = c
    <3> SUFFICES ASSUME NEW a \in Places PROVE a \in Block(r, c, 1) <=> a \div N = r /\ a % N = c
      OBVIOUS
    <3> DEFINE R == a \div N  C == a % N
    <3>1. R \in Nat /\ C \in Nat
      BY PlaceOf
    <3>2. a \in Block(r, c, 1) <=> R \div 1 = r /\ C \div 1 = c
      BY DEF Block, Within
    <3> HIDE DEF R, C
    <3>3. R \div 1 = R /\ C \div 1 = C
      BY <3>1
    <3> QED
      BY <3>2, <3>3 DEF R, C
  <2>3. Block(r, c, 1) = {p}
    <3>1. \A a \in Places : (a \div N = r /\ a % N = c) => a = p
      BY PlaceOf
    <3> HIDE DEF p
    <3>2. \A a \in Places : a \in Block(r, c, 1) <=> a = p
      BY <2>1, <2>2, <3>1
    <3> QED
      BY <2>1, <3>2 DEF Block
  <2>4. Summable(x, {p})
    BY <2>3, PictureSummable, BlockSummable
  <2>5. At(x, N, r, c) = x[p] /\ x[p] \in Int
    BY <2>1 DEF At, Pictures, Places
  <2> HIDE DEF p
  <2>6. SumOf(x, {p}) = x[p] + SumOf(x, {p} \ {p})
    BY <2>4, SumOut
  <2>7. {p} \ {p} = {} /\ SumOf(x, {}) = 0
    BY SumEmpty
  <2>8. SumOf(x, {p}) = x[p] + 0
    BY <2>6, <2>7
  <2> QED
    BY <2>3, <2>5, <2>8
<1>4. BlockSums(x, x, N, 1)
  BY <1>3 DEF BlockSums
<1>5. Finished(x, x, N)
  BY <1>1 DEF Finished
<1> QED
  BY <1>1, <1>2, <1>4, <1>5 DEF Coarse

LEMMA CoarseStep ==
  ASSUME NEW q \in 0..(Order - 1), NEW x \in Pictures(N), NEW t \in Grained(N, 2), Coarse(t, x, q)
  PROVE  Coarse(DwtLevel(t, N, q), x, q + 1)
<1> DEFINE m == Pow2[Order - q - 1]  h == Pow2[q]  z == DwtLevel(t, N, q)
<1>1. IsLevel(q, m, h) /\ z = DwtLevel(t, N, q)
  BY DEF IsLevel
<1> HIDE DEF m, h, z
<1>2. /\ Pow2[Order - q] = 2 * m /\ Pow2[q + 1] = 2 * h /\ Order - (q + 1) = Order - q - 1
      /\ Pow2[Order - q - 1] = m /\ Pow2[q] = h
  BY <1>1, LevelIs DEF IsLevel
<1>3. BlockSums(t, x, 2 * m, h) /\ Finished(t, x, 2 * m)
  BY <1>2 DEF Coarse
<1>4. BlockSums(z, x, m, 2 * h)
  BY <1>1, <1>3, BlockSumsStep
<1>5. Finished(z, x, m)
  BY <1>1, <1>3, FinishedStep
<1> QED
  BY <1>2, <1>4, <1>5 DEF Coarse, z

LEMMA CoarseEnd ==
  ASSUME NEW x \in Pictures(N), NEW t \in Pictures(N), Coarse(t, x, Order)
  PROVE  Analysis(t, x) /\ t = HaarOf(x)
<1>1. Order \in Nat /\ Order - Order = 0 /\ Pow2[0] = 1 /\ N \in Nat \ {0} /\ N = Pow2[Order]
  BY FistaAssumption, Pow2Facts, NPositive DEF N
<1>2. BlockSums(t, x, 1, N) /\ Finished(t, x, 1)
  BY <1>1 DEF Coarse
<1>3. ASSUME NEW i \in Places PROVE t[i] * N = SumOf(AnalysisTerms(i, x), Places)
  <2> DEFINE R == i \div N  C == i % N
  <2>1. R \in 0..(N - 1) /\ C \in 0..(N - 1) /\ i = R * N + C
    BY PlaceOf
  <2> HIDE DEF R, C
  <2>2. CASE ~(R < 1 /\ C < 1)
    <3>1. At(t, N, R, C) * N = SumOf(AnalysisTerms(R * N + C, x), Places)
      BY <1>2, <2>1, <2>2 DEF Finished
    <3> QED
      BY <2>1, <3>1 DEF At
  <2>3. CASE R < 1 /\ C < 1
    <3>1. i = 0 /\ 0 * N + 0 = 0 /\ 0 \in 0..(1 - 1)
      BY <1>1, <2>1, <2>3
    <3>2. At(t, N, 0, 0) * N = SumOf(x, Block(0, 0, N))
      BY <1>2, <3>1 DEF BlockSums
    <3>3. Block(0, 0, N) = Places
      <4>1. ASSUME NEW p \in Places PROVE Within(p \div N, N, 0) /\ Within(p % N, N, 0)
        <5> DEFINE P == p \div N  Q == p % N
        <5>1. P \in 0..(N - 1) /\ Q \in 0..(N - 1)
          BY PlaceOf
        <5> HIDE DEF P, Q
        <5>2. P \div N = 0 /\ Q \div N = 0
          BY <1>1, <5>1
        <5> QED
          BY <5>2 DEF Within, P, Q
      <4> QED
        BY <4>1 DEF Block
    <3>4. ASSUME NEW p \in Places PROVE x[p] = AnalysisTerms(0, x)[p]
      <4>1. 0 \in Places
        BY <3>1
      <4>2. AnalysisTerms(0, x)[p] = Wave(0, p) * x[p] * SizeOf(0)
        BY <4>1 DEF AnalysisTerms, Waves
      <4>3. x[p] \in Int
        BY DEF Pictures, Places
      <4> QED
        BY <4>2, <4>3, WaveFirst, SizeFirst
    <3>5. SumOf(x, Places) = SumOf(AnalysisTerms(0, x), Places)
      BY <3>4, PictureSummable, SumSame
    <3> QED
      BY <3>1, <3>2, <3>3, <3>5 DEF At
  <2> QED
    BY <2>2, <2>3
<1>4. ASSUME NEW i \in Places PROVE t[i] = HaarOf(x)[i]
  <2>1. HaarOf(x)[i] = SumOf(AnalysisTerms(i, x), Places) \div N
    BY DEF HaarOf, AnalysisTerms, SumOf, SumFunction
  <2> DEFINE a == t[i]
  <2>2. a \in Int
    BY DEF Pictures, Places
  <2> HIDE DEF a
  <2>3. (a * N) \div N = a
    BY <1>1, <2>2
  <2> QED
    BY <1>3, <2>1, <2>3 DEF a
<1>5. t = [i \in Places |-> t[i]]
  BY DEF Pictures, Places
<1>6. HaarOf(x) = [i \in Places |-> HaarOf(x)[i]]
  BY DEF HaarOf
<1> QED
  BY <1>3, <1>4, <1>5, <1>6 DEF Analysis

-----------------------------------------------------------------------------
(***************************************************************************)
(* idwt2_full with l levels to go: each place of its corner holds what the *)
(* coefficients of the corner make of the pixels of a block of b x b       *)
(* (divided by s), the rest the coefficients that are still to come.       *)
(***************************************************************************)
SynthesisTerms(p, x) == [i \in Places |-> Waves[i][p] * x[i] * SizeOf(i)]

(* t is what the reference says for x, before its division. *)
Synthesis(t, x) == \A p \in Places : t[p] * N = SumOf(SynthesisTerms(p, x), Places)

Corner(s) == {i \in Places : i \div N < s /\ i % N < s}

Shown(t, x, s, b) ==
  \A r, c \in 0..(s - 1) : \A p \in Block(r, c, b) :
    /\ At(t, N, r, c) * s = SumOf(SynthesisTerms(p, x), Corner(s))
    /\ Summable(SynthesisTerms(p, x), Corner(s))

Untouched(t, x, s) ==
  \A r, c \in 0..(N - 1) : ~(r < s /\ c < s) => At(t, N, r, c) = At(x, N, r, c)

Partial(t, x, l) ==
  Shown(t, x, Pow2[Order - l], Pow2[l]) /\ Untouched(t, x, Pow2[Order - l])

(* The place of the difference (u, v) of block (r, c). *)
Beyond(r, u, m) == IF u = 0 THEN r ELSE r + m

PlaceFor(r, u, c, v, m) == Beyond(r, u, m) * N + Beyond(c, v, m)

LEMMA BeyondStands ==
  ASSUME NEW m \in Nat \ {0}, NEW r \in 0..(m - 1), NEW u \in {0, 1}
  PROVE  Stands(Beyond(r, u, m), r, u, m) /\ Beyond(r, u, m) \in 0..(2 * m - 1) /\ (u = 1 <=> Beyond(r, u, m) >= m)
<1>1. CASE u = 0
  BY <1>1 DEF Beyond, Stands
<1>2. CASE u = 1
  BY <1>2 DEF Beyond, Stands
<1> QED
  BY <1>1, <1>2

LEMMA PlaceForIs ==
  ASSUME NEW q, NEW m, NEW h, IsLevel(q, m, h), NEW r \in 0..(m - 1), NEW c \in 0..(m - 1),
         NEW u \in {0, 1}, NEW v \in {0, 1}, u = 1 \/ v = 1, NEW i, i = PlaceFor(r, u, c, v, m)
  PROVE  /\ Difference(i, r, u, c, v, m) /\ i \in Places
         /\ i \div N = Beyond(r, u, m) /\ i % N = Beyond(c, v, m)
         /\ Beyond(r, u, m) \in 0..(N - 1) /\ Beyond(c, v, m) \in 0..(N - 1)
         /\ i \in Corner(2 * m) /\ i \notin Corner(m)
<1> DEFINE R == Beyond(r, u, m)  C == Beyond(c, v, m)
<1>1. m \in Nat \ {0} /\ 2 * m <= N /\ N \in Nat \ {0}
  BY LevelIs, NPositive
<1>2. /\ Stands(R, r, u, m) /\ R \in 0..(2 * m - 1) /\ (u = 1 <=> R >= m)
      /\ Stands(C, c, v, m) /\ C \in 0..(2 * m - 1) /\ (v = 1 <=> C >= m)
  BY <1>1, BeyondStands
<1>3. i = R * N + C
  BY DEF PlaceFor
<1> HIDE DEF R, C
<1>4. R \in 0..(N - 1) /\ C \in 0..(N - 1)
  BY <1>1, <1>2
<1>5. i \in Places /\ i \div N = R /\ i % N = C
  BY <1>1, <1>3, <1>4, CellBoth DEF Places
<1>6. Difference(i, r, u, c, v, m)
  BY <1>2, <1>5 DEF Difference
<1>7. i \in Corner(2 * m) /\ i \notin Corner(m)
  BY <1>1, <1>2, <1>5 DEF Corner
<1> QED
  BY <1>4, <1>5, <1>6, <1>7 DEF R, C

LEMMA DifferencePlace ==
  ASSUME NEW q, NEW m, NEW h, IsLevel(q, m, h),
         NEW i, NEW r, NEW u, NEW c, NEW v, Difference(i, r, u, c, v, m)
  PROVE  i = PlaceFor(r, u, c, v, m) /\ u \in {0, 1} /\ v \in {0, 1} /\ (u = 1 \/ v = 1)
<1>1. m \in Nat \ {0}
  BY LevelIs
<1>2. Stands(i \div N, r, u, m) /\ Stands(i % N, c, v, m) /\ i \in Places /\ (u = 1 \/ v = 1)
  BY DEF Difference
<1>3. /\ u \in {0, 1} /\ i \div N = Beyond(r, u, m)
      /\ v \in {0, 1} /\ i % N = Beyond(c, v, m)
  BY <1>1, <1>2, StandsIn DEF Beyond
<1>4. i = (i \div N) * N + (i % N)
  BY <1>2, PlaceOf
<1> QED
  BY <1>2, <1>3, <1>4 DEF PlaceFor

(* What a coefficient contributes to a pixel. *)
LEMMA PartAt ==
  ASSUME NEW q, NEW m, NEW h, IsLevel(q, m, h), NEW x \in Pictures(N),
         NEW i, NEW r2, NEW u, NEW c2, NEW v, Difference(i, r2, u, c2, v, m),
         NEW p, NEW r, NEW e, NEW c, NEW f, InQuarter(p, r, e, c, f, h)
  PROVE  SynthesisTerms(p, x)[i] = IF r2 = r /\ c2 = c THEN (Sgn(u, e) * Sgn(v, f)) * (x[i] * m) ELSE 0
<1>1. SizeOf(i) = m /\ Wave(i, p) = IF r2 = r /\ c2 = c THEN Sgn(u, e) * Sgn(v, f) ELSE 0
  BY WaveAt
<1>2. i \in Places /\ p \in Places
  BY DEF Difference, InQuarter
<1>3. m \in Nat /\ x[i] \in Int
  BY <1>2, LevelIs DEF Pictures, Places
<1>4. SynthesisTerms(p, x)[i] = Wave(i, p) * x[i] * SizeOf(i)
  BY <1>2 DEF SynthesisTerms, Waves
<1> DEFINE S == Sgn(u, e) * Sgn(v, f)  a == x[i]
<1>5. S \in Int /\ a \in Int
  <2>1. Sgn(u, e) \in {-1, 1} /\ Sgn(v, f) \in {-1, 1}
    BY SgnUnit
  <2> QED
    BY <1>3, <2>1
<1>6. SynthesisTerms(p, x)[i] = (IF r2 = r /\ c2 = c THEN S ELSE 0) * a * m
  BY <1>1, <1>4
<1> HIDE DEF S, a
<1>7. CASE r2 = r /\ c2 = c
  <2>1. S * a * m = S * (a * m)
    BY <1>3, <1>5
  <2> QED
    BY <1>6, <1>7, <2>1 DEF S, a
<1>8. CASE ~(r2 = r /\ c2 = c)
  <2>1. 0 * a * m = 0
    BY <1>3, <1>5
  <2> QED
    BY <1>6, <1>8, <2>1
<1> QED
  BY <1>7, <1>8

LEMMA CornerLarger ==
  ASSUME NEW q, NEW m, NEW h, IsLevel(q, m, h), NEW i \in Corner(2 * m) \ Corner(m)
  PROVE  \E r, u, c, v : Difference(i, r, u, c, v, m)
<1> DEFINE R == i \div N  C == i % N
<1>1. m \in Nat \ {0} /\ N \in Nat \ {0}
  BY LevelIs, NPositive
<1>2. i \in Places /\ R < 2 * m /\ C < 2 * m /\ ~(R < m /\ C < m)
  BY DEF Corner
<1>3. R \in 0..(N - 1) /\ C \in 0..(N - 1) /\ i = R * N + C
  BY <1>2, PlaceOf
<1> HIDE DEF R, C
<1>4. R \in 0..(2 * m - 1) /\ C \in 0..(2 * m - 1) /\ (R >= m \/ C >= m)
  BY <1>1, <1>2, <1>3
<1> QED
  BY <1>3, <1>4, SomeDifference

(* The coefficients of the larger corner: to a pixel, those of the smaller one *)
(* and three more contribute.                                              *)
LEMMA CornerSum ==
  ASSUME NEW q, NEW m, NEW h, IsLevel(q, m, h), NEW x \in Pictures(N),
         NEW r \in 0..(m - 1), NEW c \in 0..(m - 1), NEW e, NEW f,
         NEW p, InQuarter(p, r, e, c, f, h), NEW g, g = SynthesisTerms(p, x), Summable(g, Corner(m))
  PROVE  /\ Summable(g, Corner(2 * m))
         /\ SumOf(g, Corner(2 * m)) =
              ((SumOf(g, Corner(m)) + g[PlaceFor(r, 0, c, 1, m)]) + g[PlaceFor(r, 1, c, 0, m)])
              + g[PlaceFor(r, 1, c, 1, m)]
<1> DEFINE i1 == PlaceFor(r, 0, c, 1, m)  i2 == PlaceFor(r, 1, c, 0, m)  i3 == PlaceFor(r, 1, c, 1, m)
           K == Corner(m)  L == Corner(2 * m)
<1>0. m \in Nat \ {0}
  BY LevelIs
<1>1. /\ Difference(i1, r, 0, c, 1, m) /\ i1 \in L /\ i1 \notin K
      /\ i1 \div N = Beyond(r, 0, m) /\ i1 % N = Beyond(c, 1, m)
  BY PlaceForIs
<1>2. /\ Difference(i2, r, 1, c, 0, m) /\ i2 \in L /\ i2 \notin K
      /\ i2 \div N = Beyond(r, 1, m) /\ i2 % N = Beyond(c, 0, m)
  BY PlaceForIs
<1>3. /\ Difference(i3, r, 1, c, 1, m) /\ i3 \in L /\ i3 \notin K
      /\ i3 \div N = Beyond(r, 1, m) /\ i3 % N = Beyond(c, 1, m)
  BY PlaceForIs
<1>4. i1 # i2 /\ i1 # i3 /\ i2 # i3
  <2>1. Beyond(r, 0, m) # Beyond(r, 1, m) /\ Beyond(c, 0, m) # Beyond(c, 1, m)
    BY <1>0 DEF Beyond
  <2> HIDE DEF i1, i2, i3
  <2> QED
    BY <1>1, <1>2, <1>3, <2>1
<1>5. \A i \in {i1, i2, i3} : g[i] \in Int
  <2>1. ASSUME NEW i, NEW u, NEW v, Difference(i, r, u, c, v, m) PROVE g[i] \in Int
    <3>1. g[i] = (Sgn(u, e) * Sgn(v, f)) * (x[i] * m)
      BY <2>1, PartAt
    <3>2. x[i] \in Int
      BY <2>1 DEF Difference, Pictures, Places
    <3>3. Sgn(u, e) \in {-1, 1} /\ Sgn(v, f) \in {-1, 1}
      BY SgnUnit
    <3> DEFINE a == Sgn(u, e)  b == Sgn(v, f)  d == x[i]
    <3>4. a \in Int /\ b \in Int /\ d \in Int
      BY <3>2, <3>3
    <3> HIDE DEF a, b, d
    <3>5. (a * b) * (d * m) \in Int
      BY <1>0, <3>4
    <3> QED
      BY <3>1, <3>5 DEF a, b, d
  <2> HIDE DEF i1, i2, i3
  <2> QED
    BY <1>1, <1>2, <1>3, <2>1
<1>6. K \subseteq L /\ IsFiniteSet(L)
  <2>1. L \subseteq Places
    BY DEF Corner
  <2>2. K \subseteq L
    <3>1. ASSUME NEW i \in Places, i \div N < m /\ i % N < m PROVE i \div N < 2 * m /\ i % N < 2 * m
      <4> DEFINE R == i \div N  C == i % N
      <4>1. R \in 0..(N - 1) /\ C \in 0..(N - 1)
        BY PlaceOf
      <4>2. R < m /\ C < m
        BY <3>1
      <4> HIDE DEF R, C
      <4>3. R < 2 * m /\ C < 2 * m
        BY <1>0, <4>1, <4>2
      <4> QED
        BY <4>3 DEF R, C
    <3> QED
      BY <3>1 DEF Corner
  <2> QED
    BY <2>1, <2>2, PlacesFinite, FS_Subset
<1> DEFINE T1 == K \cup {i1}  T2 == T1 \cup {i2}  T3 == T2 \cup {i3}
<1>7. \A i \in L \ T3 : g[i] = 0
  <2> SUFFICES ASSUME NEW i \in L, i \notin K, i # i1, i # i2, i # i3 PROVE g[i] = 0
    OBVIOUS
  <2>1. PICK r2, u, c2, v : Difference(i, r2, u, c2, v, m)
    BY CornerLarger
  <2>2. g[i] = IF r2 = r /\ c2 = c THEN (Sgn(u, e) * Sgn(v, f)) * (x[i] * m) ELSE 0
    BY <2>1, PartAt
  <2>3. i = PlaceFor(r2, u, c2, v, m) /\ u \in {0, 1} /\ v \in {0, 1} /\ (u = 1 \/ v = 1)
    BY <2>1, DifferencePlace
  <2>4. ~(r2 = r /\ c2 = c)
    BY <2>3
  <2> QED
    BY <2>2, <2>4
<1> HIDE DEF i1, i2, i3, K, L
<1>8. Summable(g, K)
  BY DEF K
<1>9. SumOf(g, T1) = SumOf(g, K) + g[i1] /\ Summable(g, T1)
  BY <1>1, <1>5, <1>8, SumIn
<1>10. i2 \notin T1 /\ g[i2] \in Int
  BY <1>2, <1>4, <1>5
<1> HIDE DEF T1
<1>11. SumOf(g, T2) = SumOf(g, T1) + g[i2] /\ Summable(g, T2)
  BY <1>9, <1>10, SumIn
<1>12. i3 \notin T2 /\ g[i3] \in Int /\ T3 \in SUBSET L
  BY <1>1, <1>2, <1>3, <1>4, <1>5, <1>6 DEF T1
<1> HIDE DEF T2
<1>13. SumOf(g, T3) = SumOf(g, T2) + g[i3] /\ Summable(g, T3)
  BY <1>11, <1>12, SumIn
<1> HIDE DEF T3
<1>14. SumOf(g, L) = SumOf(g, T3) /\ Summable(g, L)
  BY <1>6, <1>7, <1>12, <1>13, SumOver
<1> QED
  BY <1>9, <1>11, <1>13, <1>14 DEF i1, i2, i3, K, L

LEMMA IdwtSigned ==
  ASSUME NEW q, NEW m, NEW h, IsLevel(q, m, h), NEW t \in Grained(N, 2),
         NEW z, z = IdwtLevel(t, N, q + 1), NEW r \in 0..(m - 1), NEW c \in 0..(m - 1),
         NEW R, NEW e \in {0, 1}, R = 2 * r + e, NEW C, NEW f \in {0, 1}, C = 2 * c + f
  PROVE  2 * At(z, N, R, C) = Signed(e, f, At(t, N, r, c), At(t, N, r, c + m),
                                     At(t, N, r + m, c), At(t, N, r + m, c + m))
<1> DEFINE a == At(t, N, r, c)      b == At(t, N, r, c + m)
           d == At(t, N, r + m, c)  o == At(t, N, r + m, c + m)
<1>1. m \in Nat \ {0} /\ 2 * m <= N /\ N \in Nat \ {0} /\ 2 \in Nat
  BY LevelIs, NPositive
<1>2. q \in 0..(Order - 1) /\ m = Pow2[Order - q - 1]
  BY DEF IsLevel
<1>3. r \in 0..(N - 1) /\ c \in 0..(N - 1) /\ r + m \in 0..(N - 1) /\ c + m \in 0..(N - 1)
  BY <1>1
<1>4. t \in Pictures(N)
  BY <1>1, GrainedPicture
<1>5. a \in Int /\ b \in Int /\ d \in Int /\ o \in Int
  BY <1>1, <1>3, <1>4, AtInt
<1>6. /\ 2 * At(z, N, 2 * r, 2 * c) = (a + b) + (d + o)
      /\ 2 * At(z, N, 2 * r, 2 * c + 1) = (a - b) + (d - o)
      /\ 2 * At(z, N, 2 * r + 1, 2 * c) = (a + b) - (d + o)
      /\ 2 * At(z, N, 2 * r + 1, 2 * c + 1) = (a - b) - (d - o)
  BY <1>2, IdwtLevelSums
<1>7. (e = 0 => R = 2 * r) /\ (e = 1 => R = 2 * r + 1) /\ (f = 0 => C = 2 * c) /\ (f = 1 => C = 2 * c + 1)
  BY <1>1
<1> HIDE DEF a, b, d, o
<1>8. /\ Signed(0, 0, a, b, d, o) = (a + b) + (d + o)
      /\ Signed(0, 1, a, b, d, o) = (a - b) + (d - o)
      /\ Signed(1, 0, a, b, d, o) = (a + b) - (d + o)
      /\ Signed(1, 1, a, b, d, o) = (a - b) - (d - o)
  <2>1. Sgn(0, 1) = 1 /\ Sgn(1, 1) = -1
    BY DEF Sgn
  <2> QED
    BY <1>5, <2>1 DEF Signed
<1>9. 2 * At(z, N, R, C) = Signed(e, f, a, b, d, o)
  <2>1. CASE e = 0 /\ f = 0
    BY <1>7, <1>6, <1>8, <2>1
  <2>2. CASE e = 0 /\ f = 1
    BY <1>7, <1>6, <1>8, <2>2
  <2>3. CASE e = 1 /\ f = 0
    BY <1>7, <1>6, <1>8, <2>3
  <2>4. CASE e = 1 /\ f = 1
    BY <1>7, <1>6, <1>8, <2>4
  <2> QED
    BY <2>1, <2>2, <2>3, <2>4
<1> QED
  BY <1>9 DEF a, b, d, o

(* The three coefficients are the ones that the level takes. *)
LEMMA PlaceForAt ==
  ASSUME NEW q, NEW m, NEW h, IsLevel(q, m, h), NEW t, NEW x, Untouched(t, x, m),
         NEW r \in 0..(m - 1), NEW c \in 0..(m - 1)
  PROVE  /\ x[PlaceFor(r, 0, c, 1, m)] = At(t, N, r, c + m)
         /\ x[PlaceFor(r, 1, c, 0, m)] = At(t, N, r + m, c)
         /\ x[PlaceFor(r, 1, c, 1, m)] = At(t, N, r + m, c + m)
<1>1. m \in Nat \ {0} /\ 2 * m <= N
  BY LevelIs
<1>2. ASSUME NEW R \in 0..(N - 1), NEW C \in 0..(N - 1), ~(R < m /\ C < m)
      PROVE  x[R * N + C] = At(t, N, R, C)
  BY <1>2 DEF Untouched, At
<1>3. ASSUME NEW j \in 0..(m - 1)
      PROVE  j \in 0..(N - 1) /\ j + m \in 0..(N - 1) /\ (~(j + m < m))
  <2>1. j \in Nat /\ N \in Nat \ {0}
    BY <1>1, NPositive
  <2> QED
    BY <1>1, <2>1
<1>4. Beyond(r, 0, m) = r /\ Beyond(r, 1, m) = r + m /\ Beyond(c, 0, m) = c /\ Beyond(c, 1, m) = c + m
  BY DEF Beyond
<1> DEFINE R == r + m  C == c + m
<1>5. R \in 0..(N - 1) /\ C \in 0..(N - 1) /\ ~(R < m) /\ ~(C < m) /\ r \in 0..(N - 1) /\ c \in 0..(N - 1)
  BY <1>3
<1>6. /\ PlaceFor(r, 0, c, 1, m) = r * N + C /\ PlaceFor(r, 1, c, 0, m) = R * N + c
      /\ PlaceFor(r, 1, c, 1, m) = R * N + C
  BY <1>4 DEF PlaceFor
<1> HIDE DEF R, C
<1>7. x[r * N + C] = At(t, N, r, C) /\ x[R * N + c] = At(t, N, R, c) /\ x[R * N + C] = At(t, N, R, C)
  BY <1>2, <1>5
<1> QED
  BY <1>6, <1>7 DEF R, C

(* The arithmetic of a level: w is half of the signed sum of a, b, d and o. *)
Gathered(e, f, A, B, D, O) ==
  ((A + (Sgn(0, e) * Sgn(1, f)) * B) + (Sgn(1, e) * Sgn(0, f)) * D) + (Sgn(1, e) * Sgn(1, f)) * O

GatheredTimes(m, e, f, a, b, d, o) == Gathered(e, f, a * m, b * m, d * m, o * m)

TimesSide(w, m) == w * (2 * m)

Halves(w, e, f, a, b, d, o) == 2 * w = Signed(e, f, a, b, d, o)

LEMMA SynthesisArithmetic ==
  ASSUME NEW m \in Nat, NEW a \in Int, NEW b \in Int, NEW d \in Int, NEW o \in Int, NEW w \in Int,
         NEW e, NEW f, Halves(w, e, f, a, b, d, o)
  PROVE  TimesSide(w, m) = GatheredTimes(m, e, f, a, b, d, o)
<1> DEFINE F == Sgn(e, 1)  G == Sgn(f, 1)  A == a * m  B == b * m  D == d * m  O == o * m
<1>1. F \in {-1, 1} /\ G \in {-1, 1} /\ 2 * w = (a + G * b) + (F * d + (F * G) * o)
  BY SgnUnit DEF Signed, Halves
<1>2. Sgn(0, e) = 1 /\ Sgn(0, f) = 1 /\ Sgn(1, e) = F /\ Sgn(1, f) = G
  BY DEF Sgn
<1>3. A \in Int /\ B \in Int /\ D \in Int /\ O \in Int
  OBVIOUS
<1>4. w * (2 * m) = (2 * w) * m
  OBVIOUS
<1> HIDE DEF F, G
<1>5. ((a + G * b) + (F * d + (F * G) * o)) * m = (A + G * B) + (F * D + (F * G) * O)
  <2>1. CASE F = 1 /\ G = 1
    BY <2>1
  <2>2. CASE F = 1 /\ G = -1
    BY <2>2
  <2>3. CASE F = -1 /\ G = 1
    BY <2>3
  <2>4. CASE F = -1 /\ G = -1
    BY <2>4
  <2> QED
    BY <1>1, <2>1, <2>2, <2>3, <2>4
<1> HIDE DEF A, B, D, O
<1>6. (A + G * B) + (F * D + (F * G) * O) = ((A + (1 * G) * B) + (F * 1) * D) + (F * G) * O
  <2>1. CASE F = 1 /\ G = 1
    BY <1>3, <2>1
  <2>2. CASE F = 1 /\ G = -1
    BY <1>3, <2>2
  <2>3. CASE F = -1 /\ G = 1
    BY <1>3, <2>3
  <2>4. CASE F = -1 /\ G = -1
    BY <1>3, <2>4
  <2> QED
    BY <1>1, <2>1, <2>2, <2>3, <2>4
<1> DEFINE L == ((A + (1 * G) * B) + (F * 1) * D) + (F * G) * O
<1>7. Gathered(e, f, A, B, D, O) = L
  BY <1>2 DEF Gathered
<1>8. w * (2 * m) = L
  BY <1>1, <1>4, <1>5, <1>6
<1> HIDE DEF L
<1> QED
  BY <1>7, <1>8 DEF TimesSide, GatheredTimes, A, B, D, O

LEMMA ShownStep ==
  ASSUME NEW q, NEW m, NEW h, IsLevel(q, m, h), NEW x \in Pictures(N), NEW t \in Grained(N, 2),
         Shown(t, x, m, 2 * h), Untouched(t, x, m), NEW z, z = IdwtLevel(t, N, q + 1)
  PROVE  Shown(z, x, 2 * m, h)
<1> SUFFICES ASSUME NEW R \in 0..(2 * m - 1), NEW C \in 0..(2 * m - 1), NEW p \in Block(R, C, h)
             PROVE  /\ At(z, N, R, C) * (2 * m) = SumOf(SynthesisTerms(p, x), Corner(2 * m))
                    /\ Summable(SynthesisTerms(p, x), Corner(2 * m))
  BY DEF Shown
<1>1. m \in Nat \ {0} /\ h \in Nat \ {0} /\ N \in Nat \ {0} /\ 2 * m <= N
  BY LevelIs, NPositive
<1>2. q \in 0..(Order - 1)
  BY DEF IsLevel
<1>3. t \in Pictures(N) /\ z \in Pictures(N)
  <2>1. 1 \in Nat /\ 2 * 1 = 2 /\ 2 \in Nat
    OBVIOUS
  <2>2. z \in Grained(N, 1)
    BY <1>2, <2>1, IdwtLevelGrained
  <2> QED
    BY <1>1, <2>1, <2>2, GrainedPicture
<1>4. PICK r \in 0..(m - 1), e \in {0, 1} : R = 2 * r + e
  <2>1. PICK j \in 0..(m - 1) : R = 2 * j \/ R = 2 * j + 1
    BY <1>1, HalfWay
  <2>2. R = 2 * j + 0 \/ R = 2 * j + 1
    BY <2>1
  <2> QED
    BY <2>2
<1>5. PICK c \in 0..(m - 1), f \in {0, 1} : C = 2 * c + f
  <2>1. PICK j \in 0..(m - 1) : C = 2 * j \/ C = 2 * j + 1
    BY <1>1, HalfWay
  <2>2. C = 2 * j + 0 \/ C = 2 * j + 1
    BY <2>1
  <2> QED
    BY <2>2
<1>6. InQuarter(p, r, e, c, f, h)
  <2>1. p \in Quarter(r, e, c, f, h)
    BY <1>4, <1>5 DEF Quarter
  <2>2. r \in Nat /\ c \in Nat
    BY <1>1
  <2> QED
    BY <2>1, <2>2, InBlock
<1>7. p \in Block(r, c, 2 * h)
  BY <1>1, <1>6, QuarterBlock
<1> DEFINE g == SynthesisTerms(p, x)
           a == At(t, N, r, c)      b == At(t, N, r, c + m)
           d == At(t, N, r + m, c)  o == At(t, N, r + m, c + m)
           w == At(z, N, R, C)
           i1 == PlaceFor(r, 0, c, 1, m)  i2 == PlaceFor(r, 1, c, 0, m)  i3 == PlaceFor(r, 1, c, 1, m)
<1>8. a * m = SumOf(g, Corner(m)) /\ Summable(g, Corner(m))
  BY <1>7 DEF Shown
<1>9. /\ Summable(g, Corner(2 * m))
      /\ SumOf(g, Corner(2 * m)) = ((SumOf(g, Corner(m)) + g[i1]) + g[i2]) + g[i3]
  BY <1>6, <1>8, CornerSum
<1>10. Difference(i1, r, 0, c, 1, m) /\ Difference(i2, r, 1, c, 0, m) /\ Difference(i3, r, 1, c, 1, m)
  BY PlaceForIs
<1>11. /\ g[i1] = (Sgn(0, e) * Sgn(1, f)) * (x[i1] * m)
       /\ g[i2] = (Sgn(1, e) * Sgn(0, f)) * (x[i2] * m)
       /\ g[i3] = (Sgn(1, e) * Sgn(1, f)) * (x[i3] * m)
  BY <1>6, <1>10, PartAt
<1>12. x[i1] = b /\ x[i2] = d /\ x[i3] = o
  BY PlaceForAt
<1>13. 2 * w = Signed(e, f, a, b, d, o)
  BY <1>4, <1>5, IdwtSigned
<1>14. a \in Int /\ b \in Int /\ d \in Int /\ o \in Int /\ w \in Int
  <2>1. r \in 0..(N - 1) /\ c \in 0..(N - 1) /\ r + m \in 0..(N - 1) /\ c + m \in 0..(N - 1)
    BY <1>1
  <2>2. R \in 0..(N - 1) /\ C \in 0..(N - 1)
    BY <1>1
  <2>3. w \in Int
    BY <1>1, <1>3, <2>2, AtInt
  <2> QED
    BY <1>1, <1>3, <2>1, <2>3, AtInt
<1> HIDE DEF a, b, d, o, w, g, i1, i2, i3
<1>15. TimesSide(w, m) = GatheredTimes(m, e, f, a, b, d, o)
  <2>1. m \in Nat
    BY <1>1
  <2>2. e \in {0, 1} /\ f \in {0, 1}
    BY <1>4, <1>5
  <2>3. a \in Int /\ b \in Int /\ d \in Int /\ o \in Int /\ w \in Int
    BY <1>14
  <2>4. Halves(w, e, f, a, b, d, o)
    BY <1>13 DEF Halves
  <2> QED
    BY <2>1, <2>2, <2>3, <2>4, SynthesisArithmetic
<1>16. SumOf(g, Corner(2 * m)) = GatheredTimes(m, e, f, a, b, d, o)
  BY <1>8, <1>9, <1>11, <1>12 DEF Gathered, GatheredTimes
<1>17. w * (2 * m) = SumOf(g, Corner(2 * m))
  BY <1>15, <1>16 DEF TimesSide
<1> QED
  BY <1>9, <1>17 DEF g, w

LEMMA UntouchedStep ==
  ASSUME NEW q, NEW m, NEW h, IsLevel(q, m, h), NEW x \in Pictures(N), NEW t \in Grained(N, 2),
         Untouched(t, x, m), NEW z, z = IdwtLevel(t, N, q + 1)
  PROVE  Untouched(z, x, 2 * m)
<1> SUFFICES ASSUME NEW R \in 0..(N - 1), NEW C \in 0..(N - 1), ~(R < 2 * m /\ C < 2 * m)
             PROVE  At(z, N, R, C) = At(x, N, R, C)
  BY DEF Untouched
<1>1. q \in 0..(Order - 1) /\ m = Pow2[Order - q - 1] /\ m \in Nat
  BY LevelIs DEF IsLevel
<1>2. At(z, N, R, C) = At(t, N, R, C)
  BY <1>1, IdwtLevelSums
<1>3. ~(R < m /\ C < m)
  BY <1>1
<1> QED
  BY <1>2, <1>3 DEF Untouched

(* The claim about idwt2_full after one more level, before its first, and at the end. *)
LEMMA PartialStep ==
  ASSUME NEW q \in 0..(Order - 1), NEW x \in Pictures(N), NEW t \in Grained(N, 2), Partial(t, x, q + 1)
  PROVE  Partial(IdwtLevel(t, N, q + 1), x, q)
<1> DEFINE m == Pow2[Order - q - 1]  h == Pow2[q]  z == IdwtLevel(t, N, q + 1)
<1>1. IsLevel(q, m, h) /\ z = IdwtLevel(t, N, q + 1)
  BY DEF IsLevel
<1> HIDE DEF m, h, z
<1>2. /\ Pow2[Order - q] = 2 * m /\ Pow2[q + 1] = 2 * h /\ Order - (q + 1) = Order - q - 1
      /\ Pow2[Order - q - 1] = m /\ Pow2[q] = h
  BY <1>1, LevelIs DEF IsLevel
<1>3. Shown(t, x, m, 2 * h) /\ Untouched(t, x, m)
  BY <1>2 DEF Partial
<1>4. Shown(z, x, 2 * m, h)
  BY <1>1, <1>3, ShownStep
<1>5. Untouched(z, x, 2 * m)
  BY <1>1, <1>3, UntouchedStep
<1> QED
  BY <1>2, <1>4, <1>5 DEF Partial, z

LEMMA PartialStart ==
  ASSUME NEW x \in Pictures(N) PROVE Partial(x, x, Order)
<1>1. Order \in Nat /\ Order - Order = 0 /\ Pow2[0] = 1 /\ N \in Nat \ {0} /\ N = Pow2[Order]
  BY FistaAssumption, Pow2Facts, NPositive DEF N
<1>2. Corner(1) = {0}
  <2>1. 0 \in Corner(1)
    <3>1. N * N \in Nat \ {0} /\ 0 \div N = 0 /\ 0 % N = 0
      BY <1>1
    <3> QED
      BY <3>1 DEF Corner, Places
  <2>2. ASSUME NEW i \in Corner(1) PROVE i = 0
    <3> DEFINE R == i \div N  C == i % N
    <3>1. i \in Places /\ R < 1 /\ C < 1
      BY DEF Corner
    <3>2. R \in 0..(N - 1) /\ C \in 0..(N - 1) /\ i = R * N + C
      BY <3>1, PlaceOf
    <3> HIDE DEF R, C
    <3>3. R = 0 /\ C = 0
      BY <3>1, <3>2
    <3> QED
      BY <1>1, <3>2, <3>3
  <2> QED
    BY <2>1, <2>2
<1>3. ASSUME NEW p \in Places
      PROVE  /\ At(x, N, 0, 0) * 1 = SumOf(SynthesisTerms(p, x), Corner(1))
             /\ Summable(SynthesisTerms(p, x), Corner(1))
  <2> DEFINE g == SynthesisTerms(p, x)
  <2>1. 0 \in Places
    BY <1>2 DEF Corner
  <2>2. g[0] = x[0] /\ x[0] \in Int
    <3>1. g[0] = Wave(0, p) * x[0] * SizeOf(0)
      BY <2>1 DEF SynthesisTerms, Waves
    <3>2. x[0] \in Int
      BY <2>1 DEF Pictures, Places
    <3> QED
      BY <3>1, <3>2, WaveFirst, SizeFirst
  <2>3. Summable(g, {0})
    <3>1. IsFiniteSet({0})
      BY FS_Singleton
    <3> QED
      BY <2>2, <3>1 DEF Summable
  <2> HIDE DEF g
  <2>4. SumOf(g, {0}) = g[0] + SumOf(g, {0} \ {0})
    BY <2>3, SumOut
  <2>5. {0} \ {0} = {} /\ SumOf(g, {}) = 0
    BY SumEmpty
  <2>6. SumOf(g, {0}) = x[0] + 0
    BY <2>2, <2>4, <2>5
  <2>7. At(x, N, 0, 0) = x[0]
    <3>1. 0 * N + 0 = 0
      BY <1>1
    <3> QED
      BY <3>1 DEF At
  <2>8. At(x, N, 0, 0) * 1 = SumOf(g, {0})
    <3> DEFINE v == x[0]
    <3>1. v \in Int
      BY <2>2
    <3> HIDE DEF v
    <3>2. v * 1 = v /\ v + 0 = v
      BY <3>1
    <3>3. SumOf(g, {0}) = v + 0 /\ At(x, N, 0, 0) = v
      BY <2>6, <2>7 DEF v
    <3> QED
      BY <3>2, <3>3
  <2> QED
    BY <1>2, <2>3, <2>8 DEF g
<1>4. Shown(x, x, 1, N)
  <2>1. \A r \in 0..(1 - 1) : r = 0
    OBVIOUS
  <2>2. \A p \in Block(0, 0, N) : p \in Places
    BY DEF Block
  <2> QED
    BY <1>3, <2>1, <2>2 DEF Shown
<1>5. Untouched(x, x, 1)
  BY DEF Untouched
<1> QED
  BY <1>1, <1>4, <1>5 DEF Partial

LEMMA PartialEnd ==
  ASSUME NEW x \in Pictures(N), NEW t \in Pictures(N), Partial(t, x, 0)
  PROVE  Synthesis(t, x) /\ t = PictureOf(x)
<1>1. Order \in Nat /\ Order - 0 = Order /\ Pow2[0] = 1 /\ N \in Nat \ {0} /\ N = Pow2[Order]
  BY FistaAssumption, Pow2Facts, NPositive DEF N
<1>2. Shown(t, x, N, 1)
  BY <1>1 DEF Partial
<1>3. Corner(N) = Places
  <2>1. ASSUME NEW i \in Places PROVE i \div N < N /\ i % N < N
    <3> DEFINE R == i \div N  C == i % N
    <3>1. R \in 0..(N - 1) /\ C \in 0..(N - 1)
      BY PlaceOf
    <3> HIDE DEF R, C
    <3>2. R < N /\ C < N
      BY <1>1, <3>1
    <3> QED
      BY <3>2 DEF R, C
  <2> QED
    BY <2>1 DEF Corner
<1>4. ASSUME NEW p \in Places PROVE t[p] * N = SumOf(SynthesisTerms(p, x), Places)
  <2> DEFINE R == p \div N  C == p % N
  <2>1. R \in 0..(N - 1) /\ C \in 0..(N - 1) /\ p = R * N + C
    BY PlaceOf
  <2>2. p \in Block(R, C, 1)
    <3>1. Within(R, 1, R) /\ Within(C, 1, C)
      <4> HIDE DEF R, C
      <4>1. R \div 1 = R /\ C \div 1 = C
        BY <1>1, <2>1
      <4> QED
        BY <4>1 DEF Within
    <3> QED
      BY <3>1 DEF Block
  <2> HIDE DEF R, C
  <2>3. At(t, N, R, C) * N = SumOf(SynthesisTerms(p, x), Corner(N))
    BY <1>2, <2>1, <2>2 DEF Shown
  <2> QED
    BY <1>3, <2>1, <2>3 DEF At
<1>5. ASSUME NEW p \in Places PROVE t[p] = PictureOf(x)[p]
  <2>1. PictureOf(x)[p] = SumOf(SynthesisTerms(p, x), Places) \div N
    BY DEF PictureOf, SynthesisTerms, SumOf, SumFunction
  <2> DEFINE a == t[p]
  <2>2. a \in Int
    BY DEF Pictures, Places
  <2> HIDE DEF a
  <2>3. (a * N) \div N = a
    BY <1>1, <2>2
  <2> QED
    BY <1>4, <2>1, <2>3 DEF a
<1>6. t = [p \in Places |-> t[p]]
  BY DEF Pictures, Places
<1>7. PictureOf(x) = [p \in Places |-> PictureOf(x)[p]]
  BY DEF PictureOf
<1> QED
  BY <1>5, <1>6, <1>7, <1>4 DEF Synthesis
-----------------------------------------------------------------------------
(***************************************************************************)
(* The inductive invariant: every picture is one of N x N, and where the   *)
(* loop stands its numbers are multiples of as many halves as levels are   *)
(* still to come; the levels of dwt2_full lead from the picture back to    *)
(* the coefficients it was made of, and each array holds what Coarse or    *)
(* Partial say of the levels done.                                         *)
(***************************************************************************)
Typed ==
  /\ idx \in Samplings /\ y \in [DOMAIN idx -> Multiples(Scale)]
  /\ pc \in {"extrapolate", "synthesise", "analyse", "picture"}
  /\ k \in 0..Its /\ level \in 0..Order
  /\ xold \in Pictures(N) /\ xold1 \in Pictures(N)
  /\ t1 \in Pictures(N) /\ temp3 \in Pictures(N)

AtTop == pc = "extrapolate" => xold = xold1 /\ xold \in Exact(Room(k))

Synthesising == pc = "synthesise" =>
  /\ k < Its /\ xold \in Exact(Room(k))
  /\ t1 \in Exact(Room(k) - (Order - level))
  /\ Leads(t1, level, xold, Order)
  /\ Partial(t1, xold, level) /\ xold = xold1

Analysing == pc = "analyse" =>
  /\ k < Its /\ xold \in Exact(Room(k))
  /\ temp3 \in Exact(Room(k) - Order - level)
  /\ Leads(Misfit(t1), 0, temp3, level)
  /\ Coarse(temp3, Misfit(t1), level) /\ t1 = PictureOf(xold) /\ xold = xold1

Picturing == pc = "picture" =>
  xold \in Exact(level) /\ Leads(xold, level, xold1, Order) /\ Partial(xold, xold1, level)

FistaInv == Typed /\ AtTop /\ Synthesising /\ Analysing /\ Picturing

LEMMA ZerosExact == ASSUME NEW n \in Nat PROVE Zeros \in Exact(n)
<1>1. 0 \in Multiples(Pow2[n])
  BY MultiplesZero, Pow2Facts
<1> QED
  BY <1>1 DEF Zeros, Exact, Grained, Places

LEMMA FistaInit == Init => FistaInv
<1> SUFFICES ASSUME Init PROVE FistaInv
  OBVIOUS
<1>1. Order \in Nat /\ Its \in Nat /\ 0 \in 0..Its
  BY FistaAssumption
<1>2. Zeros \in Exact(Room(0)) /\ Zeros \in Pictures(N)
  BY <1>1, RoomRange, ZerosExact, ExactPicture
<1>3. \A r \in Readings : r * Scale \in Multiples(Scale)
  <2>1. Scale \in Nat
    BY <1>1, RoomRange, RoomEnds, Pow2Facts
  <2> DEFINE c == Scale
  <2>2. c \in Nat
    BY <2>1
  <2> HIDE DEF c
  <2>3. ASSUME NEW r \in Int PROVE r * c \in Multiples(c)
    <3>1. r * c = c * r
      BY <2>2
    <3> QED
      BY <3>1 DEF Multiples
  <2> QED
    BY <2>3, FistaAssumption DEF c
<1>4. y \in [DOMAIN idx -> Multiples(Scale)]
  <2> DEFINE V == {r * Scale : r \in Readings}
             W == Multiples(Scale)
  <2>1. V \subseteq W
    BY <1>3
  <2>2. y \in [DOMAIN idx -> V]
    BY DEF Init
  <2> HIDE DEF V, W
  <2>3. y \in [DOMAIN idx -> W]
    BY <2>1, <2>2
  <2> QED
    BY <2>3 DEF W
<1>5. Typed
  BY <1>1, <1>2, <1>4 DEF Typed, Init
<1>6. AtTop
  BY <1>2 DEF AtTop, Init
<1> QED
  BY <1>5, <1>6 DEF FistaInv, Init, Synthesising, Analysing, Picturing

(* With no difference to the last iteration there is nothing to add. *)
LEMMA NothingAdded ==
  ASSUME FistaInv, Extrapolate PROVE xold' = xold
<1>1. xold \in Pictures(N) /\ xold = xold1 /\ k \in Nat
  BY FistaAssumption DEF FistaInv, Typed, AtTop, Extrapolate
<1>2. xold' = [i \in Places |-> xold[i] + (k * (xold[i] - xold[i])) \div (k + 3)]
  BY <1>1 DEF Extrapolate
<1>3. ASSUME NEW a \in Int, NEW b \in Nat PROVE a + (b * (a - a)) \div (b + 3) = a
  <2>1. b * (a - a) = 0
    OBVIOUS
  <2>2. 0 \div (b + 3) = 0
    OBVIOUS
  <2> QED
    BY <2>1, <2>2
<1>4. \A i \in Places : xold[i] \in Int
  BY <1>1 DEF Pictures, Places
<1>5. \A i \in Places : xold[i] + (k * (xold[i] - xold[i])) \div (k + 3) = xold[i]
  BY <1>1, <1>3, <1>4
<1>6. xold = [i \in Places |-> xold[i]]
  BY <1>1 DEF Pictures, Places
<1> QED
  BY <1>2, <1>5, <1>6

LEMMA ExtrapolateStep == ASSUME FistaInv, Extrapolate PROVE FistaInv'
<1>1. /\ Typed /\ AtTop /\ pc = "extrapolate" /\ k < Its /\ t1' = xold /\ xold' = xold
      /\ level' = Order /\ pc' = "synthesise"
      /\ UNCHANGED <<idx, y, k, xold1, temp3>>
  BY NothingAdded DEF FistaInv, Extrapolate
<1>2. Order \in Nat /\ k \in 0..Its /\ xold \in Exact(Room(k)) /\ xold \in Pictures(N)
  BY <1>1, FistaAssumption DEF Typed, AtTop
<1>3. Leads(xold, Order, xold, Order) /\ Partial(xold, xold, Order)
  BY <1>2, LeadsStart, PartialStart
<1>4. Room(k) - (Order - Order) = Room(k)
  BY <1>2, RoomRange
<1>5. Typed'
  BY <1>1, <1>2 DEF Typed
<1>6. Synthesising'
  BY <1>1, <1>2, <1>3, <1>4 DEF AtTop, Synthesising
<1> QED
  BY <1>1, <1>5, <1>6 DEF FistaInv, AtTop, Analysing, Picturing

LEMMA SynthesiseLevel ==
  ASSUME FistaInv, Synthesise
  PROVE  /\ t1' \in Exact(Room(k) - (Order - (level - 1)))
         /\ t1' \in Pictures(N) /\ DwtLevel(t1', N, level - 1) = t1
         /\ Partial(t1', xold, level - 1)
<1>1. /\ Typed /\ k < Its /\ t1 \in Exact(Room(k) - (Order - level))
      /\ level > 0 /\ t1' = IdwtLevel(t1, N, level) /\ Partial(t1, xold, level) /\ xold \in Pictures(N)
  BY DEF FistaInv, Typed, Synthesising, Synthesise
<1>2. Order \in Nat /\ k \in 0..Its /\ level \in 0..Order /\ Its \in Nat
  BY <1>1, FistaAssumption DEF Typed
<1> DEFINE n == Room(k) - (Order - (level - 1))
           q == level - 1
<1>3. n \in Nat /\ n + 1 = Room(k) - (Order - level)
  <2>1. Room(k) = Room(k + 1) + 2 * Order /\ Room(k + 1) \in Nat
    BY <1>1, <1>2, RoomStep, RoomRange
  <2> QED
    BY <1>1, <1>2, <2>1
<1>4. q \in 0..(Order - 1) /\ level = q + 1
  BY <1>1, <1>2
<1> HIDE DEF n, q
<1>5. t1 \in Exact(n + 1) /\ t1' = IdwtLevel(t1, N, q + 1) /\ Partial(t1, xold, q + 1)
  BY <1>1, <1>3, <1>4
<1>6. t1' \in Exact(n) /\ DwtLevel(t1', N, q) = t1
  BY <1>3, <1>4, <1>5, IdwtExact
<1>7. t1' \in Pictures(N)
  BY <1>3, <1>6, ExactPicture
<1>8. t1 \in Grained(N, 2)
  BY <1>3, <1>5, ExactTwice
<1>9. Partial(t1', xold, q)
  BY <1>1, <1>4, <1>5, <1>8, PartialStep
<1> QED
  BY <1>6, <1>7, <1>9 DEF n, q

LEMMA SynthesiseStep == ASSUME FistaInv, Synthesise PROVE FistaInv'
<1>1. /\ Typed /\ Synthesising /\ pc = "synthesise" /\ level > 0 /\ level' = level - 1
      /\ UNCHANGED <<idx, y, pc, k, xold, xold1, temp3>>
  BY DEF FistaInv, Synthesise
<1>2. Order \in Nat /\ level \in 0..Order
  BY <1>1, FistaAssumption DEF Typed
<1>3. /\ t1' \in Exact(Room(k) - (Order - (level - 1)))
      /\ t1' \in Pictures(N) /\ DwtLevel(t1', N, level - 1) = t1
      /\ Partial(t1', xold, level - 1)
  BY SynthesiseLevel
<1>4. Leads(t1', level - 1, xold, Order)
  <2>1. Leads(t1, (level - 1) + 1, xold, Order)
    <3>1. (level - 1) + 1 = level
      BY <1>2
    <3> QED
      BY <1>1, <3>1 DEF Synthesising
  <2>2. level - 1 \in Int /\ Order \in Int /\ level - 1 < Order
    BY <1>1, <1>2
  <2> QED
    BY <1>3, <2>1, <2>2, LeadsBefore
<1>5. Typed'
  BY <1>1, <1>2, <1>3 DEF Typed
<1>6. Synthesising'
  BY <1>1, <1>3, <1>4 DEF Synthesising
<1> QED
  BY <1>1, <1>5, <1>6 DEF FistaInv, AtTop, Analysing, Picturing

LEMMA SampledPlaces ==
  ASSUME idx \in Samplings PROVE Sampled \subseteq Places
<1>1. idx \in Seq(Places)
  BY FistaAssumption
<1> QED
  BY <1>1 DEF Sampled

LEMMA ReadingInt == ASSUME Typed, NEW p \in Sampled PROVE y[LastFor(p)] \in Int
<1>1. Scale \in Nat /\ idx \in Samplings
  <2>1. 0 \in 0..Its
    BY FistaAssumption
  <2>2. Room(0) \in Nat
    BY <2>1, RoomRange
  <2> QED
    BY <2>2, RoomEnds, Pow2Facts DEF Typed
<1>2. \A i \in DOMAIN idx : y[i] \in Int
  <2> DEFINE V == Multiples(Scale)
  <2>1. V \subseteq Int
    BY <1>1, MultiplesInt
  <2>2. y \in [DOMAIN idx -> V]
    BY DEF Typed
  <2> HIDE DEF V
  <2> QED
    BY <2>1, <2>2
<1> QED
  BY <1>1, <1>2, LastForIn

LEMMA MisfitInt == ASSUME Typed, NEW a \in Pictures(N) PROVE Misfit(a) \in Pictures(N)
<1>1. a \in [Places -> Int]
  BY DEF Pictures, Places
<1>2. \A p \in Places : (IF p \in Sampled THEN y[LastFor(p)] - a[p] ELSE 0) \in Int
  BY <1>1, ReadingInt
<1>3. Misfit(a) \in [Places -> Int]
  BY <1>2 DEF Misfit
<1> QED
  BY <1>3 DEF Pictures, Places

LEMMA CompareStep == ASSUME FistaInv, Compare PROVE FistaInv'
<1>1. /\ Typed /\ pc = "synthesise" /\ level = 0 /\ temp3' = Misfit(t1) /\ pc' = "analyse"
      /\ k < Its /\ xold \in Exact(Room(k)) /\ t1 \in Exact(Room(k) - (Order - level))
      /\ UNCHANGED <<idx, y, k, level, xold, xold1, t1>>
  BY DEF FistaInv, Synthesising, Compare
<1>2. Order \in Nat /\ k \in 0..Its /\ Its \in Nat
  BY <1>1, FistaAssumption DEF Typed
<1> DEFINE n == Room(k) - Order
<1>3. n \in Nat /\ n <= Room(0) /\ Room(0) \in Nat /\ n = Room(k) - (Order - 0) /\ n = Room(k) - Order - 0
  <2>1. Room(k) \in Nat /\ Order <= Room(k) /\ Room(k) <= Room(0) /\ 0 \in 0..Its
    BY <1>2, RoomRange
  <2>2. Room(0) \in Nat
    BY <2>1, RoomRange
  <2> QED
    BY <1>2, <2>1, <2>2
<1>4. t1 \in Exact(n)
  BY <1>1, <1>3
<1> HIDE DEF n
<1>5. y \in [DOMAIN idx -> Multiples(Pow2[n])]
  <2> DEFINE V == Multiples(Pow2[n])  W == Multiples(Scale)
  <2>1. W \subseteq V
    BY <1>3, MultiplesPow, RoomEnds
  <2>2. y \in [DOMAIN idx -> W]
    BY <1>1 DEF Typed
  <2> HIDE DEF V, W
  <2>3. y \in [DOMAIN idx -> V]
    BY <2>1, <2>2
  <2> QED
    BY <2>3 DEF V
<1>6. Misfit(t1) \in Exact(n)
  <2>1. idx \in Samplings
    BY <1>1 DEF Typed
  <2> QED
    BY <1>3, <1>4, <1>5, <2>1, MisfitExact
<1>7. Misfit(t1) \in Pictures(N)
  BY <1>3, <1>6, ExactPicture
<1>8. Leads(Misfit(t1), 0, Misfit(t1), 0) /\ Coarse(Misfit(t1), Misfit(t1), 0)
  BY <1>7, LeadsStart, CoarseStart
<1>9. Misfit(t1)' = Misfit(t1) /\ PictureOf(xold)' = PictureOf(xold)
  BY <1>1 DEF Misfit, Sampled, LastFor, PictureOf
<1>10. Typed'
  BY <1>1, <1>7 DEF Typed
<1>11. t1 = PictureOf(xold) /\ xold = xold1
  <2>1. Partial(t1, xold, 0) /\ xold = xold1
    BY <1>1 DEF FistaInv, Synthesising
  <2> QED
    BY <1>1, <2>1, PartialEnd DEF Typed
<1>12. Analysing'
  BY <1>1, <1>3, <1>6, <1>8, <1>9, <1>11 DEF Analysing
<1> QED
  BY <1>1, <1>10, <1>12 DEF FistaInv, AtTop, Synthesising, Picturing

LEMMA AnalyseLevel ==
  ASSUME FistaInv, Analyse
  PROVE  /\ temp3' \in Exact(Room(k) - Order - (level + 1))
         /\ temp3' \in Pictures(N) /\ IdwtLevel(temp3', N, level + 1) = temp3
         /\ Coarse(temp3', Misfit(t1), level + 1)
<1>1. /\ Typed /\ k < Its /\ temp3 \in Exact(Room(k) - Order - level)
      /\ level < Order /\ temp3' = DwtLevel(temp3, N, level)
      /\ Coarse(temp3, Misfit(t1), level) /\ t1 \in Pictures(N)
  BY DEF FistaInv, Typed, Analysing, Analyse
<1>2. Order \in Nat /\ k \in 0..Its /\ level \in 0..Order /\ Its \in Nat
  BY <1>1, FistaAssumption DEF Typed
<1> DEFINE n == Room(k) - Order - (level + 1)
<1>3. n \in Nat /\ n + 1 = Room(k) - Order - level
  <2>1. Room(k) = Room(k + 1) + 2 * Order /\ Room(k + 1) \in Nat
    BY <1>1, <1>2, RoomStep, RoomRange
  <2> QED
    BY <1>1, <1>2, <2>1
<1>4. level \in 0..(Order - 1)
  BY <1>1, <1>2
<1> HIDE DEF n
<1>5. temp3 \in Exact(n + 1)
  BY <1>1, <1>3
<1>6. temp3' \in Exact(n) /\ IdwtLevel(temp3', N, level + 1) = temp3
  BY <1>1, <1>3, <1>4, <1>5, DwtExact
<1>7. temp3' \in Pictures(N)
  BY <1>3, <1>6, ExactPicture
<1>8. temp3 \in Grained(N, 2)
  BY <1>3, <1>5, ExactTwice
<1>9. Misfit(t1) \in Pictures(N)
  BY <1>1, MisfitInt
<1>10. Coarse(temp3', Misfit(t1), level + 1)
  BY <1>1, <1>4, <1>8, <1>9, CoarseStep
<1> QED
  BY <1>6, <1>7, <1>10 DEF n

LEMMA AnalyseStep == ASSUME FistaInv, Analyse PROVE FistaInv'
<1>1. /\ Typed /\ Analysing /\ pc = "analyse" /\ level < Order /\ level' = level + 1
      /\ temp3' = DwtLevel(temp3, N, level)
      /\ UNCHANGED <<idx, y, pc, k, xold, xold1, t1>>
  BY DEF FistaInv, Analyse
<1>2. Order \in Nat /\ level \in 0..Order
  BY <1>1, FistaAssumption DEF Typed
<1>3. /\ temp3' \in Exact(Room(k) - Order - (level + 1)) /\ temp3' \in Pictures(N)
      /\ Coarse(temp3', Misfit(t1), level + 1)
  BY AnalyseLevel
<1>4. Leads(Misfit(t1), 0, temp3', level + 1)
  <2>1. Leads(Misfit(t1), 0, temp3, level)
    BY <1>1 DEF Analysing
  <2>2. 0 \in Int /\ level \in Int /\ 0 <= level
    BY <1>2
  <2> QED
    BY <1>1, <1>3, <2>1, <2>2, LeadsAfter
<1>5. Misfit(t1)' = Misfit(t1) /\ PictureOf(xold)' = PictureOf(xold)
  BY <1>1 DEF Misfit, Sampled, LastFor, PictureOf
<1>6. Typed'
  BY <1>1, <1>2, <1>3 DEF Typed
<1>7. Analysing'
  BY <1>1, <1>3, <1>4, <1>5 DEF Analysing
<1> QED
  BY <1>1, <1>6, <1>7 DEF FistaInv, AtTop, Synthesising, Picturing

LEMMA CorrectStep == ASSUME FistaInv, Correct PROVE FistaInv'
<1>1. /\ Typed /\ k < Its /\ xold \in Exact(Room(k)) /\ temp3 \in Exact(Room(k) - Order - level)
      /\ level = Order /\ pc' = "extrapolate" /\ k' = k + 1 /\ level' = 0
      /\ xold' = [i \in Places |-> Thresholded(temp3[i] + xold[i])] /\ xold1' = xold'
      /\ UNCHANGED <<idx, y, t1, temp3>>
  BY DEF FistaInv, Analysing, Correct
<1>2. Order \in Nat /\ k \in 0..Its /\ Its \in Nat /\ k + 1 \in 0..Its
  BY <1>1, FistaAssumption DEF Typed
<1> DEFINE n == Room(k + 1)
<1>3. n \in Nat /\ n = Room(k) - Order - Order /\ n <= Room(k) /\ Room(k) \in Nat
  BY <1>1, <1>2, RoomStep, RoomRange
<1>4. n <= Room(0) /\ Room(0) \in Nat
  <2>1. 0 \in 0..Its
    BY <1>2
  <2> QED
    BY <1>2, <2>1, RoomRange
<1>5. temp3 \in Exact(n)
  BY <1>1, <1>3
<1> HIDE DEF n
<1>6. xold \in Exact(n)
  BY <1>1, <1>3, ExactLess
<1>7. Scale \in Multiples(Pow2[n])
  <2>1. Multiples(Scale) \subseteq Multiples(Pow2[n])
    BY <1>3, <1>4, MultiplesPow, RoomEnds
  <2>2. Scale \in Multiples(Scale)
    <3>1. Scale \in Nat
      BY <1>4, RoomEnds, Pow2Facts
    <3> DEFINE c == Scale
    <3>2. c \in Nat
      BY <3>1
    <3> HIDE DEF c
    <3>3. c = c * 1
      BY <3>2
    <3>4. c \in Multiples(c)
      BY <3>3 DEF Multiples
    <3> QED
      BY <3>4 DEF c
  <2> QED
    BY <2>1, <2>2
<1>8. xold' \in Exact(n)
  BY <1>1, <1>3, <1>5, <1>6, <1>7, CorrectedExact
<1>9. xold' \in Pictures(N)
  BY <1>3, <1>8, ExactPicture
<1>10. Typed'
  BY <1>1, <1>2, <1>9 DEF Typed
<1>11. AtTop'
  BY <1>1, <1>8 DEF AtTop, n
<1> QED
  BY <1>1, <1>10, <1>11 DEF FistaInv, Synthesising, Analysing, Picturing

LEMMA FinishStep == ASSUME FistaInv, Finish PROVE FistaInv'
<1>1. /\ Typed /\ AtTop /\ pc = "extrapolate" /\ k = Its /\ level' = Order /\ pc' = "picture"
      /\ UNCHANGED <<idx, y, k, xold, xold1, t1, temp3>>
  BY DEF FistaInv, Finish
<1>2. Order \in Nat /\ xold = xold1 /\ xold \in Exact(Order) /\ xold \in Pictures(N)
  BY <1>1, RoomEnds, FistaAssumption DEF Typed, AtTop
<1>3. Leads(xold, Order, xold1, Order) /\ Partial(xold, xold1, Order)
  BY <1>2, LeadsStart, PartialStart
<1>4. Typed'
  BY <1>1, <1>2 DEF Typed
<1>5. Picturing'
  BY <1>1, <1>2, <1>3 DEF Picturing
<1> QED
  BY <1>1, <1>4, <1>5 DEF FistaInv, AtTop, Synthesising, Analysing

LEMMA PictureLevel ==
  ASSUME FistaInv, Picture
  PROVE  /\ xold' \in Exact(level - 1)
         /\ xold' \in Pictures(N) /\ DwtLevel(xold', N, level - 1) = xold
         /\ Partial(xold', xold1, level - 1)
<1>1. /\ Typed /\ xold \in Exact(level) /\ level > 0 /\ xold' = IdwtLevel(xold, N, level)
      /\ Partial(xold, xold1, level) /\ xold1 \in Pictures(N)
  BY DEF FistaInv, Typed, Picturing, Picture
<1> DEFINE q == level - 1
<1>2. q \in 0..(Order - 1) /\ q \in Nat /\ level = q + 1
  BY <1>1, FistaAssumption DEF Typed
<1> HIDE DEF q
<1>3. xold \in Exact(q + 1) /\ xold' = IdwtLevel(xold, N, q + 1) /\ Partial(xold, xold1, q + 1)
  BY <1>1, <1>2
<1>4. xold' \in Exact(q) /\ DwtLevel(xold', N, q) = xold
  BY <1>2, <1>3, IdwtExact
<1>5. xold' \in Pictures(N)
  BY <1>2, <1>4, ExactPicture
<1>6. xold \in Grained(N, 2)
  BY <1>2, <1>3, ExactTwice
<1>7. Partial(xold', xold1, q)
  BY <1>1, <1>2, <1>3, <1>6, PartialStep
<1> QED
  BY <1>4, <1>5, <1>7 DEF q

LEMMA PictureStep == ASSUME FistaInv, Picture PROVE FistaInv'
<1>1. /\ Typed /\ Picturing /\ pc = "picture" /\ level > 0 /\ level' = level - 1
      /\ UNCHANGED <<idx, y, pc, k, xold1, t1, temp3>>
  BY DEF FistaInv, Picture
<1>2. Order \in Nat /\ level \in 0..Order
  BY <1>1, FistaAssumption DEF Typed
<1>3. /\ xold' \in Exact(level - 1)
      /\ xold' \in Pictures(N) /\ DwtLevel(xold', N, level - 1) = xold
      /\ Partial(xold', xold1, level - 1)
  BY PictureLevel
<1>4. Leads(xold', level - 1, xold1, Order)
  <2>1. Leads(xold, (level - 1) + 1, xold1, Order)
    <3>1. (level - 1) + 1 = level
      BY <1>2
    <3> QED
      BY <1>1, <3>1 DEF Picturing
  <2>2. level - 1 \in Int /\ Order \in Int /\ level - 1 < Order
    BY <1>1, <1>2
  <2> QED
    BY <1>3, <2>1, <2>2, LeadsBefore
<1>5. Typed'
  BY <1>1, <1>2, <1>3 DEF Typed
<1>6. Picturing'
  BY <1>1, <1>3, <1>4 DEF Picturing
<1> QED
  BY <1>1, <1>5, <1>6 DEF FistaInv, AtTop, Synthesising, Analysing

LEMMA FistaStep == FistaInv /\ [Next]_vars => FistaInv'
<1> SUFFICES ASSUME FistaInv, [Next]_vars PROVE FistaInv'
  OBVIOUS
<1>1. CASE Extrapolate
  BY <1>1, ExtrapolateStep
<1>2. CASE Synthesise
  BY <1>2, SynthesiseStep
<1>3. CASE Compare
  BY <1>3, CompareStep
<1>4. CASE Analyse
  BY <1>4, AnalyseStep
<1>5. CASE Correct
  BY <1>5, CorrectStep
<1>6. CASE Finish
  BY <1>6, FinishStep
<1>7. CASE Picture
  BY <1>7, PictureStep
<1>8. CASE UNCHANGED vars
  <2>1. UNCHANGED <<idx, y, pc, k, level, xold, xold1, t1, temp3>>
    BY <1>8 DEF vars
  <2>2. Misfit(t1)' = Misfit(t1) /\ PictureOf(xold)' = PictureOf(xold)
    BY <2>1 DEF Misfit, Sampled, LastFor, PictureOf
  <2>3. Typed' /\ AtTop' /\ Synthesising' /\ Picturing'
    BY <2>1 DEF FistaInv, Typed, AtTop, Synthesising, Picturing
  <2>4. Analysing'
    BY <2>1, <2>2 DEF FistaInv, Analysing
  <2> QED
    BY <2>3, <2>4 DEF FistaInv
<1> QED
  BY <1>1, <1>2, <1>3, <1>4, <1>5, <1>6, <1>7, <1>8 DEF Next

LEMMA AlwaysFista == Spec => []FistaInv
  BY FistaInit, FistaStep, PTL DEF Spec

(***************************************************************************)
(* The arrays of FISTA keep their size, and the levels and iterations stay *)
(* in their ranges (brain.c, FISTA, dwt2_full and idwt2_full), for pictures *)
(* of any 2^Order x 2^Order pixels.                                        *)
(***************************************************************************)
THEOREM TypeCorrect == Spec => []TypeOK
<1>1. FistaInv => TypeOK
  <2> SUFFICES ASSUME Typed PROVE TypeOK
    BY DEF FistaInv
  <2>1. DOMAIN y = DOMAIN idx
    BY DEF Typed
  <2>2. \A a \in {xold, xold1, t1, temp3} : a \in [Places -> Int]
    BY DEF Typed, Pictures, Places
  <2> QED
    BY <2>1, <2>2 DEF Typed, TypeOK
<1> QED
  BY <1>1, AlwaysFista, PTL

(***************************************************************************)
(* Nothing is lost in the transforms, although they overwrite the array    *)
(* they read and halve whole numbers: all levels of dwt2_full lead from    *)
(* the picture t1 back to the coefficients xold it was made of, from the   *)
(* misfit to temp3, and from the picture that FISTA leaves behind to the   *)
(* coefficients it ended with.                                             *)
(***************************************************************************)
Lossless ==
  /\ (pc = "synthesise" /\ level = 0) => Leads(t1, 0, xold, Order)
  /\ (pc = "analyse" /\ level = Order) => Leads(Misfit(t1), 0, temp3, Order)
  /\ (pc = "picture" /\ level = 0) => Leads(xold, 0, xold1, Order)

THEOREM NothingLost == Spec => []Lossless
<1>1. FistaInv => Lossless
  BY DEF FistaInv, Synthesising, Analysing, Picturing, Lossless
<1> QED
  BY <1>1, AlwaysFista, PTL

(***************************************************************************)
(* dwt2_full, which works level by level in a corner of its own result,    *)
(* computes the Haar coefficients of the misfit, for pictures of any size  *)
(* (see Analysed).                                                         *)
(***************************************************************************)
THEOREM AnalysedCorrect == Spec => []Analysed
<1>1. FistaInv => Analysed
  <2> SUFFICES ASSUME FistaInv, pc = "analyse", level = Order PROVE temp3 = HaarOf(Misfit(t1))
    BY DEF Analysed
  <2>1. Typed /\ temp3 \in Pictures(N) /\ t1 \in Pictures(N) /\ Coarse(temp3, Misfit(t1), Order)
    BY DEF FistaInv, Typed, Analysing
  <2>2. Misfit(t1) \in Pictures(N)
    BY <2>1, MisfitInt
  <2> QED
    BY <2>1, <2>2, CoarseEnd
<1> QED
  BY <1>1, AlwaysFista, PTL

(***************************************************************************)
(* idwt2_full computes the picture that has the coefficients it is given,  *)
(* in the loop of FISTA and at its end (see Synthesised).                  *)
(***************************************************************************)
THEOREM SynthesisedCorrect == Spec => []Synthesised
<1>1. FistaInv => Synthesised
  <2> SUFFICES ASSUME FistaInv PROVE Synthesised
    OBVIOUS
  <2>1. xold \in Pictures(N) /\ xold1 \in Pictures(N) /\ t1 \in Pictures(N)
    BY DEF FistaInv, Typed
  <2>2. ASSUME pc = "synthesise", level = 0 PROVE t1 = PictureOf(xold)
    <3>1. Partial(t1, xold, 0)
      BY <2>2 DEF FistaInv, Synthesising
    <3> QED
      BY <2>1, <3>1, PartialEnd
  <2>3. ASSUME pc = "picture", level = 0 PROVE xold = PictureOf(xold1)
    <3>1. Partial(xold, xold1, 0)
      BY <2>3 DEF FistaInv, Picturing
    <3> QED
      BY <2>1, <3>1, PartialEnd
  <2> QED
    BY <2>2, <2>3 DEF Synthesised
<1> QED
  BY <1>1, AlwaysFista, PTL

(***************************************************************************)
(* Each level that a step of FISTA works out is undone by the same level   *)
(* of the other transform.                                                 *)
(***************************************************************************)
THEOREM StepsUndone ==
  Spec => [][/\ Synthesise => DwtLevel(t1', N, level') = t1
             /\ Analyse => IdwtLevel(temp3', N, level') = temp3
             /\ Picture => DwtLevel(xold', N, level') = xold]_vars
<1> DEFINE A == /\ Synthesise => DwtLevel(t1', N, level') = t1
                /\ Analyse => IdwtLevel(temp3', N, level') = temp3
                /\ Picture => DwtLevel(xold', N, level') = xold
<1>1. FistaInv /\ [Next]_vars => [A]_vars
  <2> SUFFICES ASSUME FistaInv PROVE A
    OBVIOUS
  <2>1. ASSUME Synthesise PROVE DwtLevel(t1', N, level') = t1
    <3>1. level' = level - 1
      BY <2>1 DEF Synthesise
    <3> QED
      BY <2>1, <3>1, SynthesiseLevel
  <2>2. ASSUME Analyse PROVE IdwtLevel(temp3', N, level') = temp3
    <3>1. level' = level + 1
      BY <2>2 DEF Analyse
    <3> QED
      BY <2>2, <3>1, AnalyseLevel
  <2>3. ASSUME Picture PROVE DwtLevel(xold', N, level') = xold
    <3>1. level' = level - 1
      BY <2>3 DEF Picture
    <3> QED
      BY <2>3, <3>1, PictureLevel
  <2> QED
    BY <2>1, <2>2, <2>3
<1> HIDE DEF A
<1>2. Spec => [][A]_vars
  BY <1>1, AlwaysFista, PTL DEF Spec
<1> QED
  BY <1>2 DEF A

(***************************************************************************)
(* The term by which FISTA would be faster than IST never changes xold:    *)
(* xold1 is set after the step, to what the step has just written.         *)
(***************************************************************************)
THEOREM NoMomentum == Spec => [][Extrapolate => xold' = xold]_vars
<1> DEFINE A == Extrapolate => xold' = xold
<1>1. FistaInv /\ [Next]_vars => [A]_vars
  BY NothingAdded
<1> HIDE DEF A
<1>2. Spec => [][A]_vars
  BY <1>1, AlwaysFista, PTL DEF Spec
<1> QED
  BY <1>2 DEF A
-----------------------------------------------------------------------------
(***************************************************************************)
(* From here on: no iteration makes the fit worse.  The transform is linear *)
(* and keeps lengths (KeepsLength), so that the misfit at the pixels that   *)
(* were read grows by no more than the step costs among the coefficients    *)
(* (MisfitStep, Adjoint), and the threshold pays for that (ThresholdStep).  *)
(***************************************************************************)
(* Every wavelet has a size. *)
LEMMA SizeInt == ASSUME NEW i PROVE SizeOf(i) \in Int
<1> DEFINE L == {l \in 0..(Order - 1) : Pow2[l] <= i \div N \/ Pow2[l] <= i % N}
           S == {1} \cup {Pow2[l] : l \in L}
<1>1. Order \in Nat /\ L \in SUBSET (0..(Order - 1))
  BY FistaAssumption
<1>2. SizeOf(i) = Max(S)
  BY DEF SizeOf
<1> HIDE DEF L
<1>3. S \in SUBSET Int
  BY <1>1, PowPositive
<1>4. CASE L = {}
  <2>1. \A b \in S : b <= 1
    BY <1>4
  <2> QED
    BY <1>2, <1>3, <2>1, MaxIs
<1>5. CASE L # {}
  <2> DEFINE T == {Order - l : l \in L}
  <2>1. T \in SUBSET Nat /\ T # {}
    <3>1. PICK l \in L : TRUE
      BY <1>5
    <3>2. Order - l \in T
      BY <3>1
    <3>3. \A o \in L : Order - o \in Nat
      BY <1>1
    <3> QED
      BY <3>2, <3>3
  <2>2. PICK n \in T : \A o \in T : n <= o
    BY <2>1, Least
  <2>3. PICK m \in L : n = Order - m
    BY <2>2
  <2>4. ASSUME NEW l \in L PROVE Pow2[l] <= Pow2[m]
    <3>1. n <= Order - l
      BY <2>2
    <3>2. l <= m /\ l \in Nat /\ m \in Nat
      BY <1>1, <2>3, <3>1
    <3> QED
      BY <3>2, PowMonotone
  <2>5. m \in Nat
    BY <1>1
  <2>6. Pow2[m] \in Nat \ {0}
    BY <2>5, PowPositive
  <2>7. Pow2[m] \in S /\ Pow2[m] \in Int /\ 1 <= Pow2[m]
    BY <2>6
  <2>8. \A b \in S : b <= Pow2[m]
    BY <2>4, <2>7
  <2> HIDE DEF S
  <2> QED
    BY <1>2, <1>3, <2>7, <2>8, MaxIs
<1> QED
  BY <1>4, <1>5

LEMMA WaveUnit == ASSUME NEW i, NEW p PROVE Wave(i, p) \in {-1, 0, 1}
<1> DEFINE s == SizeOf(i)  b == N \div s
           w1 == HalfWave(i \div N, p \div N, s, b)  w2 == HalfWave(i % N, p % N, s, b)
<1>1. Wave(i, p) = w1 * w2
  BY WaveHalves
<1>2. w1 \in {-1, 0, 1} /\ w2 \in {-1, 0, 1}
  BY DEF HalfWave
<1> HIDE DEF w1, w2
<1>3. w1 * w2 \in {-1, 0, 1}
  BY <1>2
<1> QED
  BY <1>1, <1>3

LEMMA TermsInt ==
  ASSUME NEW x \in Pictures(N), NEW z \in Pictures(N), NEW i \in Places, NEW p \in Places
  PROVE  /\ SynthesisTerms(p, x)[i] \in Int /\ AnalysisTerms(i, z)[p] \in Int
         /\ z[p] * SynthesisTerms(p, x)[i] = x[i] * AnalysisTerms(i, z)[p]
<1> DEFINE w == Wave(i, p)  s == SizeOf(i)  a == x[i]  b == z[p]
<1>1. w \in {-1, 0, 1} /\ s \in Int
  BY WaveUnit, SizeInt
<1>2. a \in Int /\ b \in Int
  BY DEF Pictures, Places
<1>3. SynthesisTerms(p, x)[i] = w * a * s /\ AnalysisTerms(i, z)[p] = w * b * s
  BY DEF SynthesisTerms, AnalysisTerms, Waves
<1> HIDE DEF w, s, a, b
<1>4. w * a * s \in Int /\ w * b * s \in Int /\ b * (w * a * s) = a * (w * b * s)
  <2>1. CASE w = 0
    BY <1>1, <1>2, <2>1
  <2>2. CASE w = 1
    BY <1>1, <1>2, <2>2
  <2>3. CASE w = -1
    BY <1>1, <1>2, <2>3
  <2> QED
    BY <1>1, <2>1, <2>2, <2>3
<1> QED
  BY <1>3, <1>4 DEF a, b

LEMMA TermsSummable ==
  ASSUME NEW x \in Pictures(N), NEW z \in Pictures(N)
  PROVE  /\ \A p \in Places : Summable(SynthesisTerms(p, x), Places)
         /\ \A i \in Places : Summable(AnalysisTerms(i, z), Places)
  BY TermsInt, PlacesFinite DEF Summable
-----------------------------------------------------------------------------
(* The products of two pictures, place by place. *)
Products(a, b) == [p \in Places |-> a[p] * b[p]]

Dot(a, b) == SumOf(Products(a, b), Places)

LEMMA ProductsSummable ==
  ASSUME NEW a \in Pictures(N), NEW b \in Pictures(N)
  PROVE  Summable(Products(a, b), Places) /\ Dot(a, b) \in Int
<1>1. \A p \in Places : a[p] \in Int /\ b[p] \in Int
  BY DEF Pictures, Places
<1>2. \A p \in Places : Products(a, b)[p] \in Int
  BY <1>1 DEF Products
<1>3. Summable(Products(a, b), Places)
  BY <1>2, PlacesFinite DEF Summable
<1> QED
  BY <1>3, SumInt DEF Dot

(* To add up a picture z weighted by t is to add up its coefficients weighted *)
(* by those of t.                                                          *)
LEMMA Adjoint ==
  ASSUME NEW t \in Pictures(N), NEW x \in Pictures(N), Synthesis(t, x),
         NEW g \in Pictures(N), NEW z \in Pictures(N), Analysis(g, z)
  PROVE  Dot(z, t) = Dot(x, g)
<1> DEFINE F == [p \in Places |-> [i \in Places |-> z[p] * SynthesisTerms(p, x)[i]]]
           G == [i \in Places |-> [p \in Places |-> x[i] * AnalysisTerms(i, z)[p]]]
<1>1. \A p \in Places : z[p] \in Int /\ t[p] \in Int /\ x[p] \in Int /\ g[p] \in Int
  BY DEF Pictures, Places
<1>2. N \in Nat \ {0} /\ N \in Int
  BY NPositive
<1>3. \A p \in Places, i \in Places : F[p][i] \in Int /\ G[i][p] = F[p][i]
  <2> SUFFICES ASSUME NEW p \in Places, NEW i \in Places PROVE F[p][i] \in Int /\ G[i][p] = F[p][i]
    OBVIOUS
  <2>1. F[p][i] = z[p] * SynthesisTerms(p, x)[i] /\ G[i][p] = x[i] * AnalysisTerms(i, z)[p]
    OBVIOUS
  <2> HIDE DEF F, G
  <2> QED
    BY <1>1, <2>1, TermsInt
<1>4. ASSUME NEW p \in Places PROVE SumOf(F[p], Places) = N * Products(z, t)[p]
  <2> DEFINE f == F[p]  s == SynthesisTerms(p, x)
  <2>1. \A i \in Places : f[i] = z[p] * s[i]
    OBVIOUS
  <2>2. Summable(s, Places)
    BY TermsSummable
  <2>3. t[p] * N = SumOf(s, Places)
    BY DEF Synthesis
  <2> HIDE DEF f, s
  <2>4. SumOf(f, Places) = z[p] * SumOf(s, Places)
    BY <1>1, <2>1, <2>2, SumScale
  <2>5. z[p] * (t[p] * N) = N * (z[p] * t[p])
    BY <1>1, <1>2
  <2> QED
    BY <2>3, <2>4, <2>5 DEF f, Products
<1>5. ASSUME NEW i \in Places PROVE SumOf(G[i], Places) = N * Products(x, g)[i]
  <2> DEFINE f == G[i]  s == AnalysisTerms(i, z)
  <2>1. \A p \in Places : f[p] = x[i] * s[p]
    OBVIOUS
  <2>2. Summable(s, Places)
    BY TermsSummable
  <2>3. g[i] * N = SumOf(s, Places)
    BY DEF Analysis
  <2> HIDE DEF f, s
  <2>4. SumOf(f, Places) = x[i] * SumOf(s, Places)
    BY <1>1, <2>1, <2>2, SumScale
  <2>5. x[i] * (g[i] * N) = N * (x[i] * g[i])
    BY <1>1, <1>2
  <2> QED
    BY <2>3, <2>4, <2>5 DEF f, Products
<1> HIDE DEF F, G
<1> DEFINE u == SumsOver(F, Places, Places)  v == SumsOver(G, Places, Places)
<1>6. SumOf(u, Places) = SumOf(v, Places)
  BY <1>3, PlacesFinite, SumSwap
<1>7. \A p \in Places : u[p] = N * Products(z, t)[p] /\ v[p] = N * Products(x, g)[p]
  BY <1>4, <1>5 DEF SumsOver
<1> HIDE DEF u, v
<1>8. SumOf(u, Places) = N * Dot(z, t)
  BY <1>2, <1>7, ProductsSummable, SumScale DEF Dot
<1>9. SumOf(v, Places) = N * Dot(x, g)
  BY <1>2, <1>7, ProductsSummable, SumScale DEF Dot
<1>10. Dot(z, t) \in Int /\ Dot(x, g) \in Int
  BY ProductsSummable
<1> DEFINE A == Dot(z, t)  B == Dot(x, g)
<1>11. A \in Int /\ B \in Int /\ N * A = N * B
  BY <1>6, <1>8, <1>9, <1>10
<1> HIDE DEF A, B
<1>12. A = B
  BY <1>2, <1>11
<1> QED
  BY <1>12 DEF A, B

-----------------------------------------------------------------------------
(***************************************************************************)
(* Both without rounding: x can be halved often enough for the levels of    *)
(* idwt2_full to make a picture of it, and the levels of dwt2_full to lead  *)
(* back to x.                                                              *)
(***************************************************************************)
(* With l levels to go: t can be made of x, and leads back to x. *)
Reachable(t, x, n, l) ==
  /\ t \in Exact(n + l) /\ Partial(t, x, l)
  /\ n > 0 => \A z \in Pictures(N) : Coarse(t, z, l) => Analysis(x, z)

LEMMA ReachableStep ==
  ASSUME NEW n \in Nat, NEW q \in 0..(Order - 1), NEW x \in Pictures(N), NEW t, Reachable(t, x, n, q + 1)
  PROVE  Reachable(IdwtLevel(t, N, q + 1), x, n, q)
<1> DEFINE z == IdwtLevel(t, N, q + 1)  m == n + q
<1>1. m \in Nat /\ n + (q + 1) = m + 1
  BY FistaAssumption
<1>2. t \in Exact(m + 1) /\ Partial(t, x, q + 1)
  BY <1>1 DEF Reachable
<1>3. z \in Exact(m) /\ DwtLevel(z, N, q) = t
  <2> HIDE DEF m
  <2> QED
    BY <1>1, <1>2, IdwtExact
<1>4. t \in Grained(N, 2)
  <2> HIDE DEF m
  <2> QED
    BY <1>1, <1>2, ExactTwice
<1>5. Partial(z, x, q)
  BY <1>2, <1>4, PartialStep
<1> HIDE DEF z
<1>6. ASSUME n > 0, NEW u \in Pictures(N), Coarse(z, u, q) PROVE Analysis(x, u)
  <2> DEFINE o == m - 1
  <2>1. o \in Nat /\ m = o + 1
    BY <1>1, <1>6, FistaAssumption
  <2>2. z \in Exact(o + 1)
    BY <1>3, <2>1
  <2> HIDE DEF o
  <2>3. z \in Grained(N, 2)
    BY <2>1, <2>2, ExactTwice
  <2>4. Coarse(t, u, q + 1)
    BY <1>3, <1>6, <2>3, CoarseStep
  <2> QED
    BY <1>6, <2>4 DEF Reachable
<1> QED
  BY <1>3, <1>5, <1>6 DEF Reachable, z

LEMMA ReachableEnd ==
  ASSUME NEW n \in Nat, NEW x \in Exact(n + Order)
  PROVE  \E t : Reachable(t, x, n, 0)
<1>1. Order \in Nat /\ n + Order \in Nat
  BY FistaAssumption
<1>2. x \in Pictures(N)
  <2> DEFINE m == n + Order
  <2>1. m \in Nat /\ x \in Exact(m)
    BY <1>1
  <2> HIDE DEF m
  <2> QED
    BY <2>1, ExactPicture
<1> DEFINE S == {i \in Nat : i <= Order => \E t : Reachable(t, x, n, Order - i)}
<1>3. 0 \in S
  <2>1. Partial(x, x, Order)
    BY <1>2, PartialStart
  <2>2. \A z \in Pictures(N) : Coarse(x, z, Order) => Analysis(x, z)
    BY <1>2, CoarseEnd
  <2>3. Reachable(x, x, n, Order)
    BY <2>1, <2>2 DEF Reachable
  <2>4. Order - 0 = Order
    BY <1>1
  <2> QED
    BY <2>3, <2>4
<1>4. ASSUME NEW i \in Nat, i \in S PROVE i + 1 \in S
  <2>1. SUFFICES ASSUME i + 1 <= Order PROVE \E t : Reachable(t, x, n, Order - (i + 1))
    OBVIOUS
  <2> DEFINE q == Order - (i + 1)
  <2>2. q \in 0..(Order - 1) /\ Order - i = q + 1 /\ i <= Order
    BY <1>1, <2>1
  <2>3. PICK t : Reachable(t, x, n, q + 1)
    BY <1>4, <2>2
  <2> HIDE DEF q
  <2>4. Reachable(IdwtLevel(t, N, q + 1), x, n, q)
    BY <1>2, <2>2, <2>3, ReachableStep
  <2> QED
    BY <2>4 DEF q
<1>5. Order \in S
  <2> HIDE DEF S
  <2> QED
    BY <1>1, <1>3, <1>4, InductionEach
<1>6. Order - Order = 0
  BY <1>1
<1> QED
  BY <1>1, <1>5, <1>6

LEMMA SynthesisExact ==
  ASSUME NEW x \in Exact(Order)
  PROVE  Synthesis(PictureOf(x), x) /\ PictureOf(x) \in Pictures(N) /\ x \in Pictures(N)
<1>1. Order \in Nat /\ 0 + Order = Order /\ 0 \in Nat /\ 0 + 0 = 0
  BY FistaAssumption
<1>2. PICK t : Reachable(t, x, 0, 0)
  BY <1>1, ReachableEnd
<1>3. x \in Pictures(N) /\ t \in Pictures(N) /\ Partial(t, x, 0)
  BY <1>1, <1>2, ExactPicture DEF Reachable
<1> QED
  BY <1>3, PartialEnd

LEMMA AnalysisExact ==
  ASSUME NEW x \in Exact(1 + Order)
  PROVE  /\ Synthesis(PictureOf(x), x) /\ Analysis(x, PictureOf(x))
         /\ PictureOf(x) \in Pictures(N) /\ x \in Pictures(N)
<1>1. Order \in Nat /\ 1 + Order \in Nat /\ 1 \in Nat /\ 1 + 0 = 1 /\ 1 > 0
  BY FistaAssumption
<1>2. PICK t : Reachable(t, x, 1, 0)
  BY <1>1, ReachableEnd
<1>3. x \in Pictures(N)
  <2> DEFINE m == 1 + Order
  <2>1. m \in Nat /\ x \in Exact(m)
    BY <1>1
  <2> HIDE DEF m
  <2> QED
    BY <2>1, ExactPicture
<1>4. t \in Pictures(N) /\ Partial(t, x, 0)
  BY <1>1, <1>2, ExactPicture DEF Reachable
<1>5. Coarse(t, t, 0)
  BY <1>4, CoarseStart
<1>6. Analysis(x, t)
  BY <1>1, <1>2, <1>4, <1>5 DEF Reachable
<1> QED
  BY <1>3, <1>4, <1>6, PartialEnd

-----------------------------------------------------------------------------
(* The transform is linear, and keeps lengths. *)
Minus(a, b) == [p \in Places |-> a[p] - b[p]]

Times(c, a) == [p \in Places |-> c * a[p]]

LEMMA ArraysInt ==
  ASSUME NEW a \in Pictures(N), NEW b \in Pictures(N), NEW c \in Int
  PROVE  Minus(a, b) \in Pictures(N) /\ Times(c, a) \in Pictures(N)
<1>1. a \in [Places -> Int] /\ b \in [Places -> Int]
  BY DEF Pictures, Places
<1>2. Minus(a, b) \in [Places -> Int] /\ Times(c, a) \in [Places -> Int]
  BY <1>1 DEF Minus, Times
<1> QED
  BY <1>2 DEF Pictures, Places

LEMMA TermIs ==
  ASSUME NEW x, NEW i \in Places, NEW p \in Places
  PROVE  SynthesisTerms(p, x)[i] = Wave(i, p) * x[i] * SizeOf(i)
  BY DEF SynthesisTerms, Waves

LEMMA SynthesisMinus ==
  ASSUME NEW x \in Pictures(N), NEW z \in Pictures(N), NEW t \in Pictures(N), NEW u \in Pictures(N),
         Synthesis(t, x), Synthesis(u, z)
  PROVE  Synthesis(Minus(t, u), Minus(x, z))
<1>1. Minus(x, z) \in Pictures(N) /\ N \in Nat
  BY ArraysInt, NPositive
<1> SUFFICES ASSUME NEW p \in Places
             PROVE  Minus(t, u)[p] * N = SumOf(SynthesisTerms(p, Minus(x, z)), Places)
  BY DEF Synthesis
<1> DEFINE f == SynthesisTerms(p, x)  g == SynthesisTerms(p, Minus(x, z))  h == SynthesisTerms(p, z)
<1>2. Summable(f, Places) /\ Summable(g, Places) /\ Summable(h, Places)
  BY <1>1, TermsSummable
<1>3. ASSUME NEW i \in Places PROVE f[i] = g[i] + h[i]
  <2> DEFINE w == Wave(i, p)  s == SizeOf(i)  a == x[i]  b == z[i]
  <2>1. w \in {-1, 0, 1} /\ s \in Int
    BY WaveUnit, SizeInt
  <2>2. a \in Int /\ b \in Int
    BY DEF Pictures, Places
  <2>3. f[i] = w * a * s /\ g[i] = w * (a - b) * s /\ h[i] = w * b * s
    BY TermIs DEF Minus
  <2> HIDE DEF w, s, a, b, f, g, h
  <2>4. w * a * s = w * (a - b) * s + w * b * s
    <3>1. CASE w = 0
      BY <2>1, <2>2, <3>1
    <3>2. CASE w = 1
      BY <2>1, <2>2, <3>2
    <3>3. CASE w = -1
      BY <2>1, <2>2, <3>3
    <3> QED
      BY <2>1, <3>1, <3>2, <3>3
  <2> QED
    BY <2>3, <2>4
<1> DEFINE a == t[p]  b == u[p]
<1>4. a \in Int /\ b \in Int /\ Minus(t, u)[p] = a - b
  BY DEF Pictures, Places, Minus
<1>5. a * N = SumOf(f, Places) /\ b * N = SumOf(h, Places)
  BY DEF Synthesis
<1> HIDE DEF f, g, h, a, b
<1>6. SumOf(f, Places) = SumOf(g, Places) + SumOf(h, Places) /\ SumOf(g, Places) \in Int
  BY <1>2, <1>3, SumAdd, SumInt
<1>7. (a - b) * N = a * N - b * N /\ a * N \in Int /\ b * N \in Int
  BY <1>1, <1>4
<1>8. (a - b) * N = SumOf(g, Places)
  BY <1>5, <1>6, <1>7
<1> QED
  BY <1>4, <1>8 DEF g

LEMMA SynthesisTimes ==
  ASSUME NEW x \in Pictures(N), NEW t \in Pictures(N), Synthesis(t, x), NEW c \in Int
  PROVE  Synthesis(Times(c, t), Times(c, x))
<1> SUFFICES ASSUME NEW p \in Places
             PROVE  Times(c, t)[p] * N = SumOf(SynthesisTerms(p, Times(c, x)), Places)
  BY DEF Synthesis
<1> DEFINE f == SynthesisTerms(p, x)  g == SynthesisTerms(p, Times(c, x))
<1>1. Summable(f, Places) /\ N \in Nat
  BY TermsSummable, NPositive
<1>2. ASSUME NEW i \in Places PROVE g[i] = c * f[i]
  <2> DEFINE w == Wave(i, p)  s == SizeOf(i)  a == x[i]
  <2>1. w \in {-1, 0, 1} /\ s \in Int
    BY WaveUnit, SizeInt
  <2>2. a \in Int
    BY DEF Pictures, Places
  <2>3. f[i] = w * a * s /\ g[i] = w * (c * a) * s
    BY TermIs DEF Times
  <2> HIDE DEF w, s, a, f, g
  <2>4. w * (c * a) * s = c * (w * a * s)
    <3>1. CASE w = 0
      BY <2>1, <2>2, <3>1
    <3>2. CASE w = 1
      BY <2>1, <2>2, <3>2
    <3>3. CASE w = -1
      BY <2>1, <2>2, <3>3
    <3> QED
      BY <2>1, <3>1, <3>2, <3>3
  <2> QED
    BY <2>3, <2>4
<1> DEFINE a == t[p]
<1>3. a \in Int /\ Times(c, t)[p] = c * a
  BY DEF Pictures, Places, Times
<1>4. a * N = SumOf(f, Places)
  BY DEF Synthesis
<1> HIDE DEF f, g, a
<1>5. SumOf(g, Places) = c * SumOf(f, Places)
  BY <1>1, <1>2, SumScale
<1>6. (c * a) * N = c * (a * N)
  BY <1>1, <1>3
<1> QED
  BY <1>3, <1>4, <1>5, <1>6 DEF g

LEMMA SynthesisUnique ==
  ASSUME NEW t \in Pictures(N), NEW u \in Pictures(N), NEW x, Synthesis(t, x), Synthesis(u, x)
  PROVE  t = u
<1>1. ASSUME NEW p \in Places PROVE t[p] = u[p]
  <2> DEFINE a == t[p]  b == u[p]
  <2>1. a \in Int /\ b \in Int /\ N \in Nat \ {0}
    BY NPositive DEF Pictures, Places
  <2>2. a * N = b * N
    BY DEF Synthesis
  <2> HIDE DEF a, b
  <2>3. a = b
    BY <2>1, <2>2
  <2> QED
    BY <2>3 DEF a, b
<1>2. t = [p \in Places |-> t[p]] /\ u = [p \in Places |-> u[p]]
  BY DEF Pictures, Places
<1>3. [p \in Places |-> t[p]] = [p \in Places |-> u[p]]
  BY <1>1
<1> QED
  BY <1>2, <1>3

LEMMA DotTwice ==
  ASSUME NEW a \in Pictures(N) PROVE Dot(Times(2, a), Times(2, a)) = 4 * Dot(a, a)
<1> DEFINE f == Products(Times(2, a), Times(2, a))  g == Products(a, a)
<1>1. ASSUME NEW p \in Places PROVE f[p] = 4 * g[p]
  <2> DEFINE b == a[p]
  <2>1. b \in Int /\ f[p] = (2 * b) * (2 * b) /\ g[p] = b * b
    BY DEF Pictures, Places, Products, Times
  <2> HIDE DEF b, f, g
  <2>2. (2 * b) * (2 * b) = 4 * (b * b)
    BY <2>1
  <2> QED
    BY <2>1, <2>2
<1>2. Summable(g, Places)
  BY ProductsSummable
<1> HIDE DEF f, g
<1>3. SumOf(f, Places) = 4 * SumOf(g, Places)
  BY <1>1, <1>2, SumScale
<1> QED
  BY <1>3 DEF f, g, Dot

LEMMA KeepsLength ==
  ASSUME NEW x \in Exact(Order), NEW t \in Pictures(N), Synthesis(t, x)
  PROVE  Dot(t, t) = Dot(x, x)
<1> DEFINE z == Times(2, x)  u == Times(2, t)  v == PictureOf(z)
<1>1. Order \in Nat /\ 1 + Order \in Nat /\ Order + 1 = 1 + Order /\ 2 \in Int
  BY FistaAssumption
<1>2. x \in Pictures(N)
  BY <1>1, ExactPicture
<1>3. z \in Exact(1 + Order)
  <2> DEFINE V == Multiples(Pow2[Order])  W == Multiples(Pow2[1 + Order])
  <2>1. Pow2[Order] \in Nat /\ Pow2[1 + Order] = 2 * Pow2[Order]
    BY <1>1, Pow2Facts
  <2>2. ASSUME NEW a \in V PROVE 2 * a \in W
    <3> DEFINE m == Pow2[Order]
    <3>1. m \in Nat /\ Pow2[1 + Order] = 2 * m
      BY <2>1
    <3>2. PICK q \in Int : a = m * q
      BY DEF Multiples
    <3> HIDE DEF m
    <3>3. 2 * a = (2 * m) * q
      BY <3>1, <3>2
    <3> QED
      BY <3>1, <3>3 DEF Multiples
  <2>3. x \in [Places -> V]
    BY DEF Exact, Grained, Places
  <2> HIDE DEF V, W
  <2>4. z \in [Places -> W]
    BY <2>2, <2>3 DEF Times
  <2> QED
    BY <2>4 DEF Exact, Grained, Places, W
<1>4. u \in Pictures(N) /\ z \in Pictures(N) /\ Synthesis(u, z)
  BY <1>1, <1>2, ArraysInt, SynthesisTimes
<1>5. Synthesis(v, z) /\ Analysis(z, v) /\ v \in Pictures(N)
  BY <1>3, AnalysisExact
<1> HIDE DEF z, u, v
<1>6. Dot(v, v) = Dot(z, z)
  BY <1>4, <1>5, Adjoint
<1>7. u = v
  BY <1>4, <1>5, SynthesisUnique
<1>8. Dot(u, u) = Dot(z, z)
  BY <1>6, <1>7
<1>9. 4 * Dot(t, t) = 4 * Dot(x, x)
  BY <1>2, <1>8, DotTwice DEF u, z
<1>10. Dot(t, t) \in Int /\ Dot(x, x) \in Int
  BY <1>2, ProductsSummable
<1> QED
  BY <1>9, <1>10

-----------------------------------------------------------------------------
(* The threshold of a minimises (b - a) * (b - a) + 2 * l * Magnitude(b).   *)
LEMMA DivLess ==
  ASSUME NEW m \in Nat, NEW n \in Nat \ {0}, NEW c \in Nat
  PROVE  m \div n < c <=> m < c * n
<1> DEFINE q == m \div n  r == m % n
<1>1. q \in Nat /\ r \in 0..(n - 1) /\ m = q * n + r
  OBVIOUS
<1> HIDE DEF q, r
<1>2. ASSUME q < c PROVE m < c * n
  <2> DEFINE d == c - q - 1
  <2>1. d \in Nat /\ c = (q + 1) + d
    BY <1>1, <1>2
  <2> HIDE DEF d
  <2>2. c * n = (q * n + n) + d * n
    BY <1>1, <2>1
  <2>3. d * n \in Nat /\ q * n \in Nat
    BY <1>1, <2>1, ProductNat
  <2> QED
    BY <1>1, <2>2, <2>3
<1>3. ASSUME q >= c PROVE m >= c * n
  <2> DEFINE d == q - c
  <2>1. d \in Nat /\ q = c + d
    BY <1>1, <1>3
  <2> HIDE DEF d
  <2>2. q * n = c * n + d * n
    BY <2>1
  <2>3. d * n \in Nat /\ c * n \in Nat
    BY <2>1, ProductNat
  <2> QED
    BY <1>1, <2>2, <2>3
<1>4. c * n \in Nat
  BY ProductNat
<1> QED
  BY <1>1, <1>2, <1>3, <1>4 DEF q

LEMMA Distributes ==
  ASSUME NEW a \in Int, NEW b \in Int, NEW c \in Int PROVE a * (b + c) = a * b + a * c
  OBVIOUS

LEMMA SquareNat == ASSUME NEW a \in Int PROVE a * a \in Nat
<1>1. CASE a \in Nat
  BY <1>1, ProductNat
<1>2. CASE -a \in Nat
  <2>1. (-a) * (-a) \in Nat
    BY <1>2, ProductNat
  <2> QED
    BY <2>1
<1> QED
  BY <1>1, <1>2

LEMMA MagnitudeNat == ASSUME NEW a \in Int PROVE Magnitude(a) \in Nat
  BY DEF Magnitude

(* A product with a number of at most l in size. *)
LEMMA ProductBound ==
  ASSUME NEW a \in Int, NEW l \in Nat, Magnitude(a) <= l, NEW c \in Int
  PROVE  a * c <= l * Magnitude(c)
<1>1. -l <= a /\ a <= l
  BY DEF Magnitude
<1>2. CASE c >= 0
  <2>1. (l - a) * c \in Nat
    <3>1. l - a \in Nat /\ c \in Nat
      BY <1>1, <1>2
    <3> DEFINE d == l - a
    <3> HIDE DEF d
    <3>2. d * c \in Nat
      BY <3>1, ProductNat DEF d
    <3> QED
      BY <3>2 DEF d
  <2>2. (l - a) * c = l * c - a * c
    OBVIOUS
  <2>3. Magnitude(c) = c
    BY <1>2 DEF Magnitude
  <2> DEFINE A == l * c  B == a * c
  <2>4. A \in Int /\ B \in Int /\ A - B \in Nat
    BY <2>1, <2>2
  <2> HIDE DEF A, B
  <2>5. B <= A
    BY <2>4
  <2> QED
    BY <2>3, <2>5 DEF A, B
<1>3. CASE c < 0
  <2> DEFINE e == -c  d == l + a
  <2>1. d \in Nat /\ e \in Nat /\ c = -e
    BY <1>1, <1>3
  <2>2. Magnitude(c) = e
    BY <1>3 DEF Magnitude
  <2> HIDE DEF e
  <2>3. d * e \in Nat
    BY <2>1, ProductNat
  <2>4. d * e = l * e + a * e /\ a * c = -(a * e)
    BY <2>1
  <2> HIDE DEF d
  <2> DEFINE A == l * e  B == a * e
  <2>5. A \in Int /\ B \in Int /\ A + B \in Nat
    BY <2>1, <2>3, <2>4
  <2>6. a * c = -B
    BY <2>4
  <2> HIDE DEF A, B
  <2>7. -B <= A
    BY <2>5
  <2> QED
    BY <2>2, <2>6, <2>7 DEF A
<1> QED
  BY <1>2, <1>3

(* The three cases of the threshold. *)
LEMMA ThresholdCases ==
  ASSUME NEW a \in Int, NEW l, l = Cut * Scale, l \in Nat, Scale \in Nat \ {0}
  PROVE  \/ Magnitude(a) <= l /\ Thresholded(a) = 0
         \/ a >= l /\ Thresholded(a) = a - l
         \/ a <= -l /\ Thresholded(a) = a + l
<1>1. Cut \in Nat /\ Magnitude(a) \in Nat
  BY FistaAssumption, MagnitudeNat
<1> DEFINE s == Scale
<1>2. s \in Nat \ {0}
  OBVIOUS
<1> HIDE DEF s
<1>3. Magnitude(a) \div s < Cut <=> Magnitude(a) < Cut * s
  BY <1>1, <1>2, DivLess
<1>4. CASE Magnitude(a) < l
  <2>1. Magnitude(a) < Cut * s
    BY <1>4 DEF s
  <2>2. Magnitude(a) \div s < Cut
    BY <1>3, <2>1
  <2>3. Thresholded(a) = 0
    BY <2>2 DEF Thresholded, s
  <2>4. Magnitude(a) <= l
    BY <1>1, <1>4
  <2> QED
    BY <2>3, <2>4
<1>5. CASE ~(Magnitude(a) < l)
  <2>1. Thresholded(a) = a - Sign(a) * Cut * s
    BY <1>3, <1>5 DEF Thresholded, s
  <2>2. CASE a > 0
    <3>1. Sign(a) = 1 /\ Magnitude(a) = a
      BY <2>2 DEF Sign, Magnitude
    <3>2. 1 * Cut * s = Cut * s
      BY <1>1, <1>2
    <3> QED
      BY <1>5, <2>1, <3>1, <3>2 DEF s
  <2>3. CASE a < 0
    <3>1. Sign(a) = -1 /\ Magnitude(a) = -a
      BY <2>3 DEF Sign, Magnitude
    <3>2. (-1) * Cut * s = -(Cut * s)
      BY <1>1, <1>2
    <3>3. Thresholded(a) = a + l
      BY <2>1, <3>1, <3>2 DEF s
    <3> QED
      BY <1>5, <3>1, <3>3
  <2>4. CASE a = 0
    <3>1. Sign(a) = 0 /\ Magnitude(a) = 0
      BY <2>4 DEF Sign, Magnitude
    <3>2. 0 * Cut * s = 0
      BY <1>1, <1>2
    <3>3. Thresholded(a) = 0 /\ l = 0
      BY <1>5, <2>1, <2>4, <3>1, <3>2
    <3> QED
      BY <2>4, <3>1, <3>3
  <2> QED
    BY <2>2, <2>3, <2>4
<1> QED
  BY <1>4, <1>5

(* How much a step from c to b, along the gradient g = a - c, gains and costs. *)
Gain(b, c, g) == (b - c) * (b - c) - 2 * (g * (b - c))

LEMMA ThresholdBest ==
  ASSUME NEW c \in Int, NEW g \in Int, NEW b, b = Thresholded(g + c),
         NEW l, l = Cut * Scale, l \in Nat, Scale \in Nat \ {0}
  PROVE  Gain(b, c, g) + 2 * (l * Magnitude(b)) <= 2 * (l * Magnitude(c))
<1> DEFINE a == g + c
<1>1. a \in Int /\ g = a - c /\ b = Thresholded(a)
  OBVIOUS
<1> HIDE DEF a
<1> DEFINE M == l * Magnitude(c)
<1>2. M \in Nat
  BY MagnitudeNat, ProductNat
<1>3. Magnitude(l) = l /\ Magnitude(-l) = l /\ -l \in Int
  BY DEF Magnitude
<1>4. l * c <= M /\ (-l) * c <= M
  <2> DEFINE e == -l
  <2>1. Magnitude(l) <= l /\ l \in Int /\ e \in Int /\ Magnitude(e) <= l
    BY <1>3
  <2> HIDE DEF e
  <2>2. l * c <= l * Magnitude(c)
    BY <2>1, ProductBound
  <2>3. e * c <= l * Magnitude(c)
    BY <2>1, ProductBound
  <2> QED
    BY <2>2, <2>3 DEF e
<1>5. CASE Magnitude(a) <= l /\ b = 0
  <2>1. a * c <= M
    BY <1>1, <1>5, ProductBound
  <2>2. Gain(b, c, g) = 2 * (a * c) - c * c
    BY <1>1, <1>5 DEF Gain
  <2>3. c * c \in Nat
    BY SquareNat
  <2>4. l * Magnitude(b) = 0
    BY <1>5 DEF Magnitude
  <2> DEFINE A == a * c  C == c * c
  <2>5. A \in Int
    BY <1>1
  <2> HIDE DEF A, C, M
  <2>6. 2 * A - C + 2 * 0 <= 2 * M
    BY <1>2, <2>1, <2>3, <2>5 DEF A, C
  <2> QED
    BY <2>2, <2>4, <2>6 DEF A, C, M
<1>6. CASE a >= l /\ b = a - l
  <2> DEFINE d == b - c  D == d * d  L == l * b  K == l * c  J == l * d
  <2>1. d \in Int /\ b \in Nat /\ b \in Int /\ g = d + l /\ b = c + d
    BY <1>1, <1>6
  <2>2. Magnitude(b) = b
    BY <2>1 DEF Magnitude
  <2>3. L = K + J
    <3> HIDE DEF d
    <3>1. l * (c + d) = l * c + l * d
      BY <2>1, Distributes
    <3> QED
      BY <2>1, <3>1
  <2>4. D \in Nat
    <3> HIDE DEF d
    <3> QED
      BY <2>1, SquareNat
  <2>5. Gain(b, c, g) = D - 2 * ((d + l) * d)
    BY <2>1 DEF Gain
  <2>6. (d + l) * d = D + J
    <3> HIDE DEF d
    <3> QED
      BY <2>1
  <2>7. J \in Int /\ K \in Int /\ L \in Int
    <3> HIDE DEF d
    <3> QED
      BY <2>1
  <2> HIDE DEF d, D, L, K, J, M
  <2>8. (D - 2 * (D + J)) + 2 * L <= 2 * M
    BY <1>2, <1>4, <2>3, <2>4, <2>7 DEF K
  <2> QED
    BY <2>2, <2>5, <2>6, <2>8 DEF L, M
<1>7. CASE a <= -l /\ b = a + l
  <2> DEFINE d == b - c  D == d * d  L == l * b  K == l * c  J == l * d
  <2>1. d \in Int /\ b <= 0 /\ b \in Int /\ g = d - l /\ b = c + d
    BY <1>1, <1>7
  <2>2. l * Magnitude(b) = -L
    <3>1. Magnitude(b) = -b
      BY <2>1 DEF Magnitude
    <3> QED
      BY <2>1, <3>1
  <2>3. L = K + J
    <3> HIDE DEF d
    <3>1. l * (c + d) = l * c + l * d
      BY <2>1, Distributes
    <3> QED
      BY <2>1, <3>1
  <2>4. D \in Nat
    <3> HIDE DEF d
    <3> QED
      BY <2>1, SquareNat
  <2>5. Gain(b, c, g) = D - 2 * ((d - l) * d)
    BY <2>1 DEF Gain
  <2>6. (d - l) * d = D - J
    <3> HIDE DEF d
    <3> QED
      BY <2>1
  <2>7. J \in Int /\ K \in Int /\ L \in Int /\ (-l) * c = -K
    <3> HIDE DEF d
    <3> QED
      BY <2>1
  <2>9. -K <= M
    BY <1>4, <2>7
  <2> HIDE DEF d, D, L, K, J, M
  <2>8. (D - 2 * (D - J)) + 2 * (-L) <= 2 * M
    BY <1>2, <2>3, <2>4, <2>7, <2>9
  <2> QED
    BY <2>2, <2>5, <2>6, <2>8 DEF M
<1> QED
  BY <1>1, <1>5, <1>6, <1>7, ThresholdCases

-----------------------------------------------------------------------------
(* What a step a costs along z, place by place and together. *)
Costs(a, z) == [p \in Places |-> a[p] * a[p] - 2 * (z[p] * a[p])]

LEMMA CostsSum ==
  ASSUME NEW a \in Pictures(N), NEW z \in Pictures(N)
  PROVE  /\ Summable(Costs(a, z), Places)
         /\ SumOf(Costs(a, z), Places) = Dot(a, a) - 2 * Dot(z, a)
<1> DEFINE f == Costs(a, z)  g == Products(a, a)  h == Products(z, a)
           m == [p \in Places |-> (-2) * h[p]]
<1>1. Summable(g, Places) /\ Summable(h, Places) /\ Dot(z, a) \in Int /\ Dot(a, a) \in Int
  BY ProductsSummable
<1>2. ASSUME NEW p \in Places PROVE f[p] = g[p] + m[p]
  <2>1. a[p] \in Int /\ z[p] \in Int
    BY DEF Pictures, Places
  <2>2. a[p] * a[p] \in Int /\ z[p] * a[p] \in Int
    BY <2>1
  <2>3. f[p] = a[p] * a[p] - 2 * (z[p] * a[p]) /\ g[p] = a[p] * a[p] /\ m[p] = (-2) * (z[p] * a[p])
    BY DEF Costs, Products
  <2> DEFINE A == a[p] * a[p]  B == z[p] * a[p]
  <2>4. A \in Int /\ B \in Int /\ f[p] = A - 2 * B /\ g[p] = A /\ m[p] = (-2) * B
    BY <2>2, <2>3
  <2> HIDE DEF A, B, f, g, m
  <2> QED
    BY <2>4
<1>3. \A p \in Places : m[p] = (-2) * h[p]
  OBVIOUS
<1> HIDE DEF f, g, h, m
<1>4. SumOf(m, Places) = (-2) * SumOf(h, Places) /\ Summable(m, Places)
  <2> DEFINE w == -2
  <2>1. w \in Int /\ \A p \in Places : m[p] = w * h[p]
    BY <1>3
  <2> HIDE DEF w
  <2>2. SumOf(m, Places) = w * SumOf(h, Places) /\ Summable(m, Places)
    BY <1>1, <2>1, SumScale
  <2> QED
    BY <2>2 DEF w
<1>5. SumOf(f, Places) = SumOf(g, Places) + SumOf(m, Places) /\ Summable(f, Places)
  BY <1>1, <1>2, <1>4, SumAdd
<1>6. SumOf(g, Places) = Dot(a, a) /\ SumOf(h, Places) = Dot(z, a)
  BY DEF Dot, g, h
<1>7. SumOf(f, Places) = Dot(a, a) - 2 * Dot(z, a)
  BY <1>1, <1>4, <1>5, <1>6
<1> QED
  BY <1>5, <1>7 DEF f

LEMMA DotSwap ==
  ASSUME NEW a \in Pictures(N), NEW b \in Pictures(N) PROVE Dot(a, b) = Dot(b, a)
<1>1. \A p \in Places : Products(a, b)[p] = Products(b, a)[p]
  BY DEF Pictures, Places, Products
<1> QED
  BY <1>1, ProductsSummable, SumSame DEF Dot

LEMMA ExactMinus ==
  ASSUME NEW n \in Nat, NEW a \in Exact(n), NEW b \in Exact(n) PROVE Minus(a, b) \in Exact(n)
<1> DEFINE V == Multiples(Pow2[n])
<1>1. \A u, v \in V : u - v \in V
  BY Pow2Facts, MultiplesSum
<1>2. a \in [Places -> V] /\ b \in [Places -> V]
  BY DEF Exact, Grained, Places
<1> HIDE DEF V
<1>3. Minus(a, b) \in [Places -> V]
  BY <1>1, <1>2 DEF Minus
<1> QED
  BY <1>3 DEF Exact, Grained, Places, V

(* The misfit after a step q of the picture: what it costs at the pixels that were read. *)
Squares(a) == SumOf(Products(a, a), Sampled)

LEMMA MisfitStep ==
  ASSUME Typed, NEW t \in Pictures(N), NEW u \in Pictures(N)
  PROVE  Squares(Misfit(u)) <= Squares(Misfit(t)) + SumOf(Costs(Minus(u, t), Misfit(t)), Places)
<1> DEFINE q == Minus(u, t)  m == Misfit(t)  n == Misfit(u)  e == Costs(q, m)
           f == Products(m, m)  g == Products(n, n)
<1>1. q \in Pictures(N) /\ m \in Pictures(N) /\ n \in Pictures(N)
  BY ArraysInt, MisfitInt
<1>2. Sampled \subseteq Places /\ IsFiniteSet(Sampled)
  BY SampledPlaces, PlacesFinite, FS_Subset DEF Typed
<1>3. \A p \in Places : q[p] \in Int /\ m[p] \in Int /\ n[p] \in Int
  BY <1>1 DEF Pictures, Places
<1>4. ASSUME NEW p \in Sampled PROVE g[p] = f[p] + e[p]
  <2> DEFINE a == m[p]  b == q[p]
  <2>1. a \in Int /\ b \in Int /\ p \in Places
    BY <1>2, <1>3
  <2>2. n[p] = a - b
    <3> DEFINE v == y[LastFor(p)]
    <3>1. m[p] = v - t[p] /\ n[p] = v - u[p] /\ q[p] = u[p] - t[p]
      BY <2>1 DEF Misfit, Minus
    <3>2. t[p] \in Int /\ u[p] \in Int /\ v \in Int
      <4>1. t[p] \in Int /\ u[p] \in Int
        BY <2>1 DEF Pictures, Places
      <4>2. v \in Int
        BY ReadingInt
      <4> QED
        BY <4>1, <4>2
    <3> HIDE DEF v, m, n, q
    <3> QED
      BY <3>1, <3>2
  <2>3. g[p] = (a - b) * (a - b) /\ f[p] = a * a /\ e[p] = b * b - 2 * (a * b)
    BY <2>1, <2>2 DEF Products, Costs
  <2> HIDE DEF a, b, e, f, g
  <2>4. (a - b) * (a - b) = a * a + (b * b - 2 * (a * b))
    BY <2>1
  <2> QED
    BY <2>3, <2>4
<1>5. ASSUME NEW p \in Places \ Sampled PROVE e[p] >= 0
  <2> DEFINE b == q[p]
  <2>1. b \in Int /\ m[p] = 0
    BY <1>3 DEF Misfit
  <2>2. e[p] = b * b - 2 * (0 * b)
    BY <2>1 DEF Costs
  <2> HIDE DEF b, e
  <2>3. b * b \in Nat /\ 0 * b = 0
    BY <2>1, SquareNat
  <2> QED
    BY <2>2, <2>3
<1>6. Summable(e, Places) /\ Summable(f, Places) /\ Summable(g, Places)
  BY <1>1, CostsSum, ProductsSummable
<1> DEFINE R == Places \ Sampled
<1>7. /\ Summable(e, Sampled) /\ Summable(f, Sampled) /\ Summable(e, R)
      /\ Sampled \cap R = {} /\ Sampled \cup R = Places /\ \A p \in R : e[p] >= 0
  <2>1. IsFiniteSet(R) /\ R \subseteq Places
    BY PlacesFinite, FS_Subset
  <2> QED
    BY <1>2, <1>5, <1>6, <2>1 DEF Summable
<1> HIDE DEF R, e, f, g
<1>8. SumOf(g, Sampled) = SumOf(f, Sampled) + SumOf(e, Sampled)
  BY <1>4, <1>7, SumAdd
<1>9. SumOf(e, Places) = SumOf(e, Sampled) + SumOf(e, R)
  BY <1>7, SumUnion
<1>10. SumOf(e, R) >= 0
  BY <1>7, SumNotNegative
<1>11. SumOf(f, Sampled) \in Int /\ SumOf(e, Sampled) \in Int /\ SumOf(e, R) \in Int
  BY <1>7, SumInt
<1>12. SumOf(g, Sampled) <= SumOf(f, Sampled) + SumOf(e, Places)
  BY <1>8, <1>9, <1>10, <1>11
<1> QED
  BY <1>12 DEF Squares, e, f, g

(* The sizes of the coefficients, and how the threshold pays for what it changes. *)
Sizes(a) == [i \in Places |-> Magnitude(a[i])]

LEMMA SizesSummable ==
  ASSUME NEW a \in Pictures(N) PROVE Summable(Sizes(a), Places) /\ SumOf(Sizes(a), Places) \in Int
<1>1. \A i \in Places : Sizes(a)[i] \in Int
  BY MagnitudeNat DEF Pictures, Places, Sizes
<1>2. Summable(Sizes(a), Places)
  BY <1>1, PlacesFinite DEF Summable
<1> QED
  BY <1>2, SumInt

LEMMA ThresholdStep ==
  ASSUME NEW b \in Pictures(N), NEW c \in Pictures(N), NEW g \in Pictures(N),
         \A i \in Places : b[i] = Thresholded(g[i] + c[i]),
         NEW l, l = Cut * Scale, l \in Nat, Scale \in Nat \ {0}
  PROVE  SumOf(Costs(Minus(b, c), g), Places) + (2 * l) * SumOf(Sizes(b), Places)
           <= (2 * l) * SumOf(Sizes(c), Places)
<1> DEFINE e == Costs(Minus(b, c), g)  h == Times(2 * l, Sizes(b))  v == Times(2 * l, Sizes(c))
           f == [i \in Places |-> e[i] + h[i]]
<1>1. Minus(b, c) \in Pictures(N) /\ 2 * l \in Int
  BY ArraysInt
<1>2. Summable(e, Places)
  BY <1>1, CostsSum
<1>3. /\ SumOf(h, Places) = (2 * l) * SumOf(Sizes(b), Places) /\ Summable(h, Places)
      /\ SumOf(v, Places) = (2 * l) * SumOf(Sizes(c), Places) /\ Summable(v, Places)
  <2> DEFINE w == 2 * l
  <2>1. \A i \in Places : Times(w, Sizes(b))[i] = w * Sizes(b)[i] /\ Times(w, Sizes(c))[i] = w * Sizes(c)[i]
    BY DEF Times
  <2>2. w \in Int
    BY <1>1
  <2> HIDE DEF w
  <2>3. /\ SumOf(Times(w, Sizes(b)), Places) = w * SumOf(Sizes(b), Places)
        /\ Summable(Times(w, Sizes(b)), Places)
    BY <2>1, <2>2, SizesSummable, SumScale
  <2>4. /\ SumOf(Times(w, Sizes(c)), Places) = w * SumOf(Sizes(c), Places)
        /\ Summable(Times(w, Sizes(c)), Places)
    BY <2>1, <2>2, SizesSummable, SumScale
  <2> QED
    BY <2>3, <2>4 DEF w
<1>4. ASSUME NEW i \in Places PROVE f[i] <= v[i]
  <2> DEFINE bi == b[i]  ci == c[i]  gi == g[i]
  <2>1. bi \in Int /\ ci \in Int /\ gi \in Int /\ bi = Thresholded(gi + ci)
    BY DEF Pictures, Places
  <2>2. e[i] = Gain(bi, ci, gi)
    BY DEF Costs, Minus, Gain
  <2>3. h[i] = (2 * l) * Magnitude(bi) /\ v[i] = (2 * l) * Magnitude(ci)
    BY DEF Times, Sizes
  <2>4. f[i] = e[i] + h[i]
    OBVIOUS
  <2> HIDE DEF bi, ci, gi, e, f, h, v
  <2>5. Gain(bi, ci, gi) + 2 * (l * Magnitude(bi)) <= 2 * (l * Magnitude(ci))
    BY <2>1, ThresholdBest
  <2>6. Magnitude(bi) \in Nat /\ Magnitude(ci) \in Nat
    BY <2>1, MagnitudeNat
  <2>7. (2 * l) * Magnitude(bi) = 2 * (l * Magnitude(bi)) /\ (2 * l) * Magnitude(ci) = 2 * (l * Magnitude(ci))
    BY <2>6
  <2> QED
    BY <2>2, <2>3, <2>4, <2>5, <2>7
<1>5. \A i \in Places : f[i] = e[i] + h[i]
  OBVIOUS
<1> HIDE DEF e, f, h, v
<1>6. SumOf(f, Places) = SumOf(e, Places) + SumOf(h, Places) /\ Summable(f, Places)
  BY <1>2, <1>3, <1>5, SumAdd
<1>7. SumOf(f, Places) <= SumOf(v, Places)
  BY <1>3, <1>4, <1>6, SumLess
<1> QED
  BY <1>3, <1>6, <1>7 DEF e

LEMMA ObjectiveIs ==
  ASSUME Typed, NEW x \in Pictures(N), PictureOf(x) \in Pictures(N), NEW l, l = Cut * Scale, Scale \in Nat
  PROVE  /\ Objective(x) = Squares(Misfit(PictureOf(x))) + (2 * l) * SumOf(Sizes(x), Places)
         /\ Squares(Misfit(PictureOf(x))) \in Int
<1> DEFINE m == Misfit(PictureOf(x))
           f == [p \in Sampled |-> m[p] * m[p]]
<1>1. Sampled \subseteq Places /\ IsFiniteSet(Sampled) /\ m \in Pictures(N)
  BY SampledPlaces, PlacesFinite, FS_Subset, MisfitInt DEF Typed
<1>2. Summable(Products(m, m), Sampled)
  BY <1>1, ProductsSummable DEF Summable
<1>3. \A p \in Sampled : Products(m, m)[p] = f[p]
  BY <1>1 DEF Products
<1>4. SumFunction(f) = SumOf(f, Sampled)
  BY DEF SumFunction, SumOf
<1>5. SumFunction([i \in Places |-> Magnitude(x[i])]) = SumOf(Sizes(x), Places)
  BY DEF SumFunction, SumOf, Sizes
<1>6. Objective(x) = SumFunction(f) + 2 * Cut * Scale * SumFunction([i \in Places |-> Magnitude(x[i])])
  BY DEF Objective
<1> HIDE DEF f, m
<1>7. SumOf(f, Sampled) = Squares(m)
  BY <1>2, <1>3, SumSame DEF Squares
<1>8. Squares(m) \in Int
  BY <1>2, SumInt DEF Squares
<1>9. 2 * Cut * Scale = 2 * l
  <2> DEFINE s == Scale
  <2>1. s \in Nat /\ Cut \in Nat /\ l = Cut * s
    BY FistaAssumption
  <2> HIDE DEF s
  <2>2. 2 * Cut * s = 2 * l
    BY <2>1
  <2> QED
    BY <2>2 DEF s
<1> QED
  BY <1>4, <1>5, <1>6, <1>7, <1>8, <1>9 DEF m

(* An iteration, from the coefficients c to b, with the misfit's coefficients g. *)
LEMMA IterationDescends ==
  ASSUME Typed, NEW c \in Exact(Order), NEW b \in Exact(Order), NEW g \in Pictures(N),
         Analysis(g, Misfit(PictureOf(c))), \A i \in Places : b[i] = Thresholded(g[i] + c[i])
  PROVE  Objective(b) <= Objective(c)
<1> DEFINE t == PictureOf(c)  u == PictureOf(b)  d == Minus(b, c)  q == Minus(u, t)  m == Misfit(t)
           l == Cut * Scale
<1>1. /\ Synthesis(t, c) /\ t \in Pictures(N) /\ c \in Pictures(N)
      /\ Synthesis(u, b) /\ u \in Pictures(N) /\ b \in Pictures(N)
  BY SynthesisExact
<1>2. l \in Nat /\ Scale \in Nat \ {0}
  <2>1. Cut \in Nat /\ 0 \in 0..Its
    BY FistaAssumption
  <2>2. Scale \in Nat \ {0}
    BY <2>1, RoomRange, RoomEnds, PowPositive
  <2> DEFINE s == Scale
  <2>3. s \in Nat
    BY <2>2
  <2> HIDE DEF s
  <2>4. Cut * s \in Nat
    BY <2>1, <2>3, ProductNat
  <2> QED
    BY <2>2, <2>4 DEF s
<1>3. d \in Exact(Order) /\ d \in Pictures(N) /\ q \in Pictures(N) /\ m \in Pictures(N)
  BY <1>1, ExactMinus, ArraysInt, MisfitInt, FistaAssumption
<1>4. Synthesis(q, d)
  BY <1>1, SynthesisMinus
<1>5. l = Cut * Scale /\ Analysis(g, m)
  OBVIOUS
<1>6. Objective(b) = Squares(Misfit(u)) + (2 * l) * SumOf(Sizes(b), Places) /\ Squares(Misfit(u)) \in Int
  BY <1>1, <1>2, ObjectiveIs
<1>7. Objective(c) = Squares(m) + (2 * l) * SumOf(Sizes(c), Places) /\ Squares(m) \in Int
  BY <1>1, <1>2, ObjectiveIs
<1>8. Squares(Misfit(u)) <= Squares(m) + SumOf(Costs(q, m), Places)
  BY <1>1, MisfitStep
<1>9. SumOf(Costs(d, g), Places) + (2 * l) * SumOf(Sizes(b), Places) <= (2 * l) * SumOf(Sizes(c), Places)
  <2> HIDE DEF l
  <2> QED
    BY <1>1, <1>2, <1>5, ThresholdStep
<1> HIDE DEF t, u, d, q, m, l
<1>10. Dot(q, q) = Dot(d, d)
  BY <1>3, <1>4, KeepsLength
<1>11. Dot(m, q) = Dot(g, d)
  <2>1. Dot(m, q) = Dot(d, g)
    BY <1>3, <1>4, <1>5, Adjoint
  <2> QED
    BY <1>3, <2>1, DotSwap
<1>12. SumOf(Costs(q, m), Places) = SumOf(Costs(d, g), Places) /\ SumOf(Costs(d, g), Places) \in Int
  <2>1. SumOf(Costs(q, m), Places) = Dot(q, q) - 2 * Dot(m, q)
    BY <1>3, CostsSum
  <2>2. SumOf(Costs(d, g), Places) = Dot(d, d) - 2 * Dot(g, d) /\ Summable(Costs(d, g), Places)
    BY <1>3, CostsSum
  <2> QED
    BY <1>10, <1>11, <2>1, <2>2, SumInt
<1> DEFINE A == (2 * l) * SumOf(Sizes(b), Places)  B == (2 * l) * SumOf(Sizes(c), Places)
<1>13. A \in Int /\ B \in Int
  <2>1. SumOf(Sizes(b), Places) \in Int /\ SumOf(Sizes(c), Places) \in Int
    BY <1>1, SizesSummable
  <2> QED
    BY <1>2, <2>1
<1>14. Objective(b) = Squares(Misfit(u)) + A /\ Objective(c) = Squares(m) + B
       /\ SumOf(Costs(d, g), Places) + A <= B
  BY <1>6, <1>7, <1>9
<1> HIDE DEF A, B
<1> QED
  BY <1>6, <1>7, <1>8, <1>12, <1>13, <1>14

LEMMA CorrectDescends == ASSUME FistaInv, Correct PROVE Objective(xold') <= Objective(xold1)
<1>1. /\ Typed /\ k < Its /\ xold \in Exact(Room(k)) /\ xold = xold1 /\ t1 = PictureOf(xold)
      /\ Coarse(temp3, Misfit(t1), Order)
      /\ xold' = [i \in Places |-> Thresholded(temp3[i] + xold[i])]
      /\ pc' = "extrapolate" /\ k' = k + 1
  BY DEF FistaInv, Analysing, Correct
<1>2. Order \in Nat /\ k \in 0..Its /\ k + 1 \in 0..Its
  BY <1>1, FistaAssumption DEF Typed
<1> DEFINE b == xold'  n == Room(k + 1)  m == Room(k)
<1>3. n \in Nat /\ Order <= n /\ m \in Nat /\ Order <= m
  BY <1>2, RoomRange
<1>4. b \in Exact(n)
  <2>1. AtTop'
    BY CorrectStep DEF FistaInv
  <2> QED
    BY <1>1, <2>1 DEF AtTop
<1>5. xold \in Exact(m)
  BY <1>1
<1> HIDE DEF n, m
<1>6. b \in Exact(Order) /\ xold \in Exact(Order)
  BY <1>2, <1>3, <1>4, <1>5, ExactLess
<1>7. Analysis(temp3, Misfit(PictureOf(xold))) /\ temp3 \in Pictures(N)
  <2>1. t1 \in Pictures(N) /\ temp3 \in Pictures(N)
    BY <1>1 DEF Typed
  <2>2. Misfit(t1) \in Pictures(N)
    BY <1>1, <2>1, MisfitInt
  <2> QED
    BY <1>1, <2>1, <2>2, CoarseEnd
<1>8. \A i \in Places : b[i] = Thresholded(temp3[i] + xold[i])
  BY <1>1
<1> HIDE DEF b
<1>9. Objective(b) <= Objective(xold)
  BY <1>1, <1>6, <1>7, <1>8, IterationDescends
<1> QED
  BY <1>1, <1>9 DEF b

(***************************************************************************)
(* No iteration of FISTA makes the fit worse, for pictures of any size and  *)
(* any readings, of any pixels in any order (see Descent): the step of      *)
(* length 1 and the threshold together never raise the objective.          *)
(***************************************************************************)
THEOREM IterationsDescend == Spec => Descent
<1>1. FistaInv /\ [Next]_vars => [k' = k + 1 => Objective(xold') <= Objective(xold1)]_vars
  <2> SUFFICES ASSUME FistaInv, Next, k' = k + 1 PROVE Objective(xold') <= Objective(xold1)
    OBVIOUS
  <2>1. k \in Nat
    BY FistaAssumption DEF FistaInv, Typed
  <2>2. k' # k
    BY <2>1
  <2>3. Correct
    BY <2>2 DEF Next, Extrapolate, Synthesise, Compare, Analyse, Finish, Picture
  <2> QED
    BY <2>3, CorrectDescends
<1> QED
  BY <1>1, AlwaysFista, PTL DEF Spec, Descent
=============================================================================
