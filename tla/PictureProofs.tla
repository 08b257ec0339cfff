--------------------------- MODULE PictureProofs ---------------------------
(* The two demos that compute pictures, for every size of a screen and of a  *)
(* picture.  Whatever framebuff_demo.c draws as a point, a line or a circle  *)
(* is that figure and is on the screen: a line's heights are the nearest     *)
(* pixels, whichever way the float falls at a tie, and the circle's two      *)
(* loops complete each other where the middle of an axis is rounded down.    *)
(* And yuv_demo.c converts a whole file of even sizes exactly, although the  *)
(* offset of the chroma runs along and is kept from column to column.        *)
EXTENDS Framebuffer, Yuv, WellFoundedInduction, TLAPS

(* A set of numbers that is not empty has a least one, and the numbers that  *)
(* are reached from 0 one after the other are all.                           *)
LEMMA LeastExists ==
  ASSUME NEW S \in SUBSET Nat, S # {} PROVE \E k \in S : \A j \in S : k <= j
<1> DEFINE R == OpToRel(<, Nat)
<1>1. PICK k \in S : \A j \in S : ~(<<j, k>> \in R)
  BY NatLessThanWellFounded, WFMin
<1>2. \A j \in S : ~(j < k)
  BY <1>1 DEF OpToRel
<1> QED
  BY <1>2

LEMMA Induction ==
  ASSUME NEW T, 0 \in T, \A n \in Nat : n \in T => n + 1 \in T PROVE \A n \in Nat : n \in T
<1> DEFINE S == {n \in Nat : n \notin T}
<1>1. S = {}
  <2> SUFFICES ASSUME S # {} PROVE FALSE
    OBVIOUS
  <2>1. PICK k \in S : \A j \in S : k <= j
    BY LeastExists
  <2>2. k \in Nat /\ k # 0
    OBVIOUS
  <2>3. k - 1 \in Nat /\ k - 1 \notin S /\ (k - 1) + 1 = k
    BY <2>1, <2>2
  <2> QED
    BY <2>2, <2>3
<1> QED
  BY <1>1

-----------------------------------------------------------------------------
LEMMA DivFacts ==
  ASSUME NEW n \in Int, NEW r \in Nat \ {0}
  PROVE  /\ n \div r \in Int /\ n % r \in 0 .. r - 1
         /\ n = r * (n \div r) + (n % r)
  OBVIOUS

(* The multiples of a number are that number apart.                          *)
LEMMA Apart ==
  ASSUME NEW r \in Nat \ {0}, NEW d \in Int, r * d < r, -r < r * d
  PROVE  d = 0
<1>1. CASE d > 0
  BY <1>1
<1>2. CASE d < 0
  BY <1>2
<1> QED
  BY <1>1, <1>2

LEMMA DivUnique ==
  ASSUME NEW r \in Nat \ {0}, NEW q \in Int, NEW x \in 0 .. r - 1, NEW n \in Int, n = r * q + x
  PROVE  n \div r = q /\ n % r = x
<1> DEFINE p == n \div r
           y == n % r
<1>1. p \in Int /\ y \in 0 .. r - 1 /\ n = r * p + y
  BY DivFacts
<1> HIDE DEF p, y
<1>2. r * (q - p) = y - x
  BY <1>1
<1>3. q - p = 0
  BY <1>1, <1>2, Apart
<1>4. p = q /\ y = x
  BY <1>1, <1>2, <1>3
<1> QED
  BY <1>4 DEF p, y

(* A pixel of the screen is a location of the mapping, and gives its column  *)
(* and row back.                                                             *)
LEMMA AtFacts ==
  ASSUME NEW x \in 0 .. XRes - 1, NEW y \in 0 .. YRes - 1
  PROVE  At(x, y) \in Locations /\ At(x, y) % XRes = x /\ At(x, y) \div XRes = y
<1> USE FramebufferAssumption
<1>1. y * XRes \in Nat /\ (YRes - 1) * XRes \in Nat /\ y * XRes <= (YRes - 1) * XRes
  OBVIOUS
<1>2. (YRes - 1) * XRes = XRes * YRes - XRes /\ XRes * YRes \in Nat
  OBVIOUS
<1>3. At(x, y) \in Locations
  BY <1>1, <1>2 DEF At, Locations
<1>4. At(x, y) \in Int /\ At(x, y) = XRes * y + x
  BY DEF At
<1>5. At(x, y) % XRes = x /\ At(x, y) \div XRes = y
  BY <1>4, DivUnique
<1> QED
  BY <1>3, <1>5

-----------------------------------------------------------------------------
(* draw_line                                                                 *)

(* A height rounded to a pixel, with ties either way, is within half a pixel *)
(* of the exact one.                                                         *)
Nearest(v, rise, d) == v \in Int /\ -d <= 2 * rise - 2 * (d * v) /\ 2 * rise - 2 * (d * v) <= d

LEMMA RoundedIsNearest ==
  ASSUME NEW d \in Nat \ {0}, NEW rise \in Int, NEW low \in BOOLEAN,
         low => (2 * rise + d) % (2 * d) = 0
  PROVE  Nearest(((2 * rise + d) \div (2 * d)) - (IF low THEN 1 ELSE 0), rise, d)
<1> DEFINE n == 2 * rise + d
           q == n \div (2 * d)
           m == n % (2 * d)
<1>1. n \in Int /\ 2 * d \in Nat \ {0}
  OBVIOUS
<1>2. q \in Int /\ m \in 0 .. 2 * d - 1 /\ n = (2 * d) * q + m
  BY <1>1, DivFacts
<1>3. low => m = 0
  OBVIOUS
<1>4. n = 2 * rise + d
  OBVIOUS
<1> HIDE DEF n, q, m
<1>5. (2 * d) * q = 2 * (d * q) /\ d * q \in Int /\ d * (q - 1) = d * q - d
  BY <1>2
<1>6. CASE low
  BY <1>2, <1>3, <1>4, <1>5, <1>6 DEF Nearest
<1>7. CASE ~low
  BY <1>2, <1>4, <1>5, <1>7 DEF Nearest
<1> QED
  BY <1>6, <1>7 DEF q, n

(* A whole height is not rounded, and rounding does not leave the range of   *)
(* the heights.                                                              *)
LEMMA NearestBounds ==
  ASSUME NEW d \in Nat \ {0}, NEW rise \in Int, NEW v \in Int, Nearest(v, rise, d),
         NEW a \in Int
  PROVE  (d * a <= rise => a <= v) /\ (rise <= d * a => v <= a)
<1>1. d * (v - a) = d * v - d * a /\ d * v \in Int /\ d * a \in Int
  OBVIOUS
<1>2. ASSUME d * a <= rise, v < a PROVE FALSE
  <2>1. -d <= 2 * (d * (v - a)) + 2 * d - d
    BY <1>1, <1>2 DEF Nearest
  <2>2. d * (v - a) <= d * (-1)
    BY <1>2
  <2> QED
    BY <1>1, <1>2, <2>2 DEF Nearest
<1>3. ASSUME rise <= d * a, a < v PROVE FALSE
  <2>1. d * 1 <= d * (v - a)
    BY <1>3
  <2> QED
    BY <1>1, <1>3, <2>1 DEF Nearest
<1> QED
  BY <1>2, <1>3

LEMMA NearestWhole ==
  ASSUME NEW d \in Nat \ {0}, NEW rise \in Int, NEW v \in Int, Nearest(v, rise, d),
         NEW a \in Int, rise = d * a
  PROVE  v = a
<1>1. d * a <= rise /\ rise <= d * a
  OBVIOUS
<1>2. a <= v /\ v <= a
  BY <1>1, NearestBounds
<1> QED
  BY <1>2

(* Neighbouring columns, the line not steeper than a diagonal.               *)
LEMMA NearestNeighbours ==
  ASSUME NEW d \in Nat \ {0}, NEW rise \in Int, NEW up \in Int, up <= d, -d <= up,
         NEW v \in Int, Nearest(v, rise, d), NEW next \in Int, next = rise + up,
         NEW w \in Int, Nearest(w, next, d),
         (up = d \/ up = -d) => \E a \in Int : rise = d * a
  PROVE  AbsOf(w - v) <= 1
<1>1. CASE up = d \/ up = -d
  <2>1. PICK a \in Int : rise = d * a
    BY <1>1
  <2>2. v = a
    BY <2>1, NearestWhole
  <2>3. CASE up = d
    <3>1. next = d * (a + 1) /\ a + 1 \in Int
      BY <2>1, <2>3
    <3>2. w = a + 1
      BY <3>1, NearestWhole
    <3> QED
      BY <2>2, <3>2 DEF AbsOf
  <2>4. CASE up = -d
    <3>0. d * (a - 1) = d * a - d
      OBVIOUS
    <3>1. PICK b \in Int : b = a - 1
      OBVIOUS
    <3>2. next = d * b
      BY <2>1, <2>4, <3>0, <3>1
    <3>3. w = b
      BY <3>2, NearestWhole
    <3> QED
      BY <2>2, <3>1, <3>3 DEF AbsOf
  <2> QED
    BY <1>1, <2>3, <2>4
<1>2. CASE up # d /\ up # -d
  <2>1. d * (w - v) = d * w - d * v /\ d * v \in Int /\ d * w \in Int
    OBVIOUS
  <2>2. 2 * (d * (w - v)) < 4 * d /\ -(4 * d) < 2 * (d * (w - v))
    BY <1>2, <2>1 DEF Nearest
  <2>3. ~(w - v >= 2)
    <3> SUFFICES ASSUME w - v >= 2 PROVE FALSE
      OBVIOUS
    <3>1. d * 2 <= d * (w - v)
      OBVIOUS
    <3> QED
      BY <2>1, <2>2, <3>1
  <2>4. ~(w - v <= -2)
    <3> SUFFICES ASSUME w - v <= -2 PROVE FALSE
      OBVIOUS
    <3>1. d * (w - v) <= d * (-2)
      OBVIOUS
    <3> QED
      BY <2>1, <2>2, <3>1
  <2> QED
    BY <2>3, <2>4 DEF AbsOf
<1> QED
  BY <1>1, <1>2

(* A line that is neither a row nor a column, drawn with the ties of low.    *)
HeightAt(x1, y1, x2, y2, x, low) ==
  ((2 * Rise(x1, y1, x2, y2, x) + AbsOf(x2 - x1)) \div (2 * AbsOf(x2 - x1)))
    - (IF x \in low THEN 1 ELSE 0)

LEMMA HeightFacts ==
  ASSUME NEW x1 \in Int, NEW x2 \in Int, NEW y1 \in Int, NEW y2 \in Int, x1 # x2,
         NEW low \in SUBSET Ties(x1, y1, x2, y2), NEW x \in Between(x1, x2)
  PROVE  LET d == AbsOf(x2 - x1)
             v == HeightAt(x1, y1, x2, y2, x, low)
         IN /\ Nearest(v, Rise(x1, y1, x2, y2, x), d)
            /\ (y1 <= y2 => v \in y1 .. y2) /\ (y2 <= y1 => v \in y2 .. y1)
            /\ (x = x1 => v = y1) /\ (x = x2 => v = y2)
<1> DEFINE d == AbsOf(x2 - x1)
           v == HeightAt(x1, y1, x2, y2, x, low)
           rise == Rise(x1, y1, x2, y2, x)
           k == IF x2 > x1 THEN x - x1 ELSE x1 - x
<1>1. d \in Nat \ {0} /\ x \in Int /\ k \in 0 .. d /\ (x = x1 => k = 0) /\ (x = x2 => k = d)
  BY DEF AbsOf, Between
<1>2. rise = d * y1 + (y2 - y1) * k
  <2>1. CASE x2 > x1
    BY <1>1, <2>1 DEF Rise, AbsOf
  <2>2. CASE x2 < x1
    <3>1. rise = d * y1 + ((-1) * (y2 - y1)) * (x - x1)
      BY <1>1, <2>2 DEF Rise
    <3>2. ((-1) * (y2 - y1)) * (x - x1) = (y2 - y1) * (x1 - x)
      BY <1>1
    <3>3. k = x1 - x
      BY <2>2
    <3> QED
      BY <3>1, <3>2, <3>3
  <2> QED
    BY <2>1, <2>2
<1>3. x \in low => (2 * rise + d) % (2 * d) = 0
  BY DEF Ties
<1>4. v = ((2 * rise + d) \div (2 * d)) - (IF x \in low THEN 1 ELSE 0)
  BY DEF HeightAt
<1> HIDE DEF d, v, rise, k
<1>5. rise \in Int
  BY <1>1, <1>2
<1>6. Nearest(v, rise, d)
  <2>1. (x \in low) \in BOOLEAN
    OBVIOUS
  <2> QED
    BY <1>1, <1>3, <1>4, <1>5, <2>1, RoundedIsNearest
<1>7. v \in Int
  BY <1>6 DEF Nearest
<1>8. PICK a \in Int, b \in Int, p \in Int, q \in Int :
        a = d * y1 /\ b = d * y2 /\ p = (y2 - y1) * k /\ q = (y2 - y1) * d
  BY <1>1
<1>9. rise = a + p /\ b = a + q
  BY <1>1, <1>2, <1>8
<1>10. (y1 <= y2 => 0 <= p /\ p <= q) /\ (y2 <= y1 => p <= 0 /\ q <= p)
  <2>1. CASE y1 <= y2
    BY <1>1, <1>8, <2>1
  <2>2. CASE y2 <= y1
    <3>1. 0 <= (y1 - y2) * k /\ (y1 - y2) * k <= (y1 - y2) * d
      BY <1>1, <2>2
    <3>2. (y1 - y2) * k = -p /\ (y1 - y2) * d = -q
      BY <1>1, <1>8
    <3>3. p <= 0 /\ q <= p
      BY <3>1, <3>2
    <3> QED
      BY <1>1, <1>8, <2>2, <3>3
  <2> QED
    BY <2>1, <2>2
<1>14. (y1 <= y2 => d * y1 <= rise /\ rise <= d * y2) /\ (y2 <= y1 => d * y2 <= rise /\ rise <= d * y1)
  BY <1>8, <1>9, <1>10
<1>11. (y1 <= y2 => v \in y1 .. y2) /\ (y2 <= y1 => v \in y2 .. y1)
  <2>1. y1 <= y2 => y1 <= v /\ v <= y2
    BY <1>1, <1>5, <1>6, <1>7, <1>14, NearestBounds
  <2>2. y2 <= y1 => y2 <= v /\ v <= y1
    BY <1>1, <1>5, <1>6, <1>7, <1>14, NearestBounds
  <2> QED
    BY <1>7, <2>1, <2>2
<1>12. (x = x1 => rise = d * y1) /\ (x = x2 => rise = d * y2)
  BY <1>1, <1>8, <1>9
<1>13. (x = x1 => v = y1) /\ (x = x2 => v = y2)
  BY <1>1, <1>5, <1>6, <1>7, <1>12, NearestWhole
<1> QED
  BY <1>6, <1>11, <1>13 DEF d, v, rise

LEMMA HeightNeighbours ==
  ASSUME NEW x1 \in Int, NEW x2 \in Int, NEW y1 \in Int, NEW y2 \in Int, x1 # x2,
         NEW low \in SUBSET Ties(x1, y1, x2, y2), NEW x \in Between(x1, x2), x + 1 \in Between(x1, x2),
         AbsOf(y2 - y1) <= AbsOf(x2 - x1)
  PROVE  AbsOf(HeightAt(x1, y1, x2, y2, x + 1, low) - HeightAt(x1, y1, x2, y2, x, low)) <= 1
<1> DEFINE d == AbsOf(x2 - x1)
           v == HeightAt(x1, y1, x2, y2, x, low)
           w == HeightAt(x1, y1, x2, y2, x + 1, low)
           rise == Rise(x1, y1, x2, y2, x)
           next == Rise(x1, y1, x2, y2, x + 1)
           s == IF x2 > x1 THEN 1 ELSE -1
           up == s * (y2 - y1)
<1>1. d \in Nat \ {0} /\ x \in Int /\ up \in Int /\ up <= d /\ -d <= up
  BY DEF AbsOf, Between
<1>2. rise = d * y1 + up * (x - x1) /\ next = d * y1 + up * ((x + 1) - x1)
  BY DEF Rise
<1>3. Nearest(v, rise, d) /\ Nearest(w, next, d)
  BY HeightFacts
<1> HIDE DEF d, v, w, rise, next, s, up
<1>4. v \in Int /\ w \in Int
  BY <1>3 DEF Nearest
<1>5. rise \in Int /\ next \in Int /\ next = rise + up
  BY <1>1, <1>2
<1>6. up = d \/ up = -d => \E a \in Int : rise = d * a
  <2>1. CASE up = d
    <3>1. rise = d * (y1 + (x - x1)) /\ y1 + (x - x1) \in Int
      BY <1>1, <1>2, <2>1
    <3> QED
      BY <3>1
  <2>2. CASE up = -d
    <3>1. rise = d * (y1 - (x - x1)) /\ y1 - (x - x1) \in Int
      BY <1>1, <1>2, <2>2
    <3> QED
      BY <3>1
  <2> QED
    BY <2>1, <2>2
<1>7. AbsOf(w - v) <= 1
  BY <1>1, <1>3, <1>4, <1>5, <1>6, NearestNeighbours
<1> QED
  BY <1>7 DEF v, w

(* On the screen the rounded height is not cut.                              *)
LEMMA RoundedFacts ==
  ASSUME NEW x1 \in Int, NEW x2 \in Int, NEW y1 \in 0 .. YRes - 1, NEW y2 \in 0 .. YRes - 1, x1 # x2,
         NEW low \in SUBSET Ties(x1, y1, x2, y2), NEW x \in Between(x1, x2)
  PROVE  /\ Rounded(x1, y1, x2, y2, x, low) = HeightAt(x1, y1, x2, y2, x, low)
         /\ Rounded(x1, y1, x2, y2, x, low) \in 0 .. YRes - 1
<1> DEFINE v == HeightAt(x1, y1, x2, y2, x, low)
<1>1. YRes \in Nat /\ y1 \in Int /\ y2 \in Int
  BY FramebufferAssumption
<1>2. (y1 <= y2 => v \in y1 .. y2) /\ (y2 <= y1 => v \in y2 .. y1)
  BY <1>1, HeightFacts
<1>3. Rounded(x1, y1, x2, y2, x, low) = IF v < 0 THEN 0 ELSE IF v > YRes THEN YRes ELSE v
  BY DEF Rounded, HeightAt
<1> HIDE DEF v
<1>4. v \in 0 .. YRes - 1
  BY <1>1, <1>2
<1>5. Rounded(x1, y1, x2, y2, x, low) = v
  BY <1>1, <1>3, <1>4
<1> QED
  BY <1>4, <1>5 DEF v

(* What a line must be, of its cells and its ends, counted from 0.           *)
IsLine(cells, x1, y1, x2, y2) ==
  /\ cells \subseteq Locations
  /\ At(x1, y1) \in cells /\ At(x2, y2) \in cells
  /\ AbsOf(y2 - y1) <= AbsOf(x2 - x1) =>
       \A l \in cells : (l % XRes) < (IF x1 > x2 THEN x1 ELSE x2) =>
         \E m \in cells : /\ (m % XRes) = (l % XRes) + 1
                          /\ AbsOf((m \div XRes) - (l \div XRes)) <= 1

LEMMA LineIsLine ==
  ASSUME NEW x1 \in 0 .. XRes - 1, NEW x2 \in 0 .. XRes - 1,
         NEW y1 \in 0 .. YRes - 1, NEW y2 \in 0 .. YRes - 1, NEW low,
         x1 # x2 => low \in SUBSET Ties(x1, y1, x2, y2)
  PROVE  IsLine(LineCells(x1, y1, x2, y2, low), x1, y1, x2, y2)
<1> USE FramebufferAssumption
<1>0. XRes \in Nat /\ YRes \in Nat /\ x1 \in Int /\ x2 \in Int /\ y1 \in Int /\ y2 \in Int
  OBVIOUS
<1>1. CASE x1 = x2
  <2>1. LineCells(x1, y1, x2, y2, low) = {At(x1, y) : y \in Between(y1, y2)}
    BY <1>1 DEF LineCells
  <2>2. \A y \in Between(y1, y2) : y \in 0 .. YRes - 1
    BY DEF Between
  <2>3. y1 \in Between(y1, y2) /\ y2 \in Between(y1, y2)
    BY DEF Between
  <2>4. \A y \in Between(y1, y2) : At(x1, y) \in Locations /\ At(x1, y) % XRes = x1
    BY <2>2, AtFacts
  <2> QED
    BY <1>1, <2>1, <2>3, <2>4 DEF IsLine
<1>2. CASE x1 # x2 /\ y1 = y2
  <2>1. LineCells(x1, y1, x2, y2, low) = {At(x, y1) : x \in Between(x1, x2)}
    BY <1>2 DEF LineCells
  <2>2. \A x \in Between(x1, x2) : x \in 0 .. XRes - 1
    BY DEF Between
  <2>3. x1 \in Between(x1, x2) /\ x2 \in Between(x1, x2)
    BY DEF Between
  <2>4. \A x \in Between(x1, x2) :
          At(x, y1) \in Locations /\ At(x, y1) % XRes = x /\ At(x, y1) \div XRes = y1
    BY <2>2, AtFacts
  <2>5. \A x \in Between(x1, x2) : x < (IF x1 > x2 THEN x1 ELSE x2) => x + 1 \in Between(x1, x2)
    BY DEF Between
  <2>6. AbsOf(y1 - y1) <= 1
    BY DEF AbsOf
  <2> QED
    BY <1>2, <2>1, <2>3, <2>4, <2>5, <2>6 DEF IsLine
<1>3. CASE x1 # x2 /\ y1 # y2
  <2> DEFINE H(x) == Rounded(x1, y1, x2, y2, x, low)
             C == {At(x, H(x)) : x \in Between(x1, x2)}
  <2>1. LineCells(x1, y1, x2, y2, low) = C
    BY <1>3 DEF LineCells
  <2>2. \A x \in Between(x1, x2) : x \in 0 .. XRes - 1
    BY DEF Between
  <2>3. x1 \in Between(x1, x2) /\ x2 \in Between(x1, x2)
    BY DEF Between
  <2>4. \A x \in Between(x1, x2) : H(x) \in 0 .. YRes - 1 /\ H(x) = HeightAt(x1, y1, x2, y2, x, low)
    BY <1>3, RoundedFacts
  <2>5. H(x1) = y1 /\ H(x2) = y2
    BY <1>3, <2>3, <2>4, HeightFacts
  <2>6. ASSUME AbsOf(y2 - y1) <= AbsOf(x2 - x1), NEW x \in Between(x1, x2),
               x < (IF x1 > x2 THEN x1 ELSE x2)
        PROVE  x + 1 \in Between(x1, x2) /\ AbsOf(H(x + 1) - H(x)) <= 1
    <3>1. x + 1 \in Between(x1, x2)
      BY <2>6 DEF Between
    <3> QED
      BY <1>3, <2>4, <2>6, <3>1, HeightNeighbours
  <2> HIDE DEF H
  <2>7. \A x \in Between(x1, x2) :
          At(x, H(x)) \in Locations /\ At(x, H(x)) % XRes = x /\ At(x, H(x)) \div XRes = H(x)
    BY <2>2, <2>4, AtFacts
  <2>8. At(x1, y1) \in C /\ At(x2, y2) \in C
    BY <2>3, <2>5
  <2>9. C \subseteq Locations
    BY <2>7
  <2>10. ASSUME AbsOf(y2 - y1) <= AbsOf(x2 - x1), NEW l \in C, (l % XRes) < (IF x1 > x2 THEN x1 ELSE x2)
         PROVE  \E m \in C : (m % XRes) = (l % XRes) + 1 /\ AbsOf((m \div XRes) - (l \div XRes)) <= 1
    <3>1. PICK x \in Between(x1, x2) : l = At(x, H(x))
      OBVIOUS
    <3>2. l % XRes = x /\ l \div XRes = H(x)
      BY <2>7, <3>1
    <3>3. x + 1 \in Between(x1, x2) /\ AbsOf(H(x + 1) - H(x)) <= 1
      BY <2>6, <2>10, <3>2
    <3>4. At(x + 1, H(x + 1)) \in C /\ At(x + 1, H(x + 1)) % XRes = x + 1
          /\ At(x + 1, H(x + 1)) \div XRes = H(x + 1)
      BY <2>7, <3>3
    <3> QED
      BY <3>2, <3>3, <3>4
  <2> HIDE DEF C
  <2> QED
    BY <2>1, <2>8, <2>9, <2>10 DEF IsLine
<1> QED
  BY <1>1, <1>2, <1>3

-----------------------------------------------------------------------------
(* draw_circle                                                               *)

LEMMA Squares ==
  ASSUME NEW a \in Int, NEW b \in Int
  PROVE  /\ a * a \in Nat /\ b * b \in Nat
         /\ 0 <= a /\ a <= b => a * a <= b * b
         /\ 0 <= a /\ a < b => a * a < b * b
         /\ (-a) * (-a) = a * a
         /\ (a + b) * (a + b) = a * a + 2 * (a * b) + b * b
<1>1. CASE a >= 0
  BY <1>1
<1>2. CASE a < 0
  BY <1>2
<1>3. 0 <= a /\ a <= b => a * a <= a * b /\ a * b <= b * b
  OBVIOUS
<1>4. 0 <= a /\ a < b => a * a <= a * b /\ a * b < b * b
  OBVIOUS
<1>5. b * b \in Nat
  <2>1. CASE b >= 0
    BY <2>1
  <2>2. CASE b < 0
    BY <2>2
  <2> QED
    BY <2>1, <2>2
<1>6. a * a \in Nat
  BY <1>1, <1>2
<1> QED
  BY <1>3, <1>4, <1>5, <1>6

(* The first pixel inside, when the pixel before it is outside.              *)
LEMMA FirstIs ==
  ASSUME NEW r \in Nat \ {0}, NEW i \in Int, NEW j \in -r .. 0,
         Inside(i, j, r), ~Inside(i, j - 1, r)
  PROVE  FirstInside(i, r) = j
<1> DEFINE P(c) == Inside(i, c, r) /\ \A k \in -r .. c - 1 : ~Inside(i, k, r)
<1>1. P(j)
  <2> SUFFICES ASSUME NEW k \in -r .. j - 1 PROVE ~Inside(i, k, r)
    OBVIOUS
  <2>1. k \in Int /\ 0 <= 1 - j /\ 1 - j <= -k
    OBVIOUS
  <2>2. (1 - j) * (1 - j) <= (-k) * (-k)
    BY <2>1, Squares
  <2>3. (-k) * (-k) = k * k /\ (1 - j) * (1 - j) = (j - 1) * (j - 1)
    BY <2>1
  <2>4. i * i \in Int /\ r * r \in Int /\ k * k \in Int /\ (j - 1) * (j - 1) \in Int
    OBVIOUS
  <2> QED
    BY <2>2, <2>3, <2>4 DEF Inside
<1>2. PICK c \in -r .. 0 : c = FirstInside(i, r) /\ P(c)
  BY <1>1 DEF FirstInside
<1>3. ~(c < j)
  BY <1>1, <1>2
<1>4. ~(j < c)
  BY <1>1, <1>2
<1> QED
  BY <1>2, <1>3, <1>4

LEMMA FirstFacts ==
  ASSUME NEW r \in Nat \ {0}, NEW i \in Int, FirstInside(i, r) # 1
  PROVE  /\ FirstInside(i, r) \in 1 - r .. 0
         /\ Inside(i, FirstInside(i, r), r) /\ ~Inside(i, FirstInside(i, r) - 1, r)
<1> DEFINE P(c) == Inside(i, c, r) /\ \A k \in -r .. c - 1 : ~Inside(i, k, r)
           S == {n \in Nat : n <= r /\ Inside(i, n - r, r)}
<1>1. PICK j \in -r .. 0 : Inside(i, j, r)
  BY DEF FirstInside
<1>2. j + r \in S
  <2>1. (j + r) - r = j /\ j + r \in Nat /\ j + r <= r
    OBVIOUS
  <2> QED
    BY <1>1, <2>1
<1>3. PICK n \in S : \A m \in S : n <= m
  BY <1>2, LeastExists
<1>4. P(n - r) /\ n - r \in -r .. 0
  <2> SUFFICES ASSUME NEW k \in -r .. (n - r) - 1, Inside(i, k, r) PROVE FALSE
    BY <1>3
  <2>1. k + r \in Nat /\ (k + r) - r = k /\ k + r < n /\ k + r <= r
    BY <1>3
  <2> QED
    BY <1>3, <2>1
<1>5. PICK c \in -r .. 0 : c = FirstInside(i, r) /\ P(c)
  BY <1>1, <1>4 DEF FirstInside
<1>6. c # -r
  <2>1. i * i \in Nat /\ r * r \in Nat /\ (-r) * (-r) = r * r
    BY Squares
  <2> QED
    BY <1>5, <2>1 DEF Inside
<1>7. c - 1 \in -r .. c - 1
  BY <1>6
<1> QED
  BY <1>5, <1>6, <1>7

(* The offsets from the centre that are painted, with i along one axis.      *)
Painted(a, b, r) ==
  \E i \in Middle(r) :
    /\ FirstInside(i, r) # 1
    /\ \/ a = i /\ b \in {FirstInside(i, r) - 1, 1 - FirstInside(i, r)}
       \/ b = i /\ a \in {FirstInside(i, r) - 1, 1 - FirstInside(i, r)}

(* The offsets near the radius, where the pixel that is painted may also be  *)
(* the one opposite the first inside.                                        *)
LEMMA NearRadius ==
  ASSUME NEW r \in Nat \ {0}, NEW i \in Int, FirstInside(i, r) # 1,
         NEW b \in Int, b \in {FirstInside(i, r) - 1, 1 - FirstInside(i, r), -FirstInside(i, r)}
  PROVE  i * i + b * b < (r + 1) * (r + 1) /\ i * i + b * b >= (r - 1) * (r - 1)
<1>1. PICK j \in 1 - r .. 0 : j = FirstInside(i, r) /\ Inside(i, j, r) /\ ~Inside(i, j - 1, r)
  BY FirstFacts
<1>2. PICK ii \in Int, jj \in Int, rr \in Int : ii = i * i /\ jj = j * j /\ rr = r * r
  OBVIOUS
<1>3. (j - 1) * (j - 1) = jj - 2 * j + 1 /\ (1 - j) * (1 - j) = jj - 2 * j + 1 /\ (-j) * (-j) = jj
  BY <1>2
<1>4. (r + 1) * (r + 1) = rr + 2 * r + 1 /\ (r - 1) * (r - 1) = rr - 2 * r + 1
  BY <1>2
<1>5. ii + jj < rr /\ ii + (jj - 2 * j + 1) >= rr
  BY <1>1, <1>2, <1>3 DEF Inside
<1>6. b * b = jj - 2 * j + 1 \/ b * b = jj
  BY <1>1, <1>3
<1>7. CASE b * b = jj
  BY <1>2, <1>4, <1>5, <1>7
<1>8. CASE b * b = jj - 2 * j + 1
  BY <1>2, <1>4, <1>5, <1>8
<1> QED
  BY <1>6, <1>7, <1>8

(* The middle part of an axis reaches one pixel further to the left, where   *)
(* the quotient is rounded down.                                             *)
LEMMA MiddleFacts ==
  ASSUME NEW r \in Nat \ {0}
  PROVE  \A i \in Int : i \in Middle(r) <=> i \in -r .. r /\ -3 * r - 3 <= 4 * i /\ 4 * i <= 3 * r
<1>1. (-3 * r) \div 4 \in Int /\ 4 * ((-3 * r) \div 4) <= -3 * r /\ -3 * r - 3 <= 4 * ((-3 * r) \div 4)
  BY DivFacts
<1> QED
  BY <1>1 DEF Middle

(* The offset whose opposite is not gone over: the other axis paints it.     *)
LEMMA ReachIsPainted ==
  ASSUME NEW r \in Nat \ {0}, NEW p \in 1 .. r, NEW q \in Nat,
         p * p + q * q < r * r, p * p + (q + 1) * (q + 1) >= r * r,
         3 * r < 4 * p, 4 * p <= 3 * r + 3
  PROVE  4 * (q + 1) <= 3 * r /\ (q + 1) * (q + 1) + (p - 1) * (p - 1) < r * r
<1>1. PICK pp \in Nat, qq \in Nat, rr \in Nat : pp = p * p /\ qq = q * q /\ rr = r * r
  BY Squares
<1>2. pp + qq < rr
  BY <1>1
<1>3. (3 * r + 1) * (3 * r + 1) <= (4 * p) * (4 * p)
  <2>1. 3 * r + 1 \in Int /\ 4 * p \in Int /\ 0 <= 3 * r + 1 /\ 3 * r + 1 <= 4 * p
    OBVIOUS
  <2> QED
    BY <2>1, Squares
<1>4. (3 * r + 1) * (3 * r + 1) = 9 * rr + 6 * r + 1 /\ (4 * p) * (4 * p) = 16 * pp
  BY <1>1
<1>5. q < p
  <2> SUFFICES ASSUME p <= q PROVE FALSE
    OBVIOUS
  <2>1. pp <= qq
    BY <1>1, Squares
  <2> QED
    BY <1>2, <1>3, <1>4, <2>1
<1>6. (q + 1) * (q + 1) = qq + 2 * q + 1 /\ (p - 1) * (p - 1) = pp - 2 * p + 1
  BY <1>1
<1>7. p < r
  BY <1>1, <1>2
<1>8. 4 * (q + 1) <= 3 * r
  <2> SUFFICES ASSUME 3 * r - 3 <= 4 * q PROVE FALSE
    OBVIOUS
  <2>1. (3 * r - 3) * (3 * r - 3) <= (4 * q) * (4 * q)
    <3>1. 3 * r - 3 \in Int /\ 4 * q \in Int /\ 0 <= 3 * r - 3 /\ 3 * r - 3 <= 4 * q
      OBVIOUS
    <3> QED
      BY <3>1, Squares
  <2>2. (3 * r - 3) * (3 * r - 3) = 9 * rr - 18 * r + 9 /\ (4 * q) * (4 * q) = 16 * qq
    BY <1>1
  <2>3. rr - 6 * r + 5 < 0
    BY <1>2, <1>3, <1>4, <2>1, <2>2
  <2>4. r < 5
    <3> SUFFICES ASSUME r >= 5 PROVE FALSE
      OBVIOUS
    <3>1. (r - 5) * (r - 1) = rr - 6 * r + 5
      BY <1>1
    <3>2. (r - 5) * (r - 1) >= 0
      OBVIOUS
    <3> QED
      BY <2>3, <3>1, <3>2
  <2> QED
    BY <1>1, <1>7, <2>3, <2>4
<1> QED
  BY <1>1, <1>2, <1>5, <1>6, <1>8

(* What is painted at an offset is painted at the opposite one.              *)
LEMMA PaintedOpposite ==
  ASSUME NEW r \in Nat \ {0}, NEW a \in Int, NEW b \in Int, Painted(a, b, r)
  PROVE  Painted(-a, -b, r)
<1>1. PICK i \in Middle(r) :
        /\ FirstInside(i, r) # 1
        /\ \/ a = i /\ b \in {FirstInside(i, r) - 1, 1 - FirstInside(i, r)}
           \/ b = i /\ a \in {FirstInside(i, r) - 1, 1 - FirstInside(i, r)}
  BY DEF Painted
<1>2. i \in -r .. r /\ i \in Int
  BY DEF Middle
<1>3. PICK j \in 1 - r .. 0 : j = FirstInside(i, r) /\ Inside(i, j, r) /\ ~Inside(i, j - 1, r)
  BY <1>1, <1>2, FirstFacts
<1>4. CASE -i \in Middle(r)
  <2>1. (-i) * (-i) = i * i /\ j \in -r .. 0 /\ j # 1
    BY <1>2
  <2>2. Inside(-i, j, r) /\ ~Inside(-i, j - 1, r)
    BY <1>3, <2>1 DEF Inside
  <2>3. FirstInside(-i, r) = j
    <3>1. PICK c \in Int : c = -i
      BY <1>2
    <3>2. FirstInside(c, r) = j
      BY <2>1, <2>2, <3>1, FirstIs
    <3> QED
      BY <3>1, <3>2
  <2>4. (a = i /\ b \in {j - 1, 1 - j}) \/ (b = i /\ a \in {j - 1, 1 - j})
    BY <1>1, <1>3
  <2>5. (-a = -i /\ -b \in {j - 1, 1 - j}) \/ (-b = -i /\ -a \in {j - 1, 1 - j})
    BY <2>4
  <2> QED
    BY <1>4, <2>1, <2>3, <2>5 DEF Painted
<1>5. CASE -i \notin Middle(r)
  <2>1. 4 * i < -3 * r /\ -3 * r - 3 <= 4 * i
    BY <1>2, <1>5, MiddleFacts
  <2>2. PICK p \in 1 .. r, q \in Nat : i = -p /\ j = -q
    <3>1. -i \in 1 .. r /\ -j \in Nat /\ i = -(-i) /\ j = -(-j)
      BY <1>2, <2>1
    <3> QED
      BY <3>1
  <2>3. p * p + q * q < r * r /\ p * p + (q + 1) * (q + 1) >= r * r
    <3>1. i * i = p * p /\ j * j = q * q /\ (j - 1) * (j - 1) = (q + 1) * (q + 1)
      BY <2>2
    <3>2. i * i + j * j < r * r /\ ~(i * i + (j - 1) * (j - 1) < r * r)
      BY <1>3 DEF Inside
    <3>3. p * p \in Int /\ (q + 1) * (q + 1) \in Int /\ r * r \in Int
      OBVIOUS
    <3> QED
      BY <3>1, <3>2, <3>3
  <2>4. 4 * (q + 1) <= 3 * r /\ (q + 1) * (q + 1) + (p - 1) * (p - 1) < r * r
    <3>1. 3 * r < 4 * p /\ 4 * p <= 3 * r + 3
      BY <2>1, <2>2
    <3> QED
      BY <2>3, <3>1, ReachIsPainted
  <2>5. PICK k \in {q + 1, -(q + 1)} : (a = i /\ -b = k) \/ (b = i /\ -a = k)
    <3>1. j - 1 = -(q + 1) /\ 1 - j = q + 1 /\ j - 1 \in Int
      BY <2>2
    <3>2. (a = i /\ b \in {-(q + 1), q + 1}) \/ (b = i /\ a \in {-(q + 1), q + 1})
      BY <1>1, <1>3, <3>1
    <3>3. ASSUME NEW c \in {-(q + 1), q + 1} PROVE -c \in {q + 1, -(q + 1)}
      OBVIOUS
    <3> QED
      BY <3>2, <3>3
  <2>6. k \in Middle(r) /\ k \in Int
    <3>1. k \in Int /\ k \in -r .. r /\ -3 * r - 3 <= 4 * k /\ 4 * k <= 3 * r
      BY <2>4
    <3> QED
      BY <3>1, MiddleFacts
  <2>7. k * k = (q + 1) * (q + 1) /\ (1 - p) * (1 - p) = (p - 1) * (p - 1)
        /\ ((1 - p) - 1) * ((1 - p) - 1) = p * p
    <3>1. (-(q + 1)) * (-(q + 1)) = (q + 1) * (q + 1)
      OBVIOUS
    <3> QED
      BY <3>1
  <2>8. Inside(k, 1 - p, r) /\ ~Inside(k, (1 - p) - 1, r)
    <3>1. p * p \in Int /\ (q + 1) * (q + 1) \in Int /\ r * r \in Int
      OBVIOUS
    <3> QED
      BY <2>3, <2>4, <2>7, <3>1 DEF Inside
  <2>9. FirstInside(k, r) = 1 - p /\ 1 - p # 1
    <3>1. PICK c \in -r .. 0 : c = 1 - p
      OBVIOUS
    <3>2. FirstInside(k, r) = c
      BY <2>6, <2>8, <3>1, FirstIs
    <3> QED
      BY <3>1, <3>2
  <2>10. -i = 1 - (1 - p)
    BY <2>2
  <2>11. (-a = -i /\ -b = k) \/ (-b = -i /\ -a = k)
    BY <2>5
  <2> QED
    BY <2>6, <2>9, <2>10, <2>11 DEF Painted
<1> QED
  BY <1>4, <1>5

(* A pair of pixels along an axis is on the screen, one of them or both.     *)
LEMMA PairFacts ==
  ASSUME NEW r \in Nat \ {0}, NEW i \in Int, FirstInside(i, r) # 1, NEW res \in Nat, NEW c \in 1 .. res
  PROVE  LET j == FirstInside(i, r) IN
         /\ \A y \in PairAt(c, i, r, res) : y \in 0 .. res - 1 /\ y - c \in {j - 1, 1 - j, -j}
         /\ c > r /\ c + r < res => PairAt(c, i, r, res) = {c + (j - 1), c + (1 - j)}
<1>1. PICK j \in 1 - r .. 0 : j = FirstInside(i, r)
  BY FirstFacts
<1> DEFINE near == IF c + j > 0 /\ c + j <= res THEN {(c + j) - 1} ELSE {}
           far  == IF near = {} THEN c - j ELSE c - j + 1
<1>2. PairAt(c, i, r, res) = near \cup (IF far >= 0 /\ far < res THEN {far} ELSE {})
  BY <1>1 DEF PairAt
<1>3. ASSUME NEW y \in PairAt(c, i, r, res)
      PROVE  y \in 0 .. res - 1 /\ y - c \in {j - 1, 1 - j, -j}
  <2>1. CASE y \in near
    BY <2>1
  <2>2. CASE y = far /\ far >= 0 /\ far < res
    BY <2>2
  <2> QED
    BY <1>2, <1>3, <2>1, <2>2
<1>4. ASSUME c > r, c + r < res PROVE PairAt(c, i, r, res) = {c + (j - 1), c + (1 - j)}
  <2>1. near = {c + (j - 1)} /\ far = c + (1 - j) /\ far >= 0 /\ far < res
    <3>1. c + j > 0 /\ c + j <= res /\ (c + j) - 1 = c + (j - 1)
      BY <1>4
    <3>2. near = {c + (j - 1)} /\ near # {}
      BY <3>1
    <3>3. c - j + 1 = c + (1 - j) /\ c + (1 - j) >= 0 /\ c + (1 - j) < res
      BY <1>4
    <3>4. far = c + (1 - j)
      BY <3>2, <3>3
    <3> HIDE DEF near, far
    <3> QED
      BY <3>2, <3>3, <3>4
  <2> HIDE DEF near, far
  <2> QED
    BY <1>2, <2>1
<1> QED
  BY <1>1, <1>3, <1>4

(* What a circle must be, of its cells.                                      *)
IsCircle(cells, x, y, r) ==
  LET d2(l) == ((l % XRes) - x) * ((l % XRes) - x) + ((l \div XRes) - y) * ((l \div XRes) - y)
  IN
  /\ cells \subseteq Locations
  /\ \A l \in cells : d2(l) < (r + 1) * (r + 1) /\ d2(l) >= (r - 1) * (r - 1)
  /\ x > r /\ x + r < XRes /\ y > r /\ y + r < YRes =>
       \A l \in cells : At(2 * x - (l % XRes), 2 * y - (l \div XRes)) \in cells

LEMMA CellsOfCircle ==
  ASSUME NEW x, NEW y, NEW r, NEW l
  PROVE  l \in CircleCells(x, y, r) <=>
           \/ \E i \in Middle(r) : /\ x + i >= 0 /\ x + i < XRes /\ FirstInside(i, r) # 1
                                   /\ \E q \in PairAt(y, i, r, YRes) : l = At(x + i, q)
           \/ \E i \in Middle(r) : /\ y + i >= 0 /\ y + i < YRes /\ FirstInside(i, r) # 1
                                   /\ \E q \in PairAt(x, i, r, XRes) : l = At(q, y + i)
<1> DEFINE found(c, res) == {i \in Middle(r) : c + i >= 0 /\ c + i < res /\ FirstInside(i, r) # 1}
           column(i) == {At(x + i, q) : q \in PairAt(y, i, r, YRes)}
           row(i)    == {At(q, y + i) : q \in PairAt(x, i, r, XRes)}
           columns == UNION {column(i) : i \in found(x, XRes)}
           rows    == UNION {row(i) : i \in found(y, YRes)}
<1>1. CircleCells(x, y, r) = columns \cup rows
  BY DEF CircleCells
<1>2. l \in columns <=> \E i \in found(x, XRes) : l \in column(i)
  <2> HIDE DEF found, column
  <2> QED
    OBVIOUS
<1>3. l \in rows <=> \E i \in found(y, YRes) : l \in row(i)
  <2> HIDE DEF found, row
  <2> QED
    OBVIOUS
<1> HIDE DEF columns, rows
<1>4. \A i : l \in column(i) <=> \E q \in PairAt(y, i, r, YRes) : l = At(x + i, q)
  OBVIOUS
<1>5. \A i : l \in row(i) <=> \E q \in PairAt(x, i, r, XRes) : l = At(q, y + i)
  OBVIOUS
<1> HIDE DEF column, row
<1> QED
  BY <1>1, <1>2, <1>3, <1>4, <1>5

LEMMA CircleCell ==
  ASSUME NEW x \in 1 .. XRes, NEW y \in 1 .. YRes, NEW r \in Nat \ {0}, NEW l \in CircleCells(x, y, r)
  PROVE  \E a, b \in Int, i \in Middle(r) :
           /\ x + a \in 0 .. XRes - 1 /\ y + b \in 0 .. YRes - 1 /\ l = At(x + a, y + b)
           /\ FirstInside(i, r) # 1
           /\ \/ a = i /\ y + b \in PairAt(y, i, r, YRes)
              \/ b = i /\ x + a \in PairAt(x, i, r, XRes)
<1> USE FramebufferAssumption
<1>1. Middle(r) \subseteq Int
  BY DEF Middle
<1>2. CASE \E i \in Middle(r) : /\ x + i >= 0 /\ x + i < XRes /\ FirstInside(i, r) # 1
                                /\ \E q \in PairAt(y, i, r, YRes) : l = At(x + i, q)
  <2>1. PICK i \in Middle(r) : /\ x + i >= 0 /\ x + i < XRes /\ FirstInside(i, r) # 1
                               /\ \E q \in PairAt(y, i, r, YRes) : l = At(x + i, q)
    BY <1>2
  <2>2. PICK q \in PairAt(y, i, r, YRes) : l = At(x + i, q)
    BY <2>1
  <2>3. i \in Int /\ q \in 0 .. YRes - 1
    BY <1>1, <2>1, PairFacts
  <2>4. q - y \in Int /\ y + (q - y) = q /\ x + i \in 0 .. XRes - 1
    BY <2>1, <2>3
  <2> QED
    BY <2>1, <2>2, <2>3, <2>4
<1>3. CASE \E i \in Middle(r) : /\ y + i >= 0 /\ y + i < YRes /\ FirstInside(i, r) # 1
                                /\ \E q \in PairAt(x, i, r, XRes) : l = At(q, y + i)
  <2>1. PICK i \in Middle(r) : /\ y + i >= 0 /\ y + i < YRes /\ FirstInside(i, r) # 1
                               /\ \E q \in PairAt(x, i, r, XRes) : l = At(q, y + i)
    BY <1>3
  <2>2. PICK q \in PairAt(x, i, r, XRes) : l = At(q, y + i)
    BY <2>1
  <2>3. i \in Int /\ q \in 0 .. XRes - 1
    BY <1>1, <2>1, PairFacts
  <2>4. q - x \in Int /\ x + (q - x) = q /\ y + i \in 0 .. YRes - 1
    BY <2>1, <2>3
  <2> QED
    BY <2>1, <2>2, <2>3, <2>4
<1> QED
  BY <1>2, <1>3, CellsOfCircle

(* On a screen that the circle fits, every offset that is painted is a cell. *)
LEMMA FittingCell ==
  ASSUME NEW x \in 1 .. XRes, NEW y \in 1 .. YRes, NEW r \in Nat \ {0},
         x > r, x + r < XRes, y > r, y + r < YRes, NEW a \in Int, NEW b \in Int
  PROVE  /\ Painted(a, b, r) => At(x + a, y + b) \in CircleCells(x, y, r)
         /\ \A i \in Middle(r) :
              /\ FirstInside(i, r) # 1
              /\ \/ a = i /\ y + b \in PairAt(y, i, r, YRes)
                 \/ b = i /\ x + a \in PairAt(x, i, r, XRes)
              => Painted(a, b, r)
<1> USE FramebufferAssumption
<1>1. \A i \in Middle(r) : i \in Int /\ x + i >= 0 /\ x + i < XRes /\ y + i >= 0 /\ y + i < YRes
  BY DEF Middle
<1>2. \A i \in Middle(r) : FirstInside(i, r) # 1 =>
        /\ FirstInside(i, r) \in Int
        /\ PairAt(y, i, r, YRes) = {y + (FirstInside(i, r) - 1), y + (1 - FirstInside(i, r))}
        /\ PairAt(x, i, r, XRes) = {x + (FirstInside(i, r) - 1), x + (1 - FirstInside(i, r))}
  BY <1>1, FirstFacts, PairFacts
<1>3. ASSUME Painted(a, b, r) PROVE At(x + a, y + b) \in CircleCells(x, y, r)
  <2>1. PICK i \in Middle(r) :
          /\ FirstInside(i, r) # 1
          /\ \/ a = i /\ b \in {FirstInside(i, r) - 1, 1 - FirstInside(i, r)}
             \/ b = i /\ a \in {FirstInside(i, r) - 1, 1 - FirstInside(i, r)}
    BY <1>3 DEF Painted
  <2>2. CASE a = i /\ b \in {FirstInside(i, r) - 1, 1 - FirstInside(i, r)}
    <3>1. y + b \in PairAt(y, i, r, YRes)
      BY <1>2, <2>1, <2>2
    <3> QED
      BY <1>1, <2>1, <2>2, <3>1, CellsOfCircle
  <2>3. CASE b = i /\ a \in {FirstInside(i, r) - 1, 1 - FirstInside(i, r)}
    <3>1. x + a \in PairAt(x, i, r, XRes)
      BY <1>2, <2>1, <2>3
    <3> QED
      BY <1>1, <2>1, <2>3, <3>1, CellsOfCircle
  <2> QED
    BY <2>1, <2>2, <2>3
<1>4. ASSUME NEW i \in Middle(r), FirstInside(i, r) # 1, a = i, y + b \in PairAt(y, i, r, YRes)
      PROVE  Painted(a, b, r)
  <2>1. PICK j \in Int : j = FirstInside(i, r)
    BY <1>2, <1>4
  <2>2. y + b = y + (j - 1) \/ y + b = y + (1 - j)
    BY <1>2, <1>4, <2>1
  <2>3. b = j - 1 \/ b = 1 - j
    BY <2>2
  <2> QED
    BY <1>4, <2>1, <2>3 DEF Painted
<1>5. ASSUME NEW i \in Middle(r), FirstInside(i, r) # 1, b = i, x + a \in PairAt(x, i, r, XRes)
      PROVE  Painted(a, b, r)
  <2>1. PICK j \in Int : j = FirstInside(i, r)
    BY <1>2, <1>5
  <2>2. x + a = x + (j - 1) \/ x + a = x + (1 - j)
    BY <1>2, <1>5, <2>1
  <2>3. a = j - 1 \/ a = 1 - j
    BY <2>2
  <2> QED
    BY <1>5, <2>1, <2>3 DEF Painted
<1> QED
  BY <1>3, <1>4, <1>5

LEMMA CircleIsCircle ==
  ASSUME NEW x \in 1 .. XRes, NEW y \in 1 .. YRes, NEW r \in Nat \ {0}
  PROVE  IsCircle(CircleCells(x, y, r), x, y, r)
<1> USE FramebufferAssumption
<1> DEFINE C == CircleCells(x, y, r)
<1>1. ASSUME NEW l \in C
      PROVE  /\ l \in Locations
             /\ LET dx == (l % XRes) - x
                    dy == (l \div XRes) - y
                IN dx * dx + dy * dy < (r + 1) * (r + 1) /\ dx * dx + dy * dy >= (r - 1) * (r - 1)
             /\ x > r /\ x + r < XRes /\ y > r /\ y + r < YRes =>
                  At(2 * x - (l % XRes), 2 * y - (l \div XRes)) \in C
  <2>1. PICK a \in Int, b \in Int, i \in Middle(r) :
           /\ x + a \in 0 .. XRes - 1 /\ y + b \in 0 .. YRes - 1 /\ l = At(x + a, y + b)
           /\ FirstInside(i, r) # 1
           /\ \/ a = i /\ y + b \in PairAt(y, i, r, YRes)
              \/ b = i /\ x + a \in PairAt(x, i, r, XRes)
    BY CircleCell
  <2>2. l \in Locations /\ l % XRes = x + a /\ l \div XRes = y + b
    BY <2>1, AtFacts
  <2>3. (l % XRes) - x = a /\ (l \div XRes) - y = b
    BY <2>2
  <2>4. i \in Int
    BY DEF Middle
  <2>5. a * a + b * b < (r + 1) * (r + 1) /\ a * a + b * b >= (r - 1) * (r - 1)
    <3>1. CASE a = i /\ y + b \in PairAt(y, i, r, YRes)
      <4>1. (y + b) - y = b
        OBVIOUS
      <4>2. b \in {FirstInside(i, r) - 1, 1 - FirstInside(i, r), -FirstInside(i, r)}
        BY <2>1, <2>4, <3>1, <4>1, PairFacts
      <4> QED
        BY <2>1, <2>4, <3>1, <4>2, NearRadius
    <3>2. CASE b = i /\ x + a \in PairAt(x, i, r, XRes)
      <4>1. (x + a) - x = a
        OBVIOUS
      <4>2. a \in {FirstInside(i, r) - 1, 1 - FirstInside(i, r), -FirstInside(i, r)}
        BY <2>1, <2>4, <3>2, <4>1, PairFacts
      <4>3. b * b + a * a < (r + 1) * (r + 1) /\ b * b + a * a >= (r - 1) * (r - 1)
        BY <2>1, <2>4, <3>2, <4>2, NearRadius
      <4>4. a * a + b * b = b * b + a * a
        OBVIOUS
      <4> QED
        BY <4>3, <4>4
    <3> QED
      BY <2>1, <3>1, <3>2
  <2>6. ASSUME x > r, x + r < XRes, y > r, y + r < YRes
        PROVE  At(2 * x - (l % XRes), 2 * y - (l \div XRes)) \in C
    <3>1. Painted(a, b, r)
      BY <2>1, <2>6, FittingCell
    <3>2. Painted(-a, -b, r) /\ -a \in Int /\ -b \in Int
      BY <3>1, PaintedOpposite
    <3>3. At(x + (-a), y + (-b)) \in C
      BY <2>6, <3>2, FittingCell
    <3>4. 2 * x - (x + a) = x + (-a) /\ 2 * y - (y + b) = y + (-b)
      OBVIOUS
    <3> QED
      BY <2>2, <3>3, <3>4
  <2> QED
    BY <2>2, <2>3, <2>5, <2>6
<1> HIDE DEF C
<1>2. IsCircle(C, x, y, r)
  BY <1>1 DEF IsCircle
<1> QED
  BY <1>2 DEF C

LEMMA DrawPointExact ==
  ASSUME NEW x \in Xs, NEW y \in Ys, Within(x, y),
         Paints([cmd |-> "point", x |-> x, y |-> y], {At(x - 1, y - 1)}, color)
  PROVE  DrawingExact'
<1> USE FramebufferAssumption
<1>1. x - 1 \in 0 .. XRes - 1 /\ y - 1 \in 0 .. YRes - 1
  BY DEF Within
<1>2. At(x - 1, y - 1) \in Locations
  BY <1>1, AtFacts
<1>3. last'.cmd = "point" /\ painted' = {At(x - 1, y - 1)}
  BY DEF Paints
<1> QED
  BY <1>2, <1>3 DEF DrawingExact, DrawsOnScreen, LineUnbroken, CircleIsRing

LEMMA DrawLineExact ==
  ASSUME NEW x1 \in Xs, NEW x2 \in Xs, NEW y1 \in Ys, NEW y2 \in Ys,
         Within(x1, y1), Within(x2, y2),
         NEW low \in SUBSET (IF x1 = x2 THEN {} ELSE Ties(x1 - 1, y1 - 1, x2 - 1, y2 - 1)),
         Paints([cmd |-> "line", x1 |-> x1, y1 |-> y1, x2 |-> x2, y2 |-> y2],
                LineCells(x1 - 1, y1 - 1, x2 - 1, y2 - 1, low), color)
  PROVE  DrawingExact'
<1> USE FramebufferAssumption
<1>1. PICK a1 \in 0 .. XRes - 1, a2 \in 0 .. XRes - 1, b1 \in 0 .. YRes - 1, b2 \in 0 .. YRes - 1 :
        a1 = x1 - 1 /\ a2 = x2 - 1 /\ b1 = y1 - 1 /\ b2 = y2 - 1
  <2>1. x1 - 1 \in 0 .. XRes - 1 /\ y1 - 1 \in 0 .. YRes - 1
    BY DEF Within
  <2>2. x2 - 1 \in 0 .. XRes - 1 /\ y2 - 1 \in 0 .. YRes - 1
    BY DEF Within
  <2> QED
    BY <2>1, <2>2
<1>2. x1 \in Int /\ x2 \in Int /\ y1 \in Int /\ y2 \in Int
  OBVIOUS
<1>3. a1 # a2 => low \in SUBSET Ties(a1, b1, a2, b2)
  BY <1>1
<1>4. last' = [cmd |-> "line", x1 |-> x1, y1 |-> y1, x2 |-> x2, y2 |-> y2]
      /\ painted' = LineCells(a1, b1, a2, b2, low)
  BY <1>1 DEF Paints
<1>5. IsLine(painted', a1, b1, a2, b2)
  BY <1>3, <1>4, LineIsLine
<1>6. last'.cmd = "line" /\ last'.x1 = x1 /\ last'.x2 = x2 /\ last'.y1 = y1 /\ last'.y2 = y2
  BY <1>4
<1>7. painted' \subseteq Locations
  BY <1>5 DEF IsLine
<1>8. At(x1 - 1, y1 - 1) \in painted' /\ At(x2 - 1, y2 - 1) \in painted'
  BY <1>1, <1>5 DEF IsLine
<1>9. ASSUME AbsOf(y2 - y1) <= AbsOf(x2 - x1), NEW l \in painted', (l % XRes) + 1 < (IF x1 > x2 THEN x1 ELSE x2)
      PROVE  \E m \in painted' : /\ (m % XRes) = (l % XRes) + 1
                                 /\ AbsOf((m \div XRes) - (l \div XRes)) <= 1
  <2>1. b2 - b1 = y2 - y1 /\ a2 - a1 = x2 - x1
    BY <1>1, <1>2
  <2>2. l \in Int /\ l % XRes \in Int
    <3>1. l \in Int
      BY <1>7 DEF Locations
    <3> QED
      BY <3>1, DivFacts
  <2>3. (l % XRes) < (IF a1 > a2 THEN a1 ELSE a2)
    BY <1>1, <1>2, <1>9, <2>2
  <2> QED
    BY <1>5, <1>9, <2>1, <2>3 DEF IsLine
<1> HIDE FramebufferAssumption
<1>10. DrawsOnScreen'
  BY <1>7 DEF DrawsOnScreen
<1>11. LineUnbroken'
  BY <1>6, <1>8, <1>9 DEF LineUnbroken
<1>12. CircleIsRing'
  BY <1>6 DEF CircleIsRing
<1> QED
  BY <1>10, <1>11, <1>12 DEF DrawingExact

LEMMA DrawCircleExact ==
  ASSUME NEW x \in Xs, NEW y \in Ys, NEW r \in Radii, Within(x, y), r > 0,
         Paints([cmd |-> "circle", x |-> x, y |-> y, r |-> r], CircleCells(x, y, r), color)
  PROVE  DrawingExact'
<1>1. x \in 1 .. XRes /\ y \in 1 .. YRes /\ r \in Nat \ {0}
  BY FramebufferAssumption DEF Within
<1>2. last' = [cmd |-> "circle", x |-> x, y |-> y, r |-> r] /\ painted' = CircleCells(x, y, r)
  BY DEF Paints
<1>3. IsCircle(painted', x, y, r)
  BY <1>1, <1>2, CircleIsCircle
<1>4. last'.cmd = "circle" /\ last'.x = x /\ last'.y = y /\ last'.r = r
  BY <1>2
<1>5. DrawsOnScreen'
  BY <1>3 DEF DrawsOnScreen, IsCircle
<1>6. LineUnbroken'
  BY <1>4 DEF LineUnbroken
<1>7. CircleIsRing'
  BY <1>3, <1>4 DEF CircleIsRing, IsCircle
<1> QED
  BY <1>5, <1>6, <1>7 DEF DrawingExact

(* No other command is a figure, and a command that fails draws nothing.     *)
LEMMA NoFigureExact ==
  ASSUME last'.cmd \in {"none", "clear", "picture"} \/ (DrawingExact /\ UNCHANGED <<last, painted>>)
  PROVE  DrawingExact'
<1>1. CASE last'.cmd \in {"none", "clear", "picture"}
  BY <1>1 DEF DrawingExact, DrawsOnScreen, LineUnbroken, CircleIsRing
<1>2. CASE DrawingExact /\ UNCHANGED <<last, painted>>
  <2>1. DrawsOnScreen' <=> DrawsOnScreen
    BY <1>2 DEF DrawsOnScreen
  <2>2. LineUnbroken' <=> LineUnbroken
    BY <1>2 DEF LineUnbroken
  <2>3. CircleIsRing' <=> CircleIsRing
    BY <1>2 DEF CircleIsRing
  <2> QED
    BY <1>2, <2>1, <2>2, <2>3 DEF DrawingExact
<1> QED
  BY <1>1, <1>2

(* The frame buffer demo draws what it is asked for on a screen of any size: *)
(* draw_line leaves no gap, draw_circle is symmetric and stays in its ring,  *)
(* and nothing is written outside the frame buffer.                          *)
THEOREM FbDrawingExact == FbSpec => []DrawingExact
<1>1. FbInit => DrawingExact
  BY DEF FbInit, None, DrawingExact, DrawsOnScreen, LineUnbroken, CircleIsRing
<1>2. ASSUME DrawingExact, [FbNext]_fbVars PROVE DrawingExact'
  <2>1. CASE UNCHANGED fbVars
    BY <1>2, <2>1, NoFigureExact DEF fbVars
  <2>2. CASE DrawFails
    BY <1>2, <2>2, NoFigureExact DEF DrawFails
  <2>3. ASSUME NEW c \in 1 .. 2, Color(c) PROVE DrawingExact'
    BY <1>2, <2>3, NoFigureExact DEF Color
  <2>4. CASE Clear
    BY <2>2, <2>4, NoFigureExact DEF Clear, Paints
  <2>5. ASSUME NEW x \in Xs, NEW y \in Ys, DrawPoint(x, y) PROVE DrawingExact'
    BY <2>2, <2>5, DrawPointExact DEF DrawPoint
  <2>6. ASSUME NEW x1 \in Xs, NEW x2 \in Xs, NEW y1 \in Ys, NEW y2 \in Ys, DrawLine(x1, y1, x2, y2)
        PROVE  DrawingExact'
    BY <2>2, <2>6, DrawLineExact DEF DrawLine
  <2>7. ASSUME NEW x \in Xs, NEW y \in Ys, NEW r \in Radii, DrawCircle(x, y, r) PROVE DrawingExact'
    BY <2>2, <2>7, DrawCircleExact DEF DrawCircle
  <2>8. ASSUME NEW x \in Xs, NEW y \in Ys, NEW w \in Sizes, NEW h \in Sizes, NEW bmp \in BOOLEAN,
               DrawPicture(x, y, w, h, bmp)
        PROVE  DrawingExact'
    <3>1. PICK cleared \in BOOLEAN, drawn \in BOOLEAN, readable \in BOOLEAN :
            /\ last' = IF drawn THEN [cmd |-> "picture"] ELSE IF cleared THEN [cmd |-> "clear"] ELSE last
            /\ painted' = IF drawn THEN IF readable THEN PictureCells(x, y, w, h, bmp) ELSE {}
                          ELSE IF cleared THEN Locations ELSE painted
      BY <2>8 DEF DrawPicture
    <3> QED
      BY <1>2, <3>1, NoFigureExact
  <2> QED
    BY <1>2, <2>1, <2>3, <2>4, <2>5, <2>6, <2>7, <2>8 DEF FbNext
<1> QED
  BY <1>1, <1>2, PTL DEF FbSpec

-----------------------------------------------------------------------------
(* The conversion of one pixel: each channel is cut to a byte.               *)
Near(c, exact) == IF exact < 0 THEN c = 0 ELSE IF exact >= 255 * 1024 THEN c = 255
                  ELSE c * 1024 <= exact /\ exact < (c + 1) * 1024

LEMMA ChannelNear ==
  ASSUME NEW n \in Int PROVE Near(Channel(n), n)
<1>1. CASE n < 0
  BY <1>1 DEF Near, Channel, Clamp
<1>2. CASE n > 262143
  BY <1>2 DEF Near, Channel, Clamp
<1>3. CASE 0 <= n /\ n <= 262143
  <2>1. Clamp(n) = n
    BY <1>3 DEF Clamp
  <2>2. n \div 1024 \in Int /\ n % 1024 \in 0 .. 1023 /\ n = 1024 * (n \div 1024) + (n % 1024)
    OBVIOUS
  <2>3. n \div 1024 \in 0 .. 255
    BY <1>3, <2>2
  <2>4. Channel(n) = n \div 1024
    BY <2>1, <2>3 DEF Channel
  <2> QED
    BY <1>3, <2>2, <2>3, <2>4 DEF Near
<1> QED
  BY <1>1, <1>2, <1>3

Luma(yb) == 1192 * (IF yb < 16 THEN 0 ELSE yb - 16)

PixelNear(p, yb, ub, vb) ==
  /\ Near(p[1], Luma(yb) + 1634 * (vb - 128))
  /\ Near(p[2], Luma(yb) - 833 * (vb - 128) - 400 * (ub - 128))
  /\ Near(p[3], Luma(yb) + 2066 * (ub - 128))

LEMMA PixelIsNear ==
  ASSUME NEW yb \in 0 .. 255, NEW ub \in 0 .. 255, NEW vb \in 0 .. 255
  PROVE  PixelNear(Pixel(yb, ub, vb), yb, ub, vb)
<1> DEFINE red   == Luma(yb) + 1634 * (vb - 128)
           green == Luma(yb) - 833 * (vb - 128) - 400 * (ub - 128)
           blue  == Luma(yb) + 2066 * (ub - 128)
<1>1. Pixel(yb, ub, vb) = <<Channel(red), Channel(green), Channel(blue)>>
  <2>1. (IF yb < 16 THEN 0 ELSE 1192 * (yb - 16)) = Luma(yb) /\ Luma(yb) \in Int
    BY DEF Luma
  <2>2. Luma(yb) - (833 * (vb - 128) + 400 * (ub - 128)) = green
    BY <2>1
  <2> QED
    BY <2>1, <2>2 DEF Pixel
<1>2. red \in Int /\ green \in Int /\ blue \in Int
  BY DEF Luma
<1>3. Near(Channel(red), red) /\ Near(Channel(green), green) /\ Near(Channel(blue), blue)
  BY <1>2, ChannelNear
<1> HIDE DEF red, green, blue
<1>4. LET p == Pixel(yb, ub, vb) IN p[1] = Channel(red) /\ p[2] = Channel(green) /\ p[3] = Channel(blue)
  BY <1>1
<1>5. LET p == Pixel(yb, ub, vb) IN Near(p[1], red) /\ Near(p[2], green) /\ Near(p[3], blue)
  BY <1>3, <1>4
<1> QED
  BY <1>5 DEF PixelNear, red, green, blue

-----------------------------------------------------------------------------
(* yuv420_to_rgb: where a row takes its bytes from.                          *)
StepOf(t) == IF Interleaved(t) THEN 2 ELSE 1

(* The running offset: the chroma of column i is the one of its pair.        *)
LEMMA RowFacts ==
  ASSUME NEW t, NEW w \in Nat, NEW h \in Nat, NEW j \in Nat, NEW i \in 0 .. w - 1
  PROVE  Row(t, w, h, j)[i] =
           [y |-> j * w + i,
            u |-> Pair(t, w, h, RowStart(t, w, h, j) + StepOf(t) * (i \div 2)).u,
            v |-> Pair(t, w, h, RowStart(t, w, h, j) + StepOf(t) * (i \div 2)).v]
<1> DEFINE step == IF Interleaved(t) THEN 2 ELSE 1
           after[k \in Nat] ==
             IF k % 2 = 1 THEN after[k - 1]
             ELSE LET p == IF k = 0 THEN RowStart(t, w, h, j) ELSE after[k - 1].p
                  IN [p |-> p + step, uv |-> Pair(t, w, h, p)]
           start == RowStart(t, w, h, j)
           closed == [k \in Nat |-> [p |-> (start + step * (k \div 2)) + step,
                                     uv |-> Pair(t, w, h, start + step * (k \div 2))]]
           Body(f, k) == IF k % 2 = 1 THEN f[k - 1]
                         ELSE LET p == IF k = 0 THEN start ELSE f[k - 1].p
                              IN [p |-> p + step, uv |-> Pair(t, w, h, p)]
<1>1. Row(t, w, h, j) = [k \in 0 .. w - 1 |-> [y |-> j * w + k, u |-> after[k].uv.u, v |-> after[k].uv.v]]
  BY DEF Row
<1>2. step = StepOf(t)
  BY DEF StepOf
<1>3. start \in Int /\ step \in Int
  BY DEF RowStart, Half
<1>4. ASSUME NEW k \in Nat PROVE closed[k] = Body(closed, k)
  <2>1. CASE k % 2 = 1
    <3>1. k - 1 \in Nat /\ (k - 1) \div 2 = k \div 2
      BY <2>1
    <3> HIDE DEF start, step
    <3> QED
      BY <2>1, <3>1
  <2>2. CASE k % 2 # 1 /\ k # 0
    <3>1. k - 1 \in Nat /\ (k - 1) \div 2 = (k \div 2) - 1 /\ k \div 2 \in Int
      BY <2>2
    <3>2. PICK q \in Int : q = k \div 2
      BY <3>1
    <3>3. (start + step * (q - 1)) + step = start + step * q
      BY <1>3, <1>2 DEF StepOf
    <3> HIDE DEF start, step
    <3>4. closed[k - 1].p = start + step * q
      BY <3>1, <3>2, <3>3
    <3> QED
      BY <2>2, <3>2, <3>4
  <2>3. CASE k = 0
    <3>1. k \div 2 = 0 /\ k % 2 # 1 /\ start + step * 0 = start
      BY <1>3, <2>3
    <3> HIDE DEF start, step
    <3> QED
      BY <2>3, <3>1
  <2> QED
    BY <2>1, <2>2, <2>3
<1>5. closed = [k \in Nat |-> Body(closed, k)]
  <2> HIDE DEF Body, start, step
  <2> QED
    BY <1>4
<1>6. after = [k \in Nat |-> Body(after, k)]
  BY <1>5
<1> HIDE DEF after
<1> DEFINE T == {k \in Nat : after[k] = closed[k]}
<1>7. 0 \in T
  <2>1. after[0] = Body(after, 0) /\ closed[0] = Body(closed, 0)
    BY <1>4, <1>6
  <2> HIDE DEF closed, start, step
  <2> QED
    BY <2>1
<1>8. ASSUME NEW k \in Nat, k \in T PROVE k + 1 \in T
  <2>1. after[k + 1] = Body(after, k + 1) /\ closed[k + 1] = Body(closed, k + 1)
    <3> HIDE DEF closed, start, step, Body
    <3>1. k + 1 \in Nat
      OBVIOUS
    <3> QED
      BY <1>4, <1>6, <3>1
  <2>2. (k + 1) - 1 = k /\ k + 1 # 0 /\ k + 1 \in Nat /\ after[k] = closed[k]
    BY <1>8
  <2> HIDE DEF closed, start, step
  <2> QED
    BY <2>1, <2>2
<1> HIDE DEF T
<1>9. after[i] = closed[i]
  <2>1. i \in T
    BY <1>7, <1>8, Induction
  <2> QED
    BY <2>1 DEF T
<1>10. closed[i].uv = Pair(t, w, h, start + step * (i \div 2))
  <2> HIDE DEF start, step
  <2> QED
    OBVIOUS
<1>11. Row(t, w, h, j)[i] = [y |-> j * w + i, u |-> closed[i].uv.u, v |-> closed[i].uv.v]
  <2> HIDE DEF closed
  <2> QED
    BY <1>1, <1>9
<1>12. closed[i].uv = Pair(t, w, h, start + StepOf(t) * (i \div 2))
  <2> HIDE DEF closed, step
  <2> QED
    BY <1>2, <1>10
<1> HIDE DEF closed
<1> QED
  BY <1>11, <1>12

(* A picture of even sizes: half its width and height, the planes' size and  *)
(* the block of a pixel.                                                     *)
BlockOf(w, i, j) == Half(j) * Half(w) + Half(i)

Halved(w, h, a, b, m) ==
  /\ w = 2 * a /\ h = 2 * b /\ m = a * b /\ Half(w) = a /\ w * h = 4 * m
  /\ (w * h) \div 4 = m /\ ((w * h) * 5) \div 4 = 5 * m /\ Half(w * h) = 2 * m
  /\ Len420(w, h) = 6 * m

LEMMA EvenSizes ==
  ASSUME NEW w \in Nat, NEW h \in Nat, Even(w), Even(h)
  PROVE  \E a, b, m \in Nat : Halved(w, h, a, b, m)
<1>1. PICK a \in Nat, b \in Nat : w = 2 * a /\ h = 2 * b
  BY DEF Even
<1>2. PICK m \in Nat : m = a * b
  OBVIOUS
<1>3. w * h = 4 * m
  BY <1>1, <1>2
<1>4. Half(w) = a
  BY <1>1 DEF Half
<1>5. (4 * m) \div 4 = m /\ ((4 * m) * 5) \div 4 = 5 * m /\ (4 * m) \div 2 = 2 * m
      /\ ((4 * m) * 3) \div 2 = 6 * m
  OBVIOUS
<1>6. w * h * 3 = (4 * m) * 3
  BY <1>3
<1> QED
  BY <1>1, <1>2, <1>3, <1>4, <1>5, <1>6 DEF Half, Len420, Halved

(* Where layout n - 1 keeps the chroma of a block.                           *)
UPlace(n, s, block) == <<s + block, s + (s \div 4) + block, s + 2 * block, s + 2 * block + 1>>[n]
VPlace(n, s, block) == <<s + (s \div 4) + block, s + block, s + 2 * block + 1, s + 2 * block>>[n]

LEMMA BlockRange ==
  ASSUME NEW a \in Nat, NEW b \in Nat, NEW m \in Nat, m = a * b,
         NEW x \in 0 .. a - 1, NEW y \in 0 .. b - 1
  PROVE  y * a + x \in 0 .. m - 1
<1>1. y * a <= (b - 1) * a
  OBVIOUS
<1>2. (b - 1) * a = a * b - a /\ y * a \in Nat
  OBVIOUS
<1> QED
  BY <1>1, <1>2

Places(p, t, w, h, i, j) ==
  /\ p = [y |-> j * w + i, u |-> UPlace(t + 1, w * h, BlockOf(w, i, j)),
          v |-> VPlace(t + 1, w * h, BlockOf(w, i, j))]
  /\ {p.y, p.u, p.v} \subseteq 0 .. Len420(w, h) - 1

LEMMA RowPlaces ==
  ASSUME NEW w \in Nat, NEW h \in Nat, Even(w), Even(h), NEW t \in 0 .. 3,
         NEW i \in 0 .. w - 1, NEW j \in 0 .. h - 1
  PROVE  Places(Row(t, w, h, j)[i], t, w, h, i, j)
<1>0. PICK a \in Nat, b \in Nat, m \in Nat : Halved(w, h, a, b, m)
  BY EvenSizes
<1>1. /\ w = 2 * a /\ h = 2 * b /\ m = a * b /\ Half(w) = a /\ w * h = 4 * m
      /\ (w * h) \div 4 = m /\ Len420(w, h) = 6 * m
  BY <1>0 DEF Halved
<1>2. PICK x \in 0 .. a - 1, y \in 0 .. b - 1 : x = i \div 2 /\ y = j \div 2
  <2>1. i \div 2 \in 0 .. a - 1 /\ j \div 2 \in 0 .. b - 1
    BY <1>1
  <2> QED
    BY <2>1
<1>3. PICK block \in 0 .. m - 1 : block = y * a + x
  BY <1>1, BlockRange
<1>4. BlockOf(w, i, j) = block
  BY <1>1, <1>2, <1>3 DEF BlockOf, Half
<1>5. PICK luma \in 0 .. 4 * m - 1 : luma = j * w + i
  <2>1. w * h = 4 * m /\ 4 * m \in Nat
    BY <1>1
  <2>2. j * w + i \in 0 .. 4 * m - 1
    BY <2>1, BlockRange
  <2> QED
    BY <2>2
<1>6. RowStart(t, w, h, j) + StepOf(t) * (i \div 2)
        = IF Interleaved(t) THEN 4 * m + 2 * block ELSE 4 * m + block
  <2>1. CASE Interleaved(t)
    <3>1. RowStart(t, w, h, j) = 4 * m + y * (2 * a) /\ StepOf(t) = 2
      BY <1>1, <1>2, <2>1 DEF RowStart, StepOf, Half
    <3>2. y * (2 * a) = 2 * (y * a) /\ y * a \in Int
      OBVIOUS
    <3> QED
      BY <1>2, <1>3, <2>1, <3>1, <3>2
  <2>2. CASE ~Interleaved(t)
    <3>1. RowStart(t, w, h, j) = 4 * m + y * a /\ StepOf(t) = 1
      BY <1>1, <1>2, <2>2 DEF RowStart, StepOf, Half
    <3>2. y * a \in Int
      OBVIOUS
    <3> QED
      BY <1>2, <1>3, <2>2, <3>1, <3>2
  <2> QED
    BY <2>1, <2>2
<1>7. PICK p \in Int : p = (IF Interleaved(t) THEN 4 * m + 2 * block ELSE 4 * m + block)
  OBVIOUS
<1>8. j \in Nat
  OBVIOUS
<1>9. Row(t, w, h, j)[i] = [y |-> luma, u |-> Pair(t, w, h, p).u, v |-> Pair(t, w, h, p).v]
  <2>1. RowStart(t, w, h, j) + StepOf(t) * (i \div 2) = p
    BY <1>6, <1>7
  <2>2. Row(t, w, h, j)[i] =
           [y |-> j * w + i,
            u |-> Pair(t, w, h, RowStart(t, w, h, j) + StepOf(t) * (i \div 2)).u,
            v |-> Pair(t, w, h, RowStart(t, w, h, j) + StepOf(t) * (i \div 2)).v]
    BY <1>8, RowFacts
  <2> QED
    BY <1>5, <2>1, <2>2
<1>10. /\ Pair(t, w, h, p).u = UPlace(t + 1, 4 * m, block)
       /\ Pair(t, w, h, p).v = VPlace(t + 1, 4 * m, block)
  <2>1. (4 * m) \div 4 = m
    OBVIOUS
  <2>2. CASE t = 0
    BY <1>1, <1>7, <2>1, <2>2 DEF Pair, Interleaved, UPlace, VPlace, I420, YU12, NV12, NV21
  <2>3. CASE t = 1
    BY <1>1, <1>7, <2>1, <2>3 DEF Pair, Interleaved, UPlace, VPlace, I420, YU12, NV12, NV21
  <2>4. CASE t = 2
    BY <1>1, <1>7, <2>1, <2>4 DEF Pair, Interleaved, UPlace, VPlace, I420, YU12, NV12, NV21
  <2>5. CASE t = 3
    BY <1>1, <1>7, <2>1, <2>5 DEF Pair, Interleaved, UPlace, VPlace, I420, YU12, NV12, NV21
  <2> QED
    BY <2>2, <2>3, <2>4, <2>5
<1>11. UPlace(t + 1, 4 * m, block) \in 0 .. 6 * m - 1 /\ VPlace(t + 1, 4 * m, block) \in 0 .. 6 * m - 1
  <2>1. (4 * m) \div 4 = m
    OBVIOUS
  <2>2. t + 1 \in {1, 2, 3, 4}
    OBVIOUS
  <2> QED
    BY <2>1, <2>2 DEF UPlace, VPlace
<1> QED
  BY <1>1, <1>4, <1>5, <1>9, <1>10, <1>11 DEF Places

LEMMA SourceFacts ==
  ASSUME NEW w \in Nat, NEW h \in Nat, Even(w), Even(h), NEW t \in 0 .. 3
  PROVE  /\ DOMAIN Sources(t, w, h) = 0 .. w * h - 1
         /\ \A i \in 0 .. w - 1, j \in 0 .. h - 1 :
              j * w + i \in 0 .. w * h - 1 /\ Places(Sources(t, w, h)[j * w + i], t, w, h, i, j)
         /\ \A k \in 0 .. w * h - 1 :
              \E i \in 0 .. w - 1, j \in 0 .. h - 1 : Places(Sources(t, w, h)[k], t, w, h, i, j)
<1>0. w * h \in Nat /\ w * h = h * w
  OBVIOUS
<1>1. DOMAIN Sources(t, w, h) = 0 .. w * h - 1
  BY DEF Sources
<1>2. ASSUME NEW i \in 0 .. w - 1, NEW j \in 0 .. h - 1
      PROVE  j * w + i \in 0 .. w * h - 1 /\ Sources(t, w, h)[j * w + i] = Row(t, w, h, j)[i]
  <2>1. w \in Nat \ {0} /\ j * w \in Int
    OBVIOUS
  <2>2. j * w + i \in 0 .. w * h - 1
    BY <1>0, BlockRange
  <2>3. PICK k \in 0 .. w * h - 1 : k = j * w + i
    BY <2>2
  <2>4. k = w * j + i /\ k \in Int
    BY <2>3
  <2>5. k \div w = j /\ k % w = i
    BY <2>1, <2>4, DivUnique
  <2> QED
    BY <2>3, <2>5 DEF Sources
<1>3. ASSUME NEW k \in 0 .. w * h - 1
      PROVE  \E i \in 0 .. w - 1, j \in 0 .. h - 1 : k = j * w + i
  <2>1. w \in Nat \ {0} /\ k \in Int
    <3>1. w # 0
      BY <1>0
    <3> QED
      BY <3>1
  <2>2. PICK j \in Int, i \in 0 .. w - 1 : j = k \div w /\ i = k % w /\ k = w * j + i
    BY <2>1, DivFacts
  <2>3. w * j = j * w
    BY <2>1
  <2>4. j >= 0
    <3> SUFFICES ASSUME j <= -1 PROVE FALSE
      BY <2>2
    <3>1. w * j <= w * (-1)
      BY <2>1
    <3> QED
      BY <2>1, <2>2, <3>1
  <2>5. j < h
    <3> SUFFICES ASSUME h <= j PROVE FALSE
      BY <2>2
    <3>1. w * h <= w * j
      BY <2>1
    <3> QED
      BY <1>0, <2>1, <2>2, <3>1
  <2>6. j \in 0 .. h - 1 /\ k = j * w + i
    BY <2>2, <2>3, <2>4, <2>5
  <2> QED
    BY <2>6
<1>4. \A i \in 0 .. w - 1, j \in 0 .. h - 1 : Places(Row(t, w, h, j)[i], t, w, h, i, j)
  BY RowPlaces
<1>5. \A i \in 0 .. w - 1, j \in 0 .. h - 1 : Places(Sources(t, w, h)[j * w + i], t, w, h, i, j)
  BY <1>2, <1>4
<1>6. \A k \in 0 .. w * h - 1 :
         \E i \in 0 .. w - 1, j \in 0 .. h - 1 : Places(Sources(t, w, h)[k], t, w, h, i, j)
  BY <1>3, <1>5
<1> QED
  BY <1>1, <1>2, <1>5, <1>6

-----------------------------------------------------------------------------
(* yuv_data_parse: which bytes it takes.                                     *)
Offsets(plane) == {p[2] : p \in plane}

LEMMA CopiedOffsets ==
  ASSUME NEW from \in Int, NEW n \in Int
  PROVE  Offsets(Copied(from, n)) = from .. from + n - 1
<1>1. ASSUME NEW q \in Offsets(Copied(from, n)) PROVE q \in from .. from + n - 1
  <2>1. PICK i \in 0 .. n - 1 : q = <<i, from + i>>[2]
    BY <1>1 DEF Offsets, Copied
  <2> QED
    BY <2>1
<1>2. ASSUME NEW q \in from .. from + n - 1 PROVE q \in Offsets(Copied(from, n))
  <2>1. q - from \in 0 .. n - 1 /\ q = from + (q - from)
    OBVIOUS
  <2>2. <<q - from, from + (q - from)>> \in Copied(from, n)
    BY <2>1 DEF Copied
  <2>3. <<q - from, from + (q - from)>>[2] = q
    BY <2>1
  <2> QED
    BY <2>2, <2>3 DEF Offsets
<1> QED
  BY <1>1, <1>2

LEMMA WovenOffsets ==
  ASSUME NEW from \in Int, NEW m \in Nat
  PROVE  Offsets(Woven(from, 2 * m, 0)) \cup Offsets(Woven(from, 2 * m, 1)) = from .. from + 2 * m - 1
<1> DEFINE Ix(odd) == {k \in 0 .. 2 * m : k % 2 = odd /\ k - odd < 2 * m}
<1>1. ASSUME NEW odd \in 0 .. 1, NEW q \in Offsets(Woven(from, 2 * m, odd)) PROVE q \in from .. from + 2 * m - 1
  <2>1. PICK i \in Ix(odd) : q = <<i, from + i>>[2]
    BY <1>1 DEF Offsets, Woven
  <2>2. i \in 0 .. 2 * m - 1
    <3>1. CASE odd = 0
      BY <3>1
    <3>2. CASE odd = 1
      BY <3>2
    <3> QED
      BY <3>1, <3>2
  <2> QED
    BY <2>1, <2>2
<1>2. ASSUME NEW q \in from .. from + 2 * m - 1
      PROVE  \E odd \in 0 .. 1 : q \in Offsets(Woven(from, 2 * m, odd))
  <2>1. PICK i \in 0 .. 2 * m - 1 : i = q - from
    OBVIOUS
  <2>2. PICK odd \in 0 .. 1 : odd = i % 2
    OBVIOUS
  <2>3. i \in Ix(odd)
    BY <2>2
  <2> HIDE DEF Ix
  <2>4. <<i, from + i>> \in {<<k, from + k>> : k \in Ix(odd)}
    BY <2>3
  <2>5. <<i, from + i>> \in Woven(from, 2 * m, odd)
    BY <2>4 DEF Woven, Ix
  <2>6. <<i, from + i>>[2] = q
    BY <2>1
  <2> QED
    BY <2>5, <2>6 DEF Offsets
<1>3. \A q \in from .. from + 2 * m - 1 :
        q \in Offsets(Woven(from, 2 * m, 0)) \/ q \in Offsets(Woven(from, 2 * m, 1))
  <2>1. \A odd \in 0 .. 1 : odd = 0 \/ odd = 1
    OBVIOUS
  <2> QED
    BY <1>2, <2>1
<1>4. /\ \A q \in Offsets(Woven(from, 2 * m, 0)) : q \in from .. from + 2 * m - 1
      /\ \A q \in Offsets(Woven(from, 2 * m, 1)) : q \in from .. from + 2 * m - 1
  BY <1>1
<1> QED
  BY <1>3, <1>4

LEMMA ParseReads ==
  ASSUME NEW w \in Nat, NEW h \in Nat, Even(w), Even(h), NEW t \in Types
  PROVE  LET P == PlanesOf(t, w * h)
         IN {p[2] : p \in P.y \cup P.u \cup P.v} = 0 .. Len420(w, h) - 1
<1>1. PICK a \in Nat, b \in Nat, m \in Nat : Halved(w, h, a, b, m)
  BY EvenSizes
<1>2. /\ w * h = 4 * m /\ (4 * m) \div 4 = m /\ ((4 * m) * 5) \div 4 = 5 * m /\ Half(4 * m) = 2 * m
      /\ Len420(w, h) = 6 * m
  BY <1>1 DEF Halved
<1> DEFINE P == PlanesOf(t, w * h)
           first  == Copied(4 * m, m)
           second == Copied(5 * m, m)
           even   == Woven(4 * m, 2 * m, 0)
           odd    == Woven(4 * m, 2 * m, 1)
<1>3. /\ P.y = Copied(0, 4 * m)
      /\ \/ (P.u = first /\ P.v = second) \/ (P.u = second /\ P.v = first)
         \/ (P.u = even /\ P.v = odd) \/ (P.u = odd /\ P.v = even)
  BY <1>2 DEF PlanesOf, Types, I420, YU12, NV12, NV21
<1>4. \A A, B, C : {p[2] : p \in A \cup B \cup C} = Offsets(A) \cup Offsets(B) \cup Offsets(C)
  BY DEF Offsets
<1>5. {p[2] : p \in P.y \cup P.u \cup P.v} = Offsets(P.y) \cup Offsets(P.u) \cup Offsets(P.v)
  BY <1>4
<1>6. Offsets(P.y) = 0 .. 0 + 4 * m - 1
  BY <1>3, CopiedOffsets
<1>7. Offsets(first) = 4 * m .. 4 * m + m - 1 /\ Offsets(second) = 5 * m .. 5 * m + m - 1
  <2>1. PICK x \in Int, y \in Int : x = 4 * m /\ y = 5 * m
    OBVIOUS
  <2>2. m \in Int
    OBVIOUS
  <2>3. Offsets(Copied(x, m)) = x .. x + m - 1
    BY <2>2, CopiedOffsets
  <2>4. Offsets(Copied(y, m)) = y .. y + m - 1
    BY <2>2, CopiedOffsets
  <2> QED
    BY <2>1, <2>3, <2>4
<1>8. Offsets(even) \cup Offsets(odd) = 4 * m .. 4 * m + 2 * m - 1
  BY WovenOffsets
<1> HIDE DEF P, first, second, even, odd
<1>9. Offsets(P.u) \cup Offsets(P.v) = 4 * m .. 6 * m - 1
  <2>1. 4 * m + 2 * m - 1 = 6 * m - 1
    OBVIOUS
  <2>2. (4 * m .. 4 * m + m - 1) \cup (5 * m .. 5 * m + m - 1) = 4 * m .. 6 * m - 1
    OBVIOUS
  <2>3. Offsets(first) \cup Offsets(second) = 4 * m .. 6 * m - 1
    BY <1>7, <2>2
  <2>4. Offsets(even) \cup Offsets(odd) = 4 * m .. 6 * m - 1
    BY <1>8, <2>1
  <2>5. \A A, B : A \cup B = B \cup A
    OBVIOUS
  <2> QED
    BY <1>3, <2>3, <2>4, <2>5
<1>10. (0 .. 0 + 4 * m - 1) \cup (4 * m .. 6 * m - 1) = 0 .. 6 * m - 1
  OBVIOUS
<1>11. \A A, B, C : A \cup B \cup C = A \cup (B \cup C)
  OBVIOUS
<1>12. Offsets(P.y) \cup Offsets(P.u) \cup Offsets(P.v) = 0 .. 6 * m - 1
  BY <1>6, <1>9, <1>10, <1>11
<1> QED
  BY <1>2, <1>5, <1>12 DEF P

-----------------------------------------------------------------------------
EvenArgs == Even(args.width) /\ Even(args.height)

ByteOf(factor, k) == (factor * k) % 256

PictureExact(n, data, w, h, f) ==
  \A i \in 0 .. w - 1, j \in 0 .. h - 1 :
    PixelNear(data[j * w + i], ByteOf(f, j * w + i), ByteOf(f, UPlace(n, w * h, BlockOf(w, i, j))),
              ByteOf(f, VPlace(n, w * h, BlockOf(w, i, j))))

PicturesShown ==
  EvenArgs => \A n \in DOMAIN bmps : PictureExact(n, bmps[n].data, args.width, args.height, file.factor)

YuvInv ==
  /\ args \in [type : Types \cup {4}, width : Widths, height : Heights]
  /\ file \in [len : Nat, factor : Nat, open : BOOLEAN]
  /\ at \in {"start", "opened", "reading", "converting", "done", "crashed"}
  /\ at \in {"start", "done"} => heap = {} /\ ~file.open
  /\ at \in {"start", "opened", "reading"} => reads = {}
  /\ EvenArgs => reads = {} \/ reads = 0 .. file.len - 1
  /\ at \in {"reading", "converting"} => LengthCheck
  /\ at = "converting" /\ EvenArgs => reads = 0 .. file.len - 1
  /\ converted \in 0 .. 4 /\ Len(bmps) = converted /\ bmps \in Seq({bmps[n] : n \in DOMAIN bmps})
  /\ PicturesShown

LEMMA PicturesAre == PicturesShown => PicturesExact
<1>1. \A c, exact :
        Near(c, exact) <=> IF exact < 0 THEN c = 0 ELSE IF exact >= 255 * 1024 THEN c = 255
                           ELSE c * 1024 <= exact /\ exact < (c + 1) * 1024
  BY DEF Near
<1> QED
  BY <1>1 DEF PicturesExact, PicturesShown, EvenArgs, PictureExact, Byte, ByteOf, PixelNear, Luma, UPlace, VPlace, BlockOf

LEMMA ArgsFacts ==
  ASSUME YuvInv
  PROVE  args.width \in Nat /\ args.height \in Nat /\ file.len \in Nat /\ file.factor \in Nat
  BY YuvAssumption DEF YuvInv

LEMMA ExitFreeFile ==
  ASSUME YuvInv, file' = [file EXCEPT !.open = FALSE] \/ file' = [file EXCEPT !.open = TRUE] \/ file' = file
  PROVE  file'.factor = file.factor /\ file'.len = file.len /\ file' \in [len : Nat, factor : Nat, open : BOOLEAN]
         /\ (file' = [file EXCEPT !.open = FALSE] => ~file'.open)
  BY DEF YuvInv

(* Every step before the pictures, and the end.                              *)
LEMMA KeepsPictures ==
  ASSUME YuvInv, UNCHANGED <<args, converted, bmps>>,
         file' = [file EXCEPT !.open = FALSE] \/ file' = [file EXCEPT !.open = TRUE] \/ file' = file,
         at' \in {"start", "opened", "reading", "converting", "done", "crashed"},
         at' \in {"start", "done"} => heap' = {} /\ ~file'.open,
         EvenArgs => reads' = {} \/ reads' = 0 .. file.len - 1,
         at' \in {"start", "opened", "reading"} => reads' = {},
         at' \in {"reading", "converting"} => LengthCheck,
         at' = "converting" /\ EvenArgs => reads' = 0 .. file.len - 1
  PROVE  YuvInv'
<1>1. file'.factor = file.factor /\ file'.len = file.len /\ file' \in [len : Nat, factor : Nat, open : BOOLEAN]
  BY ExitFreeFile
<1>2. EvenArgs' <=> EvenArgs
  BY DEF EvenArgs
<1>3. LengthCheck' <=> LengthCheck
  BY <1>1 DEF LengthCheck
<1>4. PicturesShown'
  BY <1>1, <1>2 DEF YuvInv, PicturesShown
<1> QED
  BY <1>1, <1>2, <1>3, <1>4 DEF YuvInv

LEMMA ByteRange ==
  ASSUME NEW f \in Nat, NEW k \in Int PROVE ByteOf(f, k) \in 0 .. 255
<1>1. PICK n \in Int : n = f * k
  OBVIOUS
<1>2. n % 256 \in 0 .. 255
  OBVIOUS
<1> QED
  BY <1>1, <1>2 DEF ByteOf

(* One round of main's loop.                                                 *)
LEMMA ConvertExact ==
  ASSUME NEW w \in Nat, NEW h \in Nat, Even(w), Even(h), NEW t \in 0 .. 3, NEW f \in Nat
  PROVE  LET src == Sources(t, w, h)
             data == [k \in DOMAIN src |->
                        Pixel(ByteOf(f, src[k].y), ByteOf(f, src[k].u), ByteOf(f, src[k].v))]
         IN /\ PictureExact(t + 1, data, w, h, f)
            /\ UNION {{src[k].y, src[k].u, src[k].v} : k \in DOMAIN src} \subseteq 0 .. Len420(w, h) - 1
<1> DEFINE src == Sources(t, w, h)
           data == [k \in DOMAIN src |->
                      Pixel(ByteOf(f, src[k].y), ByteOf(f, src[k].u), ByteOf(f, src[k].v))]
<1>1. /\ DOMAIN src = 0 .. w * h - 1
      /\ \A i \in 0 .. w - 1, j \in 0 .. h - 1 :
           j * w + i \in 0 .. w * h - 1 /\ Places(src[j * w + i], t, w, h, i, j)
      /\ \A k \in 0 .. w * h - 1 :
           \E i \in 0 .. w - 1, j \in 0 .. h - 1 : Places(src[k], t, w, h, i, j)
  BY SourceFacts
<1> HIDE DEF src
<1>2. ASSUME NEW i \in 0 .. w - 1, NEW j \in 0 .. h - 1
      PROVE  PixelNear(data[j * w + i], ByteOf(f, j * w + i), ByteOf(f, UPlace(t + 1, w * h, BlockOf(w, i, j))),
                       ByteOf(f, VPlace(t + 1, w * h, BlockOf(w, i, j))))
  <2>1. PICK k \in DOMAIN src : k = j * w + i /\ Places(src[k], t, w, h, i, j)
    BY <1>1
  <2>2. PICK u, v : u = UPlace(t + 1, w * h, BlockOf(w, i, j)) /\ v = VPlace(t + 1, w * h, BlockOf(w, i, j))
    OBVIOUS
  <2>3. src[k] = [y |-> k, u |-> u, v |-> v] /\ {src[k].y, src[k].u, src[k].v} \subseteq 0 .. Len420(w, h) - 1
    BY <2>1, <2>2 DEF Places
  <2>4. k \in Int /\ u \in Int /\ v \in Int
    <3>1. src[k].y = k /\ src[k].u = u /\ src[k].v = v
      BY <2>3
    <3>2. src[k].y \in Int /\ src[k].u \in Int /\ src[k].v \in Int
      BY <2>3
    <3> QED
      BY <3>1, <3>2
  <2>5. data[k] = Pixel(ByteOf(f, k), ByteOf(f, u), ByteOf(f, v))
    BY <2>3
  <2>6. PixelNear(data[k], ByteOf(f, k), ByteOf(f, u), ByteOf(f, v))
    BY <2>4, <2>5, ByteRange, PixelIsNear
  <2> QED
    BY <2>1, <2>2, <2>6
<1>3. PictureExact(t + 1, data, w, h, f)
  <2> HIDE DEF data
  <2> QED
    BY <1>2 DEF PictureExact
<1>4. \A k \in DOMAIN src : {src[k].y, src[k].u, src[k].v} \subseteq 0 .. Len420(w, h) - 1
  BY <1>1 DEF Places
<1>5. UNION {{src[k].y, src[k].u, src[k].v} : k \in DOMAIN src} \subseteq 0 .. Len420(w, h) - 1
  BY <1>4
<1> QED
  BY <1>3, <1>5 DEF src

LEMMA ConvertKeeps ==
  ASSUME YuvInv, Convert PROVE YuvInv'
<1> DEFINE w == args.width
           h == args.height
           f == file.factor
           src == Sources(converted, w, h)
           used == UNION {{src[k].y, src[k].u, src[k].v} : k \in DOMAIN src}
<1>1. w \in Nat /\ h \in Nat /\ f \in Nat /\ converted \in 0 .. 3
  BY ArgsFacts DEF Convert, YuvInv
<1>2. rgb' = [k \in DOMAIN src |-> Pixel(ByteOf(f, src[k].y), ByteOf(f, src[k].u), ByteOf(f, src[k].v))]
      /\ reads' = reads \cup used
  BY DEF Convert, Byte, ByteOf
<1>3. EvenArgs => PictureExact(converted + 1, rgb', w, h, f) /\ used \subseteq 0 .. Len420(w, h) - 1
  BY <1>1, <1>2, ConvertExact DEF EvenArgs
<1> HIDE DEF src, used
<1>4. /\ at = "converting" /\ LengthCheck /\ UNCHANGED args
      /\ \/ /\ (\E n \in Nat : bmps' = Append(bmps, Bmp(w, h, rgb', n))) /\ converted' = converted + 1
            /\ UNCHANGED <<at, heap, file>>
         \/ ExitFree /\ UNCHANGED <<bmps, converted>>
  <2>1. w * h \in Int /\ (\A a, b \in Nat : a * b \in Nat)
    BY <1>1
  <2>2. w * h \in Nat
    BY <1>1, <2>1, Zenon
  <2>3. \A n \in ShortWrites \cup {w * h} : n \in Nat
    BY <2>2, YuvAssumption
  <2>4. at = "converting" /\ LengthCheck /\ UNCHANGED args
    BY DEF Convert, YuvInv
  <2>5. \/ /\ \E n \in ShortWrites \cup {w * h} : bmps' = Append(bmps, Bmp(w, h, rgb', n))
           /\ converted' = converted + 1 /\ UNCHANGED <<at, heap, file>>
        \/ ExitFree /\ UNCHANGED <<bmps, converted>>
    BY DEF Convert
  <2> QED
    BY <2>3, <2>4, <2>5
<1>5. EvenArgs => reads' = 0 .. file.len - 1
  <2>1. file.len = Len420(w, h)
    BY <1>4 DEF LengthCheck
  <2>2. EvenArgs => reads = 0 .. file.len - 1
    BY <1>4 DEF YuvInv
  <2> QED
    BY <1>2, <1>3, <2>1, <2>2
<1>6. CASE ExitFree /\ UNCHANGED <<bmps, converted>>
  <2>1. UNCHANGED <<args, converted, bmps>> /\ file' = [file EXCEPT !.open = FALSE] /\ at' = "done"
          /\ heap' = {} /\ ~file'.open
    BY <1>4, <1>6, ExitFreeFile DEF ExitFree
  <2> QED
    BY <1>5, <2>1, KeepsPictures
<1>7. CASE /\ \E n \in Nat : bmps' = Append(bmps, Bmp(w, h, rgb', n))
           /\ converted' = converted + 1 /\ UNCHANGED <<at, heap, file>>
  <2>0. PICK k \in Nat : bmps' = Append(bmps, Bmp(w, h, rgb', k))
    BY <1>7
  <2> DEFINE b == Bmp(w, h, rgb', k)
             S == {bmps[n] : n \in DOMAIN bmps}
  <2>1. bmps \in Seq(S) /\ Len(bmps) = converted
    BY DEF YuvInv
  <2>2. b.data = rgb'
    BY DEF Bmp
  <2> HIDE DEF S, b
  <2>3. bmps \in Seq(S \cup {b})
    BY <2>1
  <2>4. /\ bmps' \in Seq(S \cup {b}) /\ Len(bmps') = converted' /\ DOMAIN bmps' = 1 .. converted + 1
        /\ \A n \in DOMAIN bmps : bmps'[n] = bmps[n] /\ n \in 1 .. converted
        /\ bmps'[converted + 1] = b
    BY <1>1, <1>7, <2>0, <2>1, <2>3 DEF b
  <2>5. bmps' \in Seq({bmps'[n] : n \in DOMAIN bmps'})
    <3> DEFINE D == {bmps'[n] : n \in DOMAIN bmps'}
    <3>1. \A n \in DOMAIN bmps' : bmps'[n] \in D
      OBVIOUS
    <3> HIDE DEF D
    <3>2. bmps' \in [1 .. Len(bmps') -> S \cup {b}] /\ Len(bmps') \in Nat
      BY <2>4
    <3>3. bmps' \in [1 .. Len(bmps') -> D]
      BY <3>1, <3>2
    <3>4. bmps' \in Seq(D)
      BY <3>2, <3>3
    <3> QED
      BY <3>4 DEF D
  <2>6. PicturesShown'
    <3> SUFFICES ASSUME EvenArgs', NEW n \in DOMAIN bmps'
                 PROVE  PictureExact(n, bmps'[n].data, w, h, f)
      BY <1>4, <1>7 DEF PicturesShown
    <3>1. EvenArgs
      BY <1>4 DEF EvenArgs
    <3>2. CASE n = converted + 1
      <4>1. bmps'[n].data = rgb'
        BY <2>2, <2>4, <3>2
      <4> QED
        BY <1>3, <3>1, <3>2, <4>1
    <3>3. CASE n \in 1 .. converted
      <4>1. n \in DOMAIN bmps /\ bmps'[n] = bmps[n]
        BY <2>1, <2>4, <3>3
      <4> QED
        BY <3>1, <4>1 DEF YuvInv, PicturesShown
    <3> QED
      BY <1>1, <2>4, <3>2, <3>3
  <2>7. converted' \in 0 .. 4
    BY <1>1, <1>7
  <2>8. EvenArgs' <=> EvenArgs
    BY <1>4 DEF EvenArgs
  <2>9. LengthCheck'
    BY <1>4, <1>7 DEF LengthCheck
  <2>10. at' = "converting" /\ file' = file
    BY <1>4, <1>7
  <2> QED
    BY <1>4, <1>5, <2>4, <2>5, <2>6, <2>7, <2>8, <2>9, <2>10 DEF YuvInv
<1> QED
  BY <1>4, <1>6, <1>7

LEMMA ParseKeeps ==
  ASSUME YuvInv, Parse PROVE YuvInv'
<1>1. at = "reading" /\ at' = "converting" /\ UNCHANGED <<args, file, converted, bmps>> /\ LengthCheck
  BY DEF Parse, YuvInv
<1>2. EvenArgs => reads' = 0 .. file.len - 1
  <2>1. args.width \in Nat /\ args.height \in Nat
    BY ArgsFacts
  <2>2. args.type \in Types /\ file.len = Len420(args.width, args.height)
    BY <1>1 DEF LengthCheck
  <2>3. reads' = LET P == PlanesOf(args.type, args.width * args.height)
                 IN {p[2] : p \in P.y \cup P.u \cup P.v}
    BY DEF Parse
  <2>4. EvenArgs => reads' = 0 .. Len420(args.width, args.height) - 1
    BY <2>1, <2>2, <2>3, ParseReads DEF EvenArgs
  <2> QED
    BY <2>2, <2>4
<1> QED
  BY <1>1, <1>2, KeepsPictures

(* For any even width and height, yuv_data_parse gives every pixel of all    *)
(* four layouts the colour of its samples, the whole file is read and        *)
(* nothing behind it, and main gives back every buffer and the file on all   *)
(* of its returns.                                                             *)
THEOREM YuvConversionExact == YuvSpec => []ConversionExact
<1>1. YuvInit => YuvInv
  <2> SUFFICES ASSUME YuvInit PROVE YuvInv
    OBVIOUS
  <2>1. args \in [type : Types \cup {4}, width : Widths, height : Heights]
    BY DEF YuvInit
  <2>2. file \in [len : Nat, factor : Nat, open : BOOLEAN] /\ ~file.open
    <3>1. PICK f \in Factors, extra \in -MaxExtra .. MaxExtra :
            LET len == Len420(args.width, args.height) + extra IN
            file = [len |-> IF len < 0 THEN 0 ELSE len, factor |-> f, open |-> FALSE]
      BY DEF YuvInit
    <3>2. args.width \in Nat /\ args.height \in Nat /\ f \in Nat /\ extra \in Int
      <4>1. \A e \in -MaxExtra .. MaxExtra : e \in Int
        OBVIOUS
      <4> QED
        BY <2>1, <3>1, <4>1, YuvAssumption
    <3>3. Len420(args.width, args.height) \in Int
      BY <3>2 DEF Len420
    <3> QED
      BY <3>1, <3>2, <3>3
  <2>3. at = "start" /\ heap = {} /\ converted = 0 /\ bmps = <<>> /\ reads = {}
    BY DEF YuvInit
  <2>4. bmps \in Seq({bmps[n] : n \in DOMAIN bmps}) /\ Len(bmps) = 0 /\ DOMAIN bmps = {}
    <3>1. \A S : <<>> \in Seq(S)
      OBVIOUS
    <3>2. Len(<<>>) = 0 /\ DOMAIN <<>> = {}
      OBVIOUS
    <3> QED
      BY <2>3, <3>1, <3>2
  <2> QED
    BY <2>1, <2>2, <2>3, <2>4 DEF YuvInv, PicturesShown
<1>2. YuvInv /\ [YuvNext]_yuvVars => YuvInv'
  <2> SUFFICES ASSUME YuvInv, [YuvNext]_yuvVars PROVE YuvInv'
    OBVIOUS
  <2>1. CASE UNCHANGED yuvVars
    BY <2>1 DEF yuvVars, YuvInv, EvenArgs, LengthCheck, PicturesShown
  <2>2. CASE OpenFile
    BY <2>2, KeepsPictures, ExitFreeFile DEF OpenFile, Gives, YuvInv
  <2>3. CASE Prepare
    BY <2>3, KeepsPictures, ExitFreeFile DEF Prepare, ExitFree, YuvInv
  <2>4. ASSUME NEW n \in 0 .. file.len, ReadFile(n) PROVE YuvInv'
    BY <2>4, KeepsPictures, ExitFreeFile DEF ReadFile, ExitFree, YuvInv
  <2>5. CASE Finish
    BY <2>5, KeepsPictures, ExitFreeFile DEF Finish, ExitFree, YuvInv
  <2>6. CASE Crash
    BY <2>6, KeepsPictures DEF Crash, YuvInv
  <2> QED
    BY <2>1, <2>2, <2>3, <2>4, <2>5, <2>6, ParseKeeps, ConvertKeeps DEF YuvNext
<1>3. YuvInv => ConversionExact
  BY PicturesAre DEF YuvInv, ConversionExact, ReadsTheFile, NothingLeft, EvenArgs
<1> QED
  BY <1>1, <1>2, <1>3, PTL DEF YuvSpec
=============================================================================
