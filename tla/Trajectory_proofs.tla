------------------------- MODULE Trajectory_proofs -------------------------
(***************************************************************************)
(* What trajectory_planner() and get_next_pos() compute, for every number  *)
(* of parts: a segment in its time covers its way, the points lie on it    *)
(* but for a quarter of a step, no two points that follow each other are   *)
(* further apart than one and a half times the greatest speed, and the     *)
(* last one is as near to the end.                                         *)
(***************************************************************************)
EXTENDS Trajectory, TLAPS

(***************************************************************************)
(* Whole numbers.                                                          *)
(***************************************************************************)
\* A product of natural numbers is one.
LEMMA ProductIsNat ==
    ASSUME NEW x \in Nat, NEW y \in Nat
    PROVE  x * y \in Nat
OBVIOUS

\* A common factor can be taken out of a comparison.
LEMMA Cancel ==
    ASSUME NEW d \in Nat \ {0}, NEW x \in Int, NEW y \in Int, d * x <= d * y
    PROVE  x <= y
<1>1. SUFFICES ASSUME y + 1 <= x PROVE FALSE
  OBVIOUS
<1>2. PICK k \in Nat : x = y + 1 + k
  <2>1. x - y - 1 \in Nat /\ x = y + 1 + (x - y - 1)
    BY <1>1
  <2> QED BY <2>1
<1>3. d * x = d * y + d + d * k
  BY <1>2
<1>4. d * k \in Nat /\ d * y \in Int
  BY ProductIsNat
<1> QED BY <1>3, <1>4

\* A division without a remainder is undone by a product.
LEMMA ExactDivision ==
    ASSUME NEW d \in Nat \ {0}, NEW n \in Nat, n % d = 0
    PROVE  n \div d \in Nat /\ d * (n \div d) = n
OBVIOUS

LEMMA UnitIsNat == Unit \in Nat \ {0}
<1>1. Parts \in Nat \ {0} /\ Parts - 1 \in Nat
  BY PartsAssumption
<1>2. (Parts - 1) * Parts \in Nat
  BY <1>1, ProductIsNat
<1>3. Parts * Parts = (Parts - 1) * Parts + Parts
  BY <1>1
<1>4. Parts * Parts \in Nat \ {0}
  BY <1>1, <1>2, <1>3
<1>5. Unit = 2 * (Parts * Parts)
  BY <1>1 DEF Unit
<1> QED BY <1>4, <1>5

LEMMA ProductMonotone ==
    ASSUME NEW c \in Nat, NEW x \in Int, NEW y \in Int, x <= y
    PROVE  c * x <= c * y
<1>1. y - x \in Nat
  OBVIOUS
<1>2. c * (y - x) \in Nat
  BY <1>1, ProductIsNat
<1>3. c * y = c * x + c * (y - x)
  OBVIOUS
<1> QED BY <1>2, <1>3

LEMMA SquareMonotone ==
    ASSUME NEW x \in Nat, NEW y \in Nat, x <= y
    PROVE  x * x <= y * y
<1>1. x * x <= x * y
  BY ProductMonotone
<1>2. y * x <= y * y
  BY ProductMonotone
<1> QED BY <1>1, <1>2

LEMMA Division ==
    ASSUME NEW x \in Nat, NEW y \in Nat \ {0}
    PROVE  /\ x \div y \in Nat
           /\ y * (x \div y) <= x /\ x < y * (x \div y) + y
OBVIOUS

LEMMA DistanceType ==
    ASSUME NEW x \in Int, NEW y \in Int
    PROVE  Distance(x, y) \in Nat
BY DEF Distance

\* Parts is even.
Half == Parts \div 2

LEMMA HalfPart ==
    /\ Half \in Nat \ {0} /\ Parts = 2 * Half /\ Parts \in Nat \ {0}
    /\ Half * Half \in Nat \ {0} /\ Unit = 8 * (Half * Half)
<1>1. Parts \in Nat \ {0} /\ Parts % 2 = 0
  BY PartsAssumption
<1>2. Half \in Nat /\ 2 * Half = Parts
  BY <1>1 DEF Half
<1>3. Half \in Nat \ {0}
  BY <1>1, <1>2
<1>4. Half * Half \in Nat
  BY <1>2, ProductIsNat
<1>5. Unit = 8 * (Half * Half)
  BY <1>2 DEF Unit
<1> QED BY <1>1, <1>2, <1>3, <1>4, <1>5, UnitIsNat

\* (uint32_t)(t + 0.5) is no more than half a point away.
LEMMA RoundedNear ==
    ASSUME NEW t \in Nat
    PROVE  /\ Rounded(t) \in Nat
           /\ Parts * Rounded(t) <= t + Half /\ t < Parts * Rounded(t) + Half
<1> DEFINE r == Rounded(t)
<1>1. 2 * t + Parts \in Nat /\ 2 * Parts \in Nat \ {0}
  BY HalfPart
<1>2. r \in Nat /\ 2 * Parts * r <= 2 * t + Parts /\ 2 * t + Parts < 2 * Parts * r + 2 * Parts
  BY <1>1, Division DEF Rounded
<1> HIDE DEF r
<1>3. Parts * r \in Nat /\ 2 * Parts * r = 2 * (Parts * r)
  BY <1>2, HalfPart, ProductIsNat
<1> QED BY <1>2, <1>3, HalfPart DEF r

(***************************************************************************)
(* (uint32_t)value: what is near before is near after.                     *)
(***************************************************************************)
LEMMA PositionType ==
    ASSUME NEW v \in Int
    PROVE  Position(v) \in Int
<1>1. v >= 0 => v \div Unit \in Nat
  BY UnitIsNat, Division
<1>2. ~(v >= 0) => -v \in Nat /\ (-v) \div Unit \in Nat
  BY UnitIsNat, Division
<1> QED BY <1>1, <1>2 DEF Position

LEMMA PositionNear ==
    ASSUME NEW v \in Int, NEW w \in Int, NEW b \in Nat, w <= v + Unit * b
    PROVE  Position(w) <= Position(v) + b
<1> DEFINE qv == IF v >= 0 THEN v \div Unit ELSE (-v) \div Unit
           qw == IF w >= 0 THEN w \div Unit ELSE (-w) \div Unit
<1>1. /\ qv \in Nat /\ Unit * qv <= (IF v >= 0 THEN v ELSE -v)
      /\ (IF v >= 0 THEN v ELSE -v) < Unit * qv + Unit
  BY UnitIsNat, Division
<1>2. /\ qw \in Nat /\ Unit * qw <= (IF w >= 0 THEN w ELSE -w)
      /\ (IF w >= 0 THEN w ELSE -w) < Unit * qw + Unit
  BY UnitIsNat, Division
<1>3. /\ Position(v) = IF v >= 0 THEN qv ELSE IF Saturates THEN 0 ELSE -qv
      /\ Position(w) = IF w >= 0 THEN qw ELSE IF Saturates THEN 0 ELSE -qw
  BY DEF Position
<1> HIDE DEF qv, qw
<1>4. /\ Unit \in Nat \ {0} /\ Unit * b \in Int /\ Unit * qv \in Int /\ Unit * qw \in Int
      /\ \A x, y \in Int : Unit * x < Unit * y => x < y
  <2>1. ASSUME NEW x \in Int, NEW y \in Int, Unit * x < Unit * y PROVE x < y
    <3>1. CASE y <= x
      BY <2>1, <3>1, UnitIsNat, ProductMonotone
    <3> QED BY <3>1
  <2> QED BY <1>1, <1>2, <2>1, UnitIsNat
<1>5. CASE v >= 0 /\ w >= 0
  <2>1. Unit * qw < Unit * qv + Unit + Unit * b
    BY <1>1, <1>2, <1>4, <1>5
  <2>2. Unit * qw < Unit * (qv + 1 + b)
    BY <1>1, <1>2, <1>4, <2>1
  <2>3. qw < qv + 1 + b
    BY <1>1, <1>2, <1>4, <2>2
  <2> QED BY <1>1, <1>2, <1>3, <1>5, <2>3
<1>6. CASE ~(v >= 0) /\ w >= 0
  <2>1. Unit * qw < Unit * b + Unit - Unit * qv /\ Unit * qw < Unit * b
    BY <1>1, <1>2, <1>4, <1>6
  <2>2. Unit * qw < Unit * (b + 1 - qv)
    BY <1>1, <1>2, <1>4, <2>1
  <2>3. qw < b + 1 - qv /\ qw < b
    BY <1>1, <1>2, <1>4, <2>1, <2>2
  <2> QED BY <1>1, <1>2, <1>3, <1>6, <2>3
<1>7. CASE v >= 0 /\ ~(w >= 0)
  BY <1>1, <1>2, <1>3, <1>7
<1>8. CASE ~(v >= 0) /\ ~(w >= 0)
  <2>1. Unit * qv < Unit * qw + Unit + Unit * b
    BY <1>1, <1>2, <1>4, <1>8
  <2>2. Unit * qv < Unit * (qw + 1 + b)
    BY <1>1, <1>2, <1>4, <2>1
  <2>3. qv < qw + 1 + b
    BY <1>1, <1>2, <1>4, <2>2
  <2> QED BY <1>1, <1>2, <1>3, <1>8, <2>3
<1> QED BY <1>5, <1>6, <1>7, <1>8

\* A whole position is sent as it is, a negative one as that or as 0.
LEMMA PositionOf ==
    ASSUME NEW z \in Int
    PROVE  /\ Unit * z \in Int
           /\ Position(Unit * z) >= z
           /\ z >= 0 => Position(Unit * z) = z
<1>1. /\ Unit \in Nat \ {0} /\ Unit * z \in Int
      /\ \A x, y \in Int : Unit * x < Unit * y => x < y
  <2>1. ASSUME NEW x \in Int, NEW y \in Int, Unit * x < Unit * y PROVE x < y
    <3>1. CASE y <= x
      BY <2>1, <3>1, UnitIsNat, ProductMonotone
    <3> QED BY <3>1
  <2> QED BY <2>1, UnitIsNat
<1>2. ASSUME NEW y \in Nat PROVE Unit * y \in Nat /\ (Unit * y) \div Unit = y
  <2>1. Unit * y \in Nat
    BY <1>1, ProductIsNat
  <2> DEFINE q == (Unit * y) \div Unit
  <2>2. q \in Nat /\ Unit * q <= Unit * y /\ Unit * y < Unit * q + Unit
    BY <1>1, <2>1, Division
  <2> HIDE DEF q
  <2>3. Unit * y < Unit * (q + 1)
    BY <1>1, <2>2
  <2>4. y < q + 1
    BY <1>1, <2>2, <2>3
  <2>5. q <= y
    BY <1>1, <2>2, Cancel
  <2> QED BY <2>1, <2>2, <2>4, <2>5 DEF q
<1>3. CASE z >= 0
  BY <1>2, <1>3 DEF Position
<1>4. CASE ~(z >= 0)
  <2>1. -z \in Nat /\ -(Unit * z) = Unit * (-z) /\ Unit * (-z) \in Nat
    BY <1>1, <1>2, <1>4
  <2>2. (-(Unit * z)) \div Unit = -z
    BY <1>2, <2>1
  <2>3. ~(Unit * z >= 0)
    <3>1. Unit * z < Unit * 0
      <4>1. 1 <= -z
        BY <1>4
      <4>2. Unit * 1 <= Unit * (-z)
        BY <1>1, <2>1, <4>1, ProductMonotone
      <4> QED BY <1>1, <2>1, <4>2
    <3> QED BY <1>1, <3>1
  <2>4. Position(Unit * z) = IF Saturates THEN 0 ELSE -(-z)
    BY <2>2, <2>3 DEF Position
  <2> QED BY <1>1, <1>4, <2>4, SaturatesAssumption
<1> QED BY <1>1, <1>3, <1>4

LEMMA RoundedType ==
    ASSUME NEW t \in Nat
    PROVE  Rounded(t) \in Nat
BY PartsAssumption DEF Rounded

(***************************************************************************)
(* trajectory_planner().                                                   *)
(***************************************************************************)
\* Within its time a segment that can be driven slows down after it has sped
\* up.
LEMMA SlowsDownLater ==
    ASSUME NEW accel \in Nat \ {0}, NEW decel \in Nat \ {0}, NEW way \in Nat,
           NEW points \in Nat, NEW t \in AccelTimes(accel, decel, way, points)
    PROVE  /\ t \in Nat /\ (accel * t) \div decel \in Nat
           /\ Parts * points - (accel * t) \div decel \in Nat
           /\ t <= Parts * points - (accel * t) \div decel
<1> DEFINE q == (accel * t) \div decel
           all == points * Parts
<1>1. all \in Nat /\ Parts * points = all
  BY PartsAssumption
<1>2. /\ t \in Nat /\ (accel + decel) * t <= decel * points * Parts
      /\ (accel * t) % decel = 0
  BY <1>1 DEF AccelTimes
<1>3. accel * t \in Nat
  BY <1>2
<1>4. q \in Nat /\ decel * q = accel * t
  BY <1>2, <1>3, ExactDivision
<1>5. (accel + decel) * t = accel * t + decel * t
  BY <1>2
<1>6. decel * points * Parts = decel * all
  BY PartsAssumption
<1>7. decel * (q + t) = decel * q + decel * t
  BY <1>2, <1>4
<1>8. decel * (q + t) <= decel * all
  BY <1>2, <1>4, <1>5, <1>6, <1>7
<1>9. q + t <= all
  BY <1>1, <1>2, <1>4, <1>8, Cancel
<1> QED BY <1>1, <1>2, <1>4, <1>9

(***************************************************************************)
(* A segment as numbers: accelerated with a until t, decelerated with d    *)
(* from N - k, all instants in parts of a point; A and D are the whole     *)
(* points at which the phases change.  The greatest speed is that at t.    *)
(***************************************************************************)
Trapezoid(a, d, t, k, N, A, D) ==
    /\ a * t = d * k /\ t + k <= N
    /\ A <= t + Half /\ t < A + Half
    /\ D <= N - k + Half /\ N - k < D + Half

\* How far the instant x lies behind the origin.
Along(a, d, t, k, N, A, D, x) ==
    IF x < A THEN a * (x * x)
    ELSE IF x > D THEN (a * t) * t + 2 * ((a * t) * (N - k - t)) + d * ((x - D) * (x - D))
    ELSE (a * t) * t + 2 * ((a * t) * (x - A))

\* The way of the whole segment.
Whole(a, t, k, N) == (a * t) * (2 * N - t - k)

\* No instant lies before the origin, or further behind the end than half the
\* way that is made in half a point.
LEMMA StaysWithin ==
    ASSUME NEW a \in Nat \ {0}, NEW d \in Nat \ {0}, NEW t \in Nat, NEW k \in Nat, NEW N \in Nat,
           NEW A \in Nat, NEW D \in Nat, Trapezoid(a, d, t, k, N, A, D),
           NEW x \in Nat, x <= N - Parts, x < A => x <= A - Parts, x > D => x >= D + Parts
    PROVE  /\ Along(a, d, t, k, N, A, D, x) \in Nat
           /\ Along(a, d, t, k, N, A, D, x) <= Whole(a, t, k, N) + (a * t) * Half
<1> DEFINE V == a * t
           W == Along(a, d, t, k, N, A, D, x)
           S == Whole(a, t, k, N)
<1>1. V \in Nat /\ V * t \in Nat /\ V * Half \in Nat
  BY HalfPart, ProductIsNat
<1>2. /\ V = d * k /\ t + k <= N /\ A <= t + Half /\ t < A + Half
      /\ D <= N - k + Half /\ N - k < D + Half
  BY DEF Trapezoid
<1>3. /\ W = IF x < A THEN a * (x * x)
             ELSE IF x > D THEN V * t + 2 * (V * (N - k - t)) + d * ((x - D) * (x - D))
             ELSE V * t + 2 * (V * (x - A))
      /\ S = V * (2 * N - t - k)
  BY DEF Along, Whole
<1>4. a * (t * t) = V * t
  OBVIOUS
<1> HIDE DEF V, W, S
<1>5. CASE x < A
  <2>1. x <= t
    BY <1>2, <1>5, HalfPart
  <2>2. x * x \in Nat /\ t * t \in Nat /\ x * x <= t * t
    BY <2>1, ProductIsNat, SquareMonotone
  <2>3. a * (x * x) \in Nat /\ a * (x * x) <= V * t
    BY <1>4, <2>2, ProductIsNat, ProductMonotone
  <2>4. V * t <= S
    BY <1>1, <1>2, <1>3, ProductMonotone
  <2> QED BY <1>1, <1>3, <1>5, <2>3, <2>4 DEF V, W, S
<1>6. CASE ~(x < A) /\ x > D
  <2> DEFINE j == x - D
  <2>1. j \in Nat /\ j <= k /\ N - k - t \in Nat
    BY <1>2, <1>6, HalfPart
  <2>2. j * j \in Nat /\ j * j <= k * k /\ k * k \in Nat
    BY <2>1, ProductIsNat, SquareMonotone
  <2>3. d * (j * j) \in Nat /\ d * (j * j) <= d * (k * k)
    BY <2>2, ProductIsNat, ProductMonotone
  <2>4. d * (k * k) = V * k
    BY <1>1, <1>2
  <2>5. V * (N - k - t) \in Nat
    BY <1>1, <2>1, ProductIsNat
  <2>6. S = V * t + 2 * (V * (N - k - t)) + V * k
    BY <1>1, <1>3
  <2>7. W = V * t + 2 * (V * (N - k - t)) + d * (j * j)
    BY <1>3, <1>6
  <2> HIDE DEF j
  <2>8. V * k \in Int
    BY <1>1
  <2> QED BY <1>1, <2>3, <2>4, <2>5, <2>6, <2>7, <2>8 DEF V, W, S
<1>7. CASE ~(x < A) /\ ~(x > D)
  <2>1. x - A \in Nat /\ V * (x - A) \in Nat
    BY <1>1, <1>7, ProductIsNat
  <2>2. W = V * t + 2 * (V * (x - A))
    BY <1>3, <1>7
  <2>3. 4 * (x - A) <= 4 * N - 4 * t - 2 * k + Parts
    <3>1. x - A <= N - t - Half /\ x - A <= N - k - t + Parts
      BY <1>2, <1>7, HalfPart
    <3> QED BY <3>1, <1>2, HalfPart
  <2>4. V * (4 * (x - A)) <= V * (4 * N - 4 * t - 2 * k + Parts)
    BY <1>1, <2>1, <2>3, HalfPart, ProductMonotone
  <2>5. V * (4 * N - 4 * t - 2 * k + Parts) = 2 * S - 2 * (V * t) + 2 * (V * Half)
    BY <1>1, <1>3, HalfPart
  <2>6. V * (4 * (x - A)) = 4 * (V * (x - A))
    BY <1>1
  <2>7. S \in Int
    BY <1>1, <1>3
  <2> QED BY <1>1, <2>1, <2>2, <2>4, <2>5, <2>6, <2>7 DEF V, W, S
<1> QED BY <1>5, <1>6, <1>7

\* From one point to the next it is no further than three halves of a point
\* take at the greatest speed.
LEMMA StepsAreShort ==
    ASSUME NEW a \in Nat \ {0}, NEW d \in Nat \ {0}, NEW t \in Nat, NEW k \in Nat, NEW N \in Nat,
           NEW A \in Nat, NEW D \in Nat, Trapezoid(a, d, t, k, N, A, D), A <= D,
           NEW x \in Nat, NEW y \in Nat, y = x + Parts, y <= N - Parts,
           x < A => y <= A, y < A => y <= A - Parts, x > D => x >= D + Parts, y > D => x >= D
    PROVE  /\ Along(a, d, t, k, N, A, D, y) <= Along(a, d, t, k, N, A, D, x) + 6 * ((a * t) * Half)
           /\ Along(a, d, t, k, N, A, D, x) <= Along(a, d, t, k, N, A, D, y) + 6 * ((a * t) * Half)
<1> DEFINE V == a * t
           Wx == Along(a, d, t, k, N, A, D, x)
           Wy == Along(a, d, t, k, N, A, D, y)
<1>1. V \in Nat /\ V * t \in Nat /\ V * Half \in Nat
  BY HalfPart, ProductIsNat
<1>2. /\ V = d * k /\ t + k <= N /\ A <= t + Half /\ t < A + Half
      /\ D <= N - k + Half /\ N - k < D + Half
  BY DEF Trapezoid
<1>3. /\ Wx = IF x < A THEN a * (x * x)
              ELSE IF x > D THEN V * t + 2 * (V * (N - k - t)) + d * ((x - D) * (x - D))
              ELSE V * t + 2 * (V * (x - A))
      /\ Wy = IF y < A THEN a * (y * y)
              ELSE IF y > D THEN V * t + 2 * (V * (N - k - t)) + d * ((y - D) * (y - D))
              ELSE V * t + 2 * (V * (y - A))
  BY DEF Along
<1>4. a * (t * t) = V * t
  OBVIOUS
<1>p. Half \in Nat \ {0} /\ Parts = 2 * Half /\ y = x + 2 * Half
  BY HalfPart
<1> SUFFICES Wy <= Wx + 6 * (V * Half) /\ Wx <= Wy + 6 * (V * Half)
  OBVIOUS
<1>5. CASE y < A
  <2>1. 2 * x + Parts \in Nat /\ 2 * x + Parts <= 2 * t
    BY <1>2, <1>5, <1>p
  <2>2. a * (y * y) = a * (x * x) + (a * Parts) * (2 * x + Parts)
    BY <1>p
  <2>3. a * Parts \in Nat /\ (a * Parts) * (2 * x + Parts) \in Nat
    BY <1>p, <2>1, ProductIsNat
  <2>4. (a * Parts) * (2 * x + Parts) <= (a * Parts) * (2 * t)
    BY <2>1, <2>3, ProductMonotone
  <2>5. (a * Parts) * (2 * t) = 4 * (V * Half)
    BY <1>p
  <2>6. Wx = a * (x * x) /\ Wy = a * (y * y) /\ a * (x * x) \in Int
    BY <1>3, <1>5, <1>p
  <2> HIDE DEF V, Wx, Wy
  <2> QED BY <1>1, <2>2, <2>3, <2>4, <2>5, <2>6
<1>6. CASE x < A /\ ~(y < A)
  <2>1. y = A
    BY <1>6
  <2> DEFINE z == t - x
  <2>2. z \in Nat /\ z <= 3 * Half /\ t + x \in Nat /\ t + x <= 2 * t
    BY <1>2, <1>p, <2>1
  <2>3. Wx = a * (x * x) /\ Wy = V * t
    <3>1. Wy = V * t + 2 * (V * (y - A))
      BY <1>3, <1>6, <2>1
    <3>2. V * (y - A) = 0
      BY <1>1, <2>1
    <3> QED BY <1>1, <1>3, <1>6, <3>1, <3>2
  <2>4. V * t = a * (x * x) + a * (z * (t + x))
    BY <1>4
  <2> HIDE DEF z, V, Wx, Wy
  <2>5. z * (t + x) \in Nat /\ z * (t + x) <= (3 * Half) * (2 * t)
    <3>1. (t + x) * z <= (t + x) * (3 * Half)
      BY <1>p, <2>2, ProductMonotone
    <3>2. (3 * Half) * (t + x) <= (3 * Half) * (2 * t)
      BY <1>p, <2>2, ProductMonotone
    <3> QED BY <1>p, <2>2, <3>1, <3>2, ProductIsNat
  <2>6. a * (z * (t + x)) \in Nat /\ a * (z * (t + x)) <= a * ((3 * Half) * (2 * t))
    <3>1. (3 * Half) * (2 * t) \in Int
      BY <1>p
    <3> QED BY <2>5, <3>1, ProductIsNat, ProductMonotone
  <2>7. a * ((3 * Half) * (2 * t)) = 6 * (V * Half)
    BY <1>p DEF V
  <2>8. a * (x * x) \in Int
    OBVIOUS
  <2> QED BY <1>1, <2>3, <2>4, <2>6, <2>7, <2>8
<1>7. CASE ~(x < A) /\ ~(y > D)
  <2>1. Wx = V * t + 2 * (V * (x - A)) /\ Wy = V * t + 2 * (V * (y - A))
    BY <1>3, <1>7, <1>p
  <2>2. V * (y - A) = V * (x - A) + 2 * (V * Half) /\ V * (x - A) \in Int
    BY <1>1, <1>p
  <2> HIDE DEF V, Wx, Wy
  <2> QED BY <1>1, <2>1, <2>2
<1>8. CASE ~(x < A) /\ y > D /\ ~(x > D)
  <2>1. x = D /\ y - D = Parts
    BY <1>8, <1>p
  <2>2. Wx = V * t + 2 * (V * (D - A))
    BY <1>3, <1>8, <2>1
  <2>3. Wy = V * t + 2 * (V * (N - k - t)) + d * (Parts * Parts)
    BY <1>3, <1>8, <1>p, <2>1
  <2> HIDE DEF Wx, Wy
  <2>4. V * (N - k - t) = V * (D - A) + V * (N - k - D + A - t)
    BY <1>1
  <2>5. V * (N - k - D + A - t) <= V * (2 * Half) /\ V * (-(2 * Half)) <= V * (N - k - D + A - t)
    <3>1. N - k - D + A - t <= 2 * Half /\ -(2 * Half) <= N - k - D + A - t
      BY <1>2, <1>p
    <3> QED BY <1>1, <1>p, <3>1, ProductMonotone
  <2>6. V * (2 * Half) = 2 * (V * Half) /\ V * (-(2 * Half)) = -(2 * (V * Half))
    BY <1>1, <1>p
  <2>7. d * (Parts * Parts) \in Nat /\ d * (Parts * Parts) <= 2 * (V * Half)
    <3>1. Parts * Parts = (2 * Half) * (2 * Half) /\ 2 * Half <= k
      BY <1>2, <1>p, <2>1
    <3>2. (2 * Half) * (2 * Half) <= (2 * Half) * k
      BY <1>p, <3>1, ProductMonotone
    <3>3. d * ((2 * Half) * (2 * Half)) <= d * ((2 * Half) * k)
      BY <1>p, <3>2, ProductMonotone
    <3>4. d * ((2 * Half) * k) = 2 * (V * Half)
      BY <1>2, <1>p
    <3>5. (2 * Half) * (2 * Half) \in Nat
      BY <1>p, ProductIsNat
    <3> QED BY <3>1, <3>3, <3>4, <3>5, ProductIsNat
  <2>8. V * (D - A) \in Int /\ V * (N - k - D + A - t) \in Int
    BY <1>1
  <2> HIDE DEF V
  <2> QED BY <1>1, <2>2, <2>3, <2>4, <2>5, <2>6, <2>7, <2>8
<1>9. CASE ~(x < A) /\ x > D
  <2> DEFINE j == x - D
  <2>1. j \in Nat /\ 2 * j + Parts \in Nat /\ 2 * j + Parts <= 2 * k
    BY <1>2, <1>9, <1>p
  <2>2. /\ Wx = V * t + 2 * (V * (N - k - t)) + d * (j * j)
        /\ Wy = V * t + 2 * (V * (N - k - t)) + d * ((j + Parts) * (j + Parts))
    <3>1. y - D = j + Parts
      BY <1>p
    <3> QED BY <1>3, <1>9, <1>p, <3>1
  <2>3. d * ((j + Parts) * (j + Parts)) = d * (j * j) + (d * Parts) * (2 * j + Parts)
    BY <1>p, <2>1
  <2>4. d * Parts \in Nat /\ (d * Parts) * (2 * j + Parts) \in Nat
    BY <1>p, <2>1, ProductIsNat
  <2>5. (d * Parts) * (2 * j + Parts) <= (d * Parts) * (2 * k)
    BY <2>1, <2>4, ProductMonotone
  <2>6. (d * Parts) * (2 * k) = 4 * (V * Half)
    BY <1>2, <1>p
  <2>7. d * (j * j) \in Int /\ V * (N - k - t) \in Int
    BY <1>1, <2>1
  <2> HIDE DEF V, Wx, Wy, j
  <2> QED BY <1>1, <2>2, <2>3, <2>4, <2>5, <2>6, <2>7
<1> QED BY <1>5, <1>6, <1>7, <1>8, <1>9, <1>p

\* The first point lies where the segment begins, or half a point behind it.
LEMMA StartsNear ==
    ASSUME NEW a \in Nat \ {0}, NEW d \in Nat \ {0}, NEW t \in Nat, NEW k \in Nat, NEW N \in Nat,
           NEW A \in Nat, NEW D \in Nat, Trapezoid(a, d, t, k, N, A, D)
    PROVE  Along(a, d, t, k, N, A, D, 0) <= (a * t) * Half
<1> DEFINE V == a * t
<1>1. V \in Nat /\ V * t \in Nat /\ V * Half \in Nat
  BY HalfPart, ProductIsNat
<1>2. CASE 0 < A
  <2>1. Along(a, d, t, k, N, A, D, 0) = 0
    BY <1>2 DEF Along
  <2> QED BY <1>1, <2>1
<1>3. CASE ~(0 < A)
  <2>1. A = 0 /\ t <= Half
    BY <1>3, HalfPart DEF Trapezoid
  <2>2. Along(a, d, t, k, N, A, D, 0) = V * t + 2 * (V * 0)
    BY <2>1 DEF Along
  <2>3. V * t <= V * Half
    BY <1>1, <2>1, HalfPart, ProductMonotone
  <2> QED BY <1>1, <2>2, <2>3
<1> QED BY <1>2, <1>3

\* The last point is not much further from the end than a step is long; if less
\* than a position is made in a point, it is within one.
LEMMA EndsNear ==
    ASSUME NEW a \in Nat \ {0}, NEW d \in Nat \ {0}, NEW t \in Nat, NEW k \in Nat, NEW N \in Nat,
           NEW A \in Nat, NEW D \in Nat, Trapezoid(a, d, t, k, N, A, D),
           NEW x \in Nat, x = N - Parts, x < A => x <= A - Parts, x > D => x >= D + Parts,
           A < Parts => A = 0, A < 2 * Parts => A <= Parts
    PROVE  /\ Whole(a, t, k, N) <= Along(a, d, t, k, N, A, D, x) + 6 * ((a * t) * Half)
           /\ a * t < Parts => Whole(a, t, k, N) <= Along(a, d, t, k, N, A, D, x) + Unit
<1> DEFINE V == a * t
           W == Along(a, d, t, k, N, A, D, x)
           S == Whole(a, t, k, N)
<1>1. V \in Nat /\ V * t \in Nat /\ V * Half \in Nat /\ V * k \in Nat
  BY HalfPart, ProductIsNat
<1>2. /\ V = d * k /\ t + k <= N /\ A <= t + Half /\ t < A + Half
      /\ D <= N - k + Half /\ N - k < D + Half
  BY DEF Trapezoid
<1>3. /\ W = IF x < A THEN a * (x * x)
             ELSE IF x > D THEN V * t + 2 * (V * (N - k - t)) + d * ((x - D) * (x - D))
             ELSE V * t + 2 * (V * (x - A))
      /\ S = V * (2 * N - t - k)
  BY DEF Along, Whole
<1>p. Half \in Nat \ {0} /\ Parts = 2 * Half /\ N = x + 2 * Half
      /\ Half * Half \in Nat /\ Unit = 8 * (Half * Half)
  BY HalfPart
<1>4. V < Parts => V * Half <= 2 * (Half * Half)
  <2>1. V < Parts => Half * V <= Half * (2 * Half)
    BY <1>1, <1>p, ProductMonotone
  <2> QED BY <1>1, <1>p, <2>1
<1> SUFFICES S <= W + 6 * (V * Half) /\ (V < Parts => S <= W + 8 * (Half * Half))
  BY <1>p
<1>5. CASE x < A
  <2> DEFINE z == t - x
  <2>1. W = a * (x * x)
    BY <1>3, <1>5
  <2>2. S = 2 * (V * x) + V * (4 * Half) - V * t - V * k
    BY <1>3, <1>p
  <2>3. 2 * (V * x) <= V * t + a * (x * x)
    <3>1. z * z \in Nat
      <4>1. z \in Nat
        BY <1>2, <1>5, <1>p
      <4> QED BY <4>1, ProductIsNat
    <3>2. a * (z * z) \in Nat
      BY <3>1, ProductIsNat
    <3>3. a * (z * z) = V * t - 2 * (V * x) + a * (x * x)
      OBVIOUS
    <3>4. a * (x * x) \in Nat /\ V * x \in Nat
      BY <1>1, ProductIsNat
    <3> HIDE DEF V, z
    <3> QED BY <1>1, <3>2, <3>3, <3>4
  <2>4. V * (4 * Half) = 4 * (V * Half) /\ V * x \in Int /\ a * (x * x) \in Int
    BY <1>1, <1>p
  <2> HIDE DEF V, W, S, z
  <2> QED BY <1>1, <1>4, <1>p, <2>1, <2>2, <2>3, <2>4
<1>6. CASE ~(x < A) /\ ~(x > D)
  <2>1. W = V * t + 2 * (V * (x - A))
    BY <1>3, <1>6
  <2>2. S = W + V * (4 * Half + 2 * (A - t) - k)
    BY <1>1, <1>3, <1>p, <2>1
  <2>3. V * (4 * Half + 2 * (A - t) - k) <= V * (6 * Half)
    <3>1. 4 * Half + 2 * (A - t) - k <= 6 * Half
      BY <1>2, <1>p
    <3> QED BY <1>1, <1>p, <3>1, ProductMonotone
  <2>4. V * (6 * Half) = 6 * (V * Half) /\ W \in Int /\ V * (4 * Half + 2 * (A - t) - k) \in Int
    BY <1>1, <1>p, <2>1
  <2>5. ASSUME V < Parts
        PROVE  V * (4 * Half + 2 * (A - t) - k) <= 8 * (Half * Half)
    <3>1. t <= V
      <4>1. t * 1 <= t * a
        BY ProductMonotone
      <4> QED BY <4>1
    <3>2. CASE t < Half
      <4>1. 4 * Half + 2 * (A - t) - k <= 4 * Half
        BY <1>2, <1>p, <3>2
      <4>2. V * (4 * Half + 2 * (A - t) - k) <= V * (4 * Half)
        BY <1>1, <1>p, <4>1, ProductMonotone
      <4>3. V * (4 * Half) = 4 * (V * Half)
        BY <1>1, <1>p
      <4> HIDE DEF V
      <4> QED BY <1>1, <1>4, <1>p, <2>4, <2>5, <4>2, <4>3
    <3>3. CASE ~(t < Half)
      <4>1. a = 1
        <5>1. CASE 2 <= a
          <6>1. t * 2 <= t * a
            BY <5>1, ProductMonotone
          <6>2. t * 2 <= V
            BY <6>1
          <6> QED BY <1>1, <1>p, <2>5, <3>3, <6>2
        <5> QED BY <5>1
      <4>2. V = t
        BY <4>1
      <4>3. 4 * Half + 2 * (A - t) - k <= 8 * Half - 2 * t
        BY <1>2, <1>p, <2>5, <3>1
      <4>4. t * (4 * Half + 2 * (A - t) - k) <= t * (8 * Half - 2 * t)
        BY <1>p, <4>3, ProductMonotone
      <4>5. (2 * Half - t) * (2 * Half - t) \in Nat
        <5>1. 2 * Half - t \in Nat
          BY <1>p, <2>5, <3>1, <1>1
        <5> QED BY <5>1, ProductIsNat
      <4>6. t * (8 * Half - 2 * t) = 8 * (Half * Half) - 2 * ((2 * Half - t) * (2 * Half - t))
        BY <1>p
      <4>7. t * (4 * Half + 2 * (A - t) - k) \in Int
        BY <1>p
      <4> QED BY <1>p, <4>2, <4>4, <4>5, <4>6, <4>7
    <3> QED BY <3>2, <3>3
  <2> HIDE DEF V, W, S
  <2> QED BY <1>1, <1>p, <2>2, <2>3, <2>4, <2>5
<1>7. CASE ~(x < A) /\ x > D
  <2> DEFINE j == x - D
  <2>1. j \in Nat /\ k - j \in Nat /\ k - j <= 3 * Half /\ k + j \in Nat /\ k + j <= 2 * k
    BY <1>2, <1>7, <1>p
  <2>2. W = V * t + 2 * (V * (N - k - t)) + d * (j * j)
    BY <1>3, <1>7
  <2>3. S = V * t + 2 * (V * (N - k - t)) + V * k
    BY <1>1, <1>3
  <2>4. V * k = d * (j * j) + d * ((k - j) * (k + j))
    <3>1. d * (k * k) = d * (j * j) + d * ((k - j) * (k + j))
      BY <2>1
    <3> HIDE DEF V
    <3>2. V * k = d * (k * k)
      BY <1>2
    <3> QED BY <3>1, <3>2
  <2>5. d * ((k - j) * (k + j)) <= 6 * (V * Half)
    <3>1. (k + j) * (k - j) <= (k + j) * (3 * Half)
      BY <1>p, <2>1, ProductMonotone
    <3>2. (3 * Half) * (k + j) <= (3 * Half) * (2 * k)
      BY <1>p, <2>1, ProductMonotone
    <3>3. (k - j) * (k + j) <= (3 * Half) * (2 * k)
      BY <1>p, <2>1, <3>1, <3>2
    <3>4. d * ((k - j) * (k + j)) <= d * ((3 * Half) * (2 * k))
      BY <1>p, <2>1, <3>3, ProductMonotone
    <3>5. d * ((3 * Half) * (2 * k)) = 6 * (V * Half)
      BY <1>2, <1>p
    <3> QED BY <3>4, <3>5
  <2>6. ~(V < Parts)
    <3>1. k > 3 * Half
      BY <1>2, <1>7, <1>p
    <3>2. k * 1 <= k * d
      BY ProductMonotone
    <3> QED BY <1>1, <1>2, <1>p, <3>1, <3>2
  <2>7. d * (j * j) \in Int /\ V * (N - k - t) \in Int /\ d * ((k - j) * (k + j)) \in Int
    BY <1>1, <2>1
  <2> HIDE DEF V, W, S, j
  <2> QED BY <1>1, <2>2, <2>3, <2>4, <2>5, <2>6, <2>7
<1> QED BY <1>5, <1>6, <1>7

(***************************************************************************)
(* A planner that trajectory_planner() has filled is such a segment.       *)
(***************************************************************************)
Parameters(p) == p.accel \in Nat \ {0} /\ p.decel \in Nat \ {0} /\ p.max \in Nat

\* tp speeds up for t and slows down for k parts, no faster than p allows.
Driven(p, tp, t, k) ==
    LET N == Parts * tp.points_num
        V == p.accel * t
    IN  /\ t \in Nat /\ k \in Nat /\ V <= p.max * Parts
        /\ tp.points_num \in Nat \ {0}
        /\ tp.point_accel_end \in Nat /\ tp.point_decel_start \in Nat
        /\ tp.point_accel_end <= tp.point_decel_start
        /\ Trapezoid(p.accel, p.decel, t, k, N, Parts * tp.point_accel_end,
                     Parts * tp.point_decel_start)
        /\ Unit * Distance(tp.origin_pos, tp.target_pos) = Whole(p.accel, t, k, N)
        /\ tp.accel_pos = V * t
        /\ tp.decel_pos = V * t + 2 * (V * (N - k - t))
        /\ tp.uniform_speed = 4 * (V * Half)
        /\ tp.direction = IF tp.target_pos < tp.origin_pos THEN -1 ELSE 1

\* Points are Parts apart.
LEMMA Lattice ==
    ASSUME NEW i \in Nat, NEW j \in Nat
    PROVE  /\ Parts * i \in Nat /\ Parts * j \in Nat
           /\ i < j => Parts * i <= Parts * j - Parts
           /\ ~(i < j) => Parts * j <= Parts * i
<1>1. Parts * i \in Nat /\ Parts * j \in Nat
  BY HalfPart, ProductIsNat
<1>2. CASE i < j
  <2>1. Parts * (i + 1) <= Parts * j
    BY <1>2, HalfPart, ProductMonotone
  <2>2. Parts * (i + 1) = Parts * i + Parts
    BY HalfPart
  <2> QED BY <1>1, <1>2, <2>1, <2>2, HalfPart
<1>3. CASE ~(i < j)
  <2>1. Parts * j <= Parts * i
    BY <1>3, HalfPart, ProductMonotone
  <2> QED BY <1>1, <1>3, <2>1
<1> QED BY <1>2, <1>3

\* The times that trajectory_planner() finds make the way it is given.
LEMMA PlannedIsDriven ==
    ASSUME NEW p, Parameters(p), NEW origin \in Int, NEW target \in Int, NEW points \in Nat,
           Exact(p.accel, p.decel, Distance(origin, target), points),
           Planned(trajectory_planner(p, origin, target, points))
    PROVE  \E t, k \in Nat : Driven(p, trajectory_planner(p, origin, target, points), t, k)
<1> DEFINE a == p.accel
           d == p.decel
           way == Distance(origin, target)
           N == Parts * points
           t == CHOOSE t \in AccelTimes(a, d, way, points) : TRUE
           V == a * t
           k == V \div d
           tp == trajectory_planner(p, origin, target, points)
<1>1. a \in Nat \ {0} /\ d \in Nat \ {0} /\ way \in Nat /\ N \in Nat
  BY DistanceType, HalfPart, ProductIsNat DEF Parameters
<1>2. /\ Reachable(a, d, way, points) /\ ~(V > p.max * Parts)
      /\ tp = Segment(origin, target, points, a * t * t, a * t * t + 2 * a * t * (N - k - t),
                      2 * Parts * a * t, Rounded(t), Rounded(N - k))
  <2>1. tp = IF ~Reachable(a, d, way, points) \/ V > p.max * Parts
             THEN Unplanned(origin, target, points)
             ELSE Segment(origin, target, points, a * t * t, a * t * t + 2 * a * t * (N - k - t),
                          2 * Parts * a * t, Rounded(t), Rounded(N - k))
    BY DEF trajectory_planner
  <2>2. ~Planned(Unplanned(origin, target, points))
    BY DEF Planned, Unplanned, Segment
  <2> QED BY <2>1, <2>2
<1>3. t \in AccelTimes(a, d, way, points)
  BY <1>2 DEF Exact
<1> HIDE DEF t, tp
<1>4. t \in Nat /\ k \in Nat /\ N - k \in Nat /\ t <= N - k
  BY <1>1, <1>3, SlowsDownLater
<1>5. V \in Nat /\ V = d * k
  <2>1. V \in Nat /\ V % d = 0
    BY <1>1, <1>3, <1>4, ProductIsNat DEF AccelTimes
  <2> QED BY <1>1, <2>1, ExactDivision
<1>6. a * (a + d) * t * t + 2 * d * way * Parts * Parts = 2 * a * d * points * Parts * t
  BY <1>3 DEF AccelTimes
<1> HIDE DEF k, way
<1>7. Unit * way = Whole(a, t, k, N)
  <2>1. d * (V * (k + t)) = a * (a + d) * t * t
    <3>1. d * (V * (k + t)) = V * (d * k + d * t)
      BY <1>1, <1>4, <1>5
    <3>2. d * (V * (k + t)) = V * (V + d * t)
      BY <1>5, <3>1
    <3> QED BY <1>1, <1>4, <3>2
  <2>2. d * (Unit * way) = 2 * d * way * Parts * Parts
    BY <1>1, HalfPart DEF Unit
  <2>3. d * (V * (2 * N)) = 2 * a * d * points * Parts * t
    BY <1>1, <1>4, HalfPart
  <2>4. d * (V * (k + t)) + d * (Unit * way) = d * (V * (2 * N))
    BY <1>6, <2>1, <2>2, <2>3
  <2>5. Whole(a, t, k, N) = V * (2 * N) - V * (k + t)
    BY <1>1, <1>4 DEF Whole
  <2> HIDE DEF V, N
  <2> DEFINE X == V * (2 * N) - V * (k + t)
             Y == Unit * way
  <2>6. X \in Int /\ Y \in Int /\ d * X = d * Y
    BY <1>1, <1>4, <1>5, <2>4, UnitIsNat
  <2> HIDE DEF X, Y
  <2>7. X = Y
    BY <1>1, <2>6, Cancel
  <2> QED BY <2>5, <2>7 DEF X, Y
<1>8. /\ tp.origin_pos = origin /\ tp.target_pos = target /\ tp.points_num = points
      /\ tp.accel_pos = a * t * t /\ tp.decel_pos = a * t * t + 2 * a * t * (N - k - t)
      /\ tp.uniform_speed = 2 * Parts * a * t
      /\ tp.point_accel_end = Rounded(t) /\ tp.point_decel_start = Rounded(N - k)
      /\ tp.direction = IF target < origin THEN -1 ELSE 1
  BY <1>2 DEF Segment
<1>9. /\ Rounded(t) \in Nat /\ Parts * Rounded(t) <= t + Half /\ t < Parts * Rounded(t) + Half
      /\ Rounded(N - k) \in Nat /\ Parts * Rounded(N - k) <= N - k + Half
      /\ N - k < Parts * Rounded(N - k) + Half
  BY <1>4, RoundedNear
<1>10. Rounded(t) <= Rounded(N - k)
  <2>1. CASE Rounded(N - k) < Rounded(t)
    <3>1. Parts * Rounded(N - k) <= Parts * Rounded(t) - Parts
      BY <1>9, <2>1, Lattice
    <3> HIDE DEF N
    <3> QED BY <1>1, <1>4, <1>9, <3>1, HalfPart, Lattice
  <2> QED BY <1>9, <2>1
<1>11. points # 0
  <2>1. CASE points = 0
    <3>1. N - k = 0
      BY <1>1, <1>4, <2>1, HalfPart
    <3>2. Parts * Rounded(N - k) <= Half
      BY <1>9, <3>1, HalfPart
    <3>3. Rounded(N - k) > 0
      BY <1>8 DEF Planned, tp
    <3>4. Parts * 0 <= Parts * Rounded(N - k) - Parts
      BY <1>9, <3>3, Lattice
    <3>5. Parts * Rounded(N - k) \in Nat
      BY <1>9, Lattice
    <3> QED BY <3>2, <3>4, <3>5, HalfPart
  <2> QED BY <2>1
<1>12. /\ a * t * t = V * t
       /\ a * t * t + 2 * a * t * (N - k - t) = V * t + 2 * (V * (N - k - t))
       /\ 2 * Parts * a * t = 4 * (V * Half)
  BY <1>1, <1>4, HalfPart
<1>13. Trapezoid(a, d, t, k, N, Parts * Rounded(t), Parts * Rounded(N - k))
  BY <1>1, <1>4, <1>5, <1>9 DEF Trapezoid
<1>14. V <= p.max * Parts
  BY <1>1, <1>2, <1>5, HalfPart DEF Parameters
<1> HIDE DEF V, N, a, d
<1>15. Driven(p, tp, t, k)
  BY <1>4, <1>7, <1>8, <1>9, <1>10, <1>11, <1>12, <1>13, <1>14 DEF Driven, way, a, d, N, V
<1> QED BY <1>4, <1>15 DEF tp

\* Where a point lies, by its instant.
LEMMA WayIsAlong ==
    ASSUME NEW p, Parameters(p), NEW tp, NEW t, NEW k, Driven(p, tp, t, k), NEW i \in Nat
    PROVE  Way(p, tp, i) = Along(p.accel, p.decel, t, k, Parts * tp.points_num,
                                 Parts * tp.point_accel_end, Parts * tp.point_decel_start, Parts * i)
<1> DEFINE ae == tp.point_accel_end
           ds == tp.point_decel_start
           N == Parts * tp.points_num
           V == p.accel * t
<1>1. /\ ae \in Nat /\ ds \in Nat /\ tp.accel_pos = V * t /\ tp.uniform_speed = 4 * (V * Half)
      /\ tp.decel_pos = V * t + 2 * (V * (N - k - t)) /\ V \in Nat /\ p.accel \in Nat
      /\ p.decel \in Nat
  BY ProductIsNat DEF Driven, Parameters
<1> HIDE DEF ae, ds, V, N
<1>2. i < ae <=> Parts * i < Parts * ae
  BY <1>1, Lattice, HalfPart
<1>3. i > ds <=> Parts * i > Parts * ds
  BY <1>1, Lattice, HalfPart
<1>4. p.accel * i * i * Parts * Parts = p.accel * ((Parts * i) * (Parts * i))
  BY <1>1, HalfPart
<1>5. p.decel * Squared(i - ds) * Parts * Parts
        = p.decel * ((Parts * i - Parts * ds) * (Parts * i - Parts * ds))
  BY <1>1, HalfPart DEF Squared
<1>6. (4 * (V * Half)) * (i - ae) = 2 * (V * (Parts * i - Parts * ae))
  BY <1>1, HalfPart
<1>7. Way(p, tp, i) = IF i < ae THEN p.accel * i * i * Parts * Parts
                      ELSE IF i > ds
                      THEN tp.decel_pos + p.decel * Squared(i - ds) * Parts * Parts
                      ELSE tp.accel_pos + tp.uniform_speed * (i - ae)
  BY DEF Way, ae, ds
<1>8. Along(p.accel, p.decel, t, k, N, Parts * ae, Parts * ds, Parts * i)
        = IF Parts * i < Parts * ae THEN p.accel * ((Parts * i) * (Parts * i))
          ELSE IF Parts * i > Parts * ds
          THEN V * t + 2 * (V * (N - k - t))
               + p.decel * ((Parts * i - Parts * ds) * (Parts * i - Parts * ds))
          ELSE V * t + 2 * (V * (Parts * i - Parts * ae))
  BY DEF Along, V
<1>9. Way(p, tp, i) = Along(p.accel, p.decel, t, k, N, Parts * ae, Parts * ds, Parts * i)
  <2>1. CASE i < ae
    BY <1>2, <1>4, <1>7, <1>8, <2>1
  <2>2. CASE ~(i < ae) /\ i > ds
    BY <1>1, <1>2, <1>3, <1>5, <1>7, <1>8, <2>2
  <2>3. CASE ~(i < ae) /\ ~(i > ds)
    BY <1>1, <1>2, <1>3, <1>6, <1>7, <1>8, <2>3
  <2> QED BY <2>1, <2>2, <2>3
<1> QED BY <1>9 DEF ae, ds, N

\* The four facts about instants, for the points of a planner.
LEMMA WaysOfPoints ==
    ASSUME NEW p, Parameters(p), NEW tp, NEW t, NEW k, Driven(p, tp, t, k)
    PROVE  LET e == (p.accel * t) * Half
               S == Whole(p.accel, t, k, Parts * tp.points_num)
               last == tp.points_num - 1
           IN  /\ e \in Nat /\ S \in Int /\ tp.points_num \in Nat \ {0} /\ last \in Nat
               /\ \A i \in 0..last : Way(p, tp, i) \in Nat /\ Way(p, tp, i) <= S + e
               /\ \A i \in 0..last : i + 1 \in 0..last =>
                     /\ Way(p, tp, i + 1) <= Way(p, tp, i) + 6 * e
                     /\ Way(p, tp, i) <= Way(p, tp, i + 1) + 6 * e
               /\ Way(p, tp, 0) <= e
               /\ S <= Way(p, tp, last) + 6 * e
               /\ p.accel * t < Parts => S <= Way(p, tp, last) + Unit
<1> DEFINE a == p.accel
           d == p.decel
           ae == tp.point_accel_end
           ds == tp.point_decel_start
           n == tp.points_num
           N == Parts * n
           A == Parts * ae
           D == Parts * ds
           e == (a * t) * Half
           S == Whole(a, t, k, N)
           last == n - 1
<1>1. /\ a \in Nat \ {0} /\ d \in Nat \ {0} /\ t \in Nat /\ k \in Nat /\ n \in Nat \ {0}
      /\ ae \in Nat /\ ds \in Nat /\ ae <= ds /\ Trapezoid(a, d, t, k, N, A, D)
  BY DEF Driven, Parameters
<1>2. \A i \in Nat : Way(p, tp, i) = Along(a, d, t, k, N, A, D, Parts * i)
  BY WayIsAlong
<1> HIDE DEF a, d, ae, ds, n
<1>3. N \in Nat /\ A \in Nat /\ D \in Nat /\ A <= D
  BY <1>1, Lattice, HalfPart
<1>4. e \in Nat /\ S \in Int /\ last \in Nat /\ a * t \in Nat
  <2>1. a * t \in Nat
    BY <1>1, ProductIsNat
  <2> QED BY <1>1, <1>3, <2>1, HalfPart, ProductIsNat DEF Whole
<1>5. \A i \in Nat : /\ Parts * i \in Nat
                     /\ Parts * i < A => Parts * i <= A - Parts
                     /\ Parts * i > D => Parts * i >= D + Parts
                     /\ i < n => Parts * i <= N - Parts
  BY <1>1, Lattice, HalfPart
<1> HIDE DEF N, A, D
<1>6. ASSUME NEW i \in 0..last
      PROVE  Way(p, tp, i) \in Nat /\ Way(p, tp, i) <= S + e
  <2> DEFINE x == Parts * i
  <2>1. i \in Nat /\ i < n
    BY <1>1, <1>4
  <2>2. x \in Nat /\ x <= N - Parts /\ (x < A => x <= A - Parts) /\ (x > D => x >= D + Parts)
    BY <1>5, <2>1
  <2>3. Way(p, tp, i) = Along(a, d, t, k, N, A, D, x)
    BY <1>2, <2>1
  <2> HIDE DEF x, e, S, last
  <2>4. Along(a, d, t, k, N, A, D, x) \in Nat /\ Along(a, d, t, k, N, A, D, x) <= S + e
    BY <1>1, <1>3, <2>2, StaysWithin DEF S, e
  <2> QED BY <2>3, <2>4
<1>7. ASSUME NEW i \in 0..last, i + 1 \in 0..last
      PROVE  /\ Way(p, tp, i + 1) <= Way(p, tp, i) + 6 * e
             /\ Way(p, tp, i) <= Way(p, tp, i + 1) + 6 * e
  <2> DEFINE x == Parts * i
             y == Parts * (i + 1)
  <2>1. i \in Nat /\ i + 1 \in Nat /\ i + 1 < n
    BY <1>1, <1>4, <1>7
  <2>2. y = x + Parts
    BY <2>1, HalfPart
  <2>3. /\ x \in Nat /\ y \in Nat /\ y <= N - Parts
        /\ x < A => x <= A - Parts
        /\ y < A => y <= A - Parts
        /\ x > D => x >= D + Parts
        /\ y > D => y >= D + Parts
    BY <1>5, <2>1
  <2>4. (x < A => y <= A) /\ (y > D => x >= D)
    <3> HIDE DEF x, y
    <3> QED BY <1>3, <2>2, <2>3, HalfPart
  <2>5. /\ Way(p, tp, i) = Along(a, d, t, k, N, A, D, x)
        /\ Way(p, tp, i + 1) = Along(a, d, t, k, N, A, D, y)
    BY <1>2, <2>1
  <2> HIDE DEF x, y, e, S, last
  <2>6. /\ Along(a, d, t, k, N, A, D, y) <= Along(a, d, t, k, N, A, D, x) + 6 * e
        /\ Along(a, d, t, k, N, A, D, x) <= Along(a, d, t, k, N, A, D, y) + 6 * e
    <3>1. /\ Along(a, d, t, k, N, A, D, y)
               <= Along(a, d, t, k, N, A, D, x) + 6 * ((a * t) * Half)
          /\ Along(a, d, t, k, N, A, D, x)
               <= Along(a, d, t, k, N, A, D, y) + 6 * ((a * t) * Half)
      <4>1. /\ a \in Nat \ {0} /\ d \in Nat \ {0} /\ t \in Nat /\ k \in Nat /\ N \in Nat
            /\ A \in Nat /\ D \in Nat /\ Trapezoid(a, d, t, k, N, A, D) /\ A <= D
        BY <1>1, <1>3
      <4> QED BY <2>2, <2>3, <2>4, <4>1, StepsAreShort, Zenon
    <3> QED BY <3>1 DEF e
  <2> QED BY <2>5, <2>6
<1>8. Way(p, tp, 0) <= e
  <2>1. Way(p, tp, 0) = Along(a, d, t, k, N, A, D, 0)
    <3>1. Parts * 0 = 0
      BY HalfPart
    <3> QED BY <1>2, <3>1
  <2>2. Along(a, d, t, k, N, A, D, 0) <= (a * t) * Half
    BY <1>1, <1>3, StartsNear
  <2> QED BY <2>1, <2>2
<1>9. /\ S <= Way(p, tp, last) + 6 * e
      /\ a * t < Parts => S <= Way(p, tp, last) + Unit
  <2> DEFINE x == Parts * last
  <2>1. x = N - Parts
    BY <1>1, HalfPart DEF N
  <2>2. /\ x \in Nat
        /\ x < A => x <= A - Parts
        /\ x > D => x >= D + Parts
    BY <1>4, <1>5
  <2>3. (A < Parts => A = 0) /\ (A < 2 * Parts => A <= Parts)
    <3>1. ae = 0 => A = 0
      BY HalfPart DEF A
    <3>2. ae = 1 => A = Parts
      BY HalfPart DEF A
    <3>3. 2 <= ae => 2 * Parts <= A
      <4>1. 2 <= ae => Parts * 2 <= Parts * ae
        BY <1>1, HalfPart, ProductMonotone
      <4> QED BY <4>1, HalfPart DEF A
    <3>4. ae = 0 \/ ae = 1 \/ 2 <= ae
      BY <1>1
    <3> QED BY <1>3, <3>1, <3>2, <3>3, <3>4, HalfPart
  <2>4. Way(p, tp, last) = Along(a, d, t, k, N, A, D, x)
    BY <1>2, <1>4
  <2> HIDE DEF x, last
  <2> QED BY <1>1, <1>3, <2>1, <2>2, <2>3, <2>4, EndsNear
<1> QED BY <1>1, <1>4, <1>6, <1>7, <1>8, <1>9 DEF a, n, N


(***************************************************************************)
(* The points themselves, each a whole position.                           *)
(***************************************************************************)
\* Where a point lies before it becomes a uint32_t.
At(p, tp, index) == tp.origin_pos * Unit + tp.direction * Way(p, tp, index)

\* The way that is made in half a point at the greatest speed.
Slip(p, t) == (p.accel * t) * Half

\* Apart(x, y, b): x and y are no further from each other than b.
Apart(x, y, b) == x <= y + b /\ y <= x + b

LEMMA PointsApart ==
    ASSUME NEW p, Parameters(p), NEW tp, NEW t, NEW k, Driven(p, tp, t, k),
           tp.origin_pos \in Int, tp.target_pos \in Nat
    PROVE  LET e == Slip(p, t)
               last == tp.points_num - 1
               from == Unit * tp.origin_pos
               to == Unit * tp.target_pos
           IN  /\ e \in Nat /\ last \in Nat /\ from \in Int /\ to \in Int
               /\ \A i \in 0..last :
                     /\ At(p, tp, i) \in Int
                     /\ tp.direction = 1 => from <= At(p, tp, i) /\ At(p, tp, i) <= to + e
                     /\ tp.direction # 1 => to <= At(p, tp, i) + e /\ At(p, tp, i) <= from
                     /\ i + 1 \in 0..last => Apart(At(p, tp, i), At(p, tp, i + 1), 6 * e)
               /\ Apart(At(p, tp, 0), from, e)
               /\ Apart(At(p, tp, last), to, 6 * e)
               /\ p.accel * t < Parts => Apart(At(p, tp, last), to, Unit)
<1> DEFINE e == Slip(p, t)
           last == tp.points_num - 1
           from == Unit * tp.origin_pos
           to == Unit * tp.target_pos
           S == Whole(p.accel, t, k, Parts * tp.points_num)
           up == tp.direction = 1
           w(i) == Way(p, tp, i)
           x(i) == At(p, tp, i)
<1>1. /\ e \in Nat /\ S \in Int /\ last \in Nat
      /\ \A i \in 0..last : w(i) \in Nat /\ w(i) <= S + e
      /\ \A i \in 0..last : i + 1 \in 0..last =>
            w(i + 1) <= w(i) + 6 * e /\ w(i) <= w(i + 1) + 6 * e
      /\ w(0) <= e /\ S <= w(last) + 6 * e
      /\ p.accel * t < Parts => S <= w(last) + Unit
  BY WaysOfPoints DEF Slip
<1>2. from \in Int /\ to \in Int /\ Unit \in Nat
  BY UnitIsNat
<1>3. /\ up => to = from + S
      /\ ~up => to = from - S
      /\ tp.direction = IF up THEN 1 ELSE -1
  <2>1. /\ Unit * Distance(tp.origin_pos, tp.target_pos) = S
        /\ tp.direction = IF tp.target_pos < tp.origin_pos THEN -1 ELSE 1
    BY DEF Driven
  <2>2. CASE tp.target_pos < tp.origin_pos
    <3>1. S = Unit * (tp.origin_pos - tp.target_pos)
      BY <2>1, <2>2 DEF Distance
    <3>2. S = from - to
      BY <1>2, <3>1
    <3> QED BY <1>1, <1>2, <2>1, <2>2, <3>2
  <2>3. CASE ~(tp.target_pos < tp.origin_pos)
    <3>1. S = Unit * (tp.target_pos - tp.origin_pos)
      <4>1. CASE tp.target_pos = tp.origin_pos
        BY <2>1, <4>1 DEF Distance
      <4>2. CASE tp.origin_pos < tp.target_pos
        BY <2>1, <4>2 DEF Distance
      <4> QED BY <2>3, <4>1, <4>2
    <3>2. S = to - from
      BY <1>2, <3>1
    <3> QED BY <1>1, <1>2, <2>1, <2>3, <3>2
  <2> QED BY <2>2, <2>3
<1>4. \A i \in 0..last : x(i) = IF up THEN from + w(i) ELSE from - w(i)
  <2> SUFFICES ASSUME NEW i \in 0..last PROVE x(i) = IF up THEN from + w(i) ELSE from - w(i)
    OBVIOUS
  <2>1. w(i) \in Nat
    BY <1>1
  <2>2. x(i) = tp.origin_pos * Unit + tp.direction * w(i) /\ tp.origin_pos * Unit = from
    BY <1>2 DEF At
  <2> HIDE DEF w, x, from, up
  <2> QED BY <1>2, <1>3, <2>1, <2>2
<1>5. p.accel * t < Parts => e <= Unit
  <2>1. p.accel * t \in Nat /\ Half * Half \in Nat
    BY HalfPart, ProductIsNat DEF Driven, Parameters
  <2>2. p.accel * t < Parts => Half * (p.accel * t) <= Half * (2 * Half)
    BY <2>1, HalfPart, ProductMonotone
  <2>3. Half * (p.accel * t) = e /\ Half * (2 * Half) = 2 * (Half * Half)
    BY <2>1, HalfPart DEF Slip
  <2> QED BY <1>1, <2>1, <2>2, <2>3, HalfPart
<1>6. 0 \in 0..last /\ last \in 0..last
  BY <1>1
<1> HIDE DEF e, last, from, to, S, up, w, x
<1>7. ASSUME NEW i \in 0..last
      PROVE  /\ x(i) \in Int
             /\ up => from <= x(i) /\ x(i) <= to + e
             /\ ~up => to <= x(i) + e /\ x(i) <= from
             /\ i + 1 \in 0..last => Apart(x(i), x(i + 1), 6 * e)
  <2>1. w(i) \in Nat /\ w(i) <= S + e /\ x(i) = IF up THEN from + w(i) ELSE from - w(i)
    BY <1>1, <1>4
  <2>2. i + 1 \in 0..last => /\ w(i + 1) \in Nat
                             /\ w(i + 1) <= w(i) + 6 * e /\ w(i) <= w(i + 1) + 6 * e
                             /\ x(i + 1) = IF up THEN from + w(i + 1) ELSE from - w(i + 1)
    BY <1>1, <1>4
  <2>3. CASE up
    BY <1>1, <1>2, <1>3, <2>1, <2>2, <2>3 DEF Apart
  <2>4. CASE ~up
    BY <1>1, <1>2, <1>3, <2>1, <2>2, <2>4 DEF Apart
  <2> QED BY <2>3, <2>4
<1>8. Apart(x(0), from, e)
  <2>1. w(0) \in Nat /\ x(0) = IF up THEN from + w(0) ELSE from - w(0)
    BY <1>1, <1>4, <1>6
  <2> QED BY <1>1, <1>2, <2>1 DEF Apart
<1>9. /\ Apart(x(last), to, 6 * e)
      /\ p.accel * t < Parts => Apart(x(last), to, Unit)
  <2>1. /\ w(last) \in Nat /\ w(last) <= S + e
        /\ x(last) = IF up THEN from + w(last) ELSE from - w(last)
    BY <1>1, <1>4, <1>6
  <2>2. CASE up
    BY <1>1, <1>2, <1>3, <1>5, <2>1, <2>2 DEF Apart
  <2>3. CASE ~up
    BY <1>1, <1>2, <1>3, <1>5, <2>1, <2>3 DEF Apart
  <2> QED BY <2>2, <2>3
<1> QED BY <1>1, <1>2, <1>7, <1>8, <1>9 DEF e, last, from, to, up, x

\* What is near stays near when it becomes a position.
LEMMA PositionsApart ==
    ASSUME NEW v \in Int, NEW w \in Int, NEW b \in Nat, Apart(v, w, Unit * b)
    PROVE  Distance(Position(v), Position(w)) <= b
<1>1. Position(v) \in Int /\ Position(w) \in Int
  BY PositionType
<1>2. Position(w) <= Position(v) + b /\ Position(v) <= Position(w) + b
  BY PositionNear DEF Apart
<1> QED BY <1>1, <1>2 DEF Distance

LEMMA PointIsPosition ==
    ASSUME NEW p, NEW tp, NEW i
    PROVE  Point(p, tp, i) = Position(At(p, tp, i))
BY DEF Point, At

\* Every point is on its way.
LEMMA PointOnItsWay ==
    ASSUME NEW p, Parameters(p), NEW tp, NEW t, NEW k, Driven(p, tp, t, k),
           tp.origin_pos \in Int, tp.target_pos \in Nat, NEW i \in 0..(tp.points_num - 1)
    PROVE  OnItsWay(tp, Point(p, tp, i))
<1> DEFINE e == Slip(p, t)
           from == Unit * tp.origin_pos
           to == Unit * tp.target_pos
           x == At(p, tp, i)
           q == tp.uniform_speed \div (4 * Unit)
           pos == Point(p, tp, i)
<1>1. /\ e \in Nat /\ from \in Int /\ to \in Int /\ x \in Int
      /\ tp.direction = 1 => from <= x /\ x <= to + e
      /\ tp.direction # 1 => to <= x + e /\ x <= from
  BY PointsApart
<1>2. q \in Nat /\ e <= Unit * (1 + q) /\ Unit \in Nat \ {0}
  <2>1. tp.uniform_speed = 4 * e /\ Unit \in Nat \ {0}
    BY UnitIsNat DEF Driven, Slip
  <2> HIDE DEF e
  <2>2. tp.uniform_speed \in Nat /\ 4 * Unit \in Nat \ {0}
    BY <1>1, <2>1
  <2>3. q \in Nat /\ tp.uniform_speed < 4 * Unit * q + 4 * Unit
    BY <2>2, Division
  <2> HIDE DEF q
  <2>4. 4 * Unit * q = 4 * (Unit * q) /\ Unit * (1 + q) = Unit + Unit * q /\ Unit * q \in Int
    BY <2>1, <2>3
  <2> QED BY <1>1, <2>1, <2>3, <2>4
<1>3. pos = Position(x)
  BY PointIsPosition
<1>4. tp.direction # 1 => tp.origin_pos >= 0
  BY DEF Driven
<1>5. /\ Position(from) >= tp.origin_pos /\ Position(to) = tp.target_pos
      /\ tp.direction # 1 => Position(from) = tp.origin_pos
  BY <1>4, PositionOf
<1>6. Unit * 0 = 0 /\ 1 + q \in Nat
  BY <1>2
<1> HIDE DEF e, from, to, x, q, pos
<1>7. Position(from) \in Int /\ Position(to) \in Int /\ Position(x) \in Int
  BY <1>1, PositionType
<1>8. CASE tp.direction = 1
  <2>1. Position(from) <= Position(x) + 0
    BY <1>1, <1>6, <1>8, PositionNear
  <2>2. x <= to + Unit * (1 + q)
    BY <1>1, <1>2, <1>8
  <2>3. Position(x) <= Position(to) + (1 + q)
    BY <1>1, <1>6, <2>2, PositionNear
  <2>4. tp.origin_pos <= pos /\ pos <= tp.target_pos + (1 + q)
    BY <1>3, <1>5, <1>7, <2>1, <2>3
  <2> QED BY <1>8, <2>4 DEF OnItsWay, q, pos
<1>9. CASE tp.direction # 1
  <2>1. Position(x) <= Position(from) + 0
    BY <1>1, <1>6, <1>9, PositionNear
  <2>2. to <= x + Unit * (1 + q)
    BY <1>1, <1>2, <1>9
  <2>3. Position(to) <= Position(x) + (1 + q)
    BY <1>1, <1>6, <2>2, PositionNear
  <2>4. tp.target_pos <= pos + (1 + q) /\ pos <= tp.origin_pos
    BY <1>3, <1>5, <1>7, <1>9, <2>1, <2>3
  <2> QED BY <1>9, <2>4 DEF OnItsWay, q, pos
<1> QED BY <1>8, <1>9

LEMMA SlipIsBounded ==
    ASSUME NEW p, Parameters(p), NEW tp, NEW t, NEW k, Driven(p, tp, t, k)
    PROVE  /\ Slip(p, t) \in Nat /\ p.max * (Half * Half) \in Nat
           /\ Slip(p, t) <= 2 * (p.max * (Half * Half))
           /\ Unit * (2 * p.max) = 16 * (p.max * (Half * Half))
<1> DEFINE V == p.accel * t
<1>1. V \in Nat /\ p.max \in Nat /\ V <= p.max * (2 * Half)
  BY HalfPart, ProductIsNat DEF Driven, Parameters
<1> HIDE DEF V
<1>2. p.max * (Half * Half) \in Nat /\ p.max * (2 * Half) \in Nat /\ V * Half \in Nat
  BY <1>1, HalfPart, ProductIsNat
<1>3. Half * V <= Half * (p.max * (2 * Half))
  BY <1>1, <1>2, HalfPart, ProductMonotone
<1>4. Half * (p.max * (2 * Half)) = 2 * (p.max * (Half * Half)) /\ Half * V = V * Half
  BY <1>1, HalfPart
<1>5. Unit * (2 * p.max) = 16 * (p.max * (Half * Half))
  BY <1>1, HalfPart
<1> QED BY <1>2, <1>3, <1>4, <1>5 DEF Slip, V

\* From a point to the next one of the segment.
LEMMA StepWithinSegment ==
    ASSUME NEW p, Parameters(p), NEW tp, NEW t, NEW k, Driven(p, tp, t, k),
           tp.origin_pos \in Int, tp.target_pos \in Nat,
           NEW i \in 0..(tp.points_num - 1), i + 1 \in 0..(tp.points_num - 1)
    PROVE  ShortStep(p.max, Point(p, tp, i), Point(p, tp, i + 1))
<1> DEFINE x == At(p, tp, i)
           y == At(p, tp, i + 1)
           e == Slip(p, t)
           b == 2 * p.max
<1>1. x \in Int /\ y \in Int /\ Apart(x, y, 6 * e)
  BY PointsApart
<1>2. e \in Nat /\ b \in Nat /\ p.max \in Nat /\ 6 * e <= Unit * b /\ Unit * b \in Int
  BY SlipIsBounded DEF Parameters
<1>3. Point(p, tp, i) = Position(x) /\ Point(p, tp, i + 1) = Position(y)
  BY PointIsPosition
<1> HIDE DEF x, y, e, b
<1>4. Apart(x, y, Unit * b)
  BY <1>1, <1>2 DEF Apart
<1>5. Distance(Position(x), Position(y)) <= b /\ Distance(Position(x), Position(y)) \in Nat
  BY <1>1, <1>2, <1>4, PositionsApart, PositionType, DistanceType
<1> QED BY <1>2, <1>3, <1>5 DEF ShortStep, b

\* From the last point of a segment to the first one of the segment that
\* begins where it ends.
LEMMA StepToNextSegment ==
    ASSUME NEW p, Parameters(p), NEW tp, NEW t, NEW k, Driven(p, tp, t, k),
           tp.origin_pos \in Int, tp.target_pos \in Nat,
           NEW tq, NEW u, NEW j, Driven(p, tq, u, j),
           tq.origin_pos = tp.target_pos, tq.target_pos \in Nat
    PROVE  ShortStep(p.max, Point(p, tp, tp.points_num - 1), Point(p, tq, 0))
<1> DEFINE x == At(p, tp, tp.points_num - 1)
           y == At(p, tq, 0)
           to == Unit * tp.target_pos
           e == Slip(p, t)
           g == Slip(p, u)
           b == 2 * p.max
<1>1. x \in Int /\ Apart(x, to, 6 * e) /\ to \in Int
  <2>1. tp.points_num - 1 \in 0..(tp.points_num - 1)
    BY DEF Driven
  <2> QED BY <2>1, PointsApart
<1>2. y \in Int /\ Apart(y, to, g)
  <2>1. 0 \in 0..(tq.points_num - 1) /\ tq.origin_pos \in Int
    BY DEF Driven
  <2> QED BY <2>1, PointsApart
<1>3. /\ e \in Nat /\ g \in Nat /\ b \in Nat /\ p.max \in Nat
      /\ 6 * e + g <= Unit * b /\ Unit * b \in Int
  BY SlipIsBounded DEF Parameters
<1>4. Point(p, tp, tp.points_num - 1) = Position(x) /\ Point(p, tq, 0) = Position(y)
  BY PointIsPosition
<1> HIDE DEF x, y, e, g, b, to
<1>5. Apart(x, y, Unit * b)
  BY <1>1, <1>2, <1>3 DEF Apart
<1>6. Distance(Position(x), Position(y)) <= b /\ Distance(Position(x), Position(y)) \in Nat
  BY <1>1, <1>2, <1>3, <1>5, PositionsApart, PositionType, DistanceType
<1> QED BY <1>3, <1>4, <1>6 DEF ShortStep, b

\* From the last point to the end of the segment.
LEMMA StepToEnd ==
    ASSUME NEW p, Parameters(p), NEW tp, NEW t, NEW k, Driven(p, tp, t, k),
           tp.origin_pos \in Int, tp.target_pos \in Nat
    PROVE  ShortStep(tp.uniform_speed \div Unit, Point(p, tp, tp.points_num - 1), tp.target_pos)
<1> DEFINE V == p.accel * t
           x == At(p, tp, tp.points_num - 1)
           to == Unit * tp.target_pos
           e == V * Half
           m == tp.uniform_speed \div Unit
           b == 2 * m + 1
<1>1. /\ x \in Int /\ to \in Int /\ Apart(x, to, 6 * e)
      /\ V < Parts => Apart(x, to, Unit)
  <2>1. tp.points_num - 1 \in 0..(tp.points_num - 1)
    BY DEF Driven
  <2> QED BY <2>1, PointsApart DEF Slip
<1>2. V \in Nat /\ e \in Nat /\ tp.uniform_speed = 4 * e
  <2>1. V \in Nat
    BY ProductIsNat DEF Driven, Parameters
  <2> QED BY <2>1, HalfPart, ProductIsNat DEF Driven
<1>3. Point(p, tp, tp.points_num - 1) = Position(x) /\ Position(to) = tp.target_pos
  BY PointIsPosition, PositionOf
<1> HIDE DEF x, to, e
<1>4. m \in Nat /\ Unit * m <= 4 * e /\ 4 * e < Unit * m + Unit /\ Unit \in Nat \ {0}
  <2>1. Unit \in Nat \ {0} /\ 4 * e \in Nat
    BY <1>2, UnitIsNat
  <2> QED BY <1>2, <2>1, Division
<1> HIDE DEF m
<1>5. Apart(x, to, Unit * b)
  <2>1. Unit * m \in Int /\ Unit * b = 2 * (Unit * m) + Unit
    BY <1>4
  <2>2. CASE m = 0
    <3>1. V < Parts
      <4>1. Half * V < Half * (2 * Half)
        <5>1. Half * V = e /\ Half * (2 * Half) = 2 * (Half * Half)
          BY <1>2, HalfPart DEF e
        <5>2. 4 * e < 8 * (Half * Half)
          BY <1>4, <2>2, HalfPart
        <5> QED BY <1>2, <5>1, <5>2, HalfPart
      <4>2. CASE 2 * Half <= V
        <5>1. Half * (2 * Half) <= Half * V
          BY <1>2, <4>2, HalfPart, ProductMonotone
        <5>2. Half * (2 * Half) \in Nat /\ Half * V \in Nat
          BY <1>2, HalfPart, ProductIsNat
        <5> QED BY <4>1, <5>1, <5>2
      <4> HIDE DEF V
      <4> QED BY <1>2, <4>2, HalfPart
    <3>2. Unit * b = Unit
      BY <1>4, <2>2
    <3> QED BY <1>1, <3>1, <3>2
  <2>3. CASE m # 0
    <3>1. Unit * 1 <= Unit * m
      BY <1>4, <2>3, ProductMonotone
    <3>2. 6 * e <= Unit * b
      BY <1>2, <1>4, <2>1, <3>1
    <3>3. Unit * b \in Int
      BY <1>4, <2>1
    <3> HIDE DEF b
    <3> QED BY <1>1, <1>2, <3>2, <3>3 DEF Apart
  <2> QED BY <2>2, <2>3
<1>6. Distance(Position(x), Position(to)) <= b
  <2>1. b \in Nat
    BY <1>4
  <2> HIDE DEF b
  <2> QED BY <1>1, <1>5, <2>1, PositionsApart
<1> QED BY <1>3, <1>6 DEF ShortStep, m
=============================================================================
