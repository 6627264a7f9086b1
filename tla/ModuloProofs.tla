---------------------------- MODULE ModuloProofs ----------------------------
(***************************************************************************)
(* Facts about the remainder that ring buffers rest on: indices that wrap  *)
(* at the width of the counter, taken modulo the size of the buffer        *)
(* (nread and nwrite of pipe.c, the virtio rings).                         *)
(***************************************************************************)
EXTENDS Integers, TLAPS

\* Quotient and remainder.
LEMMA DivMod ==
    ASSUME NEW m \in Int, m > 0, NEW x \in Int
    PROVE  /\ x = m * (x \div m) + (x % m)
           /\ x \div m \in Int /\ x % m \in Int /\ 0 <= x % m /\ x % m < m
<1>1. x = m * (x \div m) + (x % m)
    OBVIOUS
<1>2. x \div m \in Int /\ x % m \in Int /\ 0 <= x % m /\ x % m < m
    OBVIOUS
<1>3. QED
    BY <1>1, <1>2

\* Zero is the only multiple of m between -m and m.
LEMMA SmallMultiple ==
    ASSUME NEW m \in Int, m > 0, NEW d \in Int, -m < m * d, m * d < m
    PROVE  d = 0
<1>1. d >= 1 => m * d >= m
    OBVIOUS
<1>2. d <= -1 => m * d <= -m
    OBVIOUS
<1>3. QED
    BY <1>1, <1>2

\* Remainders that differ by a multiple of the modulus are equal.
LEMMA SameRemainder ==
    ASSUME NEW m \in Int, m > 0, NEW a \in Int, NEW b \in Int, NEW k \in Int,
           NEW r \in Int, 0 <= r, r < m, NEW t \in Int, 0 <= t, t < m,
           m * a + r = m * b + t + m * k
    PROVE  r = t
<1> DEFINE d == a - b - k
<1>1. d \in Int /\ m * d = m * a - m * b - m * k
    OBVIOUS
<1>2. -m < m * d /\ m * d < m
    BY <1>1
<1> HIDE DEF d
<1>3. d = 0
    BY <1>1, <1>2, SmallMultiple
<1>4. QED
    BY <1>1, <1>3

\* The remainder does not see multiples of the modulus.
LEMMA ModShift ==
    ASSUME NEW m \in Int, m > 0, NEW x \in Int, NEW k \in Int
    PROVE  (x + m * k) % m = x % m
<1> DEFINE y == x + m * k
           a == y \div m
           b == x \div m
           r == y % m
           t == x % m
<1>1. y \in Int
    OBVIOUS
<1>2. y = m * a + r /\ a \in Int /\ r \in Int /\ 0 <= r /\ r < m
    BY <1>1, DivMod
<1>3. x = m * b + t /\ b \in Int /\ t \in Int /\ 0 <= t /\ t < m
    BY DivMod
<1>4. y = x + m * k
    OBVIOUS
<1> HIDE DEF a, b, r, t, y
<1>5. m * a + r = m * b + t + m * k
    BY <1>2, <1>3, <1>4
<1>6. r = t
    BY <1>2, <1>3, <1>5, SameRemainder
<1>7. QED
    BY <1>6 DEF r, t, y

\* Numbers less than a modulus apart have different remainders.
LEMMA ModDistinct ==
    ASSUME NEW m \in Int, m > 0, NEW x \in Int, NEW y \in Int,
           x <= y, y < x + m, x % m = y % m
    PROVE  x = y
<1>1. /\ x = m * (x \div m) + (x % m) /\ x \div m \in Int /\ x % m \in Int
      /\ y = m * (y \div m) + (y % m) /\ y \div m \in Int
    BY DivMod
<1> DEFINE d == y \div m - x \div m
<1>2. d \in Int /\ y - x = m * d
    BY <1>1
<1> HIDE DEF d
<1>3. d = 0
  <2>1. -m < m * d /\ m * d < m
    BY <1>2
  <2>2. QED
    BY <1>2, <2>1, SmallMultiple
<1>4. QED
    BY <1>2, <1>3

\* A counter that wraps goes up by one or starts over.
LEMMA ModSucc ==
    ASSUME NEW m \in Int, m > 0, NEW x \in Int, 0 <= x, x < m
    PROVE  (x + 1) % m = IF x + 1 = m THEN 0 ELSE x + 1
OBVIOUS

\* ... or by any amount less than the modulus.
LEMMA ModAdd ==
    ASSUME NEW m \in Int, m > 0, NEW x \in Int, 0 <= x, x < m, NEW y \in Int, 0 <= y, y < m
    PROVE  (x + y) % m = IF x + y < m THEN x + y ELSE x + y - m
OBVIOUS

\* The distance from one counter to another, both of which wrap.
LEMMA ModDiff ==
    ASSUME NEW m \in Int, m > 0, NEW x \in Int, 0 <= x, x < m, NEW y \in Int, 0 <= y, y < m
    PROVE  (x - y) % m = IF x >= y THEN x - y ELSE x - y + m
OBVIOUS

-----------------------------------------------------------------------------
(* Rings *)

\* A ring of P places, from index r (next to take out) to index w (next to put
\* in), both of which wrap at U.
Ring(U, P, r, w) ==
    /\ U \in Int /\ U > 0 /\ P \in Int /\ P > 0 /\ P < U /\ U % P = 0
    /\ r \in Int /\ 0 <= r /\ r < U
    /\ w \in Int /\ 0 <= w /\ w < U

\* How many are in it; it is full exactly when w has come round to r.
LEMMA RingCount ==
    ASSUME NEW U, NEW P, NEW r, NEW w, Ring(U, P, r, w)
    PROVE  /\ (w - r) % U \in Nat
           /\ w = (r + P) % U <=> (w - r) % U = P
           /\ w = r <=> (w - r) % U = 0
<1>1. (w - r) % U = IF w >= r THEN w - r ELSE w - r + U
    BY ModDiff DEF Ring
<1>2. (r + P) % U = IF r + P < U THEN r + P ELSE r + P - U
    BY ModAdd DEF Ring
<1>3. QED
    BY <1>1, <1>2 DEF Ring

\* Putting one in.
LEMMA RingPut ==
    ASSUME NEW U, NEW P, NEW r, NEW w, Ring(U, P, r, w), ((w - r) % U) + 1 < U
    PROVE  (((w + 1) % U) - r) % U = ((w - r) % U) + 1
<1> USE DEF Ring
<1>1. (w - r) % U = IF w >= r THEN w - r ELSE w - r + U
    BY ModDiff
<1> DEFINE v == (w + 1) % U
<1>2. v = IF w + 1 = U THEN 0 ELSE w + 1
    BY ModSucc
<1> HIDE DEF v
<1>3. (v - r) % U = IF v >= r THEN v - r ELSE v - r + U
    BY <1>2, ModDiff
<1>4. (v - r) % U = ((w - r) % U) + 1
    BY <1>1, <1>2, <1>3
<1>5. QED
    BY <1>4 DEF v

\* Taking one out.
LEMMA RingGet ==
    ASSUME NEW U, NEW P, NEW r, NEW w, Ring(U, P, r, w), r # w
    PROVE  (w - r) % U > 0 /\ (w - ((r + 1) % U)) % U = ((w - r) % U) - 1
<1> USE DEF Ring
<1>1. (w - r) % U = IF w >= r THEN w - r ELSE w - r + U
    BY ModDiff
<1> DEFINE v == (r + 1) % U
<1>2. v = IF r + 1 = U THEN 0 ELSE r + 1
    BY ModSucc
<1> HIDE DEF v
<1>3. (w - v) % U = IF w >= v THEN w - v ELSE w - v + U
    BY <1>2, ModDiff
<1>4. (w - r) % U > 0 /\ (w - v) % U = ((w - r) % U) - 1
    BY <1>1, <1>2, <1>3
<1>5. QED
    BY <1>4 DEF v

\* The place w points to, counted from r.
LEMMA RingPlace ==
    ASSUME NEW U, NEW P, NEW r, NEW w, Ring(U, P, r, w)
    PROVE  w % P = (r + ((w - r) % U)) % P
<1> USE DEF Ring
<1> DEFINE c == (w - r) % U
<1>1. c = IF w >= r THEN w - r ELSE w - r + U
    BY ModDiff
<1> HIDE DEF c
<1>2. r + c = w \/ r + c = w + U
    BY <1>1
<1>3. U = P * (U \div P) /\ U \div P \in Int
    BY DivMod
<1>4. (w + P * (U \div P)) % P = w % P
    BY <1>3, ModShift, Zenon
<1>5. (r + c) % P = w % P
    BY <1>2, <1>3, <1>4
<1>6. QED
    BY <1>5 DEF c

\* The places after r has moved on.
LEMMA RingNext ==
    ASSUME NEW U, NEW P, NEW r, NEW w, Ring(U, P, r, w), NEW k \in Int
    PROVE  (((r + 1) % U) + k) % P = (r + 1 + k) % P
<1> USE DEF Ring
<1> DEFINE v == (r + 1) % U
<1>1. v = IF r + 1 = U THEN 0 ELSE r + 1
    BY ModSucc
<1>2. U = P * (U \div P) /\ U \div P \in Int
    BY DivMod
<1> HIDE DEF v
<1>3. v + k \in Int /\ (r + 1 + k = v + k \/ r + 1 + k = v + k + U)
    BY <1>1
<1>4. (v + k + P * (U \div P)) % P = (v + k) % P
    BY <1>2, <1>3, ModShift, Zenon
<1>5. (v + k) % P = (r + 1 + k) % P
    BY <1>2, <1>3, <1>4
<1>6. QED
    BY <1>5 DEF v

\* The places after w, counted from r.
LEMMA RingFrom ==
    ASSUME NEW U, NEW P, NEW r, NEW w, Ring(U, P, r, w), NEW k \in Int
    PROVE  (w + k) % P = (r + ((w - r) % U) + k) % P
<1> USE DEF Ring
<1> DEFINE c == (w - r) % U
<1>1. c = IF w >= r THEN w - r ELSE w - r + U
    BY ModDiff
<1> HIDE DEF c
<1>2. w + k \in Int /\ (r + c + k = w + k \/ r + c + k = w + k + U)
    BY <1>1
<1>3. U = P * (U \div P) /\ U \div P \in Int
    BY DivMod
<1>4. (w + k + P * (U \div P)) % P = (w + k) % P
    BY <1>2, <1>3, ModShift, Zenon
<1>5. (r + c + k) % P = (w + k) % P
    BY <1>2, <1>3, <1>4
<1>6. QED
    BY <1>5 DEF c

\* An index that wraps stays at its place.
LEMMA RingWrap ==
    ASSUME NEW U, NEW P, NEW r, NEW w, Ring(U, P, r, w), NEW k \in Int, 0 <= k, k < U
    PROVE  ((r + k) % U) % P = (r + k) % P
<1> USE DEF Ring
<1> DEFINE v == (r + k) % U
<1>1. v = IF r + k < U THEN r + k ELSE r + k - U
    BY ModAdd
<1>2. U = P * (U \div P) /\ U \div P \in Int
    BY DivMod
<1> HIDE DEF v
<1>3. v \in Int /\ (r + k = v \/ r + k = v + U)
    BY <1>1
<1>4. (v + P * (U \div P)) % P = v % P
    BY <1>2, <1>3, ModShift, Zenon
<1>5. v % P = (r + k) % P
    BY <1>2, <1>3, <1>4
<1>6. QED
    BY <1>5 DEF v
=============================================================================
