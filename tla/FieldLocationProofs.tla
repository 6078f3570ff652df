------------------------ MODULE FieldLocationProofs ------------------------
(***************************************************************************)
(* The algebra of field locations is exact, for every width of the offsets *)
(* and every modulus.  TLC compares it with the integers over a window and *)
(* a range of a dozen offsets; here the offsets are all of them.           *)
(*                                                                         *)
(* The argument: the code's gcd divides both moduli and is a combination   *)
(* of them; a sum of lanes is congruent modulo any common divisor, which   *)
(* makes add safe, and the differences of two lanes are all the numbers of *)
(* one class modulo the gcd, which makes the two relations exact.          *)
(***************************************************************************)
EXTENDS GepChains, WellFoundedInduction, TLAPS

(***************************************************************************)
(* Division                                                                *)
(***************************************************************************)

Divides(d, n) == \E k \in Int : n = d * k

\* Dividing by a positive number leaves a quotient and a rest.
LEMMA Rest ==
  ASSUME NEW a \in Int, NEW m \in Nat \ {0}
  PROVE  /\ a \div m \in Int /\ a % m \in 0 .. m - 1
         /\ a = m * (a \div m) + (a % m)
OBVIOUS

\* The rest is the only number of its range that differs by a multiple.
LEMMA RestUnique ==
  ASSUME NEW m \in Nat \ {0}, NEW r \in 0 .. m - 1, NEW s \in 0 .. m - 1, NEW k \in Int,
         r - s = m * k
  PROVE  r = s
<1>1. CASE k = 0
  BY <1>1
<1>2. CASE k >= 1
  <2>1. m * k >= m
    BY <1>2
  <2>2. QED
    BY <2>1
<1>3. CASE k <= -1
  <2>1. m * k <= -m
    BY <1>3
  <2>2. QED
    BY <2>1
<1>4. QED
  BY <1>1, <1>2, <1>3

\* Two numbers leave the same rest just when they differ by a multiple.
LEMMA SameRest ==
  ASSUME NEW a \in Int, NEW b \in Int, NEW m \in Nat \ {0}
  PROVE  a % m = b % m <=> Divides(m, a - b)
<1>1. ASSUME a % m = b % m PROVE Divides(m, a - b)
  <2>1. a - b = m * (a \div m) - m * (b \div m)
    BY <1>1, Rest
  <2>2. a - b = m * ((a \div m) - (b \div m))
    BY <2>1, Rest
  <2>3. (a \div m) - (b \div m) \in Int
    BY Rest
  <2>4. QED
    BY <2>2, <2>3, Zenon DEF Divides
<1>2. ASSUME Divides(m, a - b) PROVE a % m = b % m
  <2>1. PICK k \in Int : a - b = m * k
    BY <1>2 DEF Divides
  <2> DEFINE q == a \div m
             p == b \div m
             r == a % m
             s == b % m
  <2>2. q \in Int /\ p \in Int /\ r \in 0 .. m - 1 /\ s \in 0 .. m - 1 /\ a = m * q + r /\ b = m * p + s
    BY Rest
  <2> HIDE DEF q, p, r, s
  <2>3. r - s = m * (k - q + p) /\ k - q + p \in Int
    BY <2>1, <2>2
  <2>4. r = s
    BY <2>2, <2>3, RestUnique
  <2>5. QED
    BY <2>4 DEF r, s
<1>3. QED
  BY <1>1, <1>2

\* Sums and differences of multiples are multiples.
LEMMA DividesSum ==
  ASSUME NEW d \in Int, NEW a \in Int, NEW b \in Int, Divides(d, a), Divides(d, b)
  PROVE  Divides(d, a + b) /\ Divides(d, a - b)
<1>1. PICK x \in Int : a = d * x
  BY DEF Divides
<1>2. PICK y \in Int : b = d * y
  BY DEF Divides
<1>3. a + b = d * (x + y) /\ a - b = d * (x - y) /\ x + y \in Int /\ x - y \in Int
  BY <1>1, <1>2
<1>4. QED
  BY <1>3, Zenon DEF Divides

\* Multiples of multiples are multiples.
LEMMA DividesMultiple ==
  ASSUME NEW d \in Int, NEW a \in Int, NEW k \in Int, Divides(d, a)
  PROVE  a * k \in Int /\ Divides(d, a * k)
<1>1. PICK x \in Int : a = d * x
  BY DEF Divides
<1>2. a * k = d * (x * k) /\ x * k \in Int /\ a * k \in Int
  BY <1>1
<1>3. QED
  BY <1>2, Zenon DEF Divides

\* What divides a divisor divides.
LEMMA DividesThrough ==
  ASSUME NEW c \in Int, NEW d \in Int, NEW a \in Int, Divides(c, d), Divides(d, a)
  PROVE  Divides(c, a)
<1>1. PICK x \in Int : d = c * x
  BY DEF Divides
<1>2. PICK y \in Int : a = d * y
  BY DEF Divides
<1>3. a = c * (x * y) /\ x * y \in Int
  BY <1>1, <1>2
<1>4. QED
  BY <1>3, Zenon DEF Divides

\* A divisor of a positive number is no larger.
LEMMA DivisorSmaller ==
  ASSUME NEW d \in Nat, NEW a \in Nat \ {0}, Divides(d, a)
  PROVE  d <= a /\ d # 0
<1>1. PICK k \in Int : a = d * k
  BY DEF Divides
<1>2. k >= 1 /\ d # 0
  BY <1>1
<1>3. d * k >= d
  BY <1>2
<1>4. QED
  BY <1>1, <1>2, <1>3

(***************************************************************************)
(* The greatest common divisor                                             *)
(***************************************************************************)

CommonDivisors(l, r) == {d \in Nat : Divides(d, l) /\ Divides(d, r)}

\* One step of Euclid's algorithm leaves the common divisors alone.
LEMMA EuclidStep ==
  ASSUME NEW l \in Nat, NEW r \in Nat \ {0}
  PROVE  l % r \in Nat /\ CommonDivisors(l, r) = CommonDivisors(r, l % r)
<1> DEFINE q == l \div r
           s == l % r
<1>1. q \in Int /\ s \in Nat /\ l = r * q + s
  BY Rest
<1> HIDE DEF q, s
<1>2. q \in Int /\ r \in Int
  BY <1>1
<1>3. ASSUME NEW d \in Nat, Divides(d, r) PROVE Divides(d, r * q) /\ r * q \in Int /\ d \in Int
  <2>1. d \in Int
    OBVIOUS
  <2>2. QED
    BY <1>2, <1>3, <2>1, DividesMultiple
<1>4. ASSUME NEW d \in Nat, Divides(d, l), Divides(d, r) PROVE Divides(d, s)
  <2>1. Divides(d, l - r * q) /\ s = l - r * q
    BY <1>1, <1>3, <1>4, DividesSum
  <2>2. QED
    BY <2>1
<1>5. ASSUME NEW d \in Nat, Divides(d, s), Divides(d, r) PROVE Divides(d, l)
  BY <1>1, <1>3, <1>5, DividesSum
<1>6. CommonDivisors(l, r) = CommonDivisors(r, s)
  BY <1>4, <1>5, Zenon DEF CommonDivisors
<1>7. QED
  BY <1>1, <1>6 DEF s

\* The largest common divisor satisfies the recursion of gcd_u64, so the recursion has a solution.
LEMMA EuclidExists ==
  \E g : g = [o \in Nat \X Nat |-> IF o[2] = 0 THEN o[1] ELSE g[<<o[2], o[1] % o[2]>>]]
<1> DEFINE Largest(o) == CHOOSE d \in CommonDivisors(o[1], o[2]) : \A e \in CommonDivisors(o[1], o[2]) : e <= d
           Value(o) == IF o[1] = 0 /\ o[2] = 0 THEN 0 ELSE Largest(o)
           g == [o \in Nat \X Nat |-> Value(o)]
           Step(o) == <<o[2], o[1] % o[2]>>
<1>1. ASSUME NEW o \in Nat \X Nat
      PROVE  Value(o) = IF o[2] = 0 THEN o[1] ELSE g[Step(o)]
  <2>0. o[1] \in Nat /\ o[2] \in Nat
    OBVIOUS
  <2>1. CASE o[2] # 0
    <3>1. CommonDivisors(o[1], o[2]) = CommonDivisors(o[2], o[1] % o[2]) /\ o[1] % o[2] \in Nat
      BY <2>0, <2>1, EuclidStep
    <3>2. Step(o) \in Nat \X Nat /\ Step(o)[1] = o[2] /\ Step(o)[2] = o[1] % o[2]
      BY <2>0, <3>1
    <3>3. Largest(Step(o)) = Largest(o)
      BY <3>1, <3>2, Zenon
    <3>4. g[Step(o)] = Value(Step(o))
      BY <3>2
    <3> HIDE DEF Largest, g, Step
    <3>5. QED
      BY <2>1, <3>2, <3>3, <3>4
  <2>2. CASE o[2] = 0 /\ o[1] = 0
    BY <2>2
  <2>3. CASE o[2] = 0 /\ o[1] # 0
    <3> DEFINE l == o[1]
    <3>0. l \in Nat \ {0} /\ o[2] = 0
      BY <2>0, <2>3
    <3>1. Divides(l, l) /\ Divides(l, 0)
      <4>1. l = l * 1 /\ 0 = l * 0 /\ 1 \in Int /\ 0 \in Int
        BY <3>0
      <4>2. QED
        BY <4>1, Zenon DEF Divides
    <3>2. l \in CommonDivisors(l, 0)
      BY <3>0, <3>1 DEF CommonDivisors
    <3>3. \A e \in CommonDivisors(l, 0) : e <= l /\ e \in Nat
      BY <3>0, DivisorSmaller DEF CommonDivisors
    <3>4. \A d \in CommonDivisors(l, 0) : (\A e \in CommonDivisors(l, 0) : e <= d) <=> d = l
      BY <3>0, <3>2, <3>3
    <3>5. Largest(o) = l
      BY <3>0, <3>2, <3>4
    <3> HIDE DEF Largest
    <3>6. QED
      BY <2>3, <3>5
  <2>4. QED
    BY <2>0, <2>1, <2>2, <2>3
<1> HIDE DEF Value
<1>2. g = [o \in Nat \X Nat |-> IF o[2] = 0 THEN o[1] ELSE g[<<o[2], o[1] % o[2]>>]]
  BY <1>1
<1>3. QED
  BY <1>2

\* The code's loop, one step at a time.
LEMMA GcdEquation ==
  ASSUME NEW l \in Nat, NEW r \in Nat
  PROVE  gcd_u64[<<l, r>>] = IF r = 0 THEN l ELSE gcd_u64[<<r, l % r>>]
<1>1. gcd_u64 = CHOOSE g : g = [o \in Nat \X Nat |-> IF o[2] = 0 THEN o[1] ELSE g[<<o[2], o[1] % o[2]>>]]
  BY Zenon DEF gcd_u64
<1>2. gcd_u64 = [o \in Nat \X Nat |-> IF o[2] = 0 THEN o[1] ELSE gcd_u64[<<o[2], o[1] % o[2]>>]]
  BY <1>1, EuclidExists, Zenon
<1>3. QED
  BY <1>2

\* d divides both numbers and is a combination of them.
Combines(d, l, r) == \E x, y \in Int : d = l * x + r * y
IsGcd(d, l, r) ==
  /\ d \in Nat /\ Divides(d, l) /\ Divides(d, r) /\ Combines(d, l, r)
  /\ l # 0 => d # 0

\* Every number divides itself and zero.
LEMMA DividesTrivially ==
  ASSUME NEW l \in Int
  PROVE  Divides(l, l) /\ Divides(l, 0)
<1>1. l = l * 1 /\ 0 = l * 0 /\ 1 \in Int /\ 0 \in Int
  OBVIOUS
<1>2. QED
  BY <1>1, Zenon DEF Divides

\* One step of the loop keeps what it computes.
LEMMA GcdStep ==
  ASSUME NEW l \in Nat, NEW r \in Nat \ {0}, NEW d, IsGcd(d, r, l % r)
  PROVE  IsGcd(d, l, r)
<1>1. d \in Nat /\ Divides(d, l) /\ Divides(d, r)
  <2>1. d \in CommonDivisors(r, l % r)
    BY DEF IsGcd, CommonDivisors
  <2>2. d \in CommonDivisors(l, r)
    BY <2>1, EuclidStep
  <2>3. QED
    BY <2>2 DEF CommonDivisors
<1>2. Combines(d, l, r)
  <2> DEFINE q == l \div r
             s == l % r
  <2>1. PICK x, y \in Int : d = r * x + s * y
    BY DEF IsGcd, Combines
  <2>2. q \in Int /\ s \in Nat /\ l = r * q + s
    BY Rest
  <2> HIDE DEF q, s
  <2>3. d = l * y + r * (x - q * y) /\ x - q * y \in Int
    BY <2>1, <2>2
  <2>4. QED
    BY <2>3, Zenon DEF Combines
<1>3. d # 0
  BY DEF IsGcd
<1>4. QED
  BY <1>1, <1>2, <1>3 DEF IsGcd

\* The loop computes the greatest common divisor.
LEMMA GcdCorrect ==
  ASSUME NEW l \in Nat, NEW r \in Nat
  PROVE  IsGcd(gcd_u64[<<l, r>>], l, r)
<1> DEFINE Bad == {n \in Nat : \E m \in Nat : ~ IsGcd(gcd_u64[<<m, n>>], m, n)}
           R == OpToRel(<, Nat)
<1> SUFFICES ASSUME Bad # {} PROVE FALSE
  OBVIOUS
<1>1. IsWellFoundedOn(R, Nat)
  BY NatLessThanWellFounded, Zenon
<1>2. Bad \subseteq Nat
  OBVIOUS
<1>3. PICK n \in Bad : \A k \in Bad : <<k, n>> \notin R
  <2> HIDE DEF R, Bad
  <2> QED
    BY <1>1, <1>2, WFMin, Zenon
<1>4. PICK m \in Nat : ~ IsGcd(gcd_u64[<<m, n>>], m, n)
  BY <1>3
<1>5. CASE n = 0
  <2>1. gcd_u64[<<m, n>>] = m
    BY <1>5, GcdEquation
  <2>2. Divides(m, m) /\ Divides(m, 0)
    BY DividesTrivially
  <2>3. m = m * 1 + n * 0 /\ 1 \in Int /\ 0 \in Int
    BY <1>5
  <2>4. Combines(m, m, n)
    BY <2>3, Zenon DEF Combines
  <2>5. QED
    BY <1>4, <1>5, <2>1, <2>2, <2>4 DEF IsGcd
<1>6. CASE n # 0
  <2>1. n \in Nat \ {0} /\ m % n \in Nat /\ m % n < n
    BY <1>6
  <2>2. <<m % n, n>> \in R
    BY <2>1 DEF OpToRel
  <2>3. m % n \notin Bad
    BY <1>3, <2>2
  <2>4. IsGcd(gcd_u64[<<n, m % n>>], n, m % n)
    BY <2>1, <2>3
  <2>5. gcd_u64[<<m, n>>] = gcd_u64[<<n, m % n>>]
    BY <2>1, GcdEquation
  <2>6. QED
    BY <1>4, <2>1, <2>4, <2>5, GcdStep
<1>7. QED
  BY <1>5, <1>6

(***************************************************************************)
(* Locations and what they stand for                                       *)
(***************************************************************************)

LaneRecord(m, r) == [kind |-> "lane", modulus |-> m, residue |-> r]

\* A lane has a modulus that fits and a residue below it.
LEMMA LaneShape ==
  ASSUME NEW l \in AllLanes
  PROVE  /\ IsLane(l) /\ ~IsUnknown(l) /\ ~IsExact(l)
         /\ l.modulus \in 1 .. MaxOffset /\ l.residue \in 0 .. l.modulus - 1
<1>1. PICK m \in 1 .. MaxOffset : l \in {Lane(m, r) : r \in 0 .. m - 1}
  BY Zenon DEF AllLanes
<1>2. PICK r \in 0 .. m - 1 : l = Lane(m, r)
  BY <1>1
<1>3. l = LaneRecord(m, r % m)
  BY <1>2 DEF Lane, LaneRecord
<1>4. m \in Nat \ {0} /\ r \in Int
  BY OffsetAssumption
<1>5. r % m \in 0 .. m - 1
  BY <1>4, Rest
<1>6. QED
  BY <1>3, <1>5 DEF LaneRecord, IsUnknown, IsExact, IsLane

\* The three kinds of location, with their fields.
LEMMA Kinds ==
  ASSUME NEW l \in FieldLocationValues
  PROVE  \/ IsUnknown(l) /\ ~IsExact(l) /\ ~IsLane(l)
         \/ IsExact(l) /\ ~IsUnknown(l) /\ ~IsLane(l) /\ l.offset \in I64
         \/ /\ IsLane(l) /\ ~IsUnknown(l) /\ ~IsExact(l)
            /\ l.modulus \in 1 .. MaxOffset /\ l.residue \in 0 .. l.modulus - 1
<1>1. CASE l = Unknown
  BY <1>1 DEF Unknown, IsUnknown, IsExact, IsLane
<1>2. CASE l \in ExactLocations
  BY <1>2 DEF ExactLocations, Exact, IsUnknown, IsExact, IsLane
<1>3. CASE l \in AllLanes
  BY <1>3, LaneShape
<1>4. QED
  BY <1>1, <1>2, <1>3 DEF FieldLocationValues

\* Every exact offset that fits, and every lane the constructor returns, is a location.
LEMMA ExactTyped ==
  ASSUME NEW o \in I64
  PROVE  Exact(o) \in FieldLocationValues
BY DEF ExactLocations, FieldLocationValues

\* So is every lane of any stride and residue.
LEMMA LaneTyped ==
  ASSUME NEW m \in Nat, NEW r \in Int
  PROVE  Lane(m, r) \in FieldLocationValues
<1>1. CASE m \notin 1 .. MaxOffset
  BY <1>1 DEF Lane, FieldLocationValues
<1>2. CASE m \in 1 .. MaxOffset
  <2> DEFINE s == r % m
  <2>1. m \in Nat \ {0}
    BY <1>2, OffsetAssumption
  <2>2. s \in 0 .. m - 1 /\ s \in Int
    BY <2>1, Rest
  <2>3. s % m = s
    BY <2>1, <2>2
  <2>4. Lane(m, r) = Lane(m, s)
    BY <1>2, <2>3 DEF Lane
  <2> HIDE DEF s
  <2>5. Lane(m, s) \in {Lane(m, t) : t \in 0 .. m - 1}
    BY <2>2
  <2>6. Lane(m, s) \in AllLanes
    BY <1>2, <2>5, Zenon DEF AllLanes
  <2>7. QED
    BY <2>4, <2>6 DEF FieldLocationValues
<1>3. QED
  BY <1>1, <1>2

\* So is a lane whose residue was summed with a check.
LEMMA CheckedLaneTyped ==
  ASSUME NEW m \in Nat, NEW r \in Int
  PROVE  CheckedLane(m, r) \in FieldLocationValues
BY LaneTyped DEF CheckedLane, FieldLocationValues

\* A lane stands for the numbers that differ from its residue by a multiple of its modulus.
LEMMA LaneStands ==
  ASSUME NEW l \in FieldLocationValues, IsLane(l), NEW o \in Int
  PROVE  StandsFor(l, o) <=> Divides(l.modulus, o - l.residue)
<1>1. l.modulus \in Nat \ {0} /\ l.residue \in 0 .. l.modulus - 1 /\ l.residue \in Int
  BY Kinds, OffsetAssumption
<1>2. l.residue % l.modulus = l.residue
  BY <1>1
<1>3. o % l.modulus = l.residue <=> Divides(l.modulus, o - l.residue)
  BY <1>1, <1>2, SameRest
<1>4. QED
  BY <1>3, Kinds DEF StandsFor, OnLane

\* A lane made of a residue stands for everything congruent to it, and so does no lane.
LEMMA CheckedLaneStands ==
  ASSUME NEW m \in Nat, NEW r \in Int, NEW o \in Int, Divides(m, o - r)
  PROVE  StandsFor(CheckedLane(m, r), o)
<1>1. CASE r \notin I64 \/ m \notin 1 .. MaxOffset
  BY <1>1 DEF CheckedLane, Lane, Unknown, StandsFor, IsUnknown
<1>2. CASE r \in I64 /\ m \in 1 .. MaxOffset
  <2>1. CheckedLane(m, r) = LaneRecord(m, r % m)
    BY <1>2 DEF CheckedLane, Lane, LaneRecord
  <2>2. m \in Nat \ {0}
    BY <1>2
  <2>3. o % m = r % m
    BY <2>2, SameRest
  <2>4. QED
    BY <2>1, <2>3 DEF LaneRecord, StandsFor, IsLane, OnLane
<1>3. QED
  BY <1>1, <1>2

\* The offsets of a GEP are those of its base moved by those of its delta, checked sums included.
LEMMA AddStands ==
  ASSUME NEW l \in FieldLocationValues, NEW d \in FieldLocationValues,
         NEW a \in Int, NEW b \in Int, StandsFor(l, a), StandsFor(d, b)
  PROVE  StandsFor(add(l, d), a + b)
<1>1. CASE IsUnknown(l) \/ IsUnknown(d)
  BY <1>1 DEF add, Unknown, StandsFor, IsUnknown
<1>2. CASE IsExact(l) /\ IsExact(d)
  BY <1>2, Kinds DEF add, AddExact, Exact, Unknown, StandsFor, IsUnknown, IsExact, IsLane
<1>3. CASE IsLane(l) /\ IsExact(d)
  <2>1. b = d.offset /\ l.modulus \in Nat /\ l.residue \in Int
    BY <1>3, Kinds DEF StandsFor
  <2>2. Divides(l.modulus, a - l.residue)
    BY <1>3, LaneStands
  <2>3. (a + b) - (l.residue + d.offset) = a - l.residue
    BY <2>1
  <2>4. add(l, d) = CheckedLane(l.modulus, l.residue + d.offset)
    BY <1>3, Kinds DEF add
  <2>5. l.residue + d.offset \in Int /\ a + b \in Int
    BY <2>1
  <2>6. QED
    BY <2>1, <2>2, <2>3, <2>4, <2>5, CheckedLaneStands
<1>4. CASE IsExact(l) /\ IsLane(d)
  <2>1. a = l.offset /\ d.modulus \in Nat /\ d.residue \in Int
    BY <1>4, Kinds DEF StandsFor
  <2>2. Divides(d.modulus, b - d.residue)
    BY <1>4, LaneStands
  <2>3. (a + b) - (d.residue + l.offset) = b - d.residue
    BY <2>1
  <2>4. add(l, d) = CheckedLane(d.modulus, d.residue + l.offset)
    BY <1>4, Kinds DEF add
  <2>5. d.residue + l.offset \in Int /\ a + b \in Int
    BY <2>1
  <2>6. QED
    BY <2>1, <2>2, <2>3, <2>4, <2>5, CheckedLaneStands
<1>5. CASE IsLane(l) /\ IsLane(d)
  <2> DEFINE g == gcd_u64[<<l.modulus, d.modulus>>]
  <2>1. /\ l.modulus \in Nat /\ d.modulus \in Nat /\ l.modulus \in Int /\ d.modulus \in Int
        /\ l.residue \in Int /\ d.residue \in Int
    BY <1>5, Kinds
  <2>2. g \in Nat /\ g \in Int /\ Divides(g, l.modulus) /\ Divides(g, d.modulus)
    BY <2>1, GcdCorrect DEF IsGcd
  <2>3. add(l, d) = CheckedLane(g, l.residue + d.residue)
    BY <1>5, Kinds DEF add
  <2> HIDE DEF g
  <2>4. a - l.residue \in Int /\ b - d.residue \in Int
    BY <2>1
  <2>5. Divides(g, a - l.residue)
    <3>1. Divides(l.modulus, a - l.residue)
      BY <1>5, LaneStands
    <3>2. QED
      BY <2>1, <2>2, <2>4, <3>1, DividesThrough
  <2>6. Divides(g, b - d.residue)
    <3>1. Divides(d.modulus, b - d.residue)
      BY <1>5, LaneStands
    <3>2. QED
      BY <2>1, <2>2, <2>4, <3>1, DividesThrough
  <2>7. (a + b) - (l.residue + d.residue) = (a - l.residue) + (b - d.residue)
    BY <2>1
  <2>8. Divides(g, (a + b) - (l.residue + d.residue))
    BY <2>2, <2>4, <2>5, <2>6, <2>7, DividesSum
  <2>9. l.residue + d.residue \in Int /\ a + b \in Int
    BY <2>1
  <2>10. QED
    BY <2>2, <2>3, <2>8, <2>9, CheckedLaneStands
<1>6. QED
  BY <1>1, <1>2, <1>3, <1>4, <1>5, Kinds

\* Sums of locations are locations.
LEMMA AddTyped ==
  ASSUME NEW l \in FieldLocationValues, NEW d \in FieldLocationValues
  PROVE  add(l, d) \in FieldLocationValues
<1>1. CASE IsUnknown(l) \/ IsUnknown(d)
  BY <1>1 DEF add, FieldLocationValues
<1>2. CASE IsExact(l) /\ IsExact(d)
  BY <1>2, Kinds, ExactTyped DEF add, AddExact, FieldLocationValues
<1>3. CASE IsLane(l) /\ IsExact(d)
  BY <1>3, Kinds, CheckedLaneTyped, OffsetAssumption DEF add, I64
<1>4. CASE IsExact(l) /\ IsLane(d)
  BY <1>4, Kinds, CheckedLaneTyped, OffsetAssumption DEF add, I64
<1>5. CASE IsLane(l) /\ IsLane(d)
  <2>1. l.modulus \in Nat /\ d.modulus \in Nat /\ l.residue + d.residue \in Int
    BY <1>5, Kinds
  <2>2. gcd_u64[<<l.modulus, d.modulus>>] \in Nat
    BY <2>1, GcdCorrect DEF IsGcd
  <2>3. add(l, d) = CheckedLane(gcd_u64[<<l.modulus, d.modulus>>], l.residue + d.residue)
    BY <1>5, Kinds DEF add
  <2>4. QED
    BY <2>1, <2>2, <2>3, CheckedLaneTyped
<1>6. QED
  BY <1>1, <1>2, <1>3, <1>4, <1>5, Kinds

(***************************************************************************)
(* Pointers never lose their address                                       *)
(***************************************************************************)

\* What the solver knows of each pointer is a location, and the offset an execution has reached
\* is one the location stands for.
ChainInvariant ==
  /\ location \in [Pointers -> FieldLocationValues]
  /\ offset \in [Pointers -> Window]
  /\ length \in [Pointers -> Nat]
  /\ \A p \in Pointers : StandsFor(location[p], offset[p])

\* The location of a GEP instruction is a location.
LEMMA GepTyped ==
  ASSUME NEW g \in Geps
  PROVE  from_gep(g.byte_off, g.lane) \in FieldLocationValues
<1>1. CASE g.byte_off # {}
  <2>1. (CHOOSE o \in g.byte_off : TRUE) \in I64
    BY <1>1, ChainAssumption
  <2>2. QED
    BY <1>1, <2>1, ExactTyped DEF from_gep
<1>2. CASE g.byte_off = {} /\ g.lane # {}
  <2> DEFINE given == CHOOSE x \in g.lane : TRUE
  <2>1. given \in g.lane
    BY <1>2
  <2>2. given.modulus \in Nat /\ given.residue \in Int
    BY <2>1, ChainAssumption, OffsetAssumption DEF I64
  <2>3. from_gep(g.byte_off, g.lane) = Lane(given.modulus, given.residue)
    BY <1>2 DEF from_gep
  <2> HIDE DEF given
  <2>4. QED
    BY <2>2, <2>3, LaneTyped
<1>3. CASE g.byte_off = {} /\ g.lane = {}
  BY <1>3 DEF from_gep, FieldLocationValues
<1>4. QED
  BY <1>1, <1>2, <1>3

\* Every pointer starts at the beginning of its allocation.
LEMMA ChainInit ==
  ASSUME Init
  PROVE  ChainInvariant
<1>1. Exact(0) \in FieldLocationValues /\ StandsFor(Exact(0), 0)
  BY ExactTyped, OffsetAssumption DEF I64, Exact, StandsFor, IsExact
<1>2. QED
  BY <1>1, ChainAssumption DEF Init, ChainInvariant

\* A GEP moves the pointer by an offset its delta stands for, and the solver adds the delta.
LEMMA ChainStep ==
  ASSUME ChainInvariant, [Next]_vars
  PROVE  ChainInvariant'
<1>1. CASE UNCHANGED vars
  BY <1>1 DEF ChainInvariant, vars
<1>2. ASSUME NEW p \in Pointers, NEW g \in Geps, Gep(p, g) PROVE ChainInvariant'
  <2> DEFINE delta == from_gep(g.byte_off, g.lane)
  <2>1. PICK step \in Offsets(delta, Window) :
           offset[p] + step \in Window /\ offset' = [offset EXCEPT ![p] = @ + step]
    BY <1>2 DEF Gep
  <2>2. location' = [location EXCEPT ![p] = add(@, delta)] /\ length' = [length EXCEPT ![p] = @ + 1]
    BY <1>2 DEF Gep
  <2>3. delta \in FieldLocationValues
    BY GepTyped
  <2> HIDE DEF delta
  <2>4. step \in Int /\ offset[p] \in Int /\ StandsFor(delta, step)
    BY <2>1, ChainAssumption DEF ChainInvariant, Offsets
  <2>5. location[p] \in FieldLocationValues /\ StandsFor(location[p], offset[p])
    BY DEF ChainInvariant
  <2>6. /\ add(location[p], delta) \in FieldLocationValues
        /\ StandsFor(add(location[p], delta), offset[p] + step)
    BY <2>3, <2>4, <2>5, AddTyped, AddStands
  <2>7. location' \in [Pointers -> FieldLocationValues]
    BY <2>2, <2>6 DEF ChainInvariant
  <2>8. offset' \in [Pointers -> Window] /\ length' \in [Pointers -> Nat]
    BY <2>1, <2>2 DEF ChainInvariant
  <2>9. ASSUME NEW q \in Pointers PROVE StandsFor(location'[q], offset'[q])
    <3>1. CASE q = p
      BY <2>1, <2>2, <2>6, <3>1 DEF ChainInvariant
    <3>2. CASE q # p
      BY <2>1, <2>2, <3>2 DEF ChainInvariant
    <3>3. QED
      BY <3>1, <3>2
  <2>10. QED
    BY <2>7, <2>8, <2>9 DEF ChainInvariant
<1>3. QED
  BY <1>1, <1>2 DEF Next

\* The invariant is one of every reachable state.
LEMMA ChainAlways == Spec => []ChainInvariant
<1>1. Init => ChainInvariant
  BY ChainInit
<1>2. ChainInvariant /\ [Next]_vars => ChainInvariant'
  BY ChainStep
<1>3. QED
  BY <1>1, <1>2, PTL DEF Spec

\* Chains of GEPs never lose the address (FieldLocation::add): whatever was applied in whatever
\* order, with sums that leave the range and lanes of different moduli, the derived location stands
\* for the offset an execution reaches.
THEOREM ChainsSound == Spec => []ChainSound
<1>1. ChainInvariant => ChainSound
  BY DEF ChainInvariant, ChainSound, Offsets
<1>2. QED
  BY <1>1, ChainAlways, PTL

(***************************************************************************)
(* The two relations                                                       *)
(***************************************************************************)

\* Two numbers the locations stand for differ by x.
Apart(l, m, x) == \E a, b \in Int : StandsFor(l, a) /\ StandsFor(m, b) /\ a - b = x

\* The differences of two lanes are one class modulo the gcd of their strides.
LEMMA LanesApart ==
  ASSUME NEW l \in FieldLocationValues, NEW m \in FieldLocationValues, IsLane(l), IsLane(m), NEW x \in Int
  PROVE  Apart(l, m, x) <=> Divides(gcd_u64[<<l.modulus, m.modulus>>], x - (l.residue - m.residue))
<1> DEFINE g == gcd_u64[<<l.modulus, m.modulus>>]
<1>1. /\ l.modulus \in Nat /\ m.modulus \in Nat /\ l.modulus \in Int /\ m.modulus \in Int
      /\ l.residue \in Int /\ m.residue \in Int
  BY Kinds
<1>2. g \in Int /\ Divides(g, l.modulus) /\ Divides(g, m.modulus) /\ Combines(g, l.modulus, m.modulus)
  BY <1>1, GcdCorrect DEF IsGcd
<1> HIDE DEF g
<1>3. ASSUME Apart(l, m, x) PROVE Divides(g, x - (l.residue - m.residue))
  <2>1. PICK a, b \in Int : StandsFor(l, a) /\ StandsFor(m, b) /\ a - b = x
    BY <1>3 DEF Apart
  <2>2. a - l.residue \in Int /\ b - m.residue \in Int
    BY <1>1
  <2>3. Divides(l.modulus, a - l.residue) /\ Divides(m.modulus, b - m.residue)
    BY <2>1, LaneStands
  <2>4. Divides(g, a - l.residue) /\ Divides(g, b - m.residue)
    BY <1>1, <1>2, <2>2, <2>3, DividesThrough
  <2>5. x - (l.residue - m.residue) = (a - l.residue) - (b - m.residue)
    BY <1>1, <2>1
  <2>6. QED
    BY <1>2, <2>2, <2>4, <2>5, DividesSum
<1>4. ASSUME Divides(g, x - (l.residue - m.residue)) PROVE Apart(l, m, x)
  <2>1. PICK k \in Int : x - (l.residue - m.residue) = g * k
    BY <1>4 DEF Divides
  <2>2. PICK u, v \in Int : g = l.modulus * u + m.modulus * v
    BY <1>2 DEF Combines
  <2> DEFINE i == l.modulus * (u * k)
             j == m.modulus * (v * k)
             n == m.modulus * (-(v * k))
  <2>3. i \in Int /\ j \in Int /\ n = -j /\ u * k \in Int /\ -(v * k) \in Int
    BY <1>1
  <2>4. g * k = i + j
    BY <1>1, <2>2
  <2>5. Divides(l.modulus, i) /\ Divides(m.modulus, n)
    BY <2>3, Zenon DEF Divides
  <2> HIDE DEF i, j, n
  <2> DEFINE a == l.residue + i
             b == m.residue + n
  <2>6. a \in Int /\ b \in Int /\ a - l.residue = i /\ b - m.residue = n
    BY <1>1, <2>3
  <2>7. a - b = x
    BY <1>1, <2>1, <2>3, <2>4
  <2> HIDE DEF a, b
  <2>8. StandsFor(l, a) /\ StandsFor(m, b)
    BY <2>5, <2>6, LaneStands
  <2>9. QED
    BY <2>6, <2>7, <2>8, Zenon DEF Apart
<1>5. QED
  BY <1>3, <1>4 DEF g

\* congruence_in_range: the first number of the class from min on is the one to look at.
LEMMA CongruenceInRange ==
  ASSUME NEW r \in Int, NEW m \in Nat \ {0}, NEW min \in Int, NEW max \in Int
  PROVE  congruence_in_range(r, m, min, max) <=> \E x \in min .. max : Divides(m, x - r)
<1> DEFINE n == r % m
           t == (n - min) % m
<1>1. n \in Int /\ n \in 0 .. m - 1 /\ t \in Int /\ t \in 0 .. m - 1
  BY Rest
<1>2. congruence_in_range(r, m, min, max) <=> min <= max /\ min + t <= max
  BY DEF congruence_in_range
<1> HIDE DEF n
<1>3. Divides(m, n - r) /\ n - r \in Int
  <2>1. n % m = n
    BY <1>1
  <2>2. n % m = r % m
    BY <2>1 DEF n
  <2>3. Divides(m, n - r)
    BY <1>1, <2>2, SameRest, Zenon
  <2>4. QED
    BY <1>1, <2>3
<1>4. Divides(m, t - (n - min)) /\ t - (n - min) \in Int
  <2>1. n - min \in Int
    BY <1>1
  <2> HIDE DEF t
  <2>2. t % m = t /\ t \in Int
    BY <1>1
  <2>3. t = (n - min) % m
    BY DEF t
  <2>4. QED
    BY <2>1, <2>2, <2>3, SameRest
<1>5. ASSUME NEW x \in min .. max, Divides(m, x - r) PROVE min + t <= x
  <2>1. CASE x - min >= m
    BY <1>1, <2>1
  <2>2. CASE x - min < m
    <3>1. x - r \in Int /\ m \in Int
      OBVIOUS
    <3>2. Divides(m, (x - r) - (n - r))
      BY <1>3, <1>5, <3>1, DividesSum
    <3>3. (x - r) - (n - r) = (x - min) - (n - min)
      BY <1>1
    <3>4. (x - min) % m = (n - min) % m
      <4>1. x - min \in Int /\ n - min \in Int
        BY <1>1
      <4>2. QED
        BY <3>2, <3>3, <4>1, SameRest
    <3>5. (x - min) % m = x - min
      BY <2>2
    <3>6. QED
      BY <1>1, <3>4, <3>5
  <2>3. QED
    BY <2>1, <2>2
<1>6. Divides(m, (min + t) - r)
  <2> HIDE DEF t
  <2>1. (min + t) - r = (t - (n - min)) + (n - r) /\ m \in Int
    BY <1>1
  <2>2. QED
    BY <1>3, <1>4, <2>1, DividesSum
<1> HIDE DEF t
<1>7. QED
  BY <1>1, <1>2, <1>5, <1>6

\* may_alias holds just when some number is one both locations stand for.
LEMMA AliasCorrect ==
  ASSUME NEW l \in FieldLocationValues, NEW m \in FieldLocationValues
  PROVE  may_alias(l, m) <=> \E o \in Int : StandsFor(l, o) /\ StandsFor(m, o)
<1>1. \A n \in FieldLocationValues : \E o \in Int : StandsFor(n, o)
  <2> SUFFICES ASSUME NEW n \in FieldLocationValues PROVE \E o \in Int : StandsFor(n, o)
    OBVIOUS
  <2>1. CASE IsUnknown(n)
    BY <2>1 DEF StandsFor
  <2>2. CASE IsExact(n)
    BY <2>2, Kinds DEF StandsFor, I64
  <2>3. CASE IsLane(n)
    <3>1. n.modulus \in Nat \ {0} /\ n.residue \in 0 .. n.modulus - 1 /\ n.residue \in Int
      BY <2>3, Kinds
    <3>2. n.residue % n.modulus = n.residue
      BY <3>1
    <3>3. StandsFor(n, n.residue)
      BY <2>3, <3>2 DEF StandsFor, OnLane
    <3>4. QED
      BY <3>1, <3>3
  <2>4. QED
    BY <2>1, <2>2, <2>3, Kinds
<1>2. CASE IsUnknown(l) \/ IsUnknown(m)
  BY <1>1, <1>2 DEF may_alias, StandsFor
<1>3. CASE IsExact(l) /\ IsExact(m)
  BY <1>3, Kinds DEF may_alias, StandsFor, I64
<1>4. CASE IsExact(l) /\ IsLane(m)
  BY <1>4, Kinds DEF may_alias, StandsFor, I64
<1>5. CASE IsLane(l) /\ IsExact(m)
  BY <1>5, Kinds DEF may_alias, StandsFor, I64
<1>6. CASE IsLane(l) /\ IsLane(m)
  <2> DEFINE g == gcd_u64[<<l.modulus, m.modulus>>]
  <2>1. /\ l.modulus \in Nat \ {0} /\ m.modulus \in Nat \ {0}
        /\ l.residue \in Int /\ m.residue \in Int
    BY <1>6, Kinds
  <2>2. g \in Nat \ {0}
    BY <2>1, GcdCorrect DEF IsGcd
  <2>3. may_alias(l, m) <=> m.residue % g = l.residue % g
    BY <1>6, Kinds DEF may_alias
  <2> HIDE DEF g
  <2>4. may_alias(l, m) <=> Divides(g, m.residue - l.residue)
    BY <2>1, <2>2, <2>3, SameRest
  <2>5. m.residue - l.residue = 0 - (l.residue - m.residue)
    BY <2>1
  <2>6. Divides(g, 0 - (l.residue - m.residue)) <=> Apart(l, m, 0)
    BY <1>6, LanesApart DEF g
  <2>7. Apart(l, m, 0) <=> \E o \in Int : StandsFor(l, o) /\ StandsFor(m, o)
    <3>1. \A a, b \in Int : a - b = 0 <=> a = b
      OBVIOUS
    <3>2. QED
      BY <3>1 DEF Apart
  <2>8. QED
    BY <2>4, <2>5, <2>6, <2>7
<1>7. QED
  BY <1>2, <1>3, <1>4, <1>5, <1>6, Kinds

\* The bytes n bytes long from a and w bytes long from b have one in common.
LEMMA BytesMeet ==
  ASSUME NEW a \in Int, NEW b \in Int, NEW n \in Nat \ {0}, NEW w \in Nat \ {0}
  PROVE  (a .. a + n - 1) \cap (b .. b + w - 1) # {} <=> a - b \in -(n - 1) .. w - 1
<1>1. ASSUME a - b \in -(n - 1) .. w - 1 PROVE (a .. a + n - 1) \cap (b .. b + w - 1) # {}
  <2>1. CASE a >= b
    <3>1. a \in (a .. a + n - 1) \cap (b .. b + w - 1)
      BY <1>1, <2>1
    <3>2. QED
      BY <3>1
  <2>2. CASE b >= a
    <3>1. b \in (a .. a + n - 1) \cap (b .. b + w - 1)
      BY <1>1, <2>2
    <3>2. QED
      BY <3>1
  <2>3. QED
    BY <2>1, <2>2
<1>2. ASSUME NEW x \in (a .. a + n - 1) \cap (b .. b + w - 1) PROVE a - b \in -(n - 1) .. w - 1
  OBVIOUS
<1>3. QED
  BY <1>1, <1>2

\* The class of x moved by a constant.
LEMMA CongruenceMoved ==
  ASSUME NEW r \in Int, NEW m \in Nat \ {0}, NEW e \in Int, NEW lo \in Int, NEW hi \in Int
  PROVE  congruence_in_range(r - e, m, lo, hi)
           <=> \E o \in Int : o - e \in lo .. hi /\ Divides(m, o - r)
<1>1. r - e \in Int
  OBVIOUS
<1>2. congruence_in_range(r - e, m, lo, hi) <=> \E x \in lo .. hi : Divides(m, x - (r - e))
  BY <1>1, CongruenceInRange
<1>3. ASSUME NEW x \in lo .. hi, Divides(m, x - (r - e))
      PROVE  \E o \in Int : o - e \in lo .. hi /\ Divides(m, o - r)
  <2>1. x + e \in Int /\ (x + e) - e = x /\ (x + e) - r = x - (r - e)
    OBVIOUS
  <2>2. QED
    BY <1>3, <2>1
<1>4. ASSUME NEW o \in Int, o - e \in lo .. hi, Divides(m, o - r)
      PROVE  \E x \in lo .. hi : Divides(m, x - (r - e))
  <2>1. (o - e) - (r - e) = o - r
    OBVIOUS
  <2>2. QED
    BY <1>4, <2>1
<1>5. QED
  BY <1>2, <1>3, <1>4

\* Accesses of n bytes at l and w bytes at m come near enough to share one.
Near(l, n, m, w) == \E x \in -(n - 1) .. w - 1 : Apart(l, m, x)

\* Two accesses of known widths overlap just when they come near.
LEMMA OverlapCorrect ==
  ASSUME NEW l \in FieldLocationValues, NEW m \in FieldLocationValues, NEW v, NEW u, v # {}, u # {},
         NEW n \in Nat \ {0}, NEW w \in Nat \ {0}, Bytes(v) = n, Bytes(u) = w
  PROVE  may_overlap(Region(l, v), Region(m, u))
           <=> IsUnknown(l) \/ IsUnknown(m) \/ Near(l, n, m, w)
<1> DEFINE x == Region(l, v)
           y == Region(m, u)
<1>1. x.location = l /\ x.width = v /\ y.location = m /\ y.width = u
  BY DEF Region
<1>2. Near(l, n, m, w) <=> \E a, b \in Int : StandsFor(l, a) /\ StandsFor(m, b) /\ a - b \in -(n - 1) .. w - 1
  <2>1. ASSUME NEW a \in Int, NEW b \in Int PROVE a - b \in Int
    OBVIOUS
  <2>2. QED
    BY <2>1 DEF Near, Apart
<1> HIDE DEF x, y
<1>3. CASE IsUnknown(l) \/ IsUnknown(m)
  BY <1>1, <1>3 DEF may_overlap, x, y
<1>4. CASE IsExact(l) /\ IsExact(m)
  <2>1. l.offset \in Int /\ m.offset \in Int /\ ~IsUnknown(l) /\ ~IsUnknown(m) /\ ~IsLane(l) /\ ~IsLane(m)
    BY <1>4, Kinds DEF I64
  <2>2. may_overlap(x, y) <=> l.offset < m.offset + w /\ m.offset < l.offset + n
    BY <1>1, <1>4, <2>1 DEF may_overlap
  <2>3. Near(l, n, m, w) <=> l.offset - m.offset \in -(n - 1) .. w - 1
    BY <1>2, <1>4, <2>1 DEF StandsFor
  <2>4. QED
    BY <2>1, <2>2, <2>3 DEF x, y
<1>5. CASE IsExact(l) /\ IsLane(m)
  <2>1. /\ l.offset \in Int /\ m.modulus \in Nat \ {0} /\ m.residue \in Int
        /\ ~IsUnknown(l) /\ ~IsUnknown(m) /\ ~IsLane(l) /\ ~IsExact(m)
    BY <1>5, Kinds DEF I64
  <2>2. may_overlap(x, y) <=> congruence_in_range(m.residue - l.offset, m.modulus, -(w - 1), n - 1)
    BY <1>1, <1>5, <2>1 DEF may_overlap, lane_overlaps_exact
  <2>3. may_overlap(x, y) <=> \E o \in Int : o - l.offset \in -(w - 1) .. n - 1 /\ Divides(m.modulus, o - m.residue)
    <3>1. -(w - 1) \in Int /\ n - 1 \in Int
      OBVIOUS
    <3>2. QED
      BY <2>1, <2>2, <3>1, CongruenceMoved, Zenon
  <2>4. ASSUME NEW o \in Int
        PROVE  /\ o - l.offset \in -(w - 1) .. n - 1 <=> l.offset - o \in -(n - 1) .. w - 1
               /\ Divides(m.modulus, o - m.residue) <=> StandsFor(m, o)
    BY <1>5, <2>1, LaneStands
  <2>5. Near(l, n, m, w) <=> \E o \in Int : StandsFor(m, o) /\ l.offset - o \in -(n - 1) .. w - 1
    BY <1>2, <1>5, <2>1 DEF StandsFor
  <2>6. QED
    BY <2>1, <2>3, <2>4, <2>5 DEF x, y
<1>6. CASE IsLane(l) /\ IsExact(m)
  <2>1. /\ m.offset \in Int /\ l.modulus \in Nat \ {0} /\ l.residue \in Int
        /\ ~IsUnknown(l) /\ ~IsUnknown(m) /\ ~IsExact(l) /\ ~IsLane(m)
    BY <1>6, Kinds DEF I64
  <2>2. may_overlap(x, y) <=> congruence_in_range(l.residue - m.offset, l.modulus, -(n - 1), w - 1)
    BY <1>1, <1>6, <2>1 DEF may_overlap, lane_overlaps_exact
  <2>3. may_overlap(x, y) <=> \E o \in Int : o - m.offset \in -(n - 1) .. w - 1 /\ Divides(l.modulus, o - l.residue)
    <3>1. -(n - 1) \in Int /\ w - 1 \in Int
      OBVIOUS
    <3>2. QED
      BY <2>1, <2>2, <3>1, CongruenceMoved, Zenon
  <2>4. ASSUME NEW o \in Int PROVE Divides(l.modulus, o - l.residue) <=> StandsFor(l, o)
    BY <1>6, LaneStands
  <2>5. Near(l, n, m, w) <=> \E o \in Int : StandsFor(l, o) /\ o - m.offset \in -(n - 1) .. w - 1
    BY <1>2, <1>6, <2>1 DEF StandsFor
  <2>6. QED
    BY <2>1, <2>3, <2>4, <2>5 DEF x, y
<1>7. CASE IsLane(l) /\ IsLane(m)
  <2> DEFINE g == gcd_u64[<<l.modulus, m.modulus>>]
  <2>1. /\ l.modulus \in Nat \ {0} /\ m.modulus \in Nat \ {0} /\ l.residue \in Int /\ m.residue \in Int
        /\ ~IsUnknown(l) /\ ~IsUnknown(m) /\ ~IsExact(l) /\ ~IsExact(m)
    BY <1>7, Kinds
  <2>2. g \in Nat \ {0}
    BY <2>1, GcdCorrect DEF IsGcd
  <2>3. may_overlap(x, y) <=> congruence_in_range(l.residue - m.residue, g, -(n - 1), w - 1)
    BY <1>1, <1>7, <2>1 DEF may_overlap
  <2>4. ASSUME NEW i \in -(n - 1) .. w - 1 PROVE Apart(l, m, i) <=> Divides(g, i - (l.residue - m.residue))
    BY <1>7, LanesApart
  <2> HIDE DEF g
  <2>5. l.residue - m.residue \in Int /\ -(n - 1) \in Int /\ w - 1 \in Int
    BY <2>1
  <2>6. may_overlap(x, y) <=> \E i \in -(n - 1) .. w - 1 : Divides(g, i - (l.residue - m.residue))
    BY <2>2, <2>3, <2>5, CongruenceInRange
  <2>7. QED
    BY <2>1, <2>4, <2>6 DEF Near, x, y
<1>8. QED
  BY <1>3, <1>4, <1>5, <1>6, <1>7, Kinds

\* A known width is at least one byte.
LEMMA BytesPositive ==
  ASSUME NEW w \in Widths \ {{}}
  PROVE  Bytes(w) \in Nat \ {0}
<1>1. PICK n \in w : TRUE
  OBVIOUS
<1>2. n \in Nat /\ w = {n}
  BY <1>1, ChainAssumption
<1>3. (CHOOSE x \in w : TRUE) = n
  BY <1>2
<1>4. QED
  BY <1>2, <1>3 DEF Bytes

\* The bytes two accesses touch, over all offsets, have one in common just when they are near.
LEMMA SpansMeet ==
  ASSUME Window = Int, NEW l \in FieldLocationValues, NEW m \in FieldLocationValues,
         NEW v \in Widths \ {{}}, NEW u \in Widths \ {{}}
  PROVE  Span(l, v) \cap Span(m, u) # {} <=> Near(l, Bytes(v), m, Bytes(u))
<1> DEFINE n == Bytes(v)
           w == Bytes(u)
           First(o) == o .. o + n - 1
           Second(o) == o .. o + w - 1
<1>1. n \in Nat \ {0} /\ w \in Nat \ {0}
  BY BytesPositive
<1>2. Span(l, v) = UNION {First(o) : o \in {a \in Int : StandsFor(l, a)}}
  BY DEF Span, Offsets
<1>3. Span(m, u) = UNION {Second(o) : o \in {b \in Int : StandsFor(m, b)}}
  BY DEF Span, Offsets
<1> HIDE DEF n, w
<1>4. \A a, b \in Int : First(a) \cap Second(b) # {} <=> a - b \in -(n - 1) .. w - 1
  BY <1>1, BytesMeet
<1>5. \A a, b \in Int : a - b \in Int
  OBVIOUS
<1> HIDE DEF First, Second
<1>6. Span(l, v) \cap Span(m, u) # {}
        <=> \E a, b \in Int : StandsFor(l, a) /\ StandsFor(m, b) /\ First(a) \cap Second(b) # {}
  <2>1. \A x : x \in Span(l, v) <=> \E a \in Int : StandsFor(l, a) /\ x \in First(a)
    BY <1>2
  <2>2. \A x : x \in Span(m, u) <=> \E b \in Int : StandsFor(m, b) /\ x \in Second(b)
    BY <1>3
  <2>3. ASSUME NEW x \in Span(l, v) \cap Span(m, u)
        PROVE  \E a, b \in Int : StandsFor(l, a) /\ StandsFor(m, b) /\ First(a) \cap Second(b) # {}
    BY <2>1, <2>2
  <2>4. ASSUME NEW a \in Int, NEW b \in Int, StandsFor(l, a), StandsFor(m, b), NEW x \in First(a) \cap Second(b)
        PROVE  x \in Span(l, v) \cap Span(m, u)
    BY <2>1, <2>2, <2>4
  <2>5. QED
    BY <2>3, <2>4
<1>7. Near(l, n, m, w) <=> \E a, b \in Int : StandsFor(l, a) /\ StandsFor(m, b) /\ a - b \in -(n - 1) .. w - 1
  BY <1>5 DEF Near, Apart
<1>8. QED
  BY <1>4, <1>6, <1>7 DEF n, w

\* Every byte an unknown location may touch is one any other location may touch too.
LEMMA UnknownMeets ==
  ASSUME Window = Int, NEW l \in FieldLocationValues, NEW m \in FieldLocationValues, IsUnknown(l) \/ IsUnknown(m),
         NEW v \in Widths \ {{}}, NEW u \in Widths \ {{}}
  PROVE  Near(l, Bytes(v), m, Bytes(u))
<1>1. may_alias(l, m)
  BY DEF may_alias
<1>2. PICK o \in Int : StandsFor(l, o) /\ StandsFor(m, o)
  BY <1>1, AliasCorrect
<1>3. Bytes(v) \in Nat \ {0} /\ Bytes(u) \in Nat \ {0}
  BY BytesPositive
<1>4. 0 \in -(Bytes(v) - 1) .. Bytes(u) - 1 /\ o - o = 0
  BY <1>3
<1>5. Apart(l, m, 0)
  BY <1>2, <1>4 DEF Apart
<1>6. QED
  BY <1>4, <1>5 DEF Near

\* The two relations are exact (FieldLocation::may_alias, FieldRegion::may_overlap): of the
\* locations that chains reach, over every offset, may_alias holds just when both stand for one
\* address and may_overlap just when both may touch one byte.  Two lanes of every stride are
\* compared by the gcd alone, so the proof needs that the gcd is a combination of the strides.
THEOREM RelationsCorrect ==
  ASSUME Window = Int
  PROVE  Spec => []RelationsExact
<1>1. ASSUME ChainInvariant, NEW p \in Pointers, NEW q \in Pointers
      PROVE  may_alias(location[p], location[q])
               <=> Offsets(location[p], Window) \cap Offsets(location[q], Window) # {}
  <2>1. location[p] \in FieldLocationValues /\ location[q] \in FieldLocationValues
    BY <1>1 DEF ChainInvariant
  <2>2. QED
    BY <2>1, AliasCorrect DEF Offsets
<1>2. ASSUME ChainInvariant, NEW p \in Pointers, NEW q \in Pointers, NEW v \in Widths \ {{}}, NEW w \in Widths \ {{}}
      PROVE  may_overlap(Region(location[p], v), Region(location[q], w))
               <=> Span(location[p], v) \cap Span(location[q], w) # {}
  <2>1. location[p] \in FieldLocationValues /\ location[q] \in FieldLocationValues
    BY <1>2 DEF ChainInvariant
  <2>2. Bytes(v) \in Nat \ {0} /\ Bytes(w) \in Nat \ {0} /\ v # {} /\ w # {}
    BY BytesPositive
  <2>3. may_overlap(Region(location[p], v), Region(location[q], w))
          <=> \/ IsUnknown(location[p]) \/ IsUnknown(location[q])
              \/ Near(location[p], Bytes(v), location[q], Bytes(w))
    BY <2>1, <2>2, OverlapCorrect
  <2>4. QED
    BY <2>1, <2>3, SpansMeet, UnknownMeets
<1>3. ChainInvariant => RelationsExact
  BY <1>1, <1>2 DEF RelationsExact
<1>4. QED
  BY <1>3, ChainAlways, PTL

(***************************************************************************)
(* The algebra the inclusion solver is given                               *)
(***************************************************************************)

\* What the solver assumes of its locations (LocationAssumption of InclusionConstraints) holds of
\* the locations of the code: sums are locations, aliasing is symmetric whatever the order in which
\* Euclid's algorithm takes the strides, and the unknown location aliases everything.
THEOREM AlgebraFits ==
  /\ Unknown \in FieldLocationValues
  /\ AllLanes \subseteq FieldLocationValues \ {Unknown}
  /\ \A l, m \in FieldLocationValues : add(l, m) \in FieldLocationValues
  /\ \A l, m \in FieldLocationValues : may_alias(l, m) = may_alias(m, l)
  /\ \A l \in FieldLocationValues : may_alias(Unknown, l)
<1>1. \A l, m \in FieldLocationValues : may_alias(l, m) <=> may_alias(m, l)
  BY AliasCorrect
<1>2. \A l, m \in FieldLocationValues : may_alias(l, m) \in BOOLEAN /\ may_alias(m, l) \in BOOLEAN
  BY Zenon DEF may_alias
<1>3. AllLanes \subseteq FieldLocationValues \ {Unknown}
  BY LaneShape DEF FieldLocationValues, Unknown, IsUnknown
<1>4. Unknown \in FieldLocationValues /\ IsUnknown(Unknown)
  BY DEF FieldLocationValues, Unknown, IsUnknown
<1>5. \A l \in FieldLocationValues : may_alias(Unknown, l)
  BY <1>4 DEF may_alias
<1>6. QED
  BY <1>1, <1>2, <1>3, <1>4, <1>5, AddTyped
=============================================================================
