---------------------------- MODULE DivisionLemmas ----------------------------
(***************************************************************************)
(* Quotients and remainders by a divisor that is not a number: the casts   *)
(* to 16 and 64 bits and the slots of a ring are remainders by a constant  *)
(* of the models.                                                          *)
(***************************************************************************)
EXTENDS Integers, TLAPS

(* Division with remainder.                                                *)
LEMMA DivMod ==
  ASSUME NEW d \in Nat \ {0}, NEW x \in Int
  PROVE  /\ x \div d \in Int /\ x % d \in 0 .. d - 1
         /\ x = d * (x \div d) + (x % d)
OBVIOUS

(* A product with an integer is 0 or at least as large as the other factor.*)
LEMMA NoSmallMultiple ==
  ASSUME NEW d \in Nat \ {0}, NEW q \in Int, d * q < d, d * q > -d
  PROVE  q = 0
<1>1. CASE q >= 1
  <2>1. d * q = d + d * (q - 1) /\ d * (q - 1) >= 0
    BY <1>1
  <2> QED
    BY <2>1
<1>2. CASE q <= -1
  <2>1. d * q = d * (q + 1) - d /\ d * (q + 1) <= 0
    BY <1>2
  <2> QED
    BY <2>1
<1> QED
  BY <1>1, <1>2

(* The remainder is the only number of 0 .. d - 1 that differs from x by a *)
(* multiple of d.                                                          *)
LEMMA ModUnique ==
  ASSUME NEW d \in Nat \ {0}, NEW x \in Int, NEW q \in Int, NEW r \in 0 .. d - 1,
         x = d * q + r
  PROVE  x % d = r
<1> DEFINE p == x \div d
           s == x % d
<1>1. p \in Int /\ s \in 0 .. d - 1 /\ x = d * p + s
  BY DivMod
<1> HIDE DEF p, s
<1>2. d * (p - q) = d * p - d * q
  BY <1>1
<1>3. d * p - d * q = r - s
  BY <1>1
<1>4. d * (p - q) < d /\ d * (p - q) > -d
  BY <1>1, <1>2, <1>3
<1>5. p - q = 0
  BY <1>1, <1>4, NoSmallMultiple
<1>6. s = r
  BY <1>1, <1>2, <1>3, <1>5
<1> QED
  BY <1>6 DEF s

(* A number that is a remainder already is its own.                        *)
LEMMA ModSmall ==
  ASSUME NEW d \in Nat \ {0}, NEW x \in 0 .. d - 1
  PROVE  x % d = x
<1>1. x = d * 0 + x
  OBVIOUS
<1> QED
  BY <1>1, ModUnique

(* A remainder is never larger than the number.                            *)
LEMMA ModReduces ==
  ASSUME NEW d \in Nat \ {0}, NEW x \in Nat
  PROVE  x % d \in Nat /\ x % d <= x /\ x \div d \in Nat
<1> DEFINE q == x \div d
           r == x % d
<1>1. q \in Int /\ r \in 0 .. d - 1 /\ x = d * q + r
  BY DivMod
<1> HIDE DEF q, r
<1>2. q >= 0
  <2>1. CASE q <= -1
    <3>1. d * q = d * (q + 1) - d /\ d * (q + 1) <= 0
      BY <1>1, <2>1
    <3> QED
      BY <1>1, <3>1
  <2> QED
    BY <1>1, <2>1
<1>3. d * q >= 0
  BY <1>1, <1>2
<1>4. r \in Nat /\ r <= x /\ q \in Nat
  BY <1>1, <1>2, <1>3
<1> QED
  BY <1>4 DEF q, r

(* A sum may be reduced before or after a term is added.                   *)
LEMMA ModOfSum ==
  ASSUME NEW d \in Nat \ {0}, NEW x \in Int, NEW y \in Int
  PROVE  ((x % d) + y) % d = (x + y) % d
<1> DEFINE q == x \div d
           r == x % d
           p == (r + y) \div d
           s == (r + y) % d
<1>1. q \in Int /\ r \in 0 .. d - 1 /\ x = d * q + r
  BY DivMod
<1>2. r + y \in Int
  BY <1>1
<1>3. p \in Int /\ s \in 0 .. d - 1 /\ r + y = d * p + s
  BY <1>2, DivMod
<1> HIDE DEF q, r, p, s
<1>4. d * (q + p) = d * q + d * p
  BY <1>1, <1>3
<1>5. x + y = d * (q + p) + s /\ q + p \in Int /\ x + y \in Int
  BY <1>1, <1>3, <1>4
<1>6. (x + y) % d = s
  BY <1>3, <1>5, ModUnique
<1> QED
  BY <1>6 DEF s, r

(* A quotient is at most b exactly when the number is below b + 1 times    *)
(* the divisor.                                                            *)
LEMMA DivAtMost ==
  ASSUME NEW d \in Nat \ {0}, NEW x \in Int, NEW b \in Int
  PROVE  x \div d <= b <=> x < (b + 1) * d
<1> DEFINE q == x \div d
           r == x % d
<1>1. q \in Int /\ r \in 0 .. d - 1 /\ x = d * q + r
  BY DivMod
<1> HIDE DEF q, r
<1>2. ASSUME q <= b PROVE x < (b + 1) * d
  <2>1. d * (q - b) <= 0 /\ d * (q - b) = d * q - d * b /\ d * b \in Int
    BY <1>1, <1>2
  <2>2. (b + 1) * d = d * b + d
    OBVIOUS
  <2> QED
    BY <1>1, <2>1, <2>2
<1>3. ASSUME q > b PROVE ~(x < (b + 1) * d)
  <2>1. d * (q - (b + 1)) >= 0 /\ d * (q - (b + 1)) = d * q - d * (b + 1) /\ d * (b + 1) \in Int
    BY <1>1, <1>3
  <2>2. (b + 1) * d = d * (b + 1)
    OBVIOUS
  <2> QED
    BY <1>1, <2>1, <2>2
<1>4. q <= b <=> x < (b + 1) * d
  BY <1>1, <1>2, <1>3
<1> QED
  BY <1>4 DEF q
===============================================================================
