----------------------------- MODULE Arithmetic ------------------------------
(***************************************************************************)
(* Lemmas about powers, quotients and remainders of natural numbers, and   *)
(* the induction they rest on, for the proofs about numbers of fixed width *)
(* and about digits.                                                       *)
(***************************************************************************)
EXTENDS Powers, WellFoundedInduction, TLAPS

-----------------------------------------------------------------------------
(* Induction, over sets of numbers.                                        *)

LEMMA NatLess == IsWellFoundedOn({p \in Nat \X Nat : p[1] < p[2]}, Nat)
  BY NatLessThanWellFounded DEF OpToRel

\* A set of numbers that has 0 and with each number the next has them all.
LEMMA SetInduction ==
  ASSUME NEW S, 0 \in S, \A n \in Nat : n \in S => n + 1 \in S
  PROVE  Nat \subseteq S
  <1> DEFINE R == {p \in Nat \X Nat : p[1] < p[2]}
             T == Nat \ S
  <1>1. SUFFICES ASSUME T # {} PROVE FALSE
    OBVIOUS
  <1>2. PICK x \in T : \A y \in T : ~ (<<y, x>> \in R)
    <2>1. T \subseteq Nat
      OBVIOUS
    <2> HIDE DEF T
    <2>2. IsWellFoundedOn(R, Nat)
      BY NatLess
    <2> HIDE DEF R
    <2> QED BY <1>1, <2>1, <2>2, WFMin
  <1>3. x \in Nat /\ x # 0 /\ x - 1 \in Nat /\ x = (x - 1) + 1
    OBVIOUS
  <1>4. x - 1 \notin T
    <2>1. SUFFICES ASSUME x - 1 \in T PROVE FALSE
      OBVIOUS
    <2>2. <<x - 1, x>> \in R
      BY <1>3
    <2> QED BY <1>2, <2>1, <2>2
  <1> QED BY <1>3, <1>4

\* The same up to m.
LEMMA UpTo ==
  ASSUME NEW S, NEW m \in Nat, 0 \in S, \A n \in 0 .. m - 1 : n \in S => n + 1 \in S
  PROVE  0 .. m \subseteq S
  <1> DEFINE T == {n \in Nat : n <= m => n \in S}
  <1>1. 0 \in T
    OBVIOUS
  <1>2. ASSUME NEW n \in Nat, n \in T PROVE n + 1 \in T
    BY <1>2
  <1>3. Nat \subseteq T
    <2> HIDE DEF T
    <2> QED BY <1>1, <1>2, SetInduction
  <1> QED BY <1>3

-----------------------------------------------------------------------------
(* Powers.                                                                 *)

\* The definition is one: there is a function that satisfies its equation.
LEMMA PowersDef ==
  ASSUME NEW b \in Int, NEW m \in Nat
  PROVE  Powers(b, m) = [n \in 0 .. m |-> IF n = 0 THEN 1 ELSE b * Powers(b, m)[n - 1]]
  <1> DEFINE Eq(g, k) == g = [n \in 0 .. k |-> IF n = 0 THEN 1 ELSE b * g[n - 1]]
             S == {k \in Nat : \E g : Eq(g, k)}
  <1>1. 0 \in S
    <2>1. Eq([n \in 0 .. 0 |-> 1], 0)
      OBVIOUS
    <2> QED BY <2>1
  <1>2. ASSUME NEW k \in Nat, k \in S PROVE k + 1 \in S
    <2>1. PICK g : Eq(g, k)
      BY <1>2
    <2> DEFINE h == [n \in 0 .. k + 1 |-> IF n = 0 THEN 1 ELSE b * g[n - 1]]
    <2>2. ASSUME NEW n \in 0 .. k PROVE h[n] = g[n]
      BY <2>1
    <2>3. ASSUME NEW n \in 0 .. k + 1 PROVE h[n] = IF n = 0 THEN 1 ELSE b * h[n - 1]
      <3>1. CASE n = 0
        BY <3>1
      <3>2. CASE n # 0
        <4>1. n - 1 \in 0 .. k
          BY <3>2
        <4> QED BY <2>2, <3>2, <4>1
      <3> QED BY <3>1, <3>2
    <2>4. Eq(h, k + 1)
      <3>1. h = [n \in 0 .. k + 1 |-> h[n]]
        OBVIOUS
      <3> HIDE DEF h
      <3> QED BY <2>3, <3>1
    <2>5. \E g_1 : Eq(g_1, k + 1)
      <3> HIDE DEF h, Eq
      <3> QED BY <2>4
    <2> QED BY <2>5
  <1>3. m \in S
    <2> HIDE DEF S
    <2> QED BY <1>1, <1>2, SetInduction
  <1>4. PICK g : Eq(g, m)
    BY <1>3
  <1> DEFINE p == CHOOSE g_1 : Eq(g_1, m)
  <1>5. Eq(p, m)
    BY <1>4
  <1>6. Powers(b, m) = p
    BY DEF Powers
  <1> QED BY <1>5, <1>6

LEMMA PowersNext ==
  ASSUME NEW b \in Int, NEW m \in Nat
  PROVE  /\ Powers(b, m)[0] = 1
         /\ \A n \in 0 .. m - 1 : Powers(b, m)[n + 1] = b * Powers(b, m)[n]
  <1> DEFINE p == Powers(b, m)
  <1>1. p = [n \in 0 .. m |-> IF n = 0 THEN 1 ELSE b * p[n - 1]]
    BY PowersDef
  <1> HIDE DEF p
  <1>2. p[0] = 1
    BY <1>1
  <1>3. ASSUME NEW n \in 0 .. m - 1 PROVE p[n + 1] = b * p[n]
    <2>1. n + 1 \in 0 .. m /\ n + 1 # 0 /\ (n + 1) - 1 = n
      OBVIOUS
    <2> QED BY <1>1, <2>1
  <1> QED BY <1>2, <1>3 DEF p

LEMMA PowersType ==
  ASSUME NEW b \in Nat \ {0}, NEW m \in Nat, NEW n \in 0 .. m
  PROVE  Powers(b, m)[n] \in Nat \ {0}
  <1> DEFINE p == Powers(b, m)
             S == {k \in 0 .. m : p[k] \in Nat \ {0}}
  <1>1. p[0] = 1 /\ \A k \in 0 .. m - 1 : p[k + 1] = b * p[k]
    BY PowersNext
  <1> HIDE DEF p
  <1>2. 0 \in S
    BY <1>1
  <1>3. ASSUME NEW k \in 0 .. m - 1, k \in S PROVE k + 1 \in S
    <2>1. b * p[k] \in Nat \ {0}
      BY <1>3
    <2> QED BY <1>1, <2>1
  <1>4. 0 .. m \subseteq S
    <2> HIDE DEF S
    <2> QED BY <1>2, <1>3, UpTo
  <1> QED BY <1>4 DEF p

\* b^(n + k) = b^n * b^k, also when the powers are listed up to different ones.
LEMMA PowersSum ==
  ASSUME NEW b \in Nat \ {0}, NEW m \in Nat, NEW m_1 \in Nat, NEW m_2 \in Nat,
         NEW n \in 0 .. m_1, NEW k \in 0 .. m_2, n + k <= m
  PROVE  Powers(b, m)[n + k] = Powers(b, m_1)[n] * Powers(b, m_2)[k]
  <1> DEFINE p == Powers(b, m)
             q == Powers(b, m_1)
             r == Powers(b, m_2)
  <1>1. /\ p[0] = 1 /\ \A i \in 0 .. m - 1 : p[i + 1] = b * p[i]
        /\ q[0] = 1 /\ \A i \in 0 .. m_1 - 1 : q[i + 1] = b * q[i]
        /\ r[0] = 1 /\ \A i \in 0 .. m_2 - 1 : r[i + 1] = b * r[i]
    BY PowersNext
  <1>2. /\ \A i \in 0 .. m : p[i] \in Nat
        /\ \A i \in 0 .. m_1 : q[i] \in Nat
        /\ \A i \in 0 .. m_2 : r[i] \in Nat
    BY PowersType
  <1> HIDE DEF p, q, r
  <1> DEFINE S == {i \in 0 .. n : p[i] = q[i]}
             T == {i \in 0 .. k : p[n + i] = q[n] * r[i]}
  <1>3. ASSUME NEW i \in 0 .. n - 1, i \in S PROVE i + 1 \in S
    <2>1. i \in 0 .. m - 1 /\ i \in 0 .. m_1 - 1
      OBVIOUS
    <2> QED BY <1>1, <1>3, <2>1
  <1>4. 0 .. n \subseteq S
    <2>1. 0 \in S
      BY <1>1
    <2> HIDE DEF S
    <2> QED BY <1>3, <2>1, UpTo
  <1>5. 0 \in T
    <2>1. p[n] = q[n] /\ q[n] \in Nat /\ n + 0 = n
      BY <1>2, <1>4
    <2> QED BY <1>1, <2>1
  <1>6. ASSUME NEW i \in 0 .. k - 1, i \in T PROVE i + 1 \in T
    <2>1. n + i \in 0 .. m - 1 /\ i \in 0 .. m_2 - 1 /\ n + (i + 1) = (n + i) + 1
      OBVIOUS
    <2>2. p[n + (i + 1)] = b * p[n + i] /\ r[i + 1] = b * r[i] /\ p[n + i] = q[n] * r[i]
      BY <1>1, <1>6, <2>1
    <2>3. q[n] \in Nat /\ r[i] \in Nat
      BY <1>2
    <2>4. b * (q[n] * r[i]) = q[n] * (b * r[i])
      BY <2>3
    <2> QED BY <2>2, <2>4
  <1>7. 0 .. k \subseteq T
    <2> HIDE DEF T
    <2> QED BY <1>5, <1>6, UpTo
  <1> QED BY <1>7 DEF p, q, r

\* b^n <= b^k if n <= k.
LEMMA PowersGrow ==
  ASSUME NEW b \in Nat \ {0}, NEW m \in Nat, NEW k \in 0 .. m, NEW n \in 0 .. k
  PROVE  Powers(b, m)[n] <= Powers(b, m)[k]
  <1> DEFINE p == Powers(b, m)
  <1>1. p[n + (k - n)] = p[n] * p[k - n]
    BY PowersSum
  <1>2. p[n] \in Nat \ {0} /\ p[k - n] \in Nat \ {0}
    BY PowersType
  <1> HIDE DEF p
  <1>3. \A x, y \in Nat \ {0} : x <= x * y
    OBVIOUS
  <1>4. n + (k - n) = k
    OBVIOUS
  <1> QED BY <1>1, <1>2, <1>3, <1>4 DEF p

\* (b^d)^k = b^(d * k)
LEMMA PowersPower ==
  ASSUME NEW b \in Nat \ {0}, NEW d \in Nat, NEW w \in Nat, NEW m \in Nat,
         NEW q \in Nat \ {0}, q = Powers(b, d)[d], NEW k \in 0 .. w, d * w <= m
  PROVE  /\ d * k \in 0 .. m
         /\ Powers(q, w)[k] = Powers(b, m)[d * k]
  <1> DEFINE p == Powers(b, m)
             r == Powers(q, w)
             S == {i \in 0 .. w : d * i \in 0 .. m /\ r[i] = p[d * i]}
  <1>1. r[0] = 1 /\ \A i \in 0 .. w - 1 : r[i + 1] = q * r[i]
    BY PowersNext
  <1>2. p[0] = 1
    BY PowersNext
  <1>3. ASSUME NEW i \in 0 .. w PROVE d * i \in 0 .. m
    <2>1. d * i \in Nat /\ d * i <= d * w
      BY d * i + d * (w - i) = d * w, d * (w - i) \in Nat
    <2> QED BY <2>1
  <1>4. ASSUME NEW i \in 0 .. w - 1 PROVE p[d * (i + 1)] = q * p[d * i]
    <2>1. d * (i + 1) = d + d * i /\ d * i \in 0 .. m /\ d + d * i <= m
      BY <1>3
    <2> QED BY <2>1, PowersSum
  <1> HIDE DEF p, r
  <1>5. 0 \in S
    BY <1>1, <1>2, d * 0 = 0
  <1>6. ASSUME NEW i \in 0 .. w - 1, i \in S PROVE i + 1 \in S
    BY <1>1, <1>3, <1>4, <1>6
  <1>7. 0 .. w \subseteq S
    <2> HIDE DEF S
    <2> QED BY <1>5, <1>6, UpTo
  <1> QED BY <1>7 DEF p, r

-----------------------------------------------------------------------------
(* Quotients and remainders.                                               *)

LEMMA DivMod ==
  ASSUME NEW a \in Nat, NEW b \in Nat \ {0}
  PROVE  /\ a \div b \in Nat /\ a % b \in 0 .. b - 1
         /\ a = b * (a \div b) + (a % b)
  OBVIOUS

LEMMA DivModIs ==
  ASSUME NEW a \in Nat, NEW b \in Nat \ {0}, NEW q \in Nat, NEW r \in 0 .. b - 1,
         a = b * q + r
  PROVE  a \div b = q /\ a % b = r
  OBVIOUS

LEMMA DivBelow ==
  ASSUME NEW a \in Nat, NEW b \in Nat \ {0}, NEW c \in Nat \ {0}, a < b * c
  PROVE  a \div b < c
  OBVIOUS

\* Two divisions are one.
LEMMA DivDiv ==
  ASSUME NEW a \in Nat, NEW b \in Nat \ {0}, NEW c \in Nat \ {0}
  PROVE  b * c \in Nat \ {0} /\ (a \div b) \div c = a \div (b * c)
  <1> DEFINE q == a \div b
             r == a % b
             s == q \div c
             t == q % c
  <1>1. q \in Nat /\ r \in 0 .. b - 1 /\ a = b * q + r
    BY DivMod
  <1>2. s \in Nat /\ t \in 0 .. c - 1 /\ q = c * s + t
    BY <1>1, DivMod
  <1>3. b * c \in Nat \ {0}
    OBVIOUS
  <1> HIDE DEF q, r, s, t
  <1>4. a = (b * c) * s + (b * t + r)
    BY <1>1, <1>2
  <1>5. b * t + r \in 0 .. b * c - 1
    <2>1. b * t <= b * (c - 1)
      BY <1>2
    <2>2. b * (c - 1) + b = b * c
      OBVIOUS
    <2>3. b * t \in Nat
      BY <1>2
    <2> QED BY <1>1, <1>3, <2>1, <2>2, <2>3
  <1>6. a \div (b * c) = s
    <2> DEFINE bc == b * c
               e == b * t + r
    <2>1. bc \in Nat \ {0} /\ e \in 0 .. bc - 1 /\ a = bc * s + e
      BY <1>3, <1>4, <1>5
    <2> HIDE DEF bc, e
    <2>2. a \div bc = s
      BY <1>2, <2>1, DivModIs
    <2> QED BY <2>2 DEF bc
  <1> QED BY <1>3, <1>6 DEF s, q

\* A multiple of the divisor comes out of a division, and out of a remainder.
LEMMA DivOfSum ==
  ASSUME NEW a \in Nat, NEW b \in Nat \ {0}, NEW h \in Nat
  PROVE  /\ (b * h + a) \div b = h + (a \div b)
         /\ (b * h + a) % b = a % b
  <1> DEFINE q == a \div b
             r == a % b
             x == b * h + a
  <1>1. q \in Nat /\ r \in 0 .. b - 1 /\ a = b * q + r
    BY DivMod
  <1>2. x \in Nat /\ h + q \in Nat
    BY <1>1, b * h \in Nat
  <1> HIDE DEF q, r
  <1>3. x = b * (h + q) + r
    BY <1>1
  <1> HIDE DEF x
  <1>4. x \div b = h + q /\ x % b = r
    BY <1>1, <1>2, <1>3, DivModIs
  <1> QED BY <1>4 DEF q, r, x

\* A number below y and a digit make a number below b y.
LEMMA OneDigitMore ==
  ASSUME NEW b \in Nat \ {0}, NEW y \in Nat \ {0}, NEW x \in 0 .. y - 1, NEW d \in 0 .. b - 1
  PROVE  x * b + d \in 0 .. b * y - 1 /\ x \in 0 .. b * y - 1
  <1>1. x \in Nat /\ d \in Nat /\ x <= y - 1 /\ y - 1 \in Nat
    OBVIOUS
  <1>2. \A u, v \in Nat : u <= v => u * b \in Nat /\ u * b <= v * b
    <2>1. ASSUME NEW u \in Nat, NEW v \in Nat, u <= v PROVE u * b \in Nat /\ u * b <= v * b
      <3>1. v - u \in Nat /\ v * b = u * b + (v - u) * b /\ (v - u) * b \in Nat /\ u * b \in Nat
        BY <2>1
      <3> QED BY <3>1
    <2> QED BY <2>1
  <1>3. x * b \in Nat /\ x * b <= (y - 1) * b
    BY <1>1, <1>2
  <1>4. (y - 1) * b + b = b * y /\ b * y \in Nat
    OBVIOUS
  <1>5. y <= b * y
    OBVIOUS
  <1> QED BY <1>1, <1>3, <1>4, <1>5

-----------------------------------------------------------------------------
(* Digits.                                                                 *)

\* Digit k and the digits above it are what is left above digit k.
LEMMA DivNext ==
  ASSUME NEW b \in Nat \ {0}, NEW m \in Nat, NEW a \in Nat, NEW k \in 0 .. m - 1
  PROVE  a \div Powers(b, m)[k]
           = b * (a \div Powers(b, m)[k + 1]) + ((a \div Powers(b, m)[k]) % b)
  <1> DEFINE p == Powers(b, m)
  <1>1. p[k] \in Nat \ {0} /\ p[k + 1] = b * p[k]
    BY PowersType, PowersNext
  <1> HIDE DEF p
  <1>2. p[k] * b = b * p[k]
    BY <1>1
  <1>3. a \div p[k] \in Nat
    BY <1>1, DivMod
  <1>4. (a \div p[k]) \div b = a \div p[k + 1]
    BY <1>1, <1>2, DivDiv
  <1>5. a \div p[k] = b * ((a \div p[k]) \div b) + ((a \div p[k]) % b)
    BY <1>3, DivMod
  <1> QED BY <1>4, <1>5 DEF p

\* A number is known by its digits.
LEMMA SameDigits ==
  ASSUME NEW b \in Nat \ {0}, NEW m \in Nat,
         NEW a \in 0 .. Powers(b, m)[m] - 1, NEW c \in 0 .. Powers(b, m)[m] - 1,
         \A n \in 0 .. m - 1 : (a \div Powers(b, m)[n]) % b = (c \div Powers(b, m)[n]) % b
  PROVE  a = c
  <1> DEFINE p == Powers(b, m)
             S == {i \in 0 .. m : a \div p[m - i] = c \div p[m - i]}
  <1>1. \A k \in 0 .. m : p[k] \in Nat \ {0}
    BY PowersType
  <1>2. a \in Nat /\ c \in Nat
    BY <1>1
  <1>3. 0 \in S
    <2>1. p[m] \in Nat \ {0} /\ m - 0 = m
      BY <1>1
    <2> HIDE DEF p
    <2>2. a = p[m] * 0 + a /\ c = p[m] * 0 + c
      BY <1>2, <2>1
    <2>3. a \div p[m] = 0 /\ c \div p[m] = 0
      BY <1>2, <2>1, <2>2, DivModIs DEF p
    <2> QED BY <2>1, <2>3
  <1>4. ASSUME NEW i \in 0 .. m - 1, i \in S PROVE i + 1 \in S
    <2>1. m - (i + 1) \in 0 .. m - 1 /\ (m - (i + 1)) + 1 = m - i
      OBVIOUS
    <2>2. /\ a \div p[m - (i + 1)] = b * (a \div p[m - i]) + ((a \div p[m - (i + 1)]) % b)
          /\ c \div p[m - (i + 1)] = b * (c \div p[m - i]) + ((c \div p[m - (i + 1)]) % b)
      BY <1>2, <2>1, DivNext
    <2>3. (a \div p[m - (i + 1)]) % b = (c \div p[m - (i + 1)]) % b
      BY <2>1
    <2> HIDE DEF p
    <2> QED BY <1>4, <2>2, <2>3
  <1>5. m \in S
    <2> HIDE DEF S
    <2> QED BY <1>3, <1>4, UpTo
  <1>6. a \div p[0] = c \div p[0] /\ p[0] = 1
    BY <1>5, PowersNext
  <1>7. a \div 1 = a /\ c \div 1 = c
    BY <1>2
  <1> HIDE DEF p
  <1> QED BY <1>6, <1>7

\* The digits of a remainder are those of the number.
LEMMA DigitOfRemainder ==
  ASSUME NEW b \in Nat \ {0}, NEW d \in Nat, NEW a \in Nat, NEW j \in 0 .. d - 1
  PROVE  ((a % Powers(b, d)[d]) \div Powers(b, d)[j]) % b = (a \div Powers(b, d)[j]) % b
  <1> DEFINE p == Powers(b, d)
             h == a \div p[d]
             l == a % p[d]
  <1>1. \A k \in 0 .. d : p[k] \in Nat \ {0}
    BY PowersType
  <1>2. p[j + 1] = b * p[j] /\ p[(j + 1) + (d - (j + 1))] = p[j + 1] * p[d - (j + 1)]
    BY PowersNext, PowersSum
  <1>3. (j + 1) + (d - (j + 1)) = d /\ d - (j + 1) \in 0 .. d /\ j \in 0 .. d /\ d \in 0 .. d
    OBVIOUS
  <1> DEFINE e == p[d - (j + 1)]
  <1>4. p[d] = p[j] * (b * e) /\ e \in Nat /\ p[j] \in Nat \ {0} /\ p[d] \in Nat \ {0}
    <2> HIDE DEF p
    <2>1. p[d] = (b * p[j]) * e /\ e \in Nat /\ p[j] \in Nat \ {0} /\ p[d] \in Nat \ {0}
      BY <1>1, <1>2, <1>3
    <2> HIDE DEF e
    <2> QED BY <2>1
  <1> HIDE DEF p
  <1>5. h \in Nat /\ l \in Nat /\ a = p[d] * h + l
    <2>1. /\ a \div p[d] \in Nat /\ a % p[d] \in 0 .. p[d] - 1
          /\ a = p[d] * (a \div p[d]) + (a % p[d])
      BY <1>4, DivMod
    <2>2. l \in 0 .. p[d] - 1 => l \in Nat
      BY <1>4
    <2> QED BY <2>1, <2>2
  <1> HIDE DEF h, l, e
  <1>6. a = p[j] * ((b * e) * h) + l /\ (b * e) * h = b * (e * h) /\ (b * e) * h \in Nat /\ e * h \in Nat
    BY <1>4, <1>5
  <1>7. a \div p[j] = b * (e * h) + (l \div p[j])
    <2> DEFINE x == (b * e) * h
    <2>1. x \in Nat /\ a = p[j] * x + l /\ x = b * (e * h)
      BY <1>6
    <2> HIDE DEF x
    <2>2. (p[j] * x + l) \div p[j] = x + (l \div p[j])
      BY <1>4, <1>5, <2>1, DivOfSum
    <2> QED BY <2>1, <2>2
  <1>8. l \div p[j] \in Nat
    BY <1>4, <1>5, DivMod
  <1>9. (a \div p[j]) % b = (l \div p[j]) % b
    BY <1>6, <1>7, <1>8, DivOfSum
  <1> QED BY <1>9 DEF l, p
=============================================================================
