---------------------------- MODULE FormatProofs ----------------------------
(***************************************************************************)
(* Proofs about how a line is put together: fmt writes integers as they    *)
(* are meant, the pattern formatter writes lines as their patterns say,    *)
(* and fmt's parser stays within the format string, for any pattern, any   *)
(* message and any format string.                                          *)
(***************************************************************************)
EXTENDS PatternFormatter, FmtFormat, InductionProofs

-----------------------------------------------------------------------------
(* How fmt writes integers, for every width of them up to 64 bits.  First  *)
(* what the powers of a base are.                                          *)
IsPower(f, b, n) == f = [k \in 0..n |-> IF k = 0 THEN 1 ELSE b * f[k - 1]]

LEMMA PowerExists ==
  ASSUME NEW b, NEW n \in Nat
  PROVE  \E f : IsPower(f, b, n)
<1> DEFINE S == {m \in Nat : \E f : IsPower(f, b, m)}
<1>1. 0 \in S
  <2>1. PICK f : f = [k \in 0..0 |-> 1]
    OBVIOUS
  <2>2. ASSUME NEW k \in 0..0 PROVE f[k] = IF k = 0 THEN 1 ELSE b * f[k - 1]
    BY <2>1
  <2>3. f = [k \in 0..0 |-> f[k]]
    BY <2>1
  <2>4. IsPower(f, b, 0)
    BY <2>2, <2>3, Zenon DEF IsPower
  <2> QED BY <2>4
<1>2. ASSUME NEW m \in Nat, m \in S PROVE m + 1 \in S
  <2>1. PICK f : IsPower(f, b, m)
    BY <1>2
  <2>2. PICK j, x : j = m + 1 /\ x = b * f[m]
    OBVIOUS
  <2>3. PICK g : g = [k \in 0..j |-> IF k = j THEN x ELSE f[k]]
    OBVIOUS
  <2>4. ASSUME NEW k \in 0..j PROVE g[k] = IF k = 0 THEN 1 ELSE b * g[k - 1]
    <3>1. CASE k = j
      <4>1. j - 1 = m /\ m \in 0..j /\ m # j /\ j \in 0..j /\ j # 0
        BY <2>2
      <4>2. g[j] = x /\ g[m] = f[m]
        BY <2>3, <4>1
      <4> QED BY <2>2, <3>1, <4>1, <4>2, Zenon
    <3>2. CASE k # j
      <4>1. k \in 0..m /\ (k # 0 => k - 1 \in 0..j /\ k - 1 # j)
        BY <2>2, <3>2
      <4>2. g[k] = f[k] /\ (k # 0 => g[k - 1] = f[k - 1])
        BY <2>3, <3>2, <4>1, Zenon
      <4>3. f[k] = IF k = 0 THEN 1 ELSE b * f[k - 1]
        BY <2>1, <4>1, Zenon DEF IsPower
      <4> QED BY <4>2, <4>3, Zenon
    <3> QED BY <3>1, <3>2
  <2>5. g = [k \in 0..j |-> g[k]]
    BY <2>3
  <2>6. IsPower(g, b, j)
    <3> HIDE <2>3
    <3> QED BY <2>4, <2>5, Zenon DEF IsPower
  <2> QED BY <2>2, <2>6
<1>3. n \in S
  <2> HIDE DEF S
  <2> QED BY <1>1, <1>2, Induct
<1> QED BY <1>3

LEMMA PowerIs ==
  ASSUME NEW b
  PROVE  Power(b, 0) = 1 /\ (\A k \in 1..64 : Power(b, k) = b * Power(b, k - 1))
<1>1. PICK f : f = CHOOSE g : IsPower(g, b, 64)
  OBVIOUS
<1>2. 64 \in Nat
  OBVIOUS
<1>3. IsPower(f, b, 64)
  BY <1>1, <1>2, PowerExists, Zenon
<1>4. \A k : Power(b, k) = f[k]
  BY <1>1 DEF Power, IsPower
<1>5. f[0] = 1
  BY <1>3 DEF IsPower
<1>6. ASSUME NEW k \in 1..64 PROVE f[k] = b * f[k - 1]
  <2>1. k \in 0..64 /\ k # 0
    OBVIOUS
  <2> QED BY <1>3, <2>1, Zenon DEF IsPower
<1> QED BY <1>4, <1>5, <1>6, Zenon

LEMMA PowerFacts ==
  ASSUME NEW b \in Nat, b >= 1
  PROVE  \A k \in 0..64 : Power(b, k) \in Nat /\ Power(b, k) >= 1
<1> DEFINE S == {k \in Nat : k \in 0..64 => Power(b, k) \in Nat /\ Power(b, k) >= 1}
<1>1. 0 \in S
  <2>1. Power(b, 0) = 1
    BY PowerIs, Zenon
  <2> QED BY <2>1
<1>2. ASSUME NEW k \in Nat, k \in S PROVE k + 1 \in S
  <2> SUFFICES ASSUME k + 1 \in 0..64
               PROVE  Power(b, k + 1) \in Nat /\ Power(b, k + 1) >= 1
    OBVIOUS
  <2>1. PICK j, x : j = k + 1 /\ x = Power(b, k)
    OBVIOUS
  <2>2. j \in 1..64 /\ j - 1 = k /\ k \in 0..64
    BY <2>1
  <2>3. x \in Nat /\ x >= 1
    BY <1>2, <2>1, <2>2, Zenon
  <2>4. Power(b, j) = b * x
    BY <2>1, <2>2, PowerIs, Zenon
  <2>5. b * x \in Nat /\ b * x >= 1
    BY <2>3, SMT
  <2> QED BY <2>1, <2>4, <2>5, Zenon
<1>3. Nat \subseteq S
  <2> HIDE DEF S
  <2> QED BY <1>1, <1>2, Induct
<1>4. \A k \in 0..64 : k \in Nat
  OBVIOUS
<1> QED BY <1>3, <1>4

LEMMA PowerGrows ==
  ASSUME NEW b \in Nat, b >= 1, NEW j \in 0..64
  PROVE  \A k \in j..64 : Power(b, j) <= Power(b, k)
<1> DEFINE S == {k \in Nat : k \in j..64 => Power(b, j) <= Power(b, k)}
<1>0. \A k \in 0..64 : Power(b, k) \in Nat /\ Power(b, k) >= 1
  BY PowerFacts, Zenon
<1>1. 0 \in S
  <2>1. 0 \in j..64 => j = 0
    BY SMT
  <2>2. Power(b, 0) <= Power(b, 0)
    <3>1. Power(b, 0) = 1
      BY PowerIs, Zenon
    <3> QED BY <3>1, SMT
  <2> QED BY <2>1, <2>2
<1>2. ASSUME NEW k \in Nat, k \in S PROVE k + 1 \in S
  <2> SUFFICES ASSUME k + 1 \in j..64 PROVE Power(b, j) <= Power(b, k + 1)
    OBVIOUS
  <2>1. PICK i, p, q, r : i = k + 1 /\ p = Power(b, j) /\ q = Power(b, k) /\ r = Power(b, i)
    OBVIOUS
  <2>2. i \in 1..64 /\ i - 1 = k /\ k \in 0..64 /\ i \in 0..64 /\ (i = j \/ k \in j..64)
    BY <2>1, SMT
  <2>3. p \in Nat /\ q \in Nat /\ q >= 1 /\ r = b * q
    BY <1>0, <2>1, <2>2, PowerIs, Zenon
  <2>4. CASE i = j
    BY <2>1, <2>3, <2>4
  <2>5. CASE k \in j..64
    <3>1. p <= q
      BY <1>2, <2>1, <2>5, Zenon
    <3>2. q <= b * q
      BY <2>3, SMT
    <3>3. b * q \in Nat
      BY <2>3, SMT
    <3> QED BY <2>1, <2>3, <3>1, <3>2, <3>3, SMT
  <2> QED BY <2>2, <2>4, <2>5
<1>3. Nat \subseteq S
  <2> HIDE DEF S
  <2> QED BY <1>1, <1>2, Induct
<1>4. \A k \in j..64 : k \in Nat
  OBVIOUS
<1> QED BY <1>3, <1>4

LEMMA PowersOfTwo ==
  /\ Power(2, 0) = 1 /\ Power(2, 1) = 2 /\ Power(2, 2) = 4 /\ Power(2, 3) = 8 /\ Power(2, 4) = 16
  /\ Power(2, 5) = 32 /\ Power(2, 6) = 64 /\ Power(2, 7) = 128 /\ Power(2, 8) = 256
  /\ Power(2, 9) = 512 /\ Power(2, 10) = 1024 /\ Power(2, 11) = 2048 /\ Power(2, 12) = 4096
  /\ Power(2, 13) = 8192 /\ Power(2, 14) = 16384 /\ Power(2, 15) = 32768 /\ Power(2, 16) = 65536
  /\ Power(2, 17) = 131072 /\ Power(2, 18) = 262144 /\ Power(2, 19) = 524288
  /\ Power(2, 20) = 1048576 /\ Power(2, 21) = 2097152 /\ Power(2, 22) = 4194304
  /\ Power(2, 23) = 8388608 /\ Power(2, 24) = 16777216 /\ Power(2, 25) = 33554432
  /\ Power(2, 26) = 67108864 /\ Power(2, 27) = 134217728 /\ Power(2, 28) = 268435456
  /\ Power(2, 29) = 536870912 /\ Power(2, 30) = 1073741824 /\ Power(2, 31) = 2147483648
  /\ Power(2, 32) = 4294967296 /\ Power(2, 33) = 8589934592 /\ Power(2, 34) = 17179869184
  /\ Power(2, 35) = 34359738368 /\ Power(2, 36) = 68719476736 /\ Power(2, 37) = 137438953472
  /\ Power(2, 38) = 274877906944 /\ Power(2, 39) = 549755813888 /\ Power(2, 40) = 1099511627776
  /\ Power(2, 41) = 2199023255552 /\ Power(2, 42) = 4398046511104 /\ Power(2, 43) = 8796093022208
  /\ Power(2, 44) = 17592186044416 /\ Power(2, 45) = 35184372088832
  /\ Power(2, 46) = 70368744177664 /\ Power(2, 47) = 140737488355328
  /\ Power(2, 48) = 281474976710656 /\ Power(2, 49) = 562949953421312
  /\ Power(2, 50) = 1125899906842624 /\ Power(2, 51) = 2251799813685248
  /\ Power(2, 52) = 4503599627370496 /\ Power(2, 53) = 9007199254740992
  /\ Power(2, 54) = 18014398509481984 /\ Power(2, 55) = 36028797018963968
  /\ Power(2, 56) = 72057594037927936 /\ Power(2, 57) = 144115188075855872
  /\ Power(2, 58) = 288230376151711744 /\ Power(2, 59) = 576460752303423488
  /\ Power(2, 60) = 1152921504606846976 /\ Power(2, 61) = 2305843009213693952
  /\ Power(2, 62) = 4611686018427387904 /\ Power(2, 63) = 9223372036854775808
  /\ Power(2, 64) = 18446744073709551616
<1>0. Power(2, 0) = 1 /\ (\A k \in 1..64 : Power(2, k) = 2 * Power(2, k - 1))
  BY PowerIs, Zenon
<1>1. /\ Power(2, 0) = 1 /\ Power(2, 1) = 2 /\ Power(2, 2) = 4 /\ Power(2, 3) = 8
      /\ Power(2, 4) = 16 /\ Power(2, 5) = 32 /\ Power(2, 6) = 64 /\ Power(2, 7) = 128
      /\ Power(2, 8) = 256 /\ Power(2, 9) = 512 /\ Power(2, 10) = 1024 /\ Power(2, 11) = 2048
      /\ Power(2, 12) = 4096
  BY <1>0, SMT
<1>2. /\ Power(2, 13) = 8192 /\ Power(2, 14) = 16384 /\ Power(2, 15) = 32768
      /\ Power(2, 16) = 65536 /\ Power(2, 17) = 131072 /\ Power(2, 18) = 262144
      /\ Power(2, 19) = 524288 /\ Power(2, 20) = 1048576 /\ Power(2, 21) = 2097152
      /\ Power(2, 22) = 4194304 /\ Power(2, 23) = 8388608 /\ Power(2, 24) = 16777216
      /\ Power(2, 25) = 33554432
  BY <1>0, <1>1, SMT
<1>3. /\ Power(2, 26) = 67108864 /\ Power(2, 27) = 134217728 /\ Power(2, 28) = 268435456
      /\ Power(2, 29) = 536870912 /\ Power(2, 30) = 1073741824 /\ Power(2, 31) = 2147483648
      /\ Power(2, 32) = 4294967296 /\ Power(2, 33) = 8589934592 /\ Power(2, 34) = 17179869184
      /\ Power(2, 35) = 34359738368 /\ Power(2, 36) = 68719476736 /\ Power(2, 37) = 137438953472
      /\ Power(2, 38) = 274877906944
  BY <1>0, <1>2, SMT
<1>4. /\ Power(2, 39) = 549755813888 /\ Power(2, 40) = 1099511627776
      /\ Power(2, 41) = 2199023255552 /\ Power(2, 42) = 4398046511104
      /\ Power(2, 43) = 8796093022208 /\ Power(2, 44) = 17592186044416
      /\ Power(2, 45) = 35184372088832 /\ Power(2, 46) = 70368744177664
      /\ Power(2, 47) = 140737488355328 /\ Power(2, 48) = 281474976710656
      /\ Power(2, 49) = 562949953421312 /\ Power(2, 50) = 1125899906842624
      /\ Power(2, 51) = 2251799813685248
  BY <1>0, <1>3, SMT
<1>5. /\ Power(2, 52) = 4503599627370496 /\ Power(2, 53) = 9007199254740992
      /\ Power(2, 54) = 18014398509481984 /\ Power(2, 55) = 36028797018963968
      /\ Power(2, 56) = 72057594037927936 /\ Power(2, 57) = 144115188075855872
      /\ Power(2, 58) = 288230376151711744 /\ Power(2, 59) = 576460752303423488
      /\ Power(2, 60) = 1152921504606846976 /\ Power(2, 61) = 2305843009213693952
      /\ Power(2, 62) = 4611686018427387904 /\ Power(2, 63) = 9223372036854775808
      /\ Power(2, 64) = 18446744073709551616
  BY <1>0, <1>4, SMT
<1> QED BY <1>1, <1>2, <1>3, <1>4, <1>5

LEMMA PowersOfTen ==
  /\ Power(10, 0) = 1 /\ Power(10, 1) = 10 /\ Power(10, 2) = 100 /\ Power(10, 3) = 1000
  /\ Power(10, 4) = 10000 /\ Power(10, 5) = 100000 /\ Power(10, 6) = 1000000
  /\ Power(10, 7) = 10000000 /\ Power(10, 8) = 100000000 /\ Power(10, 9) = 1000000000
  /\ Power(10, 10) = 10000000000 /\ Power(10, 11) = 100000000000 /\ Power(10, 12) = 1000000000000
  /\ Power(10, 13) = 10000000000000 /\ Power(10, 14) = 100000000000000
  /\ Power(10, 15) = 1000000000000000 /\ Power(10, 16) = 10000000000000000
  /\ Power(10, 17) = 100000000000000000 /\ Power(10, 18) = 1000000000000000000
  /\ Power(10, 19) = 10000000000000000000 /\ Power(10, 20) = 100000000000000000000
<1>0. Power(10, 0) = 1 /\ (\A k \in 1..64 : Power(10, k) = 10 * Power(10, k - 1))
  BY PowerIs, Zenon
<1>1. /\ Power(10, 0) = 1 /\ Power(10, 1) = 10 /\ Power(10, 2) = 100 /\ Power(10, 3) = 1000
      /\ Power(10, 4) = 10000 /\ Power(10, 5) = 100000 /\ Power(10, 6) = 1000000
      /\ Power(10, 7) = 10000000 /\ Power(10, 8) = 100000000 /\ Power(10, 9) = 1000000000
      /\ Power(10, 10) = 10000000000
  BY <1>0, SMT
<1>2. /\ Power(10, 11) = 100000000000 /\ Power(10, 12) = 1000000000000
      /\ Power(10, 13) = 10000000000000 /\ Power(10, 14) = 100000000000000
      /\ Power(10, 15) = 1000000000000000 /\ Power(10, 16) = 10000000000000000
      /\ Power(10, 17) = 100000000000000000 /\ Power(10, 18) = 1000000000000000000
      /\ Power(10, 19) = 10000000000000000000 /\ Power(10, 20) = 100000000000000000000
  BY <1>0, <1>1, SMT
<1> QED BY <1>1, <1>2

LEMMA DivAtLeast ==
  ASSUME NEW n \in Nat, NEW p \in Nat, p > 0, NEW b \in Nat
  PROVE  n \div p \in Int /\ (n \div p >= b <=> n >= b * p) /\ (n \div p < b <=> n < b * p)
<1>1. PICK q, r : q = n \div p /\ r = n % p
  OBVIOUS
<1>2. q \in Int /\ r \in Int /\ 0 <= r /\ r < p /\ n = p * q + r
  BY <1>1, SMT
<1>3. CASE q >= b
  <2>1. p * q >= p * b
    BY <1>2, <1>3, SMT
  <2>2. p * b = b * p
    BY SMT
  <2>3. n >= b * p
    BY <1>2, <2>1, <2>2, SMT
  <2> QED BY <1>1, <1>2, <1>3, <2>3, SMT
<1>4. CASE ~(q >= b)
  <2>1. q + 1 <= b
    BY <1>2, <1>4, SMT
  <2>2. p * (q + 1) <= p * b
    BY <1>2, <2>1, SMT
  <2>3. p * (q + 1) = p * q + p /\ p * b = b * p
    BY <1>2, SMT
  <2>4. n < b * p
    BY <1>2, <2>2, <2>3, SMT
  <2> QED BY <1>1, <1>2, <1>4, <2>4, SMT
<1> QED BY <1>3, <1>4

(* w digits are as many as n needs in base b.                              *)
IsCount(n, b, w) ==
    /\ n \div Power(b, w - 1) < b /\ n \div Power(b, w - 1) \in Int
    /\ n < Power(b, w) /\ Power(b, w) \in Nat
    /\ \A e \in 1..w - 1 : /\ n \div Power(b, e - 1) >= b /\ n \div Power(b, e - 1) \in Int
                           /\ n >= Power(b, e)

LEMMA CountIs ==
  ASSUME NEW b \in Nat, b >= 1, NEW n \in Nat, NEW w \in 1..64,
         n < Power(b, w), w = 1 \/ Power(b, w - 1) <= n
  PROVE  IsCount(n, b, w)
<1>0. \A k \in 0..64 : Power(b, k) \in Nat /\ Power(b, k) > 0
  <2>1. \A k \in 0..64 : Power(b, k) \in Nat /\ Power(b, k) >= 1
    BY PowerFacts, Zenon
  <2>2. \A x \in Nat : x >= 1 => x > 0
    OBVIOUS
  <2> QED BY <2>1, <2>2, Zenon
<1>1. PICK k, p : k = w - 1 /\ p = Power(b, k)
  OBVIOUS
<1>2. k \in 0..64 /\ w \in 0..64
  BY <1>1, SMT
<1>3. p \in Nat /\ p > 0 /\ Power(b, w) \in Nat /\ Power(b, w) = b * p
  BY <1>0, <1>1, <1>2, PowerIs, Zenon
<1>4. n \div p \in Int /\ n \div p < b
  BY <1>3, DivAtLeast, Zenon
<1>5. ASSUME NEW e \in 1..w - 1
      PROVE  /\ n \div Power(b, e - 1) >= b /\ n \div Power(b, e - 1) \in Int
             /\ n >= Power(b, e)
  <2>1. PICK j, q : j = e - 1 /\ q = Power(b, j)
    OBVIOUS
  <2>2. j \in 0..64 /\ e \in 0..64 /\ e \in 1..64 /\ k \in e..64 /\ w # 1
    BY <1>1, <2>1, SMT
  <2>3. q \in Nat /\ q > 0 /\ Power(b, e) = b * q /\ Power(b, e) \in Nat
    BY <1>0, <2>1, <2>2, PowerIs, Zenon
  <2>4. Power(b, e) <= p /\ p <= n
    BY <1>1, <2>2, PowerGrows, Zenon
  <2>5. n >= Power(b, e)
    BY <1>3, <2>3, <2>4, SMT
  <2>6. n \div q >= b /\ n \div q \in Int
    BY <2>3, <2>5, DivAtLeast, Zenon
  <2> QED BY <2>1, <2>5, <2>6, Zenon
<1> QED BY <1>1, <1>3, <1>4, <1>5, Zenon DEF IsCount

LEMMA CountUnique ==
  ASSUME NEW n \in Nat, NEW b, NEW w \in 1..64, NEW u \in 1..64, IsCount(n, b, w), IsCount(n, b, u)
  PROVE  w = u
<1>1. ASSUME NEW x \in 1..64, NEW y \in 1..64, IsCount(n, b, x), IsCount(n, b, y), x < y
      PROVE  FALSE
  <2>1. x \in 1..y - 1
    BY <1>1, SMT
  <2>2. PICK p : p = Power(b, x)
    OBVIOUS
  <2>3. p \in Nat /\ n < p /\ n >= p
    BY <1>1, <2>1, <2>2, Zenon DEF IsCount
  <2> QED BY <2>3, SMT
<1>2. ~(w < u) /\ ~(u < w)
  BY <1>1, Zenon
<1> QED BY <1>2, SMT

LEMMA CountExists ==
  ASSUME NEW b \in Nat, b >= 1, NEW K \in 1..64, NEW n \in Nat, n < Power(b, K)
  PROVE  \E w \in 1..K : IsCount(n, b, w)
<1>1. PICK T : T = {k \in Nat : k \in 1..K /\ n < Power(b, k)}
  OBVIOUS
<1>2. K \in T
  <2>1. K \in Nat /\ K \in 1..K
    BY SMT
  <2> QED BY <1>1, <2>1, Zenon
<1>3. PICK w \in T : \A y \in T : w <= y
  BY <1>1, <1>2, LeastNumber, Zenon
<1>4. w \in 1..K /\ n < Power(b, w)
  BY <1>1, <1>3, Zenon
<1>5. w \in 1..64
  BY <1>4, SMT
<1>6. w = 1 \/ Power(b, w - 1) <= n
  <2>1. PICK k : k = w - 1
    OBVIOUS
  <2>2. k \in Nat /\ k \in 0..64 /\ ~(w <= k) /\ (w = 1 \/ k \in 1..K)
    BY <1>4, <2>1, SMT
  <2>3. w = 1 \/ ~(n < Power(b, k))
    BY <1>1, <1>3, <2>2, Zenon
  <2>4. Power(b, k) \in Nat
    BY <2>2, PowerFacts, Zenon
  <2> QED BY <2>1, <2>3, <2>4, SMT
<1> QED BY <1>4, <1>5, <1>6, CountIs, Zenon

(* The numbers an integer of the model has as absolute values.             *)
IsNumber(n) == n \in Nat /\ n < Power(2, 64)

LEMMA NumberFacts == ASSUME NEW n, IsNumber(n)
                     PROVE  n \in Nat /\ n < Power(10, 20)
<1>1. Power(2, 64) = 18446744073709551616 /\ Power(10, 20) = 100000000000000000000
  BY PowersOfTwo, PowersOfTen, SMT
<1> QED BY <1>1, SMT DEF IsNumber

LEMMA Modulo == ASSUME NEW v \in Int, NEW m \in Nat, m > 0
                PROVE  v % m \in Int /\ v % m >= 0 /\ v % m < m
OBVIOUS

LEMMA ModulusIs ==
  Modulus \in Nat /\ Modulus > 0 /\ Modulus <= Power(2, 64) /\ Power(2, 64) \in Nat
<1>1. IntBits \in 0..64 /\ 64 \in IntBits..64 /\ 64 \in 0..64 /\ 2 \in Nat /\ 2 >= 1
  BY FmtIntAssumption, SMT
<1>2. PICK m, q : m = Power(2, IntBits) /\ q = Power(2, 64)
  OBVIOUS
<1>3. m \in Nat /\ m >= 1
  BY <1>1, <1>2, PowerFacts, Zenon
<1>4. m <= q
  BY <1>1, <1>2, PowerGrows, Zenon
<1>5. q \in Nat
  BY <1>1, <1>2, PowerFacts, Zenon
<1> QED BY <1>2, <1>3, <1>4, <1>5, SMT DEF Modulus

LEMMA AbsValues == ASSUME NEW v \in Int PROVE IsNumber(abs_value(v))
<1>1. PICK m, w : m = Modulus /\ w = Power(2, 64)
  OBVIOUS
<1>2. m \in Nat /\ m > 0 /\ m <= w /\ w \in Nat
  BY <1>1, ModulusIs, Zenon
<1>3. PICK r, q : r = v % m /\ q = (0 - r) % m
  OBVIOUS
<1>4. r \in Int /\ r >= 0 /\ r < m
  BY <1>2, <1>3, Modulo, Zenon
<1>5. 0 - r \in Int
  BY <1>4, SMT
<1>6. q \in Int /\ q >= 0 /\ q < m
  BY <1>2, <1>3, <1>5, Modulo, Zenon
<1>7. abs_value(v) = r \/ abs_value(v) = q
  BY <1>1, <1>3, Zenon DEF abs_value
<1>8. \A x \in Int : x >= 0 /\ x < m => x \in Nat /\ x < w
  BY <1>2, SMT
<1> QED BY <1>1, <1>4, <1>6, <1>7, <1>8, Zenon DEF IsNumber

(* The number of bits, of 0 as of 1.                                       *)
LEMMA BitLengthIs ==
  ASSUME NEW n, IsNumber(n)
  PROVE  \E k \in 0..63 : /\ BitLength(n) = k + 1
                          /\ n < Power(2, k + 1) /\ (n > 0 => Power(2, k) <= n) /\ (n = 0 => k = 0)
<1>0. n \in Nat /\ n < Power(2, 64)
  BY Zenon DEF IsNumber
<1>1. PICK m : m = IF n % 2 = 0 THEN n + 1 ELSE n
  OBVIOUS
<1> DEFINE b == CHOOSE b \in 1..64 : Power(2, b - 1) <= m /\ m < Power(2, b)
<1>2. m \in Nat /\ m >= 1 /\ n <= m /\ m <= n + 1 /\ m % 2 = 1
  <2>1. CASE n % 2 = 0
    BY <1>0, <1>1, <2>1, SMT
  <2>2. CASE n % 2 # 0
    BY <1>0, <1>1, <2>2, SMT
  <2> QED BY <2>1, <2>2
<1>3. m < Power(2, 64)
  <2>1. PICK e, x, y : e = 64 /\ x = Power(2, e - 1) /\ y = Power(2, e)
    OBVIOUS
  <2>2. e - 1 \in 0..64 /\ e \in 1..64 /\ 2 \in Nat /\ 2 >= 1
    BY <2>1
  <2>3. x \in Nat /\ y = 2 * x
    BY <2>1, <2>2, PowerFacts, PowerIs, Zenon
  <2>4. m < y
    BY <1>0, <1>2, <2>1, <2>3, SMT
  <2> QED BY <2>1, <2>4, Zenon
<1>4. PICK w \in 1..64 : IsCount(m, 2, w)
  <2>1. 2 \in Nat /\ 2 >= 1 /\ 64 \in 1..64
    OBVIOUS
  <2> QED BY <1>2, <1>3, <2>1, CountExists, Zenon
<1>5. Power(2, w - 1) <= m /\ m < Power(2, w)
  <2>1. m < Power(2, w) /\ (w - 1 \in 1..w - 1 => m >= Power(2, w - 1))
    BY <1>4, Zenon DEF IsCount
  <2>2. w - 1 \in 1..w - 1 \/ w - 1 = 0
    BY SMT
  <2>3. Power(2, 0) = 1
    BY PowerIs, Zenon
  <2>4. w - 1 \in 0..64 /\ 2 \in Nat /\ 2 >= 1
    BY SMT
  <2>5. PICK p : p = Power(2, w - 1)
    OBVIOUS
  <2>6. p \in Nat
    BY <2>4, <2>5, PowerFacts, Zenon
  <2>7. m >= p
    <3>1. CASE w - 1 = 0
      BY <1>2, <2>3, <2>5, <3>1, Zenon
    <3>2. CASE w - 1 \in 1..w - 1
      BY <2>1, <2>5, <3>2, Zenon
    <3> QED BY <2>2, <3>1, <3>2
  <2> QED BY <1>2, <2>1, <2>5, <2>6, <2>7, SMT
<1>6. b \in 1..64 /\ Power(2, b - 1) <= m /\ m < Power(2, b)
  BY <1>5, Zenon
<1>7. BitLength(n) = b
  BY <1>1, Zenon DEF BitLength
<1> HIDE DEF b
<1>8. PICK k, p, q : k = b - 1 /\ p = Power(2, k) /\ q = Power(2, b)
  OBVIOUS
<1>9. k \in 0..63 /\ k + 1 = b /\ k \in 0..64 /\ b \in 1..64 /\ b \in 0..64
  BY <1>6, <1>8, SMT
<1>10. p \in Nat /\ q \in Nat /\ p <= m /\ m < q
  <2>1. 2 \in Nat /\ 2 >= 1
    OBVIOUS
  <2> QED BY <1>6, <1>8, <1>9, <2>1, PowerFacts, Zenon
<1>11. k = 0 \/ \E x \in Nat : p = 2 * x
  <2>1. SUFFICES ASSUME k # 0 PROVE \E x \in Nat : p = 2 * x
    OBVIOUS
  <2>2. k \in 1..64 /\ k - 1 \in 0..64 /\ 2 \in Nat /\ 2 >= 1
    BY <1>9, <2>1, SMT
  <2> QED BY <1>8, <2>2, PowerIs, PowerFacts, Zenon
<1>12. k = 0 => p = 1
  BY <1>8, PowerIs, Zenon
<1>13. n < q /\ (n > 0 => p <= n)
  <2>1. CASE k = 0
    BY <1>0, <1>2, <1>10, <1>12, <2>1, SMT
  <2>2. CASE k # 0
    <3>1. PICK x \in Nat : p = 2 * x
      BY <1>11, <2>2
    <3> QED BY <1>0, <1>1, <1>2, <1>10, <3>1, SMT
  <2> QED BY <2>1, <2>2
<1>14. n = 0 => k = 0
  <2>1. SUFFICES ASSUME n = 0, k # 0 PROVE FALSE
    OBVIOUS
  <2>2. m = 1
    BY <1>1, <2>1, SMT
  <2>3. PICK x \in Nat : p = 2 * x
    BY <1>11, <2>1
  <2>4. 0 \in Nat /\ k \in 0..64 /\ p >= 1
    <3>1. 2 \in Nat /\ 2 >= 1
      OBVIOUS
    <3> QED BY <1>8, <1>9, <3>1, PowerFacts, Zenon
  <2> QED BY <1>10, <2>2, <2>3, <2>4, SMT
<1> QED BY <1>7, <1>8, <1>9, <1>13, <1>14, Zenon

(* The number of bits tells the number of digits, or one more.             *)
LEMMA TwoAndTen ==
  ASSUME NEW k \in 0..63, NEW t, t = ((k + 1) * 1233) \div 4096
  PROVE  /\ t \in 0..19 /\ Power(2, k + 1) <= Power(10, t + 1)
         /\ t > 0 => Power(10, t - 1) <= Power(2, k) /\ Power(10, t) \in Nat /\ k > 0
<1>1. \/ (k \in 0..2 /\ t = 0) \/ (k \in 3..5 /\ t = 1) \/ (k \in 6..8 /\ t = 2)
      \/ (k \in 9..12 /\ t = 3) \/ (k \in 13..15 /\ t = 4) \/ (k \in 16..18 /\ t = 5)
      \/ (k \in 19..22 /\ t = 6) \/ (k \in 23..25 /\ t = 7) \/ (k \in 26..28 /\ t = 8)
      \/ (k \in 29..32 /\ t = 9) \/ (k \in 33..35 /\ t = 10) \/ (k \in 36..38 /\ t = 11)
      \/ (k \in 39..42 /\ t = 12) \/ (k \in 43..45 /\ t = 13) \/ (k \in 46..48 /\ t = 14)
      \/ (k \in 49..52 /\ t = 15) \/ (k \in 53..55 /\ t = 16) \/ (k \in 56..58 /\ t = 17)
      \/ (k \in 59..62 /\ t = 18) \/ (k \in 63..63 /\ t = 19)
  BY SMTT(30)
<1>2. CASE k \in 0..2 /\ t = 0
  <2>1. k = 0 \/ k = 1 \/ k = 2
    BY <1>2, SMT
  <2> QED BY <1>2, <2>1, PowersOfTwo, PowersOfTen, SMT
<1>3. CASE k \in 3..5 /\ t = 1
  <2>1. k = 3 \/ k = 4 \/ k = 5
    BY <1>3, SMT
  <2> QED BY <1>3, <2>1, PowersOfTwo, PowersOfTen, SMT
<1>4. CASE k \in 6..8 /\ t = 2
  <2>1. k = 6 \/ k = 7 \/ k = 8
    BY <1>4, SMT
  <2> QED BY <1>4, <2>1, PowersOfTwo, PowersOfTen, SMT
<1>5. CASE k \in 9..12 /\ t = 3
  <2>1. k = 9 \/ k = 10 \/ k = 11 \/ k = 12
    BY <1>5, SMT
  <2> QED BY <1>5, <2>1, PowersOfTwo, PowersOfTen, SMT
<1>6. CASE k \in 13..15 /\ t = 4
  <2>1. k = 13 \/ k = 14 \/ k = 15
    BY <1>6, SMT
  <2> QED BY <1>6, <2>1, PowersOfTwo, PowersOfTen, SMT
<1>7. CASE k \in 16..18 /\ t = 5
  <2>1. k = 16 \/ k = 17 \/ k = 18
    BY <1>7, SMT
  <2> QED BY <1>7, <2>1, PowersOfTwo, PowersOfTen, SMT
<1>8. CASE k \in 19..22 /\ t = 6
  <2>1. k = 19 \/ k = 20 \/ k = 21 \/ k = 22
    BY <1>8, SMT
  <2> QED BY <1>8, <2>1, PowersOfTwo, PowersOfTen, SMT
<1>9. CASE k \in 23..25 /\ t = 7
  <2>1. k = 23 \/ k = 24 \/ k = 25
    BY <1>9, SMT
  <2> QED BY <1>9, <2>1, PowersOfTwo, PowersOfTen, SMT
<1>10. CASE k \in 26..28 /\ t = 8
  <2>1. k = 26 \/ k = 27 \/ k = 28
    BY <1>10, SMT
  <2> QED BY <1>10, <2>1, PowersOfTwo, PowersOfTen, SMT
<1>11. CASE k \in 29..32 /\ t = 9
  <2>1. k = 29 \/ k = 30 \/ k = 31 \/ k = 32
    BY <1>11, SMT
  <2> QED BY <1>11, <2>1, PowersOfTwo, PowersOfTen, SMT
<1>12. CASE k \in 33..35 /\ t = 10
  <2>1. k = 33 \/ k = 34 \/ k = 35
    BY <1>12, SMT
  <2> QED BY <1>12, <2>1, PowersOfTwo, PowersOfTen, SMT
<1>13. CASE k \in 36..38 /\ t = 11
  <2>1. k = 36 \/ k = 37 \/ k = 38
    BY <1>13, SMT
  <2> QED BY <1>13, <2>1, PowersOfTwo, PowersOfTen, SMT
<1>14. CASE k \in 39..42 /\ t = 12
  <2>1. k = 39 \/ k = 40 \/ k = 41 \/ k = 42
    BY <1>14, SMT
  <2> QED BY <1>14, <2>1, PowersOfTwo, PowersOfTen, SMT
<1>15. CASE k \in 43..45 /\ t = 13
  <2>1. k = 43 \/ k = 44 \/ k = 45
    BY <1>15, SMT
  <2> QED BY <1>15, <2>1, PowersOfTwo, PowersOfTen, SMT
<1>16. CASE k \in 46..48 /\ t = 14
  <2>1. k = 46 \/ k = 47 \/ k = 48
    BY <1>16, SMT
  <2> QED BY <1>16, <2>1, PowersOfTwo, PowersOfTen, SMT
<1>17. CASE k \in 49..52 /\ t = 15
  <2>1. k = 49 \/ k = 50 \/ k = 51 \/ k = 52
    BY <1>17, SMT
  <2> QED BY <1>17, <2>1, PowersOfTwo, PowersOfTen, SMT
<1>18. CASE k \in 53..55 /\ t = 16
  <2>1. k = 53 \/ k = 54 \/ k = 55
    BY <1>18, SMT
  <2> QED BY <1>18, <2>1, PowersOfTwo, PowersOfTen, SMT
<1>19. CASE k \in 56..58 /\ t = 17
  <2>1. k = 56 \/ k = 57 \/ k = 58
    BY <1>19, SMT
  <2> QED BY <1>19, <2>1, PowersOfTwo, PowersOfTen, SMT
<1>20. CASE k \in 59..62 /\ t = 18
  <2>1. k = 59 \/ k = 60 \/ k = 61 \/ k = 62
    BY <1>20, SMT
  <2> QED BY <1>20, <2>1, PowersOfTwo, PowersOfTen, SMT
<1>21. CASE k \in 63..63 /\ t = 19
  <2>1. k = 63
    BY <1>21, SMT
  <2> QED BY <1>21, <2>1, PowersOfTwo, PowersOfTen, SMT
<1> QED BY <1>1, <1>2, <1>3, <1>4, <1>5, <1>6, <1>7, <1>8, <1>9, <1>10, <1>11,
           <1>12, <1>13, <1>14, <1>15, <1>16, <1>17, <1>18, <1>19, <1>20, <1>21

(* count_digits is exact: the digits of the number, and no leading zero.   *)
LEMMA DigitsCounted ==
  ASSUME NEW n, IsNumber(n)
  PROVE  \E c \in 1..20 : count_digits(n) = c /\ IsCount(n, 10, c)
<1>1. PICK k \in 0..63 : /\ BitLength(n) = k + 1
                         /\ n < Power(2, k + 1) /\ (n > 0 => Power(2, k) <= n) /\ (n = 0 => k = 0)
  BY BitLengthIs, Zenon
<1>2. PICK t, p, q : t = ((k + 1) * 1233) \div 4096 /\ p = Power(2, k) /\ q = Power(2, k + 1)
  OBVIOUS
<1>3. /\ t \in 0..19 /\ q <= Power(10, t + 1)
      /\ t > 0 => Power(10, t - 1) <= p /\ Power(10, t) \in Nat /\ k > 0
  BY <1>2, TwoAndTen
<1>4. \A j \in 0..64 : Power(10, j) \in Nat /\ Power(2, j) \in Nat
  <2>1. 10 \in Nat /\ 10 >= 1 /\ 2 \in Nat /\ 2 >= 1
    OBVIOUS
  <2> QED BY <2>1, PowerFacts, Zenon
<1>5. n \in Nat /\ n < q /\ (n > 0 => p <= n) /\ (n = 0 => k = 0)
  BY <1>1, <1>2 DEF IsNumber
<1>6. k \in 0..64 /\ k + 1 \in 0..64 /\ t + 1 \in 0..64 /\ t \in 0..64 /\ (t > 0 => t - 1 \in 0..64)
  BY <1>3, SMT
<1>7. p \in Nat /\ q \in Nat
  BY <1>2, <1>4, <1>6
<1>8. PICK P, c : P = POWERS_OF_10(t) /\ c = t - (IF n < P THEN 1 ELSE 0) + 1
  OBVIOUS
<1>9. count_digits(n) = c
  <2>1. (BitLength(n) * 1233) \div 4096 = t
    BY <1>1, <1>2
  <2> QED BY <1>8, <2>1 DEF count_digits
<1>10. P = IF t = 0 THEN 0 ELSE Power(10, t)
  BY <1>8, Zenon DEF POWERS_OF_10
<1>11. c \in 1..20 /\ n < Power(10, c) /\ (c = 1 \/ Power(10, c - 1) <= n)
  <2>1. CASE t = 0
    <3>1. c = 1 /\ t + 1 = 1
      BY <1>5, <1>8, <1>10, <2>1, SMT
    <3>2. Power(10, 1) \in Nat
      BY <1>4, <1>6, <3>1, Zenon
    <3>3. n < Power(10, 1)
      BY <1>3, <1>5, <1>7, <3>1, <3>2, SMT
    <3> QED BY <3>1, <3>3, SMT
  <2>2. CASE t # 0 /\ n < P
    <3>1. c = t /\ t > 0 /\ t \in 1..20
      BY <1>3, <1>8, <2>2, SMT
    <3>2. n > 0
      BY <1>3, <1>5, <3>1, SMT
    <3>3. PICK x : x = Power(10, t - 1)
      OBVIOUS
    <3>4. x \in Nat /\ x <= p
      BY <1>3, <1>4, <1>6, <3>1, <3>3, Zenon
    <3>5. x <= n
      BY <1>5, <1>7, <3>2, <3>4, SMT
    <3> QED BY <1>10, <2>2, <3>1, <3>3, <3>5, Zenon
  <2>3. CASE t # 0 /\ ~(n < P)
    <3>1. c = t + 1 /\ t + 1 \in 1..20 /\ c - 1 = t
      BY <1>3, <1>8, <2>3, SMT
    <3>2. PICK x, y : x = Power(10, t + 1) /\ y = Power(10, t)
      OBVIOUS
    <3>3. x \in Nat /\ y \in Nat /\ q <= x /\ P = y
      BY <1>3, <1>4, <1>6, <1>10, <2>3, <3>2, Zenon
    <3>4. n < x /\ y <= n
      BY <1>5, <1>7, <2>3, <3>3, SMT
    <3> QED BY <3>1, <3>2, <3>4, Zenon
  <2> QED BY <2>1, <2>2, <2>3
<1>12. c \in 1..64 /\ 10 \in Nat /\ 10 >= 1
  BY <1>11, SMT
<1>13. IsCount(n, 10, c)
  BY <1>5, <1>11, <1>12, CountIs, Zenon
<1> QED BY <1>9, <1>11, <1>13, Zenon


-----------------------------------------------------------------------------
(* Sequences as functions.                                                 *)
LEMMA FunctionIsSeq ==
  ASSUME NEW T, NEW n \in Nat, NEW f \in [1..n -> T]
  PROVE  f \in Seq(T) /\ Len(f) = n
OBVIOUS

LEMMA SameSeq ==
  ASSUME NEW T, NEW f \in Seq(T), NEW g \in Seq(T), Len(f) = Len(g),
         \A i \in 1..Len(f) : f[i] = g[i]
  PROVE  f = g
OBVIOUS

LEMMA Concat ==
  ASSUME NEW T, NEW f \in Seq(T), NEW g \in Seq(T)
  PROVE  /\ f \o g \in Seq(T) /\ Len(f \o g) = Len(f) + Len(g)
         /\ \A i \in 1..Len(f) : (f \o g)[i] = f[i]
         /\ \A i \in 1..Len(g) : (f \o g)[Len(f) + i] = g[i]
         /\ \A i \in Len(f) + 1..Len(f) + Len(g) : (f \o g)[i] = g[i - Len(f)]
OBVIOUS

(* The digits of a number.                                                 *)
Digit(v) == DecimalDigits[v + 1]
Tens(n, j) == n \div Power(10, j)

(* What lines are made of: strings.  The provers know no string to be one, *)
(* so those the code writes are named.                                     *)
Tokens ==
    STRING \cup {Digit(d) : d \in 0..9}
    \cup {to_str(i) : i \in 0..6} \cup {to_short_str(i) : i \in 0..6}
    \cup {days[i + 1] : i \in 0..6} \cup {full_days[i + 1] : i \in 0..6}
    \cup {months[i + 1] : i \in 0..11} \cup {full_months[i + 1] : i \in 0..11}
    \cup {HexDigits["x"][i + 1] : i \in 0..15} \cup {HexDigits["X"][i + 1] : i \in 0..15}
    \cup {Gap, "0", " ", ":", "/", "-", "+", "[", "]", ".", "%", "AM", "PM", "eol",
          "x", "X", "b", "B"}
Texts == Seq(Tokens)

LEMMA DigitType ==
  ASSUME NEW v \in 0..9 PROVE Digit(v) \in Tokens
BY Zenon DEF Tokens

LEMMA TokenFacts ==
  /\ Gap \in Tokens /\ "0" \in Tokens /\ " " \in Tokens /\ ":" \in Tokens /\ "/" \in Tokens
  /\ "-" \in Tokens /\ "+" \in Tokens /\ "[" \in Tokens /\ "]" \in Tokens /\ "." \in Tokens
  /\ "%" \in Tokens /\ "AM" \in Tokens /\ "PM" \in Tokens /\ "eol" \in Tokens
  /\ "x" \in Tokens /\ "X" \in Tokens /\ "b" \in Tokens /\ "B" \in Tokens
  /\ STRING \subseteq Tokens
BY Zenon DEF Tokens

LEMMA DivideTwice ==
  ASSUME NEW n \in Nat, NEW p \in Nat, p > 0, NEW b \in Nat, b > 0
  PROVE  n \div (b * p) = (n \div p) \div b /\ n \div p \in Nat
<1>1. PICK q, r, m : q = n \div p /\ r = q \div b /\ m = b * p
  OBVIOUS
<1>2. q \in Nat /\ m \in Nat /\ m > 0
  <2>1. q \in Int /\ (q >= 0 <=> n >= 0 * p)
    <3>1. 0 \in Nat
      OBVIOUS
    <3> QED BY <1>1, <3>1, DivAtLeast, Zenon
  <2>2. m \in Nat /\ m > 0
    BY <1>1, SMT
  <2> QED BY <2>1, <2>2, SMT
<1>3. r \in Nat
  <2>1. r \in Int /\ (r >= 0 <=> q >= 0 * b)
    <3>1. 0 \in Nat
      OBVIOUS
    <3> QED BY <1>1, <1>2, <3>1, DivAtLeast, Zenon
  <2> QED BY <1>2, <2>1, SMT
<1>4. q >= r * b /\ q < (r + 1) * b
  <2>1. r + 1 \in Nat /\ r >= r /\ r < r + 1
    BY <1>3, SMT
  <2> QED BY <1>1, <1>2, <1>3, <2>1, DivAtLeast, Zenon
<1>5. r * b \in Nat /\ (r + 1) * b \in Nat
  BY <1>3, SMT
<1>6. n >= (r * b) * p /\ n < ((r + 1) * b) * p
  BY <1>1, <1>4, <1>5, DivAtLeast, Zenon
<1>7. (r * b) * p = r * m /\ ((r + 1) * b) * p = (r + 1) * m
  BY <1>1, <1>3, SMT
<1>8. PICK z : z = n \div m
  OBVIOUS
<1>9. z \in Int /\ z >= r /\ z < r + 1
  <2>1. r + 1 \in Nat
    BY <1>3, SMT
  <2> QED BY <1>2, <1>3, <1>6, <1>7, <1>8, <2>1, DivAtLeast, Zenon
<1>10. z = r
  BY <1>3, <1>9, SMT
<1> QED BY <1>1, <1>2, <1>8, <1>10, Zenon

LEMMA TensOfTens ==
  ASSUME NEW n \in Nat, NEW j \in 0..19
  PROVE  Tens(n, j) \in Nat /\ Tens(n, j + 1) = Tens(n, j) \div 10
<1>1. PICK k, p : k = j + 1 /\ p = Power(10, j)
  OBVIOUS
<1>2. k \in 1..64 /\ k - 1 = j /\ j \in 0..64 /\ 10 \in Nat /\ 10 >= 1 /\ 10 > 0
  BY <1>1, SMT
<1>3. p \in Nat /\ p >= 1 /\ Power(10, k) = 10 * p
  BY <1>1, <1>2, PowerFacts, PowerIs, Zenon
<1>4. p > 0
  BY <1>3, SMT
<1>5. n \div p \in Nat /\ n \div (10 * p) = (n \div p) \div 10
  BY <1>2, <1>3, <1>4, DivideTwice, Zenon
<1> QED BY <1>1, <1>3, <1>5, Zenon DEF Tens

(* The loop of format_decimal, two digits a pass.                          *)
IsPairs(n, p) ==
    n \div Power(100, p) < 100 /\ \A q \in 0..p - 1 : n \div Power(100, q) >= 100
Pairs(n) == CHOOSE p \in 0..9 : IsPairs(n, p)
Prepend(d, text) == <<Digit(d)>> \o text
PutPair(n, text, p) ==
    LET v == n \div Power(100, p - 1) IN Prepend((v \div 10) % 10, Prepend(v % 10, text))
IsText(f, n, r) == f = [p \in 0..r |-> IF p = 0 THEN << >> ELSE PutPair(n, f[p - 1], p)]

LEMMA PowersOfHundred ==
  /\ Power(100, 0) = 1 /\ Power(100, 1) = 100 /\ Power(100, 2) = 10000 /\ Power(100, 3) = 1000000
  /\ Power(100, 4) = 100000000 /\ Power(100, 5) = 10000000000 /\ Power(100, 6) = 1000000000000
  /\ Power(100, 7) = 100000000000000 /\ Power(100, 8) = 10000000000000000
  /\ Power(100, 9) = 1000000000000000000 /\ Power(100, 10) = 100000000000000000000
<1>0. Power(100, 0) = 1 /\ (\A k \in 1..64 : Power(100, k) = 100 * Power(100, k - 1))
  BY PowerIs, Zenon
<1>1. /\ Power(100, 0) = 1 /\ Power(100, 1) = 100 /\ Power(100, 2) = 10000
      /\ Power(100, 3) = 1000000 /\ Power(100, 4) = 100000000 /\ Power(100, 5) = 10000000000
      /\ Power(100, 6) = 1000000000000 /\ Power(100, 7) = 100000000000000
      /\ Power(100, 8) = 10000000000000000 /\ Power(100, 9) = 1000000000000000000
      /\ Power(100, 10) = 100000000000000000000
  BY <1>0, SMT
<1> QED BY <1>1

LEMMA HundredIsTens == ASSUME NEW k \in 0..9 PROVE Power(100, k) = Power(10, 2 * k)
<1>1. \/ k = 0 \/ k = 1 \/ k = 2 \/ k = 3 \/ k = 4 \/ k = 5 \/ k = 6 \/ k = 7 \/ k = 8 \/ k = 9
  BY SMT
<1> QED BY <1>1, PowersOfHundred, PowersOfTen, SMT

LEMMA PairsAre ==
  ASSUME NEW n, IsNumber(n)
  PROVE  /\ Pairs(n) \in 0..9 /\ n \div Power(100, Pairs(n)) < 100
         /\ Pairs(n) = 0 \/ Power(100, Pairs(n)) <= n
<1>1. n \in Nat /\ n < Power(10, 20)
  BY NumberFacts, Zenon
<1>2. PICK w \in 1..10 : IsCount(n, 100, w)
  <2>1. Power(10, 20) = Power(100, 10)
    BY PowersOfHundred, PowersOfTen, SMT
  <2>2. 100 \in Nat /\ 100 >= 1 /\ 10 \in 1..64
    OBVIOUS
  <2> QED BY <1>1, <2>1, <2>2, CountExists, Zenon
<1>3. PICK k : k = w - 1
  OBVIOUS
<1>4. k \in 0..9
  BY <1>3, SMT
<1>5. IsPairs(n, k)
  <2>1. n \div Power(100, k) < 100
    BY <1>2, <1>3, Zenon DEF IsCount
  <2>2. ASSUME NEW q \in 0..k - 1 PROVE n \div Power(100, q) >= 100
    <3>1. PICK e : e = q + 1
      OBVIOUS
    <3>2. e \in 1..w - 1 /\ e - 1 = q
      BY <1>3, <3>1, SMT
    <3>3. n \div Power(100, e - 1) >= 100
      BY <1>2, <3>2, Zenon DEF IsCount
    <3> QED BY <3>2, <3>3, Zenon
  <2> QED BY <2>1, <2>2, Zenon DEF IsPairs
<1>6. PICK r : r = Pairs(n)
  OBVIOUS
<1>7. r \in 0..9 /\ IsPairs(n, r)
  BY <1>4, <1>5, <1>6, Zenon DEF Pairs
<1>8. r = 0 \/ Power(100, r) <= n
  <2>1. SUFFICES ASSUME r # 0 PROVE Power(100, r) <= n
    OBVIOUS
  <2>2. PICK q, p : q = r - 1 /\ p = Power(100, q)
    OBVIOUS
  <2>3. q \in 0..r - 1 /\ q \in 0..64 /\ r \in 1..64 /\ 100 \in Nat /\ 100 >= 1
    BY <1>7, <2>1, <2>2, SMT
  <2>4. p \in Nat /\ p >= 1 /\ Power(100, r) = 100 * p
    BY <2>2, <2>3, PowerFacts, PowerIs, Zenon
  <2>5. n \div p >= 100 /\ p > 0
    <3>1. p > 0
      BY <2>4, SMT
    <3> QED BY <1>7, <2>2, <2>3, <3>1, Zenon DEF IsPairs
  <2>6. n >= 100 * p
    BY <1>1, <2>3, <2>4, <2>5, DivAtLeast, Zenon
  <2>7. 100 * p <= n
    BY <1>1, <2>4, <2>6, SMT
  <2> QED BY <2>4, <2>7, Zenon
<1> QED BY <1>6, <1>7, <1>8, Zenon DEF IsPairs

(* The last j digits of a number.                                          *)
LastDigits(t, n, j) ==
    /\ t \in Texts /\ Len(t) = j
    /\ \A i \in 1..j : t[i] = Digit(Tens(n, j - i) % 10)

LEMMA PrependOne ==
  ASSUME NEW n \in Nat, NEW j \in 0..19, NEW t, LastDigits(t, n, j),
         NEW d, d = Tens(n, j) % 10
  PROVE  LastDigits(Prepend(d, t), n, j + 1)
<1>1. d \in 0..9
  <2>1. PICK x : x = Tens(n, j)
    OBVIOUS
  <2>2. x \in Nat
    BY <2>1, TensOfTens, Zenon
  <2>3. d = x % 10
    BY <2>1, Zenon
  <2> QED BY <2>2, <2>3
<1>2. PICK c : c = Digit(d)
  OBVIOUS
<1>3. c \in Tokens
  BY <1>1, <1>2, DigitType
<1>4. PICK u : u = <<c>> \o t
  OBVIOUS
<1>5. PICK m : m = j + 1
  OBVIOUS
<1>6. <<c>> \in Seq(Tokens) /\ Len(<<c>>) = 1 /\ <<c>>[1] = c
  BY <1>3
<1>7. t \in Seq(Tokens) /\ Len(t) = j
  BY DEF LastDigits, Texts
<1>8. u \in Seq(Tokens) /\ Len(u) = m
  BY <1>4, <1>5, <1>6, <1>7
<1>9. ASSUME NEW i \in 1..m
      PROVE  u[i] = Digit(Tens(n, m - i) % 10)
  <2>1. CASE i = 1
    <3>1. m - i = j
      BY <1>5, <2>1
    <3>2. u[i] = c
      BY <1>4, <1>6, <1>7, <2>1
    <3> QED BY <1>2, <3>1, <3>2, Zenon
  <2>2. CASE i # 1
    <3>1. PICK k : k = i - 1
      OBVIOUS
    <3>2. k \in 1..j /\ m - i = j - k
      BY <1>5, <2>2, <3>1
    <3>3. u[i] = t[k]
      BY <1>4, <1>6, <1>7, <2>2, <3>1, <3>2
    <3>4. t[k] = Digit(Tens(n, j - k) % 10)
      BY <3>2, Zenon DEF LastDigits
    <3> QED BY <3>2, <3>3, <3>4, Zenon
  <2> QED BY <2>1, <2>2
<1>10. LastDigits(u, n, m)
  BY <1>8, <1>9, Zenon DEF LastDigits, Texts
<1>11. u = Prepend(d, t)
  BY <1>2, <1>4, Zenon DEF Prepend
<1> QED BY <1>5, <1>10, <1>11, Zenon

LEMMA NoDigits == ASSUME NEW n PROVE LastDigits(<< >>, n, 0)
<1>1. << >> \in Seq(Tokens) /\ Len(<< >>) = 0 /\ 1..0 = {}
  OBVIOUS
<1> QED BY <1>1, Zenon DEF LastDigits, Texts

LEMMA PutPairIs ==
  ASSUME NEW n \in Nat, NEW p \in 1..9, NEW t, LastDigits(t, n, 2 * (p - 1))
  PROVE  LastDigits(PutPair(n, t, p), n, 2 * p)
<1>1. PICK j : j = 2 * (p - 1)
  OBVIOUS
<1>2. PICK k : k = j + 1
  OBVIOUS
<1>3. j \in 0..19 /\ k \in 0..19 /\ k + 1 = 2 * p /\ p - 1 \in 0..9
  BY <1>1, <1>2
<1>4. PICK v : v = n \div Power(100, p - 1)
  OBVIOUS
<1>5. v = Tens(n, j)
  <2>1. Power(100, p - 1) = Power(10, 2 * (p - 1))
    BY <1>3, HundredIsTens, Zenon
  <2> QED BY <1>1, <1>4, <2>1, Zenon DEF Tens
<1>6. Tens(n, k) = v \div 10
  BY <1>2, <1>3, <1>5, TensOfTens, Zenon
<1>7. LastDigits(t, n, j)
  BY <1>1, Zenon
<1>8. LastDigits(Prepend(v % 10, t), n, k)
  BY <1>2, <1>3, <1>5, <1>7, PrependOne, Zenon
<1>9. LastDigits(Prepend((v \div 10) % 10, Prepend(v % 10, t)), n, k + 1)
  BY <1>3, <1>6, <1>8, PrependOne, Zenon
<1> QED BY <1>3, <1>4, <1>9, Zenon DEF PutPair

LEMMA TextExists ==
  ASSUME NEW n, NEW r \in Nat
  PROVE  \E f : IsText(f, n, r)
<1> DEFINE S == {m \in Nat : \E f : IsText(f, n, m)}
<1>1. 0 \in S
  <2>1. PICK f : f = [p \in 0..0 |-> << >>]
    OBVIOUS
  <2>2. ASSUME NEW p \in 0..0 PROVE f[p] = IF p = 0 THEN << >> ELSE PutPair(n, f[p - 1], p)
    BY <2>1
  <2>3. f = [p \in 0..0 |-> f[p]]
    BY <2>1
  <2>4. IsText(f, n, 0)
    BY <2>2, <2>3, Zenon DEF IsText
  <2> QED BY <2>4
<1>2. ASSUME NEW m \in Nat, m \in S PROVE m + 1 \in S
  <2>1. PICK f : IsText(f, n, m)
    BY <1>2
  <2>2. PICK j, x : j = m + 1 /\ x = PutPair(n, f[m], j)
    OBVIOUS
  <2>3. PICK g : g = [p \in 0..j |-> IF p = j THEN x ELSE f[p]]
    OBVIOUS
  <2>4. ASSUME NEW p \in 0..j PROVE g[p] = IF p = 0 THEN << >> ELSE PutPair(n, g[p - 1], p)
    <3>1. CASE p = j
      <4>1. j - 1 = m /\ m \in 0..j /\ m # j /\ j \in 0..j /\ j # 0
        BY <2>2
      <4>2. g[j] = x /\ g[m] = f[m]
        BY <2>3, <4>1
      <4> QED BY <2>2, <3>1, <4>1, <4>2, Zenon
    <3>2. CASE p # j
      <4>1. p \in 0..m /\ (p # 0 => p - 1 \in 0..j /\ p - 1 # j)
        BY <2>2, <3>2
      <4>2. g[p] = f[p] /\ (p # 0 => g[p - 1] = f[p - 1])
        BY <2>3, <3>2, <4>1, Zenon
      <4>3. f[p] = IF p = 0 THEN << >> ELSE PutPair(n, f[p - 1], p)
        BY <2>1, <4>1, Zenon DEF IsText
      <4> QED BY <4>2, <4>3, Zenon
    <3> QED BY <3>1, <3>2
  <2>5. g = [p \in 0..j |-> g[p]]
    BY <2>3
  <2>6. IsText(g, n, j)
    <3> HIDE <2>3
    <3> QED BY <2>4, <2>5, Zenon DEF IsText
  <2> QED BY <2>2, <2>6
<1>3. r \in S
  <2> HIDE DEF S
  <2> QED BY <1>1, <1>2, Induct
<1> QED BY <1>3

LEMMA TextIs ==
  ASSUME NEW n \in Nat, NEW r \in 0..9, NEW f, IsText(f, n, r)
  PROVE  LastDigits(f[r], n, 2 * r)
<1> DEFINE S == {p \in Nat : p \in 0..r => LastDigits(f[p], n, 2 * p)}
<1>1. 0 \in S
  <2>1. f[0] = << >> /\ 2 * 0 = 0
    BY DEF IsText
  <2>2. LastDigits(f[0], n, 2 * 0)
    BY <2>1, NoDigits, Zenon
  <2> QED BY <2>2
<1>2. ASSUME NEW k \in Nat, k \in S PROVE k + 1 \in S
  <2> SUFFICES ASSUME k + 1 \in 0..r PROVE LastDigits(f[k + 1], n, 2 * (k + 1))
    OBVIOUS
  <2>1. PICK p : p = k + 1
    OBVIOUS
  <2>2. p \in 1..9 /\ p \in 0..r /\ p - 1 = k /\ k \in 0..r /\ p # 0
    BY <2>1
  <2>3. f[p] = PutPair(n, f[p - 1], p)
    BY <2>2 DEF IsText
  <2>4. LastDigits(f[p - 1], n, 2 * (p - 1))
    BY <1>2, <2>2, Zenon
  <2>5. LastDigits(PutPair(n, f[p - 1], p), n, 2 * p)
    BY <2>2, <2>4, PutPairIs, Zenon
  <2> QED BY <2>1, <2>3, <2>5, Zenon
<1>3. Nat \subseteq S
  <2> HIDE DEF S
  <2> QED BY <1>1, <1>2, Induct
<1>4. r \in Nat /\ r \in 0..r
  OBVIOUS
<1> QED BY <1>3, <1>4

(* The first digits are written outside the loop.                          *)
WriteLead(text, v) ==
    IF v < 10 THEN Prepend(v, text) ELSE Prepend(v \div 10, Prepend(v % 10, text))

LEMMA DecimalUnfolds ==
  ASSUME NEW n, Pairs(n) \in 0..9
  PROVE  \E f : /\ IsText(f, n, Pairs(n))
                /\ format_decimal(n, << >>) = WriteLead(f[Pairs(n)], n \div Power(100, Pairs(n)))
<1>1. PICK f : f = CHOOSE g : IsText(g, n, Pairs(n))
  OBVIOUS
<1>2. IsText(f, n, Pairs(n))
  <2>1. Pairs(n) \in Nat
    BY SMT
  <2> QED BY <1>1, <2>1, TextExists, Zenon
<1>3. format_decimal(n, << >>) = WriteLead(f[Pairs(n)], n \div Power(100, Pairs(n)))
  BY <1>1 DEF format_decimal, IsText, Pairs, IsPairs, WriteLead, Prepend, PutPair,
              ThousandsSep, Digit
<1> QED BY <1>2, <1>3


(* The lead and the pairs are the digits, as many as were counted.         *)
LEMMA DecimalIs ==
  ASSUME NEW n, IsNumber(n)
  PROVE  \E c \in 1..20 : /\ count_digits(n) = c /\ IsCount(n, 10, c)
                          /\ LastDigits(format_decimal(n, << >>), n, c)
<1>0. n \in Nat /\ 10 \in Nat /\ 10 >= 1 /\ 10 > 0 /\ 100 \in Nat
  <2>1. n \in Nat
    BY Zenon DEF IsNumber
  <2> QED BY <2>1, SMT
<1>1. PICK c \in 1..20 : count_digits(n) = c /\ IsCount(n, 10, c)
  BY DigitsCounted, Zenon
<1>2. PICK r, j, p : r = Pairs(n) /\ j = 2 * r /\ p = Power(10, j)
  OBVIOUS
<1>3. r \in 0..9 /\ n \div Power(100, r) < 100 /\ (r = 0 \/ Power(100, r) <= n)
  BY <1>2, PairsAre, Zenon
<1>4. /\ j \in 0..18 /\ j \in 0..19 /\ j + 1 \in 0..19 /\ j \in 0..64
      /\ j + 1 \in 1..64 /\ j + 2 \in 1..64 /\ j + 1 \in 0..64 /\ (r = 0 => j + 1 = 1)
      /\ j + 1 - 1 = j /\ j + 2 - 1 = j + 1 /\ j + 1 + 1 = j + 2
      /\ c \in 1..64
  BY <1>2, <1>3, SMT
<1>5. p = Power(100, r)
  BY <1>2, <1>3, HundredIsTens, Zenon
<1>6. p \in Nat /\ p >= 1 /\ p > 0
  <2>1. p \in Nat /\ p >= 1
    BY <1>0, <1>2, <1>4, PowerFacts, Zenon
  <2> QED BY <2>1, SMT
<1>7. PICK v : v = n \div p
  OBVIOUS
<1>8. v = Tens(n, j) /\ v = n \div Power(100, r) /\ v \in Nat /\ v < 100
  <2>1. v = Tens(n, j) /\ v = n \div Power(100, r)
    BY <1>2, <1>5, <1>7, Zenon DEF Tens
  <2> QED BY <1>0, <1>3, <1>4, <2>1, TensOfTens, Zenon
<1>9. Power(10, j + 1) = 10 * p /\ Power(10, j + 2) = 100 * p
  <2>1. PICK a, b : a = j + 1 /\ b = j + 2
    OBVIOUS
  <2>2. a \in 1..64 /\ a - 1 = j /\ b \in 1..64 /\ b - 1 = a
    BY <1>4, <2>1, SMT
  <2>3. Power(10, a) = 10 * p /\ Power(10, b) = 10 * Power(10, a)
    <3>1. \A k \in 1..64 : Power(10, k) = 10 * Power(10, k - 1)
      BY PowerIs, Zenon
    <3> QED BY <1>2, <2>2, <3>1, Zenon
  <2> QED BY <1>6, <2>1, <2>3, SMT
<1>10. n < 100 * p /\ (v < 10 => n < 10 * p) /\ (~(v < 10) => 10 * p <= n) /\ (r = 0 \/ p <= n)
  <2>1. n < 100 * p /\ (v < 10 => n < 10 * p) /\ (v >= 10 => n >= 10 * p)
    <3>1. \A b \in Nat : (v >= b <=> n >= b * p) /\ (v < b <=> n < b * p)
      BY <1>0, <1>6, <1>7, DivAtLeast, Zenon
    <3> QED BY <1>0, <1>8, <3>1, Zenon
  <2>2. r = 0 \/ p <= n
    BY <1>3, <1>5, Zenon
  <2>3. 10 * p \in Nat /\ (~(v < 10) => v >= 10)
    BY <1>6, <1>8, SMT
  <2> QED BY <1>0, <2>1, <2>2, <2>3, SMT
<1>11. ASSUME v < 10 PROVE c = j + 1
  <2>1. PICK w : w = j + 1
    OBVIOUS
  <2>2. w \in 1..64 /\ w - 1 = j /\ (r = 0 => w = 1)
    BY <1>4, <2>1, SMT
  <2>3. n < Power(10, w) /\ (w = 1 \/ Power(10, w - 1) <= n)
    BY <1>2, <1>9, <1>10, <1>11, <2>1, <2>2, Zenon
  <2>4. IsCount(n, 10, w)
    BY <1>0, <2>2, <2>3, CountIs, Zenon
  <2> QED BY <1>0, <1>1, <1>4, <2>1, <2>2, <2>4, CountUnique, Zenon
<1>12. ASSUME ~(v < 10) PROVE c = j + 2
  <2>1. PICK w : w = j + 2
    OBVIOUS
  <2>2. w \in 1..64 /\ w - 1 = j + 1
    BY <1>4, <2>1, SMT
  <2>3. n < Power(10, w) /\ Power(10, w - 1) <= n
    BY <1>9, <1>10, <1>12, <2>1, <2>2, Zenon
  <2>4. IsCount(n, 10, w)
    BY <1>0, <2>2, <2>3, CountIs, Zenon
  <2> QED BY <1>0, <1>1, <1>4, <2>1, <2>2, <2>4, CountUnique, Zenon
<1>13. PICK f : IsText(f, n, r) /\ format_decimal(n, << >>) = WriteLead(f[r], v)
  BY <1>2, <1>3, <1>8, DecimalUnfolds, Zenon
<1>14. LastDigits(f[r], n, j)
  BY <1>0, <1>2, <1>3, <1>13, TextIs, Zenon
<1>15. LastDigits(Prepend(v % 10, f[r]), n, j + 1)
  BY <1>0, <1>4, <1>8, <1>14, PrependOne, Zenon
<1>16. CASE v < 10
  <2>1. v % 10 = v
    BY <1>8, <1>16, SMT
  <2>2. WriteLead(f[r], v) = Prepend(v, f[r])
    BY <1>16, Zenon DEF WriteLead
  <2> QED BY <1>1, <1>11, <1>13, <1>15, <1>16, <2>1, <2>2, Zenon
<1>17. CASE ~(v < 10)
  <2>1. PICK w : w = v \div 10
    OBVIOUS
  <2>2. w = Tens(n, j + 1)
    BY <1>0, <1>4, <1>8, <2>1, TensOfTens, Zenon
  <2>3. w % 10 = w
    BY <1>8, <2>1, SMT
  <2>4. LastDigits(Prepend(w, Prepend(v % 10, f[r])), n, j + 1 + 1)
    BY <1>0, <1>4, <1>15, <2>2, <2>3, PrependOne, Zenon
  <2>5. WriteLead(f[r], v) = Prepend(w, Prepend(v % 10, f[r]))
    BY <1>17, <2>1, Zenon DEF WriteLead
  <2> QED BY <1>1, <1>4, <1>12, <1>13, <1>17, <2>4, <2>5, Zenon
<1> QED BY <1>16, <1>17

-----------------------------------------------------------------------------
(* Padding: the digits end up where the padding leaves room for them.      *)
LEMMA RepeatType ==
  ASSUME NEW x \in Tokens, NEW n \in Nat
  PROVE  Repeat(x, n) \in Texts /\ Len(Repeat(x, n)) = n /\ \A i \in 1..n : Repeat(x, n)[i] = x
<1>1. PICK f : f = Repeat(x, n)
  OBVIOUS
<1>2. f \in [1..n -> Tokens] /\ \A i \in 1..n : f[i] = x
  BY <1>1 DEF Repeat
<1>3. f \in Seq(Tokens) /\ Len(f) = n
  BY <1>2, FunctionIsSeq
<1> QED BY <1>1, <1>2, <1>3, Zenon DEF Texts

LEMMA ThreeParts ==
  ASSUME NEW T, NEW a \in Seq(T), NEW b \in Seq(T), NEW c \in Seq(T)
  PROVE  /\ a \o b \o c \in Seq(T) /\ Len(a \o b \o c) = Len(a) + Len(b) + Len(c)
         /\ \A i \in 1..Len(a) + Len(b) + Len(c) :
              (a \o b \o c)[i] = IF i <= Len(a) THEN a[i]
                                 ELSE IF i <= Len(a) + Len(b) THEN b[i - Len(a)]
                                 ELSE c[i - Len(a) - Len(b)]
<1>1. PICK ab : ab = a \o b
  OBVIOUS
<1>2. ab \in Seq(T) /\ Len(ab) = Len(a) + Len(b)
  BY <1>1
<1>3. \A i \in 1..Len(a) + Len(b) : ab[i] = IF i <= Len(a) THEN a[i] ELSE b[i - Len(a)]
  BY <1>1
<1>4. PICK abc : abc = ab \o c
  OBVIOUS
<1>5. abc \in Seq(T) /\ Len(abc) = Len(ab) + Len(c)
  BY <1>2, <1>4, Concat, Zenon
<1>6. \A i \in 1..Len(ab) + Len(c) : abc[i] = IF i <= Len(ab) THEN ab[i] ELSE c[i - Len(ab)]
  BY <1>2, <1>4
<1>7. ASSUME NEW i \in 1..Len(a) + Len(b) + Len(c)
      PROVE  abc[i] = IF i <= Len(a) THEN a[i]
                      ELSE IF i <= Len(a) + Len(b) THEN b[i - Len(a)]
                      ELSE c[i - Len(a) - Len(b)]
  <2>1. Len(a) \in Nat /\ Len(b) \in Nat /\ Len(c) \in Nat
    OBVIOUS
  <2>2. i - Len(ab) = i - Len(a) - Len(b)
    BY <1>2, <2>1
  <2> HIDE <1>1, <1>4
  <2> QED BY <1>2, <1>3, <1>6, <2>1, <2>2
<1> QED BY <1>1, <1>2, <1>4, <1>5, <1>7

LEMMA DigitsPut ==
  ASSUME NEW A \in Texts, NEW B \in Texts, NEW d \in Texts
  PROVE  PutDigits([buf |-> A \o Repeat(Gap, Len(d)) \o B, last |-> Len(A) + Len(d)], d)
           = A \o d \o B
<1> USE DEF Texts
<1>1. PICK a, c, m : a = Len(A) /\ c = Len(d) /\ m = Len(B)
  OBVIOUS
<1>2. a \in Nat /\ c \in Nat /\ m \in Nat
  BY <1>1
<1>3. PICK G : G = Repeat(Gap, c)
  OBVIOUS
<1>4. G \in Seq(Tokens) /\ Len(G) = c
  BY <1>2, <1>3, RepeatType, TokenFacts
<1>5. PICK buf : buf = A \o G \o B
  OBVIOUS
<1>6. PICK t : t = A \o d \o B
  OBVIOUS
<1>7. buf \in Seq(Tokens) /\ Len(buf) = a + c + m /\ DOMAIN buf = 1..a + c + m
  BY <1>1, <1>2, <1>4, <1>5, ThreeParts
<1>8. \A i \in 1..a + c + m :
         buf[i] = IF i <= a THEN A[i] ELSE IF i <= a + c THEN G[i - a] ELSE B[i - a - c]
  BY <1>1, <1>4, <1>5, ThreeParts, SMTT(30)
<1>9. t \in Seq(Tokens) /\ Len(t) = a + c + m
  BY <1>1, <1>2, <1>6, ThreeParts
<1>10. \A i \in 1..a + c + m :
         t[i] = IF i <= a THEN A[i] ELSE IF i <= a + c THEN d[i - a] ELSE B[i - a - c]
  BY <1>1, <1>6, ThreeParts, SMTT(30)
<1>11. PICK p : p = [i \in DOMAIN buf |->
                       IF i \in (a + c) - c + 1..(a + c) THEN d[i - ((a + c) - c + 1) + 1] ELSE buf[i]]
  OBVIOUS
<1>12. PutDigits([buf |-> buf, last |-> a + c], d) = p
  BY <1>1, <1>11 DEF PutDigits
<1>13. ASSUME NEW i \in 1..a + c + m PROVE p[i] = t[i]
  <2>1. p[i] = IF i \in a + 1..a + c THEN d[i - a] ELSE buf[i]
    <3>1. i - ((a + c) - c + 1) + 1 = i - a /\ (a + c) - c + 1 = a + 1
      BY <1>2
    <3> QED BY <1>7, <1>11, <3>1
  <2>2. /\ i \in a + 1..a + c => ~(i <= a) /\ i <= a + c
        /\ i \notin a + 1..a + c => i <= a \/ (~(i <= a) /\ ~(i <= a + c))
    BY <1>2
  <2> QED BY <1>8, <1>10, <2>1, <2>2, Zenon
<1>14. p = [i \in 1..a + c + m |-> p[i]] /\ t = [i \in 1..a + c + m |-> t[i]]
  BY <1>7, <1>9, <1>11
<1>15. p = t
  BY <1>13, <1>14, Zenon
<1>16. [buf |-> A \o Repeat(Gap, Len(d)) \o B, last |-> Len(A) + Len(d)] = [buf |-> buf, last |-> a + c]
  BY <1>1, <1>3, <1>5, Zenon
<1> QED BY <1>6, <1>12, <1>15, <1>16, Zenon

LEMMA NothingAdded == ASSUME NEW T, NEW f \in Seq(T)
                      PROVE  f \o << >> = f /\ << >> \o f = f /\ << >> \in Seq(T) /\ Len(<< >>) = 0
OBVIOUS

(* A buffer with room for d between A and B, or after A.                   *)
IsPlace(pl, A, B, d) ==
    /\ A \in Texts /\ B \in Texts /\ d \in Texts
    /\ pl = [buf |-> A \o Repeat(Gap, Len(d)) \o B, last |-> Len(A) + Len(d)]
IsPlaceAtEnd(pl, A, d) ==
    /\ A \in Texts /\ d \in Texts
    /\ pl = [buf |-> A \o Repeat(Gap, Len(d)), last |-> Len(A) + Len(d)]

LEMMA DigitsPutAt ==
  ASSUME NEW A, NEW B, NEW d, NEW pl, IsPlace(pl, A, B, d)
  PROVE  PutDigits(pl, d) = A \o d \o B
BY DigitsPut, Zenon DEF IsPlace

LEMMA DigitsPutEnd ==
  ASSUME NEW A, NEW d, NEW pl, IsPlaceAtEnd(pl, A, d)
  PROVE  PutDigits(pl, d) = A \o d
<1> USE DEF IsPlaceAtEnd
<1>0. PICK G, last : G = Repeat(Gap, Len(d)) /\ last = Len(A) + Len(d)
  OBVIOUS
<1>1. A \in Seq(Tokens) /\ d \in Seq(Tokens) /\ G \in Seq(Tokens) /\ << >> \in Texts
  <2>1. Len(d) \in Nat
    BY DEF Texts
  <2>2. G \in Seq(Tokens)
    BY <1>0, <2>1, RepeatType, TokenFacts, Zenon DEF Texts
  <2> QED BY <2>2 DEF Texts
<1>2. PICK AG, Ad : AG = A \o G /\ Ad = A \o d
  OBVIOUS
<1>3. AG \in Seq(Tokens) /\ Ad \in Seq(Tokens)
  BY <1>1, <1>2
<1>4. AG \o << >> = AG /\ Ad \o << >> = Ad
  BY <1>3, NothingAdded, Zenon
<1>5. IsPlace(pl, A, << >>, d)
  BY <1>0, <1>1, <1>2, <1>4, Zenon DEF IsPlace
<1>6. PutDigits(pl, d) = A \o d \o << >>
  BY <1>5, DigitsPutAt, Zenon
<1> QED BY <1>2, <1>4, <1>6, Zenon

IsPart(x, n, a, b) == x \in Tokens /\ n \in Nat /\ a \in Nat /\ b \in Nat /\ a + b <= n

LEMMA PartOfRepeat ==
  ASSUME NEW x, NEW n, NEW a, NEW b, IsPart(x, n, a, b)
  PROVE  SubSeq(Repeat(x, n), a + 1, a + b) = Repeat(x, b)
<1> USE DEF IsPart
<1>1. PICK f : f = Repeat(x, n)
  OBVIOUS
<1>2. f \in Seq(Tokens) /\ Len(f) = n /\ \A i \in 1..n : f[i] = x
  BY <1>1, RepeatType, Zenon DEF Texts
<1>3. PICK h : h = SubSeq(f, a + 1, a + b)
  OBVIOUS
<1>4. h \in Seq(Tokens) /\ Len(h) = b
  BY <1>2, <1>3
<1>5. \A i \in 1..b : h[i] = x
  <2> TAKE i \in 1..b
  <2>1. h[i] = f[a + 1 + i - 1] /\ a + 1 + i - 1 \in 1..n
    BY <1>2, <1>3
  <2> QED BY <1>2, <2>1, Zenon
<1>6. PICK g : g = Repeat(x, b)
  OBVIOUS
<1>7. g \in Seq(Tokens) /\ Len(g) = b /\ \A i \in 1..b : g[i] = x
  BY <1>6, RepeatType, Zenon DEF Texts
<1>8. h = g
  BY <1>4, <1>5, <1>7, SameSeq
<1> QED BY <1>1, <1>3, <1>6, <1>8, Zenon

(* number_buffer keeps just the room that the digits take.                 *)
LEMMA BufferIs ==
  ASSUME NEW p \in Texts, NEW d \in Texts, NEW sp, sp.width \in Nat, sp.fill \in Tokens
  PROVE  PutDigits(number_buffer(Len(d), sp.width, sp.fill, sp.align, p), d) = Padded(p, d, sp)
<1>1. PICK w, x, al, c, l : w = sp.width /\ x = sp.fill /\ al = sp.align /\ c = Len(d) /\ l = Len(p)
  OBVIOUS
<1>2. w \in Nat /\ x \in Tokens /\ c \in Nat /\ l \in Nat /\ p \in Seq(Tokens) /\ d \in Seq(Tokens)
  BY <1>1 DEF Texts
<1>3. PICK G : G = Repeat(Gap, Len(d))
  OBVIOUS
<1>4. PICK size, room : size = l + c /\ room = w - l - c
  OBVIOUS
<1>5. room = w - size /\ room \in Int /\ (w <= size <=> room <= 0) /\ (w > size <=> ~(room <= 0))
  BY <1>2, <1>4
<1>6. PICK N, P : N = number_buffer(c, w, x, al, p) /\ P = Padded(p, d, sp)
  OBVIOUS
<1>7. CASE room <= 0
  <2>1. N = [buf |-> p \o G, last |-> size]
    BY <1>1, <1>3, <1>4, <1>5, <1>6, <1>7 DEF number_buffer
  <2>2. P = p \o d
    BY <1>1, <1>4, <1>6, <1>7 DEF Padded
  <2>3. size = Len(p) + Len(d)
    BY <1>1, <1>4, Zenon
  <2>4. PutDigits(N, d) = p \o d
    <3>1. IsPlaceAtEnd(N, p, d)
      BY <1>3, <2>1, <2>3, Zenon DEF IsPlaceAtEnd
    <3> QED BY <3>1, DigitsPutEnd, Zenon
  <2> QED BY <1>1, <1>6, <2>2, <2>4, Zenon
<1>8. CASE ~(room <= 0)
  <2>1. room \in Nat
    BY <1>5, <1>8
  <2>2. PICK pd : pd = Repeat(x, room)
    OBVIOUS
  <2>3. pd \in Texts /\ Len(pd) = room
    BY <1>2, <2>1, <2>2, RepeatType, Zenon
  <2>4. CASE al = "left"
    <3>1. N = [buf |-> p \o G \o pd, last |-> size]
      BY <1>1, <1>3, <1>4, <1>5, <1>6, <1>8, <2>2, <2>4 DEF number_buffer
    <3>2. P = p \o d \o pd
      BY <1>1, <1>4, <1>6, <1>8, <2>2, <2>4 DEF Padded
    <3>3. size = Len(p) + Len(d)
      BY <1>1, <1>4, Zenon
    <3>4. PutDigits(N, d) = p \o d \o pd
      <4>1. IsPlace(N, p, pd, d)
        BY <1>3, <2>3, <3>1, <3>3, Zenon DEF IsPlace
      <4> QED BY <4>1, DigitsPutAt, Zenon
    <3> QED BY <1>1, <1>6, <3>2, <3>4, Zenon
  <2>5. CASE al = "numeric"
    <3>1. N = [buf |-> p \o pd \o G, last |-> w]
      BY <1>1, <1>3, <1>4, <1>5, <1>6, <1>8, <2>2, <2>5 DEF number_buffer
    <3>2. P = p \o pd \o d
      BY <1>1, <1>4, <1>6, <1>8, <2>2, <2>5 DEF Padded
    <3>3. PICK A : A = p \o pd
      OBVIOUS
    <3>4. A \in Texts /\ w = Len(A) + Len(d)
      <4>1. pd \in Seq(Tokens)
        BY <2>3, Zenon DEF Texts
      <4>2. A \in Seq(Tokens) /\ Len(A) = l + room
        BY <1>1, <1>2, <2>3, <3>3, <4>1, Concat, Zenon
      <4> QED BY <1>1, <1>2, <1>4, <4>2 DEF Texts
    <3>5. PutDigits(N, d) = A \o d
      <4>1. IsPlaceAtEnd(N, A, d)
        BY <1>3, <3>1, <3>3, <3>4, Zenon DEF IsPlaceAtEnd
      <4> QED BY <4>1, DigitsPutEnd, Zenon
    <3> QED BY <1>1, <1>6, <3>2, <3>3, <3>5, Zenon
  <2>6. CASE al = "center"
    <3>1. PICK e : e = room \div 2
      OBVIOUS
    <3>2. e \in Nat /\ e <= room /\ room - e \in Nat
      BY <2>1, <3>1
    <3>3. PICK L, R : L = Repeat(x, e) /\ R = Repeat(x, room - e)
      OBVIOUS
    <3>4. SubSeq(pd, 1, e) = L /\ SubSeq(pd, e + 1, room) = R
      <4>1. PICK z, y : z = 0 /\ y = room - e
        OBVIOUS
      <4>2. /\ z + 1 = 1 /\ z + e = e /\ e + y = room
            /\ IsPart(x, room, z, e) /\ IsPart(x, room, e, y)
        BY <1>2, <2>1, <3>2, <4>1 DEF IsPart
      <4>3. SubSeq(Repeat(x, room), z + 1, z + e) = Repeat(x, e)
        BY <4>2, PartOfRepeat
      <4>4. SubSeq(Repeat(x, room), e + 1, e + y) = Repeat(x, y)
        BY <4>2, PartOfRepeat
      <4> QED BY <2>2, <3>3, <4>1, <4>2, <4>3, <4>4, Zenon
    <3>5. N = [buf |-> L \o p \o G \o R, last |-> e + size]
      <4>1. N = [buf |-> SubSeq(pd, 1, e) \o p \o G \o SubSeq(pd, e + 1, Len(pd)), last |-> e + size]
        BY <1>1, <1>3, <1>4, <1>5, <1>6, <1>8, <2>2, <2>6, <3>1 DEF number_buffer, fill_padding
      <4> QED BY <2>3, <3>4, <4>1, Zenon
    <3>6. P = L \o p \o d \o R
      BY <1>1, <1>4, <1>6, <1>8, <2>6, <3>1, <3>3 DEF Padded
    <3>7. L \in Texts /\ R \in Texts /\ Len(L) = e
      BY <1>2, <3>2, <3>3, RepeatType, Zenon
    <3>8. PICK A : A = L \o p
      OBVIOUS
    <3>9. A \in Texts /\ e + size = Len(A) + Len(d)
      <4>1. L \in Seq(Tokens)
        BY <3>7, Zenon DEF Texts
      <4>2. A \in Seq(Tokens) /\ Len(A) = e + l
        BY <1>1, <1>2, <3>7, <3>8, <4>1, Concat, Zenon
      <4> QED BY <1>1, <1>2, <1>4, <3>2, <4>2 DEF Texts
    <3>10. N = [buf |-> A \o G \o R, last |-> e + size]
      BY <3>5, <3>8, Zenon
    <3>11. PutDigits(N, d) = A \o d \o R
      <4>1. IsPlace(N, A, R, d)
        BY <1>3, <3>7, <3>9, <3>10, Zenon DEF IsPlace
      <4> QED BY <4>1, DigitsPutAt, Zenon
    <3> QED BY <1>1, <1>6, <3>6, <3>8, <3>11, Zenon
  <2>7. CASE al \notin {"left", "numeric", "center"}
    <3>1. N = [buf |-> pd \o p \o G, last |-> w]
      BY <1>1, <1>3, <1>4, <1>5, <1>6, <1>8, <2>2, <2>7 DEF number_buffer
    <3>2. P = pd \o p \o d
      BY <1>1, <1>4, <1>6, <1>8, <2>2, <2>7 DEF Padded
    <3>3. PICK A : A = pd \o p
      OBVIOUS
    <3>4. A \in Texts /\ w = Len(A) + Len(d)
      <4>1. pd \in Seq(Tokens)
        BY <2>3, Zenon DEF Texts
      <4>2. A \in Seq(Tokens) /\ Len(A) = room + l
        BY <1>1, <1>2, <2>3, <3>3, <4>1, Concat, Zenon
      <4> QED BY <1>1, <1>2, <1>4, <4>2 DEF Texts
    <3>5. PutDigits(N, d) = A \o d
      <4>1. IsPlaceAtEnd(N, A, d)
        BY <1>3, <3>1, <3>3, <3>4, Zenon DEF IsPlaceAtEnd
      <4> QED BY <4>1, DigitsPutEnd, Zenon
    <3> QED BY <1>1, <1>6, <3>2, <3>3, <3>5, Zenon
  <2> QED BY <2>4, <2>5, <2>6, <2>7
<1> QED BY <1>7, <1>8

IsDecimal(sp) ==
    /\ sp.type \in {"", "d"} /\ sp.precision = -1
    /\ sp.width \in Nat /\ sp.fill \in Tokens

LEMMA OneToken == ASSUME NEW x \in Tokens PROVE <<x>> \in Texts /\ Len(<<x>>) = 1
BY DEF Texts

LEMMA NoToken == << >> \in Texts /\ Len(<< >>) = 0
BY DEF Texts

LEMMA SignType == ASSUME NEW v, NEW sp PROVE SignPrefix(v, sp) \in Texts
<1>1. <<"-">> \in Texts /\ <<"+">> \in Texts /\ <<" ">> \in Texts /\ << >> \in Texts
  BY TokenFacts, OneToken, NoToken, Zenon
<1>2. PICK x : x = IF "plus" \in sp.flags THEN "+" ELSE " "
  OBVIOUS
<1>3. x = "+" \/ x = " "
  BY <1>2
<1>4. SignPrefix(v, sp) = <<"-">> \/ SignPrefix(v, sp) = <<x>> \/ SignPrefix(v, sp) = << >>
  BY <1>2 DEF SignPrefix
<1> QED BY <1>1, <1>3, <1>4, Zenon

(* The decimal branch of write_int.                                        *)
LEMMA DecimalBranch ==
  ASSUME NEW v, NEW sp, sp.type = "" \/ sp.type = "d"
  PROVE  write_int(v, sp) =
           PutDigits(prepare_int_buffer(count_digits(abs_value(v)), sp, SignPrefix(v, sp)),
                     format_decimal(abs_value(v), << >>))
<1>1. CASE sp.type = ""
  BY <1>1 DEF write_int
<1>2. CASE sp.type = "d"
  BY <1>2 DEF write_int
<1> QED BY <1>1, <1>2

LEMMA DecimalWritten ==
  ASSUME NEW v \in Int, NEW sp, IsDecimal(sp)
  PROVE  write_int(v, sp) = Padded(SignPrefix(v, sp), format_decimal(abs_value(v), << >>), sp)
<1>1. PICK n, d, p : n = abs_value(v) /\ d = format_decimal(n, << >>) /\ p = SignPrefix(v, sp)
  OBVIOUS
<1>2. IsNumber(n)
  BY <1>1, AbsValues, Zenon
<1>3. PICK c \in 1..20 : count_digits(n) = c /\ LastDigits(d, n, c)
  BY <1>1, <1>2, DecimalIs, Zenon
<1>4. Len(d) = c /\ d \in Texts /\ p \in Texts
  BY <1>1, <1>3, SignType, Zenon DEF LastDigits
<1>5. write_int(v, sp) = PutDigits(prepare_int_buffer(c, sp, p), d)
  <2>1. sp.type = "" \/ sp.type = "d"
    BY DEF IsDecimal
  <2> QED BY <1>1, <1>3, <2>1, DecimalBranch, Zenon
<1>6. prepare_int_buffer(c, sp, p) = number_buffer(c, sp.width, sp.fill, sp.align, p)
  <2>1. sp.precision <= c
    <3>1. PICK q : q = sp.precision
      OBVIOUS
    <3>2. q = -1
      BY <3>1, Zenon DEF IsDecimal
    <3> QED BY <3>1, <3>2
  <2> QED BY <2>1 DEF prepare_int_buffer
<1>7. PutDigits(number_buffer(c, sp.width, sp.fill, sp.align, p), d) = Padded(p, d, sp)
  BY <1>4, BufferIs, Zenon DEF IsDecimal
<1> QED BY <1>1, <1>5, <1>6, <1>7, Zenon

LEMMA TextsJoin == ASSUME NEW f \in Texts, NEW g \in Texts PROVE f \o g \in Texts
BY DEF Texts

LEMMA PaddedType ==
  ASSUME NEW p \in Texts, NEW d \in Texts, NEW sp, IsDecimal(sp)
  PROVE  Padded(p, d, sp) \in Texts
<1>1. PICK w, x, room : w = sp.width /\ x = sp.fill /\ room = w - Len(p) - Len(d)
  OBVIOUS
<1>2. w \in Nat /\ x \in Tokens
  BY <1>1, Zenon DEF IsDecimal
<1>3. room \in Int
  BY <1>1, <1>2 DEF Texts
<1>4. p \o d \in Texts
  BY TextsJoin
<1>5. CASE room <= 0
  <2>1. Padded(p, d, sp) = p \o d
    BY <1>1, <1>5 DEF Padded
  <2> QED BY <1>4, <2>1, Zenon
<1>6. CASE ~(room <= 0)
  <2>1. PICK e : e = room \div 2
    OBVIOUS
  <2>2. room \in Nat /\ e \in Nat /\ room - e \in Nat
    BY <1>3, <1>6, <2>1
  <2>3. PICK F, L, R : F = Repeat(x, room) /\ L = Repeat(x, e) /\ R = Repeat(x, room - e)
    OBVIOUS
  <2>4. F \in Texts /\ L \in Texts /\ R \in Texts
    BY <1>2, <2>2, <2>3, RepeatType, Zenon
  <2>5. \/ Padded(p, d, sp) = p \o d \o F
        \/ Padded(p, d, sp) = L \o p \o d \o R
        \/ Padded(p, d, sp) = p \o F \o d
        \/ Padded(p, d, sp) = F \o p \o d
    <3>1. CASE sp.align = "left"
      BY <1>1, <1>6, <2>3, <3>1 DEF Padded
    <3>2. CASE sp.align = "center"
      BY <1>1, <1>6, <2>1, <2>3, <3>2 DEF Padded
    <3>3. CASE sp.align = "numeric"
      BY <1>1, <1>6, <2>3, <3>3 DEF Padded
    <3>4. CASE sp.align \notin {"left", "center", "numeric"}
      BY <1>1, <1>6, <2>3, <3>4 DEF Padded
    <3> QED BY <3>1, <3>2, <3>3, <3>4
  <2>6. /\ p \o d \o F \in Texts /\ L \o p \o d \o R \in Texts
        /\ p \o F \o d \in Texts /\ F \o p \o d \in Texts
    BY <1>4, <2>4, TextsJoin, Zenon
  <2> QED BY <2>5, <2>6, Zenon
<1> QED BY <1>5, <1>6

LEMMA WriteType ==
  ASSUME NEW v \in Int, NEW sp, IsDecimal(sp)
  PROVE  write_int(v, sp) \in Texts
<1>1. PICK n, d, p : n = abs_value(v) /\ d = format_decimal(n, << >>) /\ p = SignPrefix(v, sp)
  OBVIOUS
<1>2. IsNumber(n)
  BY <1>1, AbsValues, Zenon
<1>3. PICK c \in 1..20 : count_digits(n) = c /\ LastDigits(d, n, c)
  BY <1>1, <1>2, DecimalIs, Zenon
<1>4. d \in Texts /\ p \in Texts
  BY <1>1, <1>3, SignType, Zenon DEF LastDigits
<1>5. Padded(p, d, sp) \in Texts
  BY <1>4, PaddedType, Zenon
<1> QED BY <1>1, <1>5, DecimalWritten, Zenon

LEMMA JoinTwo == ASSUME NEW x \in Tokens, NEW y \in Tokens PROVE <<x>> \o <<y>> = <<x, y>>
<1>1. PICK f : f = <<x>> \o <<y>>
  OBVIOUS
<1>2. <<x>> \in Seq(Tokens) /\ <<y>> \in Seq(Tokens)
  OBVIOUS
<1>3. f \in Seq(Tokens) /\ Len(f) = 2 /\ f[1] = x /\ f[2] = y
  BY <1>1, <1>2
<1>4. f = <<x, y>>
  BY <1>3
<1> QED BY <1>1, <1>4, Zenon

-----------------------------------------------------------------------------
(* Integers are written as the documentation asks for.                     *)
LEMMA WithinModulus ==
  ASSUME NEW v \in Int, NEW m \in Nat, m > 0, v > 0 - m, v < m
  PROVE  v % m = IF v < 0 THEN v + m ELSE v
<1>1. CASE v >= 0
  BY <1>1, SMT
<1>2. CASE v < 0
  <2>1. (v + m) % m = v + m
    BY <1>2, SMT
  <2>2. v % m = (v + m) % m
    <3>1. PICK q, r, u : q = v \div m /\ r = v % m /\ u = v + m
      OBVIOUS
    <3>2. q \in Int /\ r \in Int /\ 0 <= r /\ r < m /\ v = m * q + r
      BY <3>1, SMT
    <3>3. q = -1
      <4>1. ~(q >= 0)
        <5>1. q >= 0 => m * q >= 0
          BY <3>2, SMT
        <5> QED BY <1>2, <3>2, <5>1, SMT
      <4>2. ~(q <= -2)
        <5>1. q <= -2 => m * q <= 0 - (m + m)
          BY <3>2, SMT
        <5> QED BY <1>2, <3>2, <5>1, SMT
      <4> QED BY <3>2, <4>1, <4>2, SMT
    <3>4. r = v + m
      BY <3>2, <3>3, SMT
    <3> QED BY <2>1, <3>1, <3>4
  <2> QED BY <1>2, <2>1, <2>2, SMT
<1> QED BY <1>1, <1>2, SMT


LEMMA AbsValueIs ==
  ASSUME NEW v \in Int, v > 0 - Modulus, v < Modulus
  PROVE  abs_value(v) = IF v < 0 THEN 0 - v ELSE v
<1>1. PICK m : m = Modulus
  OBVIOUS
<1>2. m \in Nat /\ m > 0
  BY <1>1, ModulusIs, Zenon
<1>3. v % m = IF v < 0 THEN v + m ELSE v
  BY <1>1, <1>2, WithinModulus, Zenon
<1>4. CASE v < 0
  <2>1. PICK u : u = 0 - (v + m)
    OBVIOUS
  <2>2. u \in Int /\ u > 0 - m /\ u < m /\ u < 0
    BY <1>1, <1>2, <1>4, <2>1, SMT
  <2>3. u % m = u + m
    BY <1>2, <2>2, WithinModulus, Zenon
  <2>4. u + m = 0 - v
    BY <1>2, <2>1, SMT
  <2> QED BY <1>1, <1>3, <1>4, <2>1, <2>3, <2>4, Zenon DEF abs_value, is_negative
<1>5. CASE ~(v < 0)
  BY <1>1, <1>3, <1>5, Zenon DEF abs_value, is_negative
<1> QED BY <1>4, <1>5

(* The digits in a base, as many as the number needs: what DigitsOf        *)
(* chooses, and what the do-while loops write.                             *)
InBase(n, b, w, digits) == [i \in 1..w |-> digits[1 + ((n \div Power(b, w - i)) % b)]]
BitsIn(n, b, digits) ==
    LET count == CHOOSE c \in 1..64 :
                    /\ n \div Power(b, c - 1) < b
                    /\ \A e \in 1..c - 1 : n \div Power(b, e - 1) >= b
    IN  [i \in 1..count |-> digits[1 + ((n \div Power(b, count - i)) % b)]]

LEMMA BitsIs == ASSUME NEW n, NEW shift, NEW digits
                PROVE  format_bits(n, shift, digits) = BitsIn(n, Power(2, shift), digits)
BY Zenon DEF format_bits, BitsIn

LEMMA DigitsAre ==
  ASSUME NEW n \in Nat, NEW b \in Nat, NEW w \in 1..64, IsCount(n, b, w), NEW digits
  PROVE  /\ DigitsOf(n, b, digits) = InBase(n, b, w, digits)
         /\ BitsIn(n, b, digits) = InBase(n, b, w, digits)
<1> DEFINE A(c) == n \div Power(b, c - 1) < b /\ \A e \in 1..c - 1 : n \div Power(b, e - 1) >= b
           B(c) == n \div Power(b, c - 1) < b /\ \A e \in 1..c - 1 : n >= Power(b, e)
           x == CHOOSE c \in 1..64 : A(c)
           y == CHOOSE c \in 1..64 : B(c)
<1>1. A(w) /\ B(w)
  BY Zenon DEF IsCount
<1>2. ASSUME NEW c \in 1..64, n \div Power(b, c - 1) < b PROVE ~(c < w)
  <2>1. SUFFICES ASSUME c < w PROVE FALSE
    OBVIOUS
  <2>2. c \in 1..w - 1
    BY <2>1, SMT
  <2>3. PICK q : q = n \div Power(b, c - 1)
    OBVIOUS
  <2>4. q \in Int /\ q >= b /\ q < b
    BY <1>2, <2>2, <2>3, Zenon DEF IsCount
  <2> QED BY <2>4, SMT
<1>3. ASSUME NEW c \in 1..64, A(c) PROVE c = w
  <2>1. ~(c < w)
    BY <1>2, <1>3, Zenon
  <2>2. ~(w < c)
    <3>1. SUFFICES ASSUME w < c PROVE FALSE
      OBVIOUS
    <3>2. w \in 1..c - 1
      BY <3>1, SMT
    <3>3. PICK q : q = n \div Power(b, w - 1)
      OBVIOUS
    <3>4. q >= b
      BY <1>3, <3>2, <3>3, Zenon
    <3>5. q \in Int /\ q < b
      BY <3>3, Zenon DEF IsCount
    <3> QED BY <3>4, <3>5, SMT
  <2> QED BY <2>1, <2>2, SMT
<1>4. ASSUME NEW c \in 1..64, B(c) PROVE c = w
  <2>1. ~(c < w)
    BY <1>2, <1>4, Zenon
  <2>2. ~(w < c)
    <3>1. SUFFICES ASSUME w < c PROVE FALSE
      OBVIOUS
    <3>2. w \in 1..c - 1
      BY <3>1, SMT
    <3>3. PICK q : q = Power(b, w)
      OBVIOUS
    <3>4. n >= q
      BY <1>4, <3>2, <3>3, Zenon
    <3>5. q \in Nat /\ n < q
      BY <3>3, Zenon DEF IsCount
    <3> QED BY <3>4, <3>5, SMT
  <2> QED BY <2>1, <2>2, SMT
<1>5. x = w
  <2> HIDE DEF A
  <2>1. x \in 1..64 /\ A(x)
    BY <1>1, Zenon
  <2> QED BY <1>3, <2>1, Zenon
<1>6. y = w
  <2> HIDE DEF B
  <2>1. y \in 1..64 /\ B(y)
    BY <1>1, Zenon
  <2> QED BY <1>4, <2>1, Zenon
<1>7. BitsIn(n, b, digits) = [i \in 1..x |-> digits[1 + ((n \div Power(b, x - i)) % b)]]
  BY Zenon DEF BitsIn
<1>8. DigitsOf(n, b, digits) = [i \in 1..y |-> digits[1 + ((n \div Power(b, y - i)) % b)]]
  BY Zenon DEF DigitsOf
<1> HIDE DEF x, y
<1> QED BY <1>5, <1>6, <1>7, <1>8, Zenon DEF InBase

LEMMA DigitsOfIs ==
  ASSUME NEW n, IsNumber(n)
  PROVE  DigitsOf(n, 10, DecimalDigits) = format_decimal(n, << >>)
<1>1. n \in Nat /\ 10 \in Nat
  BY Zenon DEF IsNumber
<1>2. PICK t : t = format_decimal(n, << >>)
  OBVIOUS
<1>3. PICK c \in 1..20 : IsCount(n, 10, c) /\ LastDigits(t, n, c)
  BY <1>2, DecimalIs, Zenon
<1>4. c \in 1..64
  BY SMT
<1>5. DigitsOf(n, 10, DecimalDigits) = InBase(n, 10, c, DecimalDigits)
  BY <1>1, <1>3, <1>4, DigitsAre, Zenon
<1>6. ASSUME NEW i \in 1..c PROVE t[i] = DecimalDigits[1 + ((n \div Power(10, c - i)) % 10)]
  <2>1. PICK x, d : x = Tens(n, c - i) /\ d = x % 10
    OBVIOUS
  <2>2. c - i \in 0..19
    BY SMT
  <2>3. x \in Nat
    BY <1>1, <2>1, <2>2, TensOfTens, Zenon
  <2>4. d + 1 = 1 + d
    BY <2>1, <2>3, SMT
  <2>5. t[i] = DecimalDigits[d + 1]
    BY <1>3, <2>1, Zenon DEF LastDigits, Digit
  <2> QED BY <2>1, <2>4, <2>5, Zenon DEF Tens
<1>7. t = [i \in 1..c |-> t[i]]
  <2>1. t \in Texts /\ Len(t) = c
    BY <1>3, Zenon DEF LastDigits
  <2> QED BY <2>1, SMT DEF Texts
<1>8. t = InBase(n, 10, c, DecimalDigits)
  BY <1>6, <1>7, Zenon DEF InBase
<1> QED BY <1>2, <1>5, <1>8, Zenon

(* A decimal number is written as the documentation asks for.              *)
LEMMA DecimalAsMeant ==
  ASSUME NEW v \in Int, v > 0 - Modulus, v < Modulus, NEW sp, IsDecimal(sp),
         "plus" \in sp.flags => "sign" \in sp.flags
  PROVE  write_int(v, sp) = IntAsMeant(v, sp)
<1>1. PICK n, d, p : /\ n = (IF v < 0 THEN 0 - v ELSE v) /\ d = format_decimal(n, << >>)
                     /\ p = SignPrefix(v, sp)
  OBVIOUS
<1>2. abs_value(v) = n
  BY <1>1, AbsValueIs, Zenon
<1>3. IsNumber(n)
  BY <1>2, AbsValues, Zenon
<1>4. DigitsOf(n, 10, DecimalDigits) = d
  BY <1>1, <1>3, DigitsOfIs, Zenon
<1>5. write_int(v, sp) = Padded(p, d, sp)
  BY <1>1, <1>2, DecimalWritten, Zenon
<1>6. (IF v < 0 THEN <<"-">> ELSE IF "plus" \in sp.flags THEN <<"+">>
       ELSE IF "sign" \in sp.flags THEN <<" ">> ELSE << >>) = p
  BY <1>1, Zenon DEF SignPrefix, is_negative
<1>7. p \o << >> = p
  BY <1>1, SignType, NothingAdded, Zenon DEF Texts
<1>8. sp.type \in {"", "d"} /\ sp.type \in {"", "d", "n"}
  BY Zenon DEF IsDecimal
<1> QED BY <1>1, <1>4, <1>5, <1>6, <1>7, <1>8, Zenon DEF IntAsMeant


LEMMA PowersOfEight ==
  /\ Power(8, 0) = 1 /\ Power(8, 1) = 8 /\ Power(8, 2) = 64 /\ Power(8, 3) = 512
  /\ Power(8, 4) = 4096 /\ Power(8, 5) = 32768 /\ Power(8, 6) = 262144 /\ Power(8, 7) = 2097152
  /\ Power(8, 8) = 16777216 /\ Power(8, 9) = 134217728 /\ Power(8, 10) = 1073741824
  /\ Power(8, 11) = 8589934592 /\ Power(8, 12) = 68719476736 /\ Power(8, 13) = 549755813888
  /\ Power(8, 14) = 4398046511104 /\ Power(8, 15) = 35184372088832
  /\ Power(8, 16) = 281474976710656 /\ Power(8, 17) = 2251799813685248
  /\ Power(8, 18) = 18014398509481984 /\ Power(8, 19) = 144115188075855872
  /\ Power(8, 20) = 1152921504606846976 /\ Power(8, 21) = 9223372036854775808
  /\ Power(8, 22) = 73786976294838206464
<1>0. Power(8, 0) = 1 /\ (\A k \in 1..64 : Power(8, k) = 8 * Power(8, k - 1))
  BY PowerIs, Zenon
<1>1. /\ Power(8, 0) = 1 /\ Power(8, 1) = 8 /\ Power(8, 2) = 64 /\ Power(8, 3) = 512
      /\ Power(8, 4) = 4096 /\ Power(8, 5) = 32768 /\ Power(8, 6) = 262144 /\ Power(8, 7) = 2097152
      /\ Power(8, 8) = 16777216 /\ Power(8, 9) = 134217728 /\ Power(8, 10) = 1073741824
      /\ Power(8, 11) = 8589934592
  BY <1>0, SMT
<1>2. /\ Power(8, 12) = 68719476736 /\ Power(8, 13) = 549755813888 /\ Power(8, 14) = 4398046511104
      /\ Power(8, 15) = 35184372088832 /\ Power(8, 16) = 281474976710656
      /\ Power(8, 17) = 2251799813685248 /\ Power(8, 18) = 18014398509481984
      /\ Power(8, 19) = 144115188075855872 /\ Power(8, 20) = 1152921504606846976
      /\ Power(8, 21) = 9223372036854775808 /\ Power(8, 22) = 73786976294838206464
  BY <1>0, <1>1, SMT
<1> QED BY <1>1, <1>2

LEMMA PowersOfSixteen ==
  /\ Power(16, 0) = 1 /\ Power(16, 1) = 16 /\ Power(16, 2) = 256 /\ Power(16, 3) = 4096
  /\ Power(16, 4) = 65536 /\ Power(16, 5) = 1048576 /\ Power(16, 6) = 16777216
  /\ Power(16, 7) = 268435456 /\ Power(16, 8) = 4294967296 /\ Power(16, 9) = 68719476736
  /\ Power(16, 10) = 1099511627776 /\ Power(16, 11) = 17592186044416
  /\ Power(16, 12) = 281474976710656 /\ Power(16, 13) = 4503599627370496
  /\ Power(16, 14) = 72057594037927936 /\ Power(16, 15) = 1152921504606846976
  /\ Power(16, 16) = 18446744073709551616
<1>0. Power(16, 0) = 1 /\ (\A k \in 1..64 : Power(16, k) = 16 * Power(16, k - 1))
  BY PowerIs, Zenon
<1>1. /\ Power(16, 0) = 1 /\ Power(16, 1) = 16 /\ Power(16, 2) = 256 /\ Power(16, 3) = 4096
      /\ Power(16, 4) = 65536 /\ Power(16, 5) = 1048576 /\ Power(16, 6) = 16777216
      /\ Power(16, 7) = 268435456 /\ Power(16, 8) = 4294967296 /\ Power(16, 9) = 68719476736
      /\ Power(16, 10) = 1099511627776 /\ Power(16, 11) = 17592186044416
      /\ Power(16, 12) = 281474976710656 /\ Power(16, 13) = 4503599627370496
      /\ Power(16, 14) = 72057594037927936 /\ Power(16, 15) = 1152921504606846976
      /\ Power(16, 16) = 18446744073709551616
  BY <1>0, SMT
<1> QED BY <1>1

(* A table has a character for each digit of the base.                     *)
IsTable(D, b) == \A r \in 0..b - 1 : D[1 + r] \in Tokens

LEMMA Tables16 ==
  /\ IsTable(DecimalDigits, 2) /\ IsTable(DecimalDigits, 8)
  /\ IsTable(HexDigits["x"], 16) /\ IsTable(HexDigits["X"], 16)
<1>1. ASSUME NEW r \in 0..9 PROVE DecimalDigits[1 + r] \in Tokens
  <2>1. 1 + r = r + 1
    BY SMT
  <2> QED BY <2>1, DigitType, Zenon DEF Digit
<1>2. ASSUME NEW r \in 0..15
      PROVE  HexDigits["x"][1 + r] \in Tokens /\ HexDigits["X"][1 + r] \in Tokens
  <2>1. 1 + r = r + 1
    BY SMT
  <2> QED BY <2>1, Zenon DEF Tokens
<1>3. /\ \A r \in 0..2 - 1 : r \in 0..9
      /\ \A r \in 0..8 - 1 : r \in 0..9
      /\ \A r \in 0..16 - 1 : r \in 0..15
  BY SMT
<1> QED BY <1>1, <1>2, <1>3, Zenon DEF IsTable

LEMMA BaseDigits ==
  ASSUME NEW b \in Nat, b >= 1, NEW K \in 1..64, NEW n \in Nat, n < Power(b, K),
         NEW D, IsTable(D, b)
  PROVE  BitsIn(n, b, D) = DigitsOf(n, b, D) /\ DigitsOf(n, b, D) \in Texts
<1>1. PICK w \in 1..K : IsCount(n, b, w)
  BY CountExists, Zenon
<1>2. w \in 1..64 /\ w \in Nat /\ b > 0
  BY SMT
<1>3. PICK d : d = InBase(n, b, w, D)
  OBVIOUS
<1>4. DigitsOf(n, b, D) = d /\ BitsIn(n, b, D) = d
  <2>1. w \in 1..64
    BY <1>2, Zenon
  <2>2. DigitsOf(n, b, D) = InBase(n, b, w, D)
    BY <1>1, <2>1, DigitsAre, Zenon
  <2>3. BitsIn(n, b, D) = InBase(n, b, w, D)
    BY <1>1, <2>1, DigitsAre, Zenon
  <2> QED BY <1>3, <2>2, <2>3, Zenon
<1>5. ASSUME NEW i \in 1..w PROVE D[1 + ((n \div Power(b, w - i)) % b)] \in Tokens
  <2>1. PICK k, p : k = w - i /\ p = Power(b, k)
    OBVIOUS
  <2>2. k \in 0..64
    BY <1>2, <2>1, SMT
  <2>3. p \in Nat /\ p >= 1
    BY <2>1, <2>2, PowerFacts, Zenon
  <2>4. p > 0
    BY <2>3, SMT
  <2>5. PICK q, r : q = n \div p /\ r = q % b
    OBVIOUS
  <2>6. q \in Int
    BY <2>3, <2>4, <2>5, DivAtLeast, Zenon
  <2>7. r \in Int /\ r >= 0 /\ r < b
    BY <1>2, <2>5, <2>6, Modulo, Zenon
  <2>8. r \in 0..b - 1
    BY <2>7, SMT
  <2>9. D[1 + r] \in Tokens
    BY <2>8, Zenon DEF IsTable
  <2> QED BY <2>1, <2>5, <2>9, Zenon
<1>6. d \in [1..w -> Tokens]
  BY <1>3, <1>5, Zenon DEF InBase
<1>7. d \in Texts
  BY <1>2, <1>6, FunctionIsSeq, Zenon DEF Texts
<1> QED BY <1>4, <1>7, Zenon

LEMMA BinaryDigits ==
  ASSUME NEW n, IsNumber(n)
  PROVE  /\ format_bits(n, 1, DecimalDigits) = DigitsOf(n, 2, DecimalDigits)
         /\ DigitsOf(n, 2, DecimalDigits) \in Texts
<1>1. n \in Nat /\ n < Power(2, 64)
  BY PowersOfTwo, SMT DEF IsNumber
<1>2. 2 \in Nat /\ 2 >= 1 /\ 64 \in 1..64
  BY SMT
<1>3. format_bits(n, 1, DecimalDigits) = BitsIn(n, 2, DecimalDigits)
  <2>1. Power(2, 1) = 2
    BY PowersOfTwo, SMT
  <2> QED BY <2>1, BitsIs, Zenon
<1> QED BY <1>1, <1>2, <1>3, Tables16, BaseDigits, Zenon

LEMMA OctalDigits ==
  ASSUME NEW n, IsNumber(n)
  PROVE  /\ format_bits(n, 3, DecimalDigits) = DigitsOf(n, 8, DecimalDigits)
         /\ DigitsOf(n, 8, DecimalDigits) \in Texts
<1>1. n \in Nat /\ n < Power(8, 22)
  BY PowersOfTwo, PowersOfEight, SMT DEF IsNumber
<1>2. 8 \in Nat /\ 8 >= 1 /\ 22 \in 1..64
  BY SMT
<1>3. format_bits(n, 3, DecimalDigits) = BitsIn(n, 8, DecimalDigits)
  <2>1. Power(2, 3) = 8
    BY PowersOfTwo, SMT
  <2> QED BY <2>1, BitsIs, Zenon
<1> QED BY <1>1, <1>2, <1>3, Tables16, BaseDigits, Zenon

LEMMA HexadecimalDigits ==
  ASSUME NEW n, IsNumber(n), NEW t, t = "x" \/ t = "X"
  PROVE  /\ format_bits(n, 4, HexDigits[t]) = DigitsOf(n, 16, HexDigits[t])
         /\ DigitsOf(n, 16, HexDigits[t]) \in Texts
<1>1. n \in Nat /\ n < Power(16, 16)
  BY PowersOfTwo, PowersOfSixteen, SMT DEF IsNumber
<1>2. 16 \in Nat /\ 16 >= 1 /\ 16 \in 1..64
  BY SMT
<1>3. IsTable(HexDigits[t], 16)
  BY Tables16, Zenon
<1>4. format_bits(n, 4, HexDigits[t]) = BitsIn(n, 16, HexDigits[t])
  <2>1. Power(2, 4) = 16
    BY PowersOfTwo, SMT
  <2> QED BY <2>1, BitsIs, Zenon
<1> QED BY <1>1, <1>2, <1>3, <1>4, BaseDigits, Zenon

(* What the parser makes of a specification for an integer: any type but n *)
(* and no precision.                                                       *)
IsInteger(sp) ==
    /\ sp.type \in {"", "d", "x", "X", "b", "B", "o"} /\ sp.precision = -1
    /\ sp.width \in Nat /\ sp.fill \in Tokens
    /\ "plus" \in sp.flags => "sign" \in sp.flags

LEMMA BufferWritten ==
  ASSUME NEW p \in Texts, NEW d \in Texts, NEW sp, IsInteger(sp)
  PROVE  PutDigits(prepare_int_buffer(Len(d), sp, p), d) = Padded(p, d, sp)
<1>1. PICK c, q : c = Len(d) /\ q = sp.precision
  OBVIOUS
<1>2. c \in Nat
  BY <1>1 DEF Texts
<1>3. q = -1
  BY <1>1, Zenon DEF IsInteger
<1>4. q <= c
  BY <1>2, <1>3
<1>5. prepare_int_buffer(c, sp, p) = number_buffer(c, sp.width, sp.fill, sp.align, p)
  BY <1>1, <1>4 DEF prepare_int_buffer
<1>6. PutDigits(number_buffer(c, sp.width, sp.fill, sp.align, p), d) = Padded(p, d, sp)
  BY <1>1, BufferIs, Zenon DEF IsInteger
<1> QED BY <1>1, <1>5, <1>6, Zenon

SignMeant(v, sp) ==
    IF v < 0 THEN <<"-">> ELSE IF "plus" \in sp.flags THEN <<"+">>
    ELSE IF "sign" \in sp.flags THEN <<" ">> ELSE << >>
Size(v) == IF v < 0 THEN 0 - v ELSE v
BaseMeant(sp, p) == IF "hash" \notin sp.flags THEN << >> ELSE p
Hashed(sp, sign, p) == IF "hash" \in sp.flags THEN sign \o p ELSE sign
WrittenAs(v, sp, p, d) ==
    write_int(v, sp) = PutDigits(prepare_int_buffer(Len(d), sp, Hashed(sp, SignPrefix(v, sp), p)), d)
MeantAs(v, sp, p, d) == IntAsMeant(v, sp) = Padded(SignMeant(v, sp) \o BaseMeant(sp, p), d, sp)

LEMMA HexBranch ==
  ASSUME NEW v, NEW sp, NEW t, sp.type = t, t = "x" \/ t = "X"
  PROVE  /\ WrittenAs(v, sp, <<"0", t>>, format_bits(abs_value(v), 4, HexDigits[t]))
         /\ MeantAs(v, sp, <<"0", t>>, DigitsOf(Size(v), 16, HexDigits[t]))
<1>1. /\ t \notin {"", "d"} /\ t \in {"x", "X"} /\ t \notin {"", "d", "n"} /\ t # "n" /\ t # "o"
  OBVIOUS
<1>2. WrittenAs(v, sp, <<"0", t>>, format_bits(abs_value(v), 4, HexDigits[t]))
  BY <1>1 DEF WrittenAs, write_int, Hashed
<1>3. MeantAs(v, sp, <<"0", t>>, DigitsOf(Size(v), 16, HexDigits[t]))
  BY <1>1 DEF MeantAs, IntAsMeant, SignMeant, BaseMeant, Size
<1> QED BY <1>2, <1>3, Zenon

LEMMA BinaryBranch ==
  ASSUME NEW v, NEW sp, NEW t, sp.type = t, t = "b" \/ t = "B"
  PROVE  /\ WrittenAs(v, sp, <<"0", t>>, format_bits(abs_value(v), 1, DecimalDigits))
         /\ MeantAs(v, sp, <<"0", t>>, DigitsOf(Size(v), 2, DecimalDigits))
<1>1. /\ t \notin {"", "d"} /\ t \notin {"x", "X"} /\ t \in {"b", "B"} /\ t \notin {"", "d", "n"}
      /\ t # "n" /\ t # "o"
  OBVIOUS
<1>2. WrittenAs(v, sp, <<"0", t>>, format_bits(abs_value(v), 1, DecimalDigits))
  BY <1>1 DEF WrittenAs, write_int, Hashed
<1>3. MeantAs(v, sp, <<"0", t>>, DigitsOf(Size(v), 2, DecimalDigits))
  BY <1>1 DEF MeantAs, IntAsMeant, SignMeant, BaseMeant, Size
<1> QED BY <1>2, <1>3, Zenon

LEMMA OctalBranch ==
  ASSUME NEW v, NEW sp, sp.type = "o"
  PROVE  /\ WrittenAs(v, sp, <<"0">>, format_bits(abs_value(v), 3, DecimalDigits))
         /\ MeantAs(v, sp, <<"0">>, DigitsOf(Size(v), 8, DecimalDigits))
<1>1. PICK t : t = "o"
  OBVIOUS
<1>2. /\ t \notin {"", "d"} /\ t \notin {"x", "X"} /\ t \notin {"b", "B"} /\ t \notin {"", "d", "n"}
      /\ t # "n"
  BY <1>1
<1>3. WrittenAs(v, sp, <<"0">>, format_bits(abs_value(v), 3, DecimalDigits))
  BY <1>1, <1>2 DEF WrittenAs, write_int, Hashed
<1>4. MeantAs(v, sp, <<"0">>, DigitsOf(Size(v), 8, DecimalDigits))
  BY <1>1, <1>2 DEF MeantAs, IntAsMeant, SignMeant, BaseMeant, Size
<1> QED BY <1>3, <1>4, Zenon

LEMMA SignsAgree ==
  ASSUME NEW v, NEW sp, IsInteger(sp)
  PROVE  SignMeant(v, sp) = SignPrefix(v, sp) /\ SignPrefix(v, sp) \in Texts
<1>1. "plus" \in sp.flags => "sign" \in sp.flags
  BY Zenon DEF IsInteger
<1>2. SignMeant(v, sp) = SignPrefix(v, sp)
  BY <1>1, Zenon DEF SignMeant, SignPrefix, is_negative
<1> QED BY <1>2, SignType, Zenon

LEMMA PrefixesAgree ==
  ASSUME NEW v, NEW sp, IsInteger(sp), NEW p \in Texts
  PROVE  /\ Hashed(sp, SignPrefix(v, sp), p) = SignMeant(v, sp) \o BaseMeant(sp, p)
         /\ Hashed(sp, SignPrefix(v, sp), p) \in Texts
<1>1. PICK sg : sg = SignPrefix(v, sp)
  OBVIOUS
<1>2. SignMeant(v, sp) = sg /\ sg \in Texts
  BY <1>1, SignsAgree, Zenon
<1>3. sg \o << >> = sg /\ sg \o p \in Texts
  BY <1>2, NothingAdded, TextsJoin, Zenon DEF Texts
<1> QED BY <1>1, <1>2, <1>3, Zenon DEF Hashed, BaseMeant

LEMMA WrittenIsMeant ==
  ASSUME NEW v, NEW sp, IsInteger(sp), NEW p \in Texts, NEW d \in Texts,
         WrittenAs(v, sp, p, d) /\ MeantAs(v, sp, p, d)
  PROVE  write_int(v, sp) = IntAsMeant(v, sp)
<1>1. PICK pre : pre = Hashed(sp, SignPrefix(v, sp), p)
  OBVIOUS
<1>2. pre \in Texts /\ pre = SignMeant(v, sp) \o BaseMeant(sp, p)
  BY <1>1, PrefixesAgree, Zenon
<1>3. write_int(v, sp) = PutDigits(prepare_int_buffer(Len(d), sp, pre), d)
  BY <1>1, Zenon DEF WrittenAs
<1>4. IntAsMeant(v, sp) = Padded(pre, d, sp)
  BY <1>2, Zenon DEF MeantAs
<1> QED BY <1>2, <1>3, <1>4, BufferWritten, Zenon

(* An integer of any width up to 64 bits, signed or not, is written as the *)
(* documentation asks for, whatever its value (the most negative one too), *)
(* base, fill, width, alignment, sign and prefix: negating in the unsigned *)
(* type gives the absolute value, count_digits is exact at every power of  *)
(* ten, the loops of the other bases write as many digits as there are,    *)
(* and the digits that are put back to front land in the room              *)
(* number_buffer left for them, beside prefix and padding.                 *)
THEOREM IntegersAsMeant ==
  ASSUME NEW v \in Int, v > 0 - Modulus, v < Modulus, NEW sp, IsInteger(sp)
  PROVE  write_int(v, sp) = IntAsMeant(v, sp)
<1>1. PICK n, t : n = abs_value(v) /\ t = sp.type
  OBVIOUS
<1>2. n = Size(v) /\ IsNumber(n)
  BY <1>1, AbsValueIs, AbsValues, Zenon DEF Size
<1>3. t \in {"", "d"} \/ t = "x" \/ t = "X" \/ t = "b" \/ t = "B" \/ t = "o"
  BY <1>1, Zenon DEF IsInteger
<1>4. CASE t \in {"", "d"}
  <2>1. IsDecimal(sp) /\ ("plus" \in sp.flags => "sign" \in sp.flags)
    BY <1>1, <1>4, Zenon DEF IsInteger, IsDecimal
  <2> QED BY <2>1, DecimalAsMeant, Zenon
<1>5. CASE t = "x" \/ t = "X"
  <2>1. PICK p, d : p = <<"0", t>> /\ d = DigitsOf(n, 16, HexDigits[t])
    OBVIOUS
  <2>2. p \in Texts
    <3>1. "0" \in Tokens /\ t \in Tokens
      BY <1>5, TokenFacts, Zenon
    <3>2. <<"0">> \in Texts /\ <<t>> \in Texts /\ <<"0">> \o <<t>> = p
      BY <2>1, <3>1, OneToken, JoinTwo, Zenon
    <3> QED BY <3>2, TextsJoin, Zenon
  <2>3. d \in Texts /\ format_bits(n, 4, HexDigits[t]) = d
    BY <1>2, <1>5, <2>1, HexadecimalDigits, Zenon
  <2>4. WrittenAs(v, sp, p, d) /\ MeantAs(v, sp, p, d)
    BY <1>1, <1>2, <1>5, <2>1, <2>3, HexBranch, Zenon
  <2> QED BY <2>2, <2>3, <2>4, WrittenIsMeant, Zenon
<1>6. CASE t = "b" \/ t = "B"
  <2>1. PICK p, d : p = <<"0", t>> /\ d = DigitsOf(n, 2, DecimalDigits)
    OBVIOUS
  <2>2. p \in Texts
    <3>1. "0" \in Tokens /\ t \in Tokens
      BY <1>6, TokenFacts, Zenon
    <3>2. <<"0">> \in Texts /\ <<t>> \in Texts /\ <<"0">> \o <<t>> = p
      BY <2>1, <3>1, OneToken, JoinTwo, Zenon
    <3> QED BY <3>2, TextsJoin, Zenon
  <2>3. d \in Texts /\ format_bits(n, 1, DecimalDigits) = d
    BY <1>2, <2>1, BinaryDigits, Zenon
  <2>4. WrittenAs(v, sp, p, d) /\ MeantAs(v, sp, p, d)
    BY <1>1, <1>2, <1>6, <2>1, <2>3, BinaryBranch, Zenon
  <2> QED BY <2>2, <2>3, <2>4, WrittenIsMeant, Zenon
<1>7. CASE t = "o"
  <2>1. PICK p, d : p = <<"0">> /\ d = DigitsOf(n, 8, DecimalDigits)
    OBVIOUS
  <2>2. p \in Texts
    BY <2>1, TokenFacts, OneToken, Zenon
  <2>3. d \in Texts /\ format_bits(n, 3, DecimalDigits) = d
    BY <1>2, <2>1, OctalDigits, Zenon
  <2>4. WrittenAs(v, sp, p, d) /\ MeantAs(v, sp, p, d)
    BY <1>1, <1>2, <1>7, <2>1, <2>3, OctalBranch, Zenon
  <2> QED BY <2>2, <2>3, <2>4, WrittenIsMeant, Zenon
<1> QED BY <1>3, <1>4, <1>5, <1>6, <1>7, Zenon
-----------------------------------------------------------------------------
(* Numbers as the flag formatters write them.                              *)
PadSpec(w, x) == [NoSpec EXCEPT !.width = w, !.fill = x]

LEMMA SpecFacts ==
  ASSUME NEW w \in Nat, NEW x \in Tokens
  PROVE  /\ IsDecimal(PadSpec(w, x)) /\ IsDecimal(NoSpec)
         /\ PadSpec(w, x).width = w /\ PadSpec(w, x).fill = x
         /\ PadSpec(w, x).align = "default" /\ PadSpec(w, x).flags = {}
<1>1. /\ PadSpec(w, x).width = w /\ PadSpec(w, x).fill = x
      /\ PadSpec(w, x).align = "default" /\ PadSpec(w, x).flags = {}
      /\ PadSpec(w, x).precision = -1 /\ PadSpec(w, x).type = ""
  BY DEF PadSpec, NoSpec
<1>2. /\ NoSpec.width = 0 /\ NoSpec.fill = " " /\ NoSpec.precision = -1 /\ NoSpec.type = ""
  BY DEF NoSpec
<1>3. 0 \in Nat /\ " " \in Tokens
  BY TokenFacts
<1>4. IsDecimal(PadSpec(w, x))
  BY <1>1, Zenon DEF IsDecimal
<1>5. IsDecimal(NoSpec)
  BY <1>2, <1>3, Zenon DEF IsDecimal
<1> QED BY <1>1, <1>4, <1>5

LEMMA NumberTypes ==
  ASSUME NEW v \in Int, NEW w \in Nat
  PROVE  pad(v, w, "0") \in Texts /\ Two(v) \in Texts /\ Plain(v) \in Texts
<1>1. PICK q : q = 2
  OBVIOUS
<1>2. q \in Nat /\ "0" \in Tokens
  BY <1>1, TokenFacts
<1>3. IsDecimal(PadSpec(w, "0")) /\ IsDecimal(PadSpec(q, "0")) /\ IsDecimal(NoSpec)
  BY <1>2, SpecFacts, Zenon
<1> QED BY <1>1, <1>3, WriteType, Zenon DEF pad, Two, Plain, PadSpec

-----------------------------------------------------------------------------
(* The fields of a message.                                                *)
LEMMA MsgFacts ==
  ASSUME NEW m \in LogMsgs
  PROVE  /\ m.logger_name \in STRING /\ m.raw \in STRING /\ m.level \in 0..6
         /\ m.thread_id \in Nat /\ m.pid \in Nat /\ m.year \in Nat
         /\ m.mon \in 0..11 /\ m.mday \in 1..31 /\ m.wday \in 0..6 /\ m.hour \in 0..23
         /\ m.min \in 0..59 /\ m.sec \in 0..60 /\ m.gmtoff \in Int
         /\ m.nanos \in Nat
<1>1. m \in [logger_name : STRING, level : 0..6, raw : STRING, thread_id : Nat, pid : Nat,
              year : Nat, mon : 0..11, mday : 1..31, wday : 0..6, hour : 0..23, min : 0..59,
              sec : 0..60, nanos : Nat, gmtoff : Int]
  BY MsgAssumption, SMT
<1>2. m.logger_name \in STRING /\ m.raw \in STRING
  BY <1>1, SMT
<1>3. /\ m.level \in 0..6 /\ m.thread_id \in Nat /\ m.pid \in Nat /\ m.year \in Nat
      /\ m.mon \in 0..11 /\ m.mday \in 1..31 /\ m.wday \in 0..6
  BY <1>1, SMT
<1>4. /\ m.hour \in 0..23 /\ m.min \in 0..59 /\ m.sec \in 0..60 /\ m.gmtoff \in Int
  BY <1>1, SMT
<1>5. m.nanos \in Nat
  BY <1>1, SMT
<1> QED BY <1>2, <1>3, <1>4, <1>5, Zenon

LEMMA FieldGroups ==
  ASSUME NEW m, NEW f
  PROVE  /\ f \in {"n", "l", "L"} => FieldOf(f, m) = NameFields(m)[f]
         /\ f \in {"a", "A", "b", "B"} => FieldOf(f, m) = DayFields(m)[f]
         /\ f \in {"c", "C", "D", "Y", "m", "d"} => FieldOf(f, m) = DateFields(m)[f]
         /\ f \in {"H", "I", "M", "S"} => FieldOf(f, m) = TimeFields(m)[f]
         /\ f \in {"e", "f", "F"} => FieldOf(f, m) = FractionFields(m)[f]
         /\ f \in {"p", "r", "R", "T"} => FieldOf(f, m) = ClockFields(m)[f]
         /\ f = "z" => FieldOf(f, m) = OffsetFields(m)[f]
         /\ f \in {"t", "P", "v"} => FieldOf(f, m) = OtherFields(m)[f]
         /\ f = "+" => FieldOf(f, m) = FullField(m)
BY SMTT(30) DEF FieldOf

LEMMA Tables ==
  /\ \A i \in 0..6 : to_str(i) \in Tokens /\ to_short_str(i) \in Tokens
  /\ \A i \in 0..6 : days[i + 1] \in Tokens /\ full_days[i + 1] \in Tokens
  /\ \A i \in 0..11 : months[i + 1] \in Tokens /\ full_months[i + 1] \in Tokens
BY Zenon DEF Tokens

LEMMA NameTypes ==
  ASSUME NEW m \in LogMsgs, NEW f \in {"n", "l", "L"}
  PROVE  FieldOf(f, m) \in Texts
<1>1. FieldOf(f, m) = NameFields(m)[f]
  BY FieldGroups, Zenon
<1>2. m.logger_name \in Tokens /\ to_str(m.level) \in Tokens /\ to_short_str(m.level) \in Tokens
  BY MsgFacts, Tables, TokenFacts, Zenon
<1>3. /\ NameFields(m)["n"] = <<m.logger_name>> /\ NameFields(m)["l"] = <<to_str(m.level)>>
      /\ NameFields(m)["L"] = <<to_short_str(m.level)>>
  BY DEF NameFields
<1> QED BY <1>1, <1>2, <1>3, OneToken, Zenon

IsFlattened(x, y, z) ==
    FlattenSeq(<<x, y>>) = x \o y /\ FlattenSeq(<<x, y, z>>) = x \o y \o z

LEMMA Flattened ==
  ASSUME NEW x \in Texts, NEW y \in Texts, NEW z \in Texts
  PROVE  IsFlattened(x, y, z)
<1>1. << >> \in Seq(Texts) /\ <<x>> \in Seq(Texts) /\ <<x, y>> \in Seq(Texts)
  OBVIOUS
<1>2. /\ <<x>> = Append(<< >>, x) /\ <<x, y>> = Append(<<x>>, y)
      /\ <<x, y, z>> = Append(<<x, y>>, z)
  OBVIOUS
<1>3. << >> \o x = x
  BY NothingAdded DEF Texts
<1>4. FlattenSeq(Append(<< >>, x)) = FlattenSeq(<< >>) \o x
  BY <1>1, FlattenAppend, Zenon DEF Texts
<1>5. FlattenSeq(Append(<<x>>, y)) = FlattenSeq(<<x>>) \o y
  BY <1>1, FlattenAppend, Zenon DEF Texts
<1>6. FlattenSeq(Append(<<x, y>>, z)) = FlattenSeq(<<x, y>>) \o z
  BY <1>1, FlattenAppend, Zenon DEF Texts
<1>7. FlattenSeq(<<x>>) = x
  BY <1>2, <1>3, <1>4, FlattenEmpty, Zenon
<1>8. FlattenSeq(<<x, y>>) = x \o y
  BY <1>2, <1>5, <1>7, Zenon
<1>9. FlattenSeq(<<x, y, z>>) = x \o y \o z
  BY <1>2, <1>6, <1>8, Zenon
<1> QED BY <1>8, <1>9, Zenon DEF IsFlattened

SepTwo(sep, n) == <<sep>> \o Two(n)

LEMMA SepTwoType ==
  ASSUME NEW sep \in Tokens, NEW n \in Int
  PROVE  SepTwo(sep, n) \in Texts /\ Two(n) \in Texts
<1>1. PICK w : w \in Nat
  OBVIOUS
<1>2. Two(n) \in Texts /\ <<sep>> \in Texts
  BY <1>1, NumberTypes, OneToken, Zenon
<1> QED BY <1>2, TextsJoin, Zenon DEF SepTwo

LEMMA JoinedTwo ==
  ASSUME NEW a \in Int, NEW b \in Int, NEW sep \in Tokens
  PROVE  pad_n_join(<<a, b>>, sep) = Two(a) \o SepTwo(sep, b)
<1>1. PICK x, y : x = Two(a) /\ y = SepTwo(sep, b)
  OBVIOUS
<1>2. x \in Texts /\ y \in Texts
  BY <1>1, SepTwoType, Zenon
<1>3. PICK f : f = [i \in DOMAIN <<a, b>> |-> IF i = 1 THEN Two(<<a, b>>[i])
                                              ELSE SepTwo(sep, <<a, b>>[i])]
  OBVIOUS
<1>4. DOMAIN <<a, b>> = 1..2
  OBVIOUS
<1>5. f[1] = x /\ f[2] = y /\ f = [i \in 1..2 |-> f[i]]
  BY <1>1, <1>3, <1>4
<1>6. f \in [1..2 -> Texts]
  BY <1>2, <1>5
<1>7. f \in Seq(Texts) /\ Len(f) = 2
  BY <1>6, FunctionIsSeq
<1>8. f = <<x, y>>
  BY <1>5, <1>7
<1>9. pad_n_join(<<a, b>>, sep) = FlattenSeq(f)
  BY <1>3, Zenon DEF pad_n_join, SepTwo
<1>10. FlattenSeq(<<x, y>>) = x \o y
  <2>1. IsFlattened(x, y, y)
    BY <1>2, Flattened, Zenon
  <2> QED BY <2>1, Zenon DEF IsFlattened
<1> QED BY <1>1, <1>8, <1>9, <1>10, Zenon

AsJoined(a, b, c, sep) ==
    pad_n_join(<<a, b, c>>, sep) = Two(a) \o SepTwo(sep, b) \o SepTwo(sep, c)

LEMMA JoinedThree ==
  ASSUME NEW a \in Int, NEW b \in Int, NEW c \in Int, NEW sep \in Tokens
  PROVE  AsJoined(a, b, c, sep)
<1> USE DEF AsJoined
<1>1. PICK x, y, z : x = Two(a) /\ y = SepTwo(sep, b) /\ z = SepTwo(sep, c)
  OBVIOUS
<1>2. x \in Texts /\ y \in Texts /\ z \in Texts
  BY <1>1, SepTwoType, Zenon
<1>3. PICK f : f = [i \in DOMAIN <<a, b, c>> |-> IF i = 1 THEN Two(<<a, b, c>>[i])
                                                 ELSE SepTwo(sep, <<a, b, c>>[i])]
  OBVIOUS
<1>4. DOMAIN <<a, b, c>> = 1..3
  OBVIOUS
<1>5. f[1] = x /\ f[2] = y /\ f[3] = z /\ f = [i \in 1..3 |-> f[i]]
  BY <1>1, <1>3, <1>4
<1>6. f \in [1..3 -> Texts]
  BY <1>2, <1>5
<1>7. f \in Seq(Texts) /\ Len(f) = 3
  BY <1>6, FunctionIsSeq
<1>8. f = <<x, y, z>>
  BY <1>5, <1>7
<1>9. pad_n_join(<<a, b, c>>, sep) = FlattenSeq(f)
  BY <1>3, Zenon DEF pad_n_join, SepTwo
<1>10. FlattenSeq(<<x, y, z>>) = x \o y \o z
  <2>1. IsFlattened(x, y, z)
    BY <1>2, Flattened, Zenon
  <2> QED BY <2>1, Zenon DEF IsFlattened
<1> QED BY <1>1, <1>8, <1>9, <1>10, Zenon

LEMMA JoinType ==
  ASSUME NEW a \in Int, NEW b \in Int, NEW c \in Int, NEW sep \in Tokens
  PROVE  pad_n_join(<<a, b>>, sep) \in Texts /\ pad_n_join(<<a, b, c>>, sep) \in Texts
<1>1. Two(a) \in Texts /\ SepTwo(sep, b) \in Texts /\ SepTwo(sep, c) \in Texts
  BY SepTwoType, Zenon
<1>2. Two(a) \o SepTwo(sep, b) \in Texts
  BY <1>1, TextsJoin, Zenon
<1>3. Two(a) \o SepTwo(sep, b) \o SepTwo(sep, c) \in Texts
  BY <1>1, <1>2, TextsJoin, Zenon
<1> QED BY <1>2, <1>3, JoinedTwo, JoinedThree, Zenon DEF AsJoined

LEMMA DayTypes ==
  ASSUME NEW m \in LogMsgs, NEW f \in {"a", "A", "b", "B"}
  PROVE  FieldOf(f, m) \in Texts
<1>1. FieldOf(f, m) = DayFields(m)[f]
  BY FieldGroups, Zenon
<1>2. /\ days[m.wday + 1] \in Tokens /\ full_days[m.wday + 1] \in Tokens
      /\ months[m.mon + 1] \in Tokens /\ full_months[m.mon + 1] \in Tokens
  BY MsgFacts, Tables, Zenon
<1>3. /\ DayFields(m)["a"] = <<days[m.wday + 1]>> /\ DayFields(m)["A"] = <<full_days[m.wday + 1]>>
      /\ DayFields(m)["b"] = <<months[m.mon + 1]>>
      /\ DayFields(m)["B"] = <<full_months[m.mon + 1]>>
  BY DEF DayFields
<1> QED BY <1>1, <1>2, <1>3, OneToken, Zenon

Small == 0..99
ShortYear(m) == m.year % 100
FullYear(m) == m.year + 1900

LEMMA SmallFacts ==
  ASSUME NEW m \in LogMsgs
  PROVE  /\ m.mon + 1 \in Small /\ m.mday \in Small /\ ShortYear(m) \in Small
         /\ m.hour \in Small /\ m.min \in Small /\ m.sec \in Small /\ to12h(m) \in Small
<1>1. PICK y, mo, d, h, mi, se : /\ y = m.year /\ mo = m.mon /\ d = m.mday /\ h = m.hour
                                 /\ mi = m.min /\ se = m.sec
  OBVIOUS
<1>2. /\ y \in Nat /\ mo \in 0..11 /\ d \in 1..31 /\ h \in 0..23 /\ mi \in 0..59 /\ se \in 0..60
  BY <1>1, MsgFacts, SMT
<1>3. PICK t : t = to12h(m)
  OBVIOUS
<1>4. t = IF h > 12 THEN h - 12 ELSE h
  BY <1>1, <1>3, SMT DEF to12h
<1>5. /\ mo + 1 \in Small /\ d \in Small /\ y % 100 \in Small
      /\ h \in Small /\ mi \in Small /\ se \in Small /\ t \in Small
  BY <1>2, <1>4, SMT DEF Small
<1> QED BY <1>1, <1>3, <1>5, SMT DEF ShortYear

LEMMA SmallInts == Small \subseteq Int
BY SMT DEF Small

LEMMA IntFacts ==
  ASSUME NEW m \in LogMsgs
  PROVE  /\ FullYear(m) \in Int /\ m.mon + 1 \in Int /\ m.mday \in Int /\ ShortYear(m) \in Int
         /\ m.hour \in Int /\ m.min \in Int /\ m.sec \in Int /\ to12h(m) \in Int
<1>1. FullYear(m) \in Int
  BY MsgFacts, SMT DEF FullYear
<1> QED BY <1>1, SmallFacts, SmallInts, Zenon

LEMMA DateTypes ==
  ASSUME NEW m \in LogMsgs, NEW f \in {"c", "C", "D", "Y", "m", "d"}
  PROVE  FieldOf(f, m) \in Texts
<1>1. FieldOf(f, m) = DateFields(m)[f]
  BY FieldGroups, Zenon
<1>2. PICK w : w \in Nat
  OBVIOUS
<1>3. PICK y, Yf, mo, d, T, D, x1 :
        /\ y = Two(ShortYear(m)) /\ Yf = Plain(FullYear(m)) /\ mo = Two(m.mon + 1)
        /\ d = Two(m.mday) /\ T = pad_n_join(<<m.hour, m.min, m.sec>>, ":")
        /\ D = pad_n_join(<<m.mon + 1, m.mday, ShortYear(m)>>, "/")
        /\ x1 = Plain(m.mday)
  OBVIOUS
<1>4. y \in Texts /\ Yf \in Texts /\ mo \in Texts /\ d \in Texts /\ x1 \in Texts
  BY <1>2, <1>3, IntFacts, NumberTypes, Zenon
<1>5. T \in Texts /\ D \in Texts
  BY <1>3, IntFacts, JoinType, TokenFacts, Zenon
<1>6. PICK c0, c1, sp : c0 = days[m.wday + 1] /\ c1 = months[m.mon + 1] /\ sp = " "
  OBVIOUS
<1>7. c0 \in Tokens /\ c1 \in Tokens /\ sp \in Tokens
  BY <1>6, MsgFacts, Tables, TokenFacts, Zenon
<1>8. <<c0, sp, c1, sp>> \in Texts /\ <<sp>> \in Texts
  BY <1>7 DEF Texts
<1>9. <<c0, sp, c1, sp>> \o x1 \o <<sp>> \o T \o <<sp>> \o Yf \in Texts
  BY <1>4, <1>5, <1>8, TextsJoin, Zenon
<1>10. /\ DateFields(m)["c"] = <<c0, sp, c1, sp>> \o x1 \o <<sp>> \o T \o <<sp>> \o Yf
       /\ DateFields(m)["C"] = y /\ DateFields(m)["D"] = D /\ DateFields(m)["Y"] = Yf
       /\ DateFields(m)["m"] = mo /\ DateFields(m)["d"] = d
  <2>1. DateFields(m) =
         [c |-> <<days[m.wday + 1], " ", months[m.mon + 1], " ">> \o Plain(m.mday) \o <<" ">>
                \o pad_n_join(<<m.hour, m.min, m.sec>>, ":") \o <<" ">> \o Plain(FullYear(m)),
          C |-> Two(ShortYear(m)),
          D |-> pad_n_join(<<m.mon + 1, m.mday, ShortYear(m)>>, "/"),
          Y |-> Plain(FullYear(m)), m |-> Two(m.mon + 1), d |-> Two(m.mday)]
    BY DEF DateFields, ShortYear, FullYear
  <2>2. DateFields(m) = [c |-> <<c0, sp, c1, sp>> \o x1 \o <<sp>> \o T \o <<sp>> \o Yf,
                         C |-> y, D |-> D, Y |-> Yf, m |-> mo, d |-> d]
    BY <1>3, <1>6, <2>1, Zenon
  <2> QED BY <2>2
<1> QED BY <1>1, <1>4, <1>5, <1>9, <1>10, Zenon

LEMMA TimeTypes ==
  ASSUME NEW m \in LogMsgs, NEW f \in {"H", "I", "M", "S"}
  PROVE  FieldOf(f, m) \in Texts
<1>1. FieldOf(f, m) = TimeFields(m)[f]
  BY FieldGroups, Zenon
<1>2. PICK w : w \in Nat
  OBVIOUS
<1>3. Two(m.hour) \in Texts /\ Two(to12h(m)) \in Texts /\ Two(m.min) \in Texts /\ Two(m.sec) \in Texts
  BY <1>2, IntFacts, NumberTypes, Zenon
<1>4. /\ TimeFields(m)["H"] = Two(m.hour) /\ TimeFields(m)["I"] = Two(to12h(m))
      /\ TimeFields(m)["M"] = Two(m.min) /\ TimeFields(m)["S"] = Two(m.sec)
  BY DEF TimeFields
<1> QED BY <1>1, <1>3, <1>4, Zenon

LEMMA FractionTypes ==
  ASSUME NEW m \in LogMsgs, NEW f \in {"e", "f", "F"}
  PROVE  FieldOf(f, m) \in Texts
<1>1. FieldOf(f, m) = FractionFields(m)[f]
  BY FieldGroups, Zenon
<1>2. PICK x, y, n : n = m.nanos /\ x = n \div 1000000 /\ y = n \div 1000
  OBVIOUS
<1>3. PICK a, b, c : a = 3 /\ b = 6 /\ c = 9
  OBVIOUS
<1>4. n \in Nat
  BY <1>2, MsgFacts, SMT
<1>5. x \in Int /\ y \in Int /\ n \in Int /\ a \in Nat /\ b \in Nat /\ c \in Nat
  BY <1>2, <1>3, <1>4, SMT
<1>6. pad(x, a, "0") \in Texts /\ pad(y, b, "0") \in Texts /\ pad(n, c, "0") \in Texts
  BY <1>5, NumberTypes, SMT
<1>7. /\ FractionFields(m)["e"] = pad(x, a, "0") /\ FractionFields(m)["f"] = pad(y, b, "0")
      /\ FractionFields(m)["F"] = pad(n, c, "0")
  BY <1>2, <1>3, SMT DEF FractionFields
<1> QED BY <1>1, <1>6, <1>7, SMT

LEMMA ClockTypes ==
  ASSUME NEW m \in LogMsgs, NEW f \in {"p", "r", "R", "T"}
  PROVE  FieldOf(f, m) \in Texts
<1>1. FieldOf(f, m) = ClockFields(m)[f]
  BY FieldGroups, Zenon
<1>2. PICK a, sp, r, R, T :
        /\ a = ampm(m) /\ sp = " "
        /\ r = pad_n_join(<<to12h(m), m.min, m.sec>>, ":")
        /\ R = pad_n_join(<<m.hour, m.min>>, ":")
        /\ T = pad_n_join(<<m.hour, m.min, m.sec>>, ":")
  OBVIOUS
<1>3. a \in Tokens /\ sp \in Tokens
  BY <1>2, TokenFacts, Zenon DEF ampm
<1>4. r \in Texts /\ R \in Texts /\ T \in Texts
  BY <1>2, IntFacts, JoinType, TokenFacts, Zenon
<1>5. <<a>> \in Texts /\ <<sp, a>> \in Texts
  BY <1>3 DEF Texts
<1>6. r \o <<sp, a>> \in Texts
  BY <1>4, <1>5, TextsJoin, Zenon
<1>7. /\ ClockFields(m)["p"] = <<a>> /\ ClockFields(m)["r"] = r \o <<sp, a>>
      /\ ClockFields(m)["R"] = R /\ ClockFields(m)["T"] = T
  BY <1>2 DEF ClockFields
<1> QED BY <1>1, <1>4, <1>5, <1>6, <1>7, Zenon

(* The offset from UTC: a sign, hours and minutes.                         *)
OffsetSize(m) == LET minutes == utc_minutes_offset(m)
                 IN  IF minutes < 0 THEN 0 - minutes ELSE minutes
OffsetSign(m) == IF utc_minutes_offset(m) < 0 THEN "-" ELSE "+"

LEMMA OffsetFacts ==
  ASSUME NEW m \in LogMsgs
  PROVE  \E h \in 0..99, i \in 0..59 :
           /\ OffsetSize(m) \div 60 = h /\ OffsetSize(m) % 60 = i
           /\ m.gmtoff = (IF OffsetSign(m) = "-" THEN 0 - (60 * h + i) ELSE 60 * h + i) * 60
<1>1. PICK g, u, z : g = m.gmtoff /\ u = utc_minutes_offset(m) /\ z = OffsetSize(m)
  OBVIOUS
<1>2. g \in Int
  BY <1>1, MsgFacts, SMT
<1>3. g % 60 = 0 /\ g > -360000 /\ g < 360000
  BY <1>1, OffsetAssumption, SMT
<1>4. u = IF g < 0 THEN 0 - ((0 - g) \div 60) ELSE g \div 60
  BY <1>1, SMT DEF utc_minutes_offset
<1>5. z = IF u < 0 THEN 0 - u ELSE u
  BY <1>1, SMT DEF OffsetSize
<1>6. PICK k : k = g \div 60
  OBVIOUS
<1>7. k \in Int /\ g = 60 * k /\ k > -6000 /\ k < 6000
  BY <1>2, <1>3, <1>6, SMT
<1>8. u = k
  <2>1. (0 - g) \div 60 = 0 - k
    BY <1>2, <1>7, SMT
  <2> QED BY <1>4, <1>6, <1>7, <2>1, SMT
<1>9. PICK h, i : h = z \div 60 /\ i = z % 60
  OBVIOUS
<1>10. z \in Nat /\ z < 6000
  BY <1>5, <1>7, <1>8, SMT
<1>11. h \in 0..99 /\ i \in 0..59 /\ z = 60 * h + i
  BY <1>9, <1>10, SMT
<1>12. (OffsetSign(m) = "-") <=> u < 0
  BY <1>1, SMT DEF OffsetSign
<1>13. g = (IF OffsetSign(m) = "-" THEN 0 - (60 * h + i) ELSE 60 * h + i) * 60
  <2>1. CASE u < 0
    BY <1>5, <1>7, <1>8, <1>11, <1>12, <2>1, SMT
  <2>2. CASE ~(u < 0)
    BY <1>5, <1>7, <1>8, <1>11, <1>12, <2>2, SMT
  <2> QED BY <2>1, <2>2, SMT
<1>14. OffsetSize(m) \div 60 = h /\ OffsetSize(m) % 60 = i
  BY <1>1, <1>9, Zenon
<1>15. m.gmtoff = (IF OffsetSign(m) = "-" THEN 0 - (60 * h + i) ELSE 60 * h + i) * 60
  BY <1>1, <1>13, Zenon
<1> QED BY <1>11, <1>14, <1>15, Zenon

LEMMA SignFacts == ASSUME NEW m PROVE /\ OffsetSign(m) \in Tokens
                                      /\ OffsetSign(m) = "-" \/ OffsetSign(m) = "+"
BY TokenFacts, Zenon DEF OffsetSign

LEMMA OffsetIs ==
  ASSUME NEW m
  PROVE  FieldOf("z", m) = <<OffsetSign(m)>> \o
           pad_n_join(<<OffsetSize(m) \div 60, OffsetSize(m) % 60>>, ":")
<1>1. FieldOf("z", m) = OffsetFields(m)["z"]
  BY FieldGroups, Zenon
<1>2. OffsetFields(m)["z"] = <<OffsetSign(m)>> \o
           pad_n_join(<<OffsetSize(m) \div 60, OffsetSize(m) % 60>>, ":")
  BY DEF OffsetFields, OffsetSign, OffsetSize
<1> QED BY <1>1, <1>2, Zenon

LEMMA OffsetTypes ==
  ASSUME NEW m \in LogMsgs
  PROVE  FieldOf("z", m) \in Texts
<1>1. PICK a, b, c : /\ a = OffsetSize(m) \div 60 /\ b = OffsetSize(m) % 60 /\ c = 0
  OBVIOUS
<1>2. a \in Int /\ b \in Int /\ c \in Int
  <2>1. PICK h \in 0..99, i \in 0..59 : OffsetSize(m) \div 60 = h /\ OffsetSize(m) % 60 = i
    BY OffsetFacts, Zenon
  <2>2. a = h /\ b = i
    BY <1>1, <2>1, Zenon
  <2> QED BY <1>1, <2>2
<1>3. pad_n_join(<<a, b>>, ":") \in Texts /\ <<OffsetSign(m)>> \in Texts
  BY <1>2, JoinType, OneToken, SignFacts, TokenFacts, Zenon
<1> QED BY <1>1, <1>3, OffsetIs, TextsJoin, Zenon

LEMMA OtherTypes ==
  ASSUME NEW m \in LogMsgs, NEW f \in {"t", "P", "v"}
  PROVE  FieldOf(f, m) \in Texts
<1>1. FieldOf(f, m) = OtherFields(m)[f]
  BY FieldGroups, Zenon
<1>2. PICK w : w \in Nat
  OBVIOUS
<1>3. Plain(m.thread_id) \in Texts /\ Plain(m.pid) \in Texts
  <2>1. m.thread_id \in Int /\ m.pid \in Int
    BY MsgFacts, SMT
  <2> QED BY <1>2, <2>1, NumberTypes, Zenon
<1>4. <<m.raw>> \in Texts
  BY MsgFacts, TokenFacts, OneToken, Zenon
<1>5. /\ OtherFields(m)["t"] = Plain(m.thread_id) /\ OtherFields(m)["P"] = Plain(m.pid)
      /\ OtherFields(m)["v"] = <<m.raw>>
  BY DEF OtherFields
<1> QED BY <1>1, <1>3, <1>4, <1>5, Zenon

Millis(m) == m.nanos \div 1000000

LEMMA FullType == ASSUME NEW m \in LogMsgs PROVE FieldOf("+", m) \in Texts
<1>1. FieldOf("+", m) = FullField(m)
  BY FieldGroups, Zenon
<1>2. PICK y, mo, d, h, mi, se, ms, ns, w :
        /\ y = Plain(FullYear(m)) /\ mo = Two(m.mon + 1) /\ d = Two(m.mday)
        /\ h = Two(m.hour) /\ mi = Two(m.min) /\ se = Two(m.sec)
        /\ w = 3 /\ ns = Millis(m) /\ ms = pad(ns, w, "0")
  OBVIOUS
<1>3. ns \in Int /\ w \in Nat
  BY <1>2, MsgFacts, SMT DEF Millis
<1>4. ms \in Texts
  <2>1. pad(ns, w, "0") \in Texts
    BY <1>3, NumberTypes, SMT
  <2> QED BY <1>2, <2>1, SMT
<1>5. y \in Texts
  BY <1>2, <1>3, IntFacts, NumberTypes, Zenon
<1>6. mo \in Texts /\ d \in Texts /\ h \in Texts /\ mi \in Texts /\ se \in Texts
  <2>1. PICK j : j \in Nat
    OBVIOUS
  <2>2. /\ Two(m.mon + 1) \in Texts /\ Two(m.mday) \in Texts /\ Two(m.hour) \in Texts
        /\ Two(m.min) \in Texts /\ Two(m.sec) \in Texts
    BY <2>1, IntFacts, NumberTypes, Zenon
  <2> QED BY <1>2, <2>2, SMT
<1>7. PICK ln, lv, rw, lb, rb, sp : /\ ln = m.logger_name /\ lv = to_str(m.level) /\ rw = m.raw
                                    /\ lb = "[" /\ rb = "]" /\ sp = " "
  OBVIOUS
<1>8. /\ ln \in Tokens /\ lv \in Tokens /\ rw \in Tokens /\ lb \in Tokens /\ rb \in Tokens
      /\ sp \in Tokens
  BY <1>7, MsgFacts, Tables, TokenFacts, Zenon
<1>9. /\ <<lb>> \in Texts /\ <<"-">> \in Texts /\ <<sp>> \in Texts /\ <<":">> \in Texts
      /\ <<".">> \in Texts /\ <<rw>> \in Texts
  BY <1>8, TokenFacts, OneToken, Zenon
<1>10. /\ <<rb, sp>> \in Texts /\ <<lb, ln, rb, sp>> \in Texts /\ <<lb, lv, rb, sp>> \in Texts
  BY <1>8 DEF Texts
<1>11. PICK A : A = <<lb>> \o y \o <<"-">> \o mo \o <<"-">> \o d \o <<sp>> \o h
  OBVIOUS
<1>12. A \in Texts
  BY <1>5, <1>6, <1>9, <1>11, TextsJoin, Zenon
<1>13. PICK B : B = A \o <<":">> \o mi \o <<":">> \o se \o <<".">> \o ms
  OBVIOUS
<1>14. B \in Texts
  BY <1>4, <1>6, <1>9, <1>12, <1>13, TextsJoin, Zenon
<1>15. B \o <<rb, sp>> \o <<lb, ln, rb, sp>> \o <<lb, lv, rb, sp>> \o <<rw>> \in Texts
  BY <1>9, <1>10, <1>14, TextsJoin, Zenon
<1>16. FullField(m) = B \o <<rb, sp>> \o <<lb, ln, rb, sp>> \o <<lb, lv, rb, sp>> \o <<rw>>
  <2>1. FullField(m) =
          <<"[">> \o Plain(FullYear(m)) \o <<"-">> \o Two(m.mon + 1) \o <<"-">> \o Two(m.mday)
          \o <<" ">> \o Two(m.hour) \o <<":">> \o Two(m.min) \o <<":">> \o Two(m.sec)
          \o <<".">> \o pad(Millis(m), 3, "0") \o <<"]", " ">>
          \o <<"[", m.logger_name, "]", " ">>
          \o <<"[", to_str(m.level), "]", " ">> \o <<m.raw>>
    BY SMT DEF FullField, FullYear, Millis
  <2> QED BY <1>2, <1>7, <1>11, <1>13, <2>1, Zenon
<1> QED BY <1>1, <1>15, <1>16, Zenon

(* Every field is a text.                                                  *)
LEMMA FieldType ==
  ASSUME NEW m \in LogMsgs, NEW f \in Flags
  PROVE  FieldOf(f, m) \in Texts
<1>1. \/ f \in {"n", "l", "L"} \/ f \in {"a", "A", "b", "B"} \/ f \in {"c", "C", "D", "Y", "m", "d"}
      \/ f \in {"H", "I", "M", "S"} \/ f \in {"e", "f", "F"} \/ f \in {"p", "r", "R", "T"}
      \/ f = "z" \/ f \in {"t", "P", "v"} \/ f = "+"
  BY DEF Flags
<1> QED BY <1>1, NameTypes, DayTypes, DateTypes, TimeTypes, FractionTypes, ClockTypes, OffsetTypes,
           OtherTypes, FullType, Zenon


-----------------------------------------------------------------------------
(* The fields are what the comments say.                                   *)
LEMMA LargeModulus == Modulus \in Nat /\ Modulus > 1000000000
<1>1. 30 \in 0..64 /\ IntBits \in 30..64 /\ 2 \in Nat /\ 2 >= 1
  BY FmtIntAssumption, DigitsAssumption, SMT
<1>2. Power(2, 30) <= Power(2, IntBits)
  BY <1>1, PowerGrows, Zenon
<1>3. Power(2, 30) = 1073741824
  BY PowersOfTwo, SMT
<1>4. Modulus \in Nat
  BY ModulusIs, Zenon
<1> QED BY <1>2, <1>3, <1>4, SMT DEF Modulus

(* A number that an int holds.                                            *)
InWidth(v) == v \in Nat /\ v < Modulus

LEMMA PaddedWithZeros ==
  ASSUME NEW d \in Texts, NEW w \in Nat, NEW sp,
         sp.width = w, sp.fill = "0" \/ w = 0, sp.align = "default"
  PROVE  Padded(<< >>, d, sp) = IF w <= Len(d) THEN d ELSE Repeat("0", w - Len(d)) \o d
<1>1. PICK n, k : n = Len(d) /\ k = w - n
  OBVIOUS
<1>2. n \in Nat /\ k \in Int /\ w - 0 - n = k /\ (k <= 0 <=> w <= n)
  BY <1>1 DEF Texts
<1>3. Len(<< >>) = 0 /\ << >> \o d = d
  BY NothingAdded DEF Texts
<1>4. CASE w <= n
  <2>1. Padded(<< >>, d, sp) = << >> \o d
    BY <1>1, <1>2, <1>3, <1>4, Zenon DEF Padded
  <2> QED BY <1>1, <1>3, <1>4, <2>1, Zenon
<1>5. CASE ~(w <= n)
  <2>1. k \in Nat /\ w # 0
    BY <1>2, <1>5, SMT
  <2>2. sp.fill = "0" /\ "0" \in Tokens
    BY <2>1, TokenFacts, Zenon
  <2>3. PICK R : R = Repeat("0", k)
    OBVIOUS
  <2>4. R \in Texts
    BY <2>1, <2>2, <2>3, RepeatType, Zenon
  <2>5. R \o << >> = R
    BY <2>4, NothingAdded, Zenon DEF Texts
  <2>6. Padded(<< >>, d, sp) = Repeat("0", k) \o << >> \o d
    <3>1. sp.width - Len(<< >>) - Len(d) = k
      BY <1>1, <1>2, <1>3, Zenon
    <3>2. ~(k <= 0)
      BY <1>2, <1>5, Zenon
    <3>3. sp.align # "left" /\ sp.align # "center" /\ sp.align # "numeric"
      OBVIOUS
    <3> QED BY <2>2, <3>1, <3>2, <3>3 DEF Padded
  <2> QED BY <1>1, <1>5, <2>3, <2>5, <2>6, Zenon
<1> QED BY <1>4, <1>5, Zenon

LEMMA PadMeant ==
  ASSUME NEW v, InWidth(v), NEW w \in Nat
  PROVE  pad(v, w, "0") = InDigits(v, w) /\ Plain(v) = InDigits(v, 0)
<1>1. v \in Int /\ v > 0 - Modulus /\ v < Modulus /\ ~(v < 0)
  BY LargeModulus, SMT DEF InWidth
<1>2. abs_value(v) = v
  BY <1>1, AbsValueIs, Zenon
<1>3. IsNumber(v)
  BY <1>1, <1>2, AbsValues, Zenon
<1>4. PICK d : d = format_decimal(v, << >>)
  OBVIOUS
<1>5. DigitsOf(v, 10, DecimalDigits) = d
  BY <1>3, <1>4, DigitsOfIs, Zenon
<1>6. d \in Texts
  <2>1. PICK c \in 1..20 : LastDigits(d, v, c)
    BY <1>3, <1>4, DecimalIs, Zenon
  <2> QED BY <2>1, Zenon DEF LastDigits
<1>7. PICK z, sp : z = 0 /\ sp = PadSpec(w, "0")
  OBVIOUS
<1>8. /\ IsDecimal(sp) /\ sp.width = w /\ sp.fill = "0" /\ sp.align = "default" /\ sp.flags = {}
      /\ IsDecimal(NoSpec)
  <2>1. "0" \in Tokens
    BY TokenFacts, Zenon
  <2>2. /\ IsDecimal(PadSpec(w, "0")) /\ IsDecimal(NoSpec)
        /\ PadSpec(w, "0").width = w /\ PadSpec(w, "0").fill = "0"
        /\ PadSpec(w, "0").align = "default" /\ PadSpec(w, "0").flags = {}
    BY <2>1, SpecFacts, Zenon
  <2> QED BY <1>7, <2>2, Zenon
<1>9. NoSpec.width = 0 /\ NoSpec.align = "default" /\ NoSpec.flags = {}
  BY DEF NoSpec
<1>10. SignPrefix(v, sp) = << >> /\ SignPrefix(v, NoSpec) = << >>
  <2>1. "sign" \notin sp.flags /\ "sign" \notin NoSpec.flags
    BY <1>8, <1>9, Zenon
  <2> QED BY <1>1, <2>1, Zenon DEF SignPrefix, is_negative
<1>11. write_int(v, sp) = Padded(<< >>, d, sp) /\ write_int(v, NoSpec) = Padded(<< >>, d, NoSpec)
  BY <1>1, <1>2, <1>4, <1>8, <1>10, DecimalWritten, Zenon
<1>12. 0 \in Nat
  OBVIOUS
<1>13. /\ Padded(<< >>, d, sp) = IF w <= Len(d) THEN d ELSE Repeat("0", w - Len(d)) \o d
       /\ Padded(<< >>, d, NoSpec) = IF 0 <= Len(d) THEN d ELSE Repeat("0", 0 - Len(d)) \o d
  BY <1>6, <1>8, <1>9, <1>12, PaddedWithZeros, Zenon
<1>14. write_int(v, sp) = InDigits(v, w) /\ write_int(v, NoSpec) = InDigits(v, 0)
  BY <1>5, <1>11, <1>13, Zenon DEF InDigits
<1> QED BY <1>7, <1>14, Zenon DEF pad, Plain, PadSpec

LEMMA YearMeant ==
  ASSUME NEW y, InWidth(y), y >= 1000
  PROVE  Plain(y) = InDigits(y, 4)
<1>1. y \in Int /\ y > 0 - Modulus /\ y < Modulus /\ ~(y < 0)
  BY LargeModulus, SMT DEF InWidth
<1>2. abs_value(y) = y
  BY <1>1, AbsValueIs, Zenon
<1>3. IsNumber(y)
  BY <1>1, <1>2, AbsValues, Zenon
<1>4. PICK d : d = format_decimal(y, << >>)
  OBVIOUS
<1>5. DigitsOf(y, 10, DecimalDigits) = d
  BY <1>3, <1>4, DigitsOfIs, Zenon
<1>6. PICK c \in 1..20 : LastDigits(d, y, c) /\ IsCount(y, 10, c)
  BY <1>3, <1>4, DecimalIs, Zenon
<1>7. Len(d) = c
  BY <1>6, Zenon DEF LastDigits
<1>8. y < Power(10, c)
  BY <1>6, Zenon DEF IsCount
<1>9. c >= 4
  <2>1. c = 1 \/ c = 2 \/ c = 3 \/ c >= 4
    BY SMT
  <2>2. Power(10, 1) = 10 /\ Power(10, 2) = 100 /\ Power(10, 3) = 1000
    BY PowersOfTen, SMT
  <2>3. c # 1 /\ c # 2 /\ c # 3
    BY <1>1, <1>8, <2>2, SMT
  <2> QED BY <2>1, <2>3, Zenon
<1>10. 4 <= Len(d) /\ 0 <= Len(d)
  BY <1>7, <1>9, SMT
<1>11. InDigits(y, 4) = d /\ InDigits(y, 0) = d
  BY <1>5, <1>10, Zenon DEF InDigits
<1>12. PICK w : w \in Nat
  OBVIOUS
<1> QED BY <1>11, <1>12, PadMeant, Zenon

LEMMA SmallMeant ==
  ASSUME NEW n \in Small
  PROVE  Two(n) = InDigits(n, 2) /\ Plain(n) = InDigits(n, 0)
<1>1. InWidth(n) /\ 2 \in Nat
  BY LargeModulus, SMT DEF InWidth, Small
<1> QED BY <1>1, PadMeant, Zenon DEF Two

LEMMA HourMeant ==
  ASSUME NEW m \in LogMsgs, m.hour # 0
  PROVE  to12h(m) = On12Hours(m.hour)
<1>1. PICK h, t, o : h = m.hour /\ t = to12h(m) /\ o = On12Hours(h)
  OBVIOUS
<1>2. h \in 1..23
  <2>1. m.hour \in 0..23
    BY MsgFacts, Zenon
  <2> QED BY <1>1, <2>1, SMT
<1>3. t = IF h > 12 THEN h - 12 ELSE h
  BY <1>1, SMT DEF to12h
<1>4. t \in 1..12 /\ (h - t) % 12 = 0
  BY <1>2, <1>3, SMT
<1>5. o \in 1..12 /\ (h - o) % 12 = 0
  <2>1. o = CHOOSE k \in 1..12 : (h - k) % 12 = 0
    BY <1>1, Zenon DEF On12Hours
  <2> QED BY <1>4, <2>1, Zenon
<1>6. t = o
  BY <1>2, <1>4, <1>5, SMT
<1> QED BY <1>1, <1>6, Zenon

Micros(m) == m.nanos \div 1000
YearInCentury(m) == (m.year + 1900) % 100

(* What each number should be, under the names the implementation has.     *)
NumbersAre(m) ==
    /\ NumberMeant(m).Y = InDigits(FullYear(m), 4)
    /\ NumberMeant(m).C = InDigits(YearInCentury(m), 2)
    /\ NumberMeant(m).m = InDigits(m.mon + 1, 2) /\ NumberMeant(m).d = InDigits(m.mday, 2)
    /\ NumberMeant(m).H = InDigits(m.hour, 2) /\ NumberMeant(m).I = InDigits(On12Hours(m.hour), 2)
    /\ NumberMeant(m).M = InDigits(m.min, 2) /\ NumberMeant(m).S = InDigits(m.sec, 2)
    /\ NumberMeant(m).e = InDigits(Millis(m), 3) /\ NumberMeant(m).f = InDigits(Micros(m), 6)
    /\ NumberMeant(m).F = InDigits(m.nanos, 9)
    /\ NumberMeant(m).t = InDigits(m.thread_id, 0) /\ NumberMeant(m).P = InDigits(m.pid, 0)

LEMMA NumbersUnfold == ASSUME NEW m PROVE NumbersAre(m)
<1>1. NumberMeant(m) =
        [Y |-> InDigits(FullYear(m), 4), C |-> InDigits(YearInCentury(m), 2),
         m |-> InDigits(m.mon + 1, 2), d |-> InDigits(m.mday, 2),
         H |-> InDigits(m.hour, 2), I |-> InDigits(On12Hours(m.hour), 2),
         M |-> InDigits(m.min, 2), S |-> InDigits(m.sec, 2),
         e |-> InDigits(Millis(m), 3), f |-> InDigits(Micros(m), 6),
         F |-> InDigits(m.nanos, 9), t |-> InDigits(m.thread_id, 0), P |-> InDigits(m.pid, 0)]
  BY SMT DEF NumberMeant, FullYear, YearInCentury, Millis, Micros
<1> QED BY <1>1, SMT DEF NumbersAre

(* The numbers the code writes, and those it should.                       *)
NumbersWritten(m) ==
    /\ Plain(FullYear(m)) = NumberMeant(m).Y /\ Two(ShortYear(m)) = NumberMeant(m).C
    /\ Two(m.mon + 1) = NumberMeant(m).m /\ Two(m.mday) = NumberMeant(m).d
    /\ Two(m.hour) = NumberMeant(m).H /\ Two(m.min) = NumberMeant(m).M
    /\ Two(m.sec) = NumberMeant(m).S
    /\ pad(Millis(m), 3, "0") = NumberMeant(m).e /\ pad(Micros(m), 6, "0") = NumberMeant(m).f
    /\ pad(m.nanos, 9, "0") = NumberMeant(m).F
    /\ Plain(m.thread_id) = NumberMeant(m).t /\ Plain(m.pid) = NumberMeant(m).P
    /\ Plain(m.mday) = InDigits(m.mday, 0)
    /\ m.hour # 0 => Two(to12h(m)) = NumberMeant(m).I

LEMMA NumbersAsMeant == ASSUME NEW m \in LogMsgs PROVE NumbersWritten(m)
<1>1. NumbersAre(m)
  BY NumbersUnfold, Zenon
<1>2. /\ m.mon + 1 \in Small /\ m.mday \in Small /\ ShortYear(m) \in Small
      /\ m.hour \in Small /\ m.min \in Small /\ m.sec \in Small /\ to12h(m) \in Small
  BY SmallFacts, Zenon
<1>3. Plain(FullYear(m)) = InDigits(FullYear(m), 4)
  <2>1. PICK y : y = FullYear(m)
    OBVIOUS
  <2>2. InWidth(y) /\ y >= 1000
    BY <2>1, WidthAssumption, MsgFacts, SMT DEF FullYear, InWidth
  <2> QED BY <2>1, <2>2, YearMeant, Zenon
<1>4. YearInCentury(m) = ShortYear(m)
  <2>1. PICK y : y = m.year
    OBVIOUS
  <2>2. y \in Nat
    BY <2>1, MsgFacts, SMT
  <2>3. (y + 1900) % 100 = y % 100
    BY <2>2, SMT
  <2> QED BY <2>1, <2>3, SMT DEF YearInCentury, ShortYear
<1>5. InWidth(m.nanos) /\ InWidth(Millis(m)) /\ InWidth(Micros(m))
  <2>1. PICK n, a, b : n = m.nanos /\ a = n \div 1000000 /\ b = n \div 1000
    OBVIOUS
  <2>2. n \in Nat /\ n < 1000000000
    BY <2>1, NanosAssumption, MsgFacts, SMT
  <2>3. a \in Nat /\ b \in Nat /\ a <= n /\ b <= n
    BY <2>1, <2>2, SMT
  <2>4. InWidth(n) /\ InWidth(a) /\ InWidth(b)
    BY <2>2, <2>3, LargeModulus, SMT DEF InWidth
  <2> QED BY <2>1, <2>4, SMT DEF Millis, Micros
<1>6. 3 \in Nat /\ 6 \in Nat /\ 9 \in Nat
  OBVIOUS
<1>7. /\ pad(Millis(m), 3, "0") = InDigits(Millis(m), 3)
      /\ pad(Micros(m), 6, "0") = InDigits(Micros(m), 6)
      /\ pad(m.nanos, 9, "0") = InDigits(m.nanos, 9)
  BY <1>5, <1>6, PadMeant, Zenon
<1>8. InWidth(m.thread_id) /\ InWidth(m.pid)
  BY WidthAssumption, MsgFacts, SMT DEF InWidth
<1>9. Plain(m.thread_id) = InDigits(m.thread_id, 0) /\ Plain(m.pid) = InDigits(m.pid, 0)
  BY <1>6, <1>8, PadMeant, Zenon
<1>10. /\ Two(m.mon + 1) = InDigits(m.mon + 1, 2) /\ Two(m.mday) = InDigits(m.mday, 2)
       /\ Two(m.hour) = InDigits(m.hour, 2) /\ Two(m.min) = InDigits(m.min, 2)
       /\ Two(m.sec) = InDigits(m.sec, 2) /\ Two(ShortYear(m)) = InDigits(ShortYear(m), 2)
       /\ Plain(m.mday) = InDigits(m.mday, 0) /\ Two(to12h(m)) = InDigits(to12h(m), 2)
  BY <1>2, SmallMeant, Zenon
<1>11. m.hour # 0 => to12h(m) = On12Hours(m.hour)
  BY HourMeant, Zenon
<1> QED BY <1>1, <1>3, <1>4, <1>7, <1>9, <1>10, <1>11, Zenon DEF NumbersAre, NumbersWritten

LEMMA MeantGroups ==
  ASSUME NEW m, NEW f
  PROVE  /\ f \in {"n", "l", "L", "a", "A", "b", "B", "p", "v"} => FieldMeant(f, m) = NameMeant(m)[f]
         /\ f \in {"Y", "C", "m", "d", "H", "I", "M", "S", "e", "f", "F", "t", "P"} =>
              FieldMeant(f, m) = NumberMeant(m)[f]
         /\ f \in {"c", "D", "R", "T", "r", "z"} => FieldMeant(f, m) = JoinedMeant(m)[f]
         /\ f = "+" => FieldMeant(f, m) = FullMeant(m)
BY SMTT(30) DEF FieldMeant

LEMMA NamesAsMeant ==
  ASSUME NEW m \in LogMsgs, NEW f \in {"n", "l", "L", "a", "A", "b", "B", "p", "v"}
  PROVE  FieldOf(f, m) = FieldMeant(f, m)
<1>1. FieldMeant(f, m) = NameMeant(m)[f]
  BY MeantGroups, Zenon
<1>2. PICK h : h = m.hour
  OBVIOUS
<1>3. h \in 0..23
  BY <1>2, MsgFacts, Zenon
<1>4. ampm(m) = IF h < 12 THEN "AM" ELSE "PM"
  BY <1>2, <1>3, SMT DEF ampm
<1>5. /\ NameMeant(m)["n"] = <<m.logger_name>> /\ NameMeant(m)["l"] = <<to_str(m.level)>>
      /\ NameMeant(m)["L"] = <<to_short_str(m.level)>>
      /\ NameMeant(m)["a"] = <<days[m.wday + 1]>> /\ NameMeant(m)["A"] = <<full_days[m.wday + 1]>>
      /\ NameMeant(m)["b"] = <<months[m.mon + 1]>>
      /\ NameMeant(m)["B"] = <<full_months[m.mon + 1]>>
      /\ NameMeant(m)["p"] = (IF h < 12 THEN <<"AM">> ELSE <<"PM">>)
      /\ NameMeant(m)["v"] = <<m.raw>>
  BY <1>2, SMT DEF NameMeant, to_str, to_short_str
<1>6. /\ NameFields(m)["n"] = <<m.logger_name>> /\ NameFields(m)["l"] = <<to_str(m.level)>>
      /\ NameFields(m)["L"] = <<to_short_str(m.level)>>
  BY DEF NameFields
<1>7. /\ DayFields(m)["a"] = <<days[m.wday + 1]>> /\ DayFields(m)["A"] = <<full_days[m.wday + 1]>>
      /\ DayFields(m)["b"] = <<months[m.mon + 1]>>
      /\ DayFields(m)["B"] = <<full_months[m.mon + 1]>>
  BY DEF DayFields
<1>8. ClockFields(m)["p"] = <<ampm(m)>> /\ OtherFields(m)["v"] = <<m.raw>>
  BY DEF ClockFields, OtherFields
<1>9. FieldOf(f, m) = NameMeant(m)[f]
  <2>1. CASE f \in {"n", "l", "L"}
    <3>1. FieldOf(f, m) = NameFields(m)[f]
      BY <2>1, FieldGroups, Zenon
    <3> QED BY <1>5, <1>6, <2>1, <3>1, Zenon
  <2>2. CASE f \in {"a", "A", "b", "B"}
    <3>1. FieldOf(f, m) = DayFields(m)[f]
      BY <2>2, FieldGroups, Zenon
    <3> QED BY <1>5, <1>7, <2>2, <3>1, Zenon
  <2>3. CASE f = "p"
    <3>1. FieldOf("p", m) = ClockFields(m)["p"]
      BY FieldGroups, Zenon
    <3> QED BY <1>4, <1>5, <1>8, <2>3, <3>1, Zenon
  <2>4. CASE f = "v"
    <3>1. FieldOf("v", m) = OtherFields(m)["v"]
      BY FieldGroups, Zenon
    <3> QED BY <1>5, <1>8, <2>4, <3>1, Zenon
  <2> QED BY <2>1, <2>2, <2>3, <2>4, Zenon
<1> QED BY <1>1, <1>9, Zenon

(* The formatters of several flags, and what they should write.            *)
TimeJoined(m) == pad_n_join(<<m.hour, m.min, m.sec>>, ":")
DateIs(m) ==
    /\ DateFields(m)["c"] = <<days[m.wday + 1], " ", months[m.mon + 1], " ">> \o Plain(m.mday)
                            \o <<" ">> \o TimeJoined(m) \o <<" ">> \o Plain(FullYear(m))
    /\ DateFields(m)["C"] = Two(ShortYear(m))
    /\ DateFields(m)["D"] = pad_n_join(<<m.mon + 1, m.mday, ShortYear(m)>>, "/")
    /\ DateFields(m)["Y"] = Plain(FullYear(m))
    /\ DateFields(m)["m"] = Two(m.mon + 1) /\ DateFields(m)["d"] = Two(m.mday)

LEMMA DateUnfolds == ASSUME NEW m PROVE DateIs(m)
<1>1. DateFields(m) =
       [c |-> <<days[m.wday + 1], " ", months[m.mon + 1], " ">> \o Plain(m.mday) \o <<" ">>
              \o TimeJoined(m) \o <<" ">> \o Plain(FullYear(m)),
        C |-> Two(ShortYear(m)),
        D |-> pad_n_join(<<m.mon + 1, m.mday, ShortYear(m)>>, "/"),
        Y |-> Plain(FullYear(m)), m |-> Two(m.mon + 1), d |-> Two(m.mday)]
  BY Zenon DEF DateFields, ShortYear, FullYear, TimeJoined
<1>2. PICK c, C, D, Y, mo, d :
        /\ c = <<days[m.wday + 1], " ", months[m.mon + 1], " ">> \o Plain(m.mday) \o <<" ">>
               \o TimeJoined(m) \o <<" ">> \o Plain(FullYear(m))
        /\ C = Two(ShortYear(m)) /\ D = pad_n_join(<<m.mon + 1, m.mday, ShortYear(m)>>, "/")
        /\ Y = Plain(FullYear(m)) /\ mo = Two(m.mon + 1) /\ d = Two(m.mday)
  OBVIOUS
<1>3. DateFields(m) = [c |-> c, C |-> C, D |-> D, Y |-> Y, m |-> mo, d |-> d]
  BY <1>1, <1>2, Zenon
<1>4. /\ DateFields(m)["c"] = c /\ DateFields(m)["C"] = C /\ DateFields(m)["D"] = D
      /\ DateFields(m)["Y"] = Y /\ DateFields(m)["m"] = mo /\ DateFields(m)["d"] = d
  BY <1>3
<1> QED BY <1>2, <1>4, Zenon DEF DateIs

LEMMA NumberFieldsAsMeant ==
  ASSUME NEW m \in LogMsgs,
         NEW f \in {"Y", "C", "m", "d", "H", "I", "M", "S", "e", "f", "F", "t", "P"},
         f = "I" => m.hour # 0
  PROVE  FieldOf(f, m) = FieldMeant(f, m)
<1>1. FieldMeant(f, m) = NumberMeant(m)[f]
  BY MeantGroups, Zenon
<1>2. NumbersWritten(m)
  BY NumbersAsMeant, Zenon
<1>3. CASE f \in {"Y", "C", "m", "d"}
  <2>1. FieldOf(f, m) = DateFields(m)[f]
    BY <1>3, FieldGroups, Zenon
  <2>2. f = "Y" \/ f = "C" \/ f = "m" \/ f = "d"
    BY <1>3, Zenon
  <2> QED BY <1>1, <1>2, <2>1, <2>2, DateUnfolds, Zenon DEF DateIs, NumbersWritten
<1>4. CASE f \in {"H", "I", "M", "S"}
  <2>1. FieldOf(f, m) = TimeFields(m)[f]
    BY <1>4, FieldGroups, Zenon
  <2>2. /\ TimeFields(m)["H"] = Two(m.hour) /\ TimeFields(m)["I"] = Two(to12h(m))
        /\ TimeFields(m)["M"] = Two(m.min) /\ TimeFields(m)["S"] = Two(m.sec)
    BY DEF TimeFields
  <2>3. f = "H" \/ (f = "I" /\ m.hour # 0) \/ f = "M" \/ f = "S"
    BY <1>4, Zenon
  <2> QED BY <1>1, <1>2, <2>1, <2>2, <2>3, Zenon DEF NumbersWritten
<1>5. CASE f \in {"e", "f", "F"}
  <2>1. FieldOf(f, m) = FractionFields(m)[f]
    BY <1>5, FieldGroups, Zenon
  <2>2. /\ FractionFields(m)["e"] = pad(Millis(m), 3, "0")
        /\ FractionFields(m)["f"] = pad(Micros(m), 6, "0")
        /\ FractionFields(m)["F"] = pad(m.nanos, 9, "0")
    BY SMT DEF FractionFields, Millis, Micros
  <2>3. f = "e" \/ f = "f" \/ f = "F"
    BY <1>5, Zenon
  <2> QED BY <1>1, <1>2, <2>1, <2>2, <2>3, Zenon DEF NumbersWritten
<1>6. CASE f \in {"t", "P"}
  <2>1. FieldOf(f, m) = OtherFields(m)[f]
    BY <1>6, FieldGroups, Zenon
  <2>2. OtherFields(m)["t"] = Plain(m.thread_id) /\ OtherFields(m)["P"] = Plain(m.pid)
    BY DEF OtherFields
  <2>3. f = "t" \/ f = "P"
    BY <1>6, Zenon
  <2> QED BY <1>1, <1>2, <2>1, <2>2, <2>3, Zenon DEF NumbersWritten
<1> QED BY <1>3, <1>4, <1>5, <1>6, Zenon

(* Hours and minutes of the offset from UTC.                               *)
OffsetHours(m) == LET size == IF m.gmtoff < 0 THEN 0 - m.gmtoff ELSE m.gmtoff IN size \div 3600
OffsetMinutes(m) ==
    LET size == IF m.gmtoff < 0 THEN 0 - m.gmtoff ELSE m.gmtoff IN (size \div 60) % 60
OffsetSignMeant(m) == IF m.gmtoff < 0 THEN "-" ELSE "+"
HalfMeant(m) == IF m.hour < 12 THEN "AM" ELSE "PM"

JoinedAre(m) ==
    LET N == NumberMeant(m) IN
    /\ JoinedMeant(m)["c"] = <<days[m.wday + 1], " ", months[m.mon + 1], " ">>
                             \o InDigits(m.mday, 0) \o <<" ">>
                             \o (N.H \o Then(":", N.M) \o Then(":", N.S)) \o <<" ">> \o N.Y
    /\ JoinedMeant(m)["D"] = N.m \o Then("/", N.d) \o Then("/", N.C)
    /\ JoinedMeant(m)["R"] = N.H \o Then(":", N.M)
    /\ JoinedMeant(m)["T"] = N.H \o Then(":", N.M) \o Then(":", N.S)
    /\ JoinedMeant(m)["r"] = N.I \o Then(":", N.M) \o Then(":", N.S) \o <<" ", HalfMeant(m)>>
    /\ JoinedMeant(m)["z"] = <<OffsetSignMeant(m)>> \o (InDigits(OffsetHours(m), 2)
                             \o Then(":", InDigits(OffsetMinutes(m), 2)))

LEMMA JoinedUnfold == ASSUME NEW m PROVE JoinedAre(m)
<1>1. PICK N : N = NumberMeant(m)
  OBVIOUS
<1>2. JoinedMeant(m) =
        [c |-> <<days[m.wday + 1], " ", months[m.mon + 1], " ">> \o InDigits(m.mday, 0)
               \o <<" ">> \o (N.H \o Then(":", N.M) \o Then(":", N.S)) \o <<" ">> \o N.Y,
         D |-> N.m \o Then("/", N.d) \o Then("/", N.C),
         R |-> N.H \o Then(":", N.M),
         T |-> N.H \o Then(":", N.M) \o Then(":", N.S),
         r |-> N.I \o Then(":", N.M) \o Then(":", N.S) \o <<" ", HalfMeant(m)>>,
         z |-> <<OffsetSignMeant(m)>> \o (InDigits(OffsetHours(m), 2)
               \o Then(":", InDigits(OffsetMinutes(m), 2)))]
  BY <1>1, Zenon DEF JoinedMeant, HalfMeant, OffsetSignMeant, OffsetHours, OffsetMinutes
<1>3. PICK c, D, R, T, r, z :
        /\ c = <<days[m.wday + 1], " ", months[m.mon + 1], " ">> \o InDigits(m.mday, 0)
               \o <<" ">> \o (N.H \o Then(":", N.M) \o Then(":", N.S)) \o <<" ">> \o N.Y
        /\ D = N.m \o Then("/", N.d) \o Then("/", N.C)
        /\ R = N.H \o Then(":", N.M)
        /\ T = N.H \o Then(":", N.M) \o Then(":", N.S)
        /\ r = N.I \o Then(":", N.M) \o Then(":", N.S) \o <<" ", HalfMeant(m)>>
        /\ z = <<OffsetSignMeant(m)>> \o (InDigits(OffsetHours(m), 2)
               \o Then(":", InDigits(OffsetMinutes(m), 2)))
  OBVIOUS
<1>4. JoinedMeant(m) = [c |-> c, D |-> D, R |-> R, T |-> T, r |-> r, z |-> z]
  BY <1>2, <1>3, Zenon
<1>5. /\ JoinedMeant(m)["c"] = c /\ JoinedMeant(m)["D"] = D /\ JoinedMeant(m)["R"] = R
      /\ JoinedMeant(m)["T"] = T /\ JoinedMeant(m)["r"] = r /\ JoinedMeant(m)["z"] = z
  BY <1>4
<1> QED BY <1>1, <1>3, <1>5, Zenon DEF JoinedAre

LEMMA OffsetMeant ==
  ASSUME NEW m \in LogMsgs
  PROVE  /\ OffsetSize(m) \div 60 = OffsetHours(m) /\ OffsetSize(m) % 60 = OffsetMinutes(m)
         /\ OffsetHours(m) \in Small /\ OffsetMinutes(m) \in Small
         /\ OffsetSign(m) = OffsetSignMeant(m)
<1>1. PICK g, u, z, s0 : /\ g = m.gmtoff /\ u = utc_minutes_offset(m) /\ z = OffsetSize(m)
                         /\ s0 = IF g < 0 THEN 0 - g ELSE g
  OBVIOUS
<1>2. g \in Int
  BY <1>1, MsgFacts, SMT
<1>3. g % 60 = 0 /\ g > -360000 /\ g < 360000
  BY <1>1, OffsetAssumption, SMT
<1>4. u = IF g < 0 THEN 0 - ((0 - g) \div 60) ELSE g \div 60
  BY <1>1, SMT DEF utc_minutes_offset
<1>5. z = IF u < 0 THEN 0 - u ELSE u
  BY <1>1, SMT DEF OffsetSize
<1>6. PICK k : k = g \div 60
  OBVIOUS
<1>7. k \in Int /\ g = 60 * k /\ k > -6000 /\ k < 6000
  BY <1>2, <1>3, <1>6, SMT
<1>8. u = k
  <2>1. (0 - g) \div 60 = 0 - k
    BY <1>2, <1>7, SMT
  <2> QED BY <1>4, <1>6, <1>7, <2>1, SMT
<1>9. z \in Nat /\ z < 6000 /\ s0 = 60 * z
  BY <1>1, <1>5, <1>7, <1>8, SMT
<1>10. s0 \div 60 = z /\ s0 \div 3600 = z \div 60
  BY <1>9, SMT
<1>11. z \div 60 \in 0..99 /\ z % 60 \in 0..99
  BY <1>9, SMT
<1>12. u < 0 <=> g < 0
  BY <1>7, <1>8, SMT
<1>13. OffsetHours(m) = z \div 60 /\ OffsetMinutes(m) = z % 60
  BY <1>1, <1>10, SMT DEF OffsetHours, OffsetMinutes
<1>14. OffsetSign(m) = OffsetSignMeant(m)
  BY <1>1, <1>12, SMT DEF OffsetSign, OffsetSignMeant
<1> QED BY <1>1, <1>11, <1>13, <1>14, SMT DEF Small

LEMMA JoinsAsMeant ==
  ASSUME NEW m \in LogMsgs, NEW f \in {"c", "D", "R", "T", "r", "z"}, f = "r" => m.hour # 0
  PROVE  FieldOf(f, m) = FieldMeant(f, m)
<1>1. PICK N : N = NumberMeant(m)
  OBVIOUS
<1>2. NumbersWritten(m) /\ JoinedAre(m) /\ DateIs(m)
  BY NumbersAsMeant, JoinedUnfold, DateUnfolds, Zenon
<1>3. FieldMeant(f, m) = JoinedMeant(m)[f]
  BY MeantGroups, Zenon
<1>4. ":" \in Tokens /\ "/" \in Tokens
  BY TokenFacts, Zenon
<1>5. TimeJoined(m) = N.H \o Then(":", N.M) \o Then(":", N.S)
  <2>1. AsJoined(m.hour, m.min, m.sec, ":")
    BY <1>4, IntFacts, JoinedThree, Zenon
  <2> QED BY <1>1, <1>2, <2>1, Zenon DEF AsJoined, TimeJoined, SepTwo, Then, NumbersWritten
<1>6. pad_n_join(<<m.mon + 1, m.mday, ShortYear(m)>>, "/") = N.m \o Then("/", N.d) \o Then("/", N.C)
  <2>1. AsJoined(m.mon + 1, m.mday, ShortYear(m), "/")
    BY <1>4, IntFacts, JoinedThree, Zenon
  <2> QED BY <1>1, <1>2, <2>1, Zenon DEF AsJoined, SepTwo, Then, NumbersWritten
<1>7. pad_n_join(<<m.hour, m.min>>, ":") = N.H \o Then(":", N.M)
  <2>1. pad_n_join(<<m.hour, m.min>>, ":") = Two(m.hour) \o SepTwo(":", m.min)
    BY <1>4, IntFacts, JoinedTwo, Zenon
  <2> QED BY <1>1, <1>2, <2>1, Zenon DEF SepTwo, Then, NumbersWritten
<1>8. m.hour # 0 => pad_n_join(<<to12h(m), m.min, m.sec>>, ":")
                      = N.I \o Then(":", N.M) \o Then(":", N.S)
  <2>1. AsJoined(to12h(m), m.min, m.sec, ":")
    BY <1>4, IntFacts, JoinedThree, Zenon
  <2> QED BY <1>1, <1>2, <2>1, Zenon DEF AsJoined, SepTwo, Then, NumbersWritten
<1>9. /\ ClockFields(m)["r"] = pad_n_join(<<to12h(m), m.min, m.sec>>, ":") \o <<" ", ampm(m)>>
      /\ ClockFields(m)["R"] = pad_n_join(<<m.hour, m.min>>, ":")
      /\ ClockFields(m)["T"] = TimeJoined(m)
  BY DEF ClockFields, TimeJoined
<1>10. ampm(m) = HalfMeant(m)
  <2>1. PICK h : h = m.hour
    OBVIOUS
  <2>2. h \in 0..23
    BY <2>1, MsgFacts, Zenon
  <2> QED BY <2>1, <2>2, SMT DEF ampm, HalfMeant
<1>11. CASE f = "c"
  <2>1. FieldOf("c", m) = DateFields(m)["c"]
    BY FieldGroups, Zenon
  <2> QED BY <1>1, <1>2, <1>3, <1>5, <1>11, <2>1, Zenon DEF DateIs, JoinedAre, NumbersWritten
<1>12. CASE f = "D"
  <2>1. FieldOf("D", m) = DateFields(m)["D"]
    BY FieldGroups, Zenon
  <2> QED BY <1>1, <1>2, <1>3, <1>6, <1>12, <2>1, Zenon DEF DateIs, JoinedAre
<1>13. CASE f = "R" \/ f = "T"
  <2>1. FieldOf("R", m) = ClockFields(m)["R"] /\ FieldOf("T", m) = ClockFields(m)["T"]
    BY FieldGroups, Zenon
  <2> QED BY <1>1, <1>2, <1>3, <1>5, <1>7, <1>9, <1>13, <2>1, Zenon DEF JoinedAre
<1>14. CASE f = "r"
  <2>1. FieldOf("r", m) = ClockFields(m)["r"]
    BY FieldGroups, Zenon
  <2> QED BY <1>1, <1>2, <1>3, <1>8, <1>9, <1>10, <1>14, <2>1, Zenon DEF JoinedAre
<1>15. CASE f = "z"
  <2>1. PICK h, i : h = OffsetHours(m) /\ i = OffsetMinutes(m)
    OBVIOUS
  <2>2. /\ OffsetSize(m) \div 60 = h /\ OffsetSize(m) % 60 = i /\ OffsetSign(m) = OffsetSignMeant(m)
        /\ h \in Small /\ i \in Small
    BY <2>1, OffsetMeant, Zenon
  <2>3. h \in Int /\ i \in Int
    BY <2>2, SmallInts, Zenon
  <2>4. pad_n_join(<<h, i>>, ":") = Two(h) \o SepTwo(":", i)
    BY <1>4, <2>3, JoinedTwo, Zenon
  <2>5. Two(h) = InDigits(h, 2) /\ Two(i) = InDigits(i, 2)
    BY <2>2, SmallMeant, Zenon
  <2>6. pad_n_join(<<h, i>>, ":") = InDigits(h, 2) \o Then(":", InDigits(i, 2))
    BY <2>4, <2>5, Zenon DEF SepTwo, Then
  <2>7. FieldOf("z", m) = <<OffsetSignMeant(m)>> \o pad_n_join(<<h, i>>, ":")
    BY <2>2, OffsetIs, Zenon
  <2> QED BY <1>2, <1>3, <1>15, <2>1, <2>6, <2>7, Zenon DEF JoinedAre
<1> QED BY <1>11, <1>12, <1>13, <1>14, <1>15, Zenon

LEMMA FullAsMeant ==
  ASSUME NEW m \in LogMsgs
  PROVE  FieldOf("+", m) = FieldMeant("+", m)
<1>1. FieldOf("+", m) = FullField(m) /\ FieldMeant("+", m) = FullMeant(m)
  BY FieldGroups, MeantGroups, Zenon
<1>2. NumbersWritten(m)
  BY NumbersAsMeant, Zenon
<1>3. FullField(m) =
        <<"[">> \o Plain(FullYear(m)) \o <<"-">> \o Two(m.mon + 1) \o <<"-">> \o Two(m.mday)
        \o <<" ">> \o Two(m.hour) \o <<":">> \o Two(m.min) \o <<":">> \o Two(m.sec)
        \o <<".">> \o pad(Millis(m), 3, "0") \o <<"]", " ">>
        \o <<"[", m.logger_name, "]", " ">>
        \o <<"[", to_str(m.level), "]", " ">> \o <<m.raw>>
  BY SMT DEF FullField, FullYear, Millis
<1>4. PICK N : N = NumberMeant(m)
  OBVIOUS
<1>5. /\ Plain(FullYear(m)) = N.Y /\ Two(m.mon + 1) = N.m /\ Two(m.mday) = N.d
      /\ Two(m.hour) = N.H /\ Two(m.min) = N.M /\ Two(m.sec) = N.S
      /\ pad(Millis(m), 3, "0") = N.e
  BY <1>2, <1>4, Zenon DEF NumbersWritten
<1>6. FullMeant(m) =
        <<"[">> \o N.Y \o <<"-">> \o N.m \o <<"-">> \o N.d \o <<" ">> \o N.H \o <<":">> \o N.M
        \o <<":">> \o N.S \o <<".">> \o N.e \o <<"]", " ">> \o <<"[", m.logger_name, "]", " ">>
        \o <<"[", to_str(m.level), "]", " ">> \o <<m.raw>>
  BY <1>4, Zenon DEF FullMeant, to_str
<1> QED BY <1>1, <1>3, <1>5, <1>6, Zenon

(* Each flag is written as the comment at its formatter says, the two with *)
(* a 12 hour clock except in the hour after midnight.                      *)
LEMMA FieldIsMeant ==
  ASSUME NEW m \in LogMsgs, NEW f \in Flags, ~Disputed(f, m)
  PROVE  FieldOf(f, m) = FieldMeant(f, m)
<1>1. \/ f \in {"n", "l", "L", "a", "A", "b", "B", "p", "v"}
      \/ f \in {"Y", "C", "m", "d", "H", "I", "M", "S", "e", "f", "F", "t", "P"}
      \/ f \in {"c", "D", "R", "T", "r", "z"} \/ f = "+"
  BY DEF Flags
<1>2. (f = "I" => m.hour # 0) /\ (f = "r" => m.hour # 0)
  BY Zenon DEF Disputed
<1> QED BY <1>1, <1>2, NamesAsMeant, NumberFieldsAsMeant, JoinsAsMeant, FullAsMeant, Zenon

LEMMA FlattenMore ==
  ASSUME NEW s0 \in Seq(Texts), NEW x \in Texts, NEW t, t = Append(s0, x)
  PROVE  FlattenSeq(t) = FlattenSeq(s0) \o x /\ t \in Seq(Texts)
<1>1. FlattenSeq(Append(s0, x)) = FlattenSeq(s0) \o x
  BY FlattenAppend, Zenon DEF Texts
<1>2. Append(s0, x) \in Seq(Texts)
  OBVIOUS
<1> QED BY <1>1, <1>2, Zenon

LEMMA TextsAssociate ==
  ASSUME NEW f \in Texts, NEW g \in Texts, NEW h \in Texts
  PROVE  f \o (g \o h) = (f \o g) \o h
<1>1. f \in Seq(Tokens) /\ g \in Seq(Tokens) /\ h \in Seq(Tokens)
  BY Zenon DEF Texts
<1> QED BY <1>1

-----------------------------------------------------------------------------
(* The pattern, character by character.                                    *)
IsFlags(F, P, n) == F = [i \in 0..n |-> i > 1 /\ P[i - 1] = "%" /\ ~ F[i - 1]]
FlagsOf(P) == CHOOSE F : IsFlags(F, P, Len(P))

LEMMA FlagsExist ==
  ASSUME NEW P, NEW n \in Nat
  PROVE  \E F : IsFlags(F, P, n)
<1> DEFINE S == {k \in Nat : \E F : IsFlags(F, P, k)}
<1>1. 0 \in S
  <2>1. PICK F : F = [i \in 0..0 |-> FALSE]
    OBVIOUS
  <2>2. ASSUME NEW i \in 0..0 PROVE F[i] = (i > 1 /\ P[i - 1] = "%" /\ ~ F[i - 1])
    <3>1. ~(i > 1) /\ F[i] = FALSE
      BY <2>1
    <3> QED BY <3>1
  <2>3. F = [i \in 0..0 |-> F[i]]
    BY <2>1
  <2>4. IsFlags(F, P, 0)
    BY <2>2, <2>3, Zenon DEF IsFlags
  <2> QED BY <2>4
<1>2. ASSUME NEW k \in Nat, k \in S PROVE k + 1 \in S
  <2>1. PICK F : IsFlags(F, P, k)
    BY <1>2
  <2>2. PICK j : j = k + 1
    OBVIOUS
  <2>3. PICK b : b = (j > 1 /\ P[j - 1] = "%" /\ ~ F[j - 1])
    OBVIOUS
  <2>4. PICK G : G = [i \in 0..j |-> IF i = j THEN b ELSE F[i]]
    OBVIOUS
  <2>5. ASSUME NEW i \in 0..j PROVE G[i] = (i > 1 /\ P[i - 1] = "%" /\ ~ G[i - 1])
    <3>1. CASE i = j
      <4>1. j - 1 \in 0..j /\ j - 1 # j /\ j \in 0..j
        BY <2>2
      <4>2. G[j] = b /\ G[j - 1] = F[j - 1]
        BY <2>4, <4>1
      <4> QED BY <2>3, <3>1, <4>2, Zenon
    <3>2. CASE i # j
      <4>1. i \in 0..k /\ i - 1 # j
        BY <2>2, <3>2
      <4>2. G[i] = F[i] /\ (i > 1 => G[i - 1] = F[i - 1])
        <5>1. G[i] = F[i]
          BY <2>4, <3>2
        <5>2. i > 1 => i - 1 \in 0..j
          BY <2>2
        <5> QED BY <2>4, <4>1, <5>1, <5>2
      <4>3. F[i] = (i > 1 /\ P[i - 1] = "%" /\ ~ F[i - 1])
        BY <2>1, <4>1, Zenon DEF IsFlags
      <4> QED BY <4>2, <4>3, Zenon
    <3> QED BY <3>1, <3>2
  <2>6. G = [i \in 0..j |-> G[i]]
    BY <2>4
  <2>7. IsFlags(G, P, j)
    <3> HIDE <2>4
    <3> QED BY <2>5, <2>6, Zenon DEF IsFlags
  <2> QED BY <2>2, <2>7
<1>3. n \in S
  <2> HIDE DEF S
  <2> QED BY <1>1, <1>2, Induct
<1> QED BY <1>3

LEMMA FlagsAre ==
  ASSUME NEW P, Len(P) \in Nat, NEW i \in 0..Len(P)
  PROVE  FlagsOf(P)[i] = (i > 1 /\ P[i - 1] = "%" /\ ~ FlagsOf(P)[i - 1])
<1>1. PICK F : F = FlagsOf(P)
  OBVIOUS
<1>2. IsFlags(F, P, Len(P))
  BY <1>1, FlagsExist, Zenon DEF FlagsOf
<1>3. F[i] = (i > 1 /\ P[i - 1] = "%" /\ ~ F[i - 1])
  BY <1>2, Zenon DEF IsFlags
<1> QED BY <1>1, <1>3, Zenon

(* The first n of a sequence of texts, one after the other.                *)
UpTo(G, n) == FlattenSeq([i \in 1..n |-> G[i]])

LEMMA UpToNext ==
  ASSUME NEW G, NEW n \in Nat, \A i \in 1..n + 1 : G[i] \in Texts
  PROVE  UpTo(G, n + 1) = UpTo(G, n) \o G[n + 1] /\ UpTo(G, n) \in Texts /\ UpTo(G, 0) = << >>
<1>1. PICK f, g, k : k = n + 1 /\ f = [i \in 1..n |-> G[i]] /\ g = [i \in 1..k |-> G[i]]
  OBVIOUS
<1>2. f \in [1..n -> Texts] /\ g \in [1..k -> Texts] /\ k \in Nat
  BY <1>1
<1>3. f \in Seq(Texts) /\ Len(f) = n /\ g \in Seq(Texts) /\ Len(g) = k
  BY <1>2, FunctionIsSeq
<1>4. PICK x : x = G[k]
  OBVIOUS
<1>5. x \in Texts
  BY <1>1, <1>4
<1>6. PICK h : h = Append(f, x)
  OBVIOUS
<1>7. h \in Seq(Texts) /\ Len(h) = k
  BY <1>1, <1>3, <1>5, <1>6
<1>8. \A i \in 1..k : h[i] = g[i]
  <2> TAKE i \in 1..k
  <2>1. CASE i = k
    BY <1>1, <1>3, <1>4, <1>5, <1>6, <2>1
  <2>2. CASE i # k
    <3>1. i \in 1..n
      BY <1>1, <2>2
    <3> QED BY <1>1, <1>3, <1>5, <1>6, <3>1
  <2> QED BY <2>1, <2>2
<1>9. h = g
  BY <1>3, <1>7, <1>8, SameSeq
<1>10. FlattenSeq(g) = FlattenSeq(f) \o x
  BY <1>3, <1>5, <1>6, <1>9, FlattenMore, Zenon
<1>11. FlattenSeq(f) \in Texts
  BY <1>3, FlattenType, Zenon DEF Texts
<1>12. UpTo(G, 0) = << >>
  <2>1. [i \in 1..0 |-> G[i]] = << >>
    OBVIOUS
  <2> QED BY <2>1, FlattenEmpty, Zenon DEF UpTo
<1> QED BY <1>1, <1>4, <1>10, <1>11, <1>12, Zenon DEF UpTo

-----------------------------------------------------------------------------
(* What a character of a pattern is to be written as.                      *)
PieceAt(P, m, i) ==
    IF FlagsOf(P)[i]
    THEN IF P[i] \in Flags THEN FieldOf(P[i], m)
         ELSE IF P[i] \in DOMAIN SameAs THEN FieldOf(SameAs[P[i]], m)
         ELSE <<"%", P[i]>>
    ELSE IF P[i] = "%" THEN << >> ELSE <<P[i]>>
Pieces(P, m) == [i \in 1..Len(P) |-> PieceAt(P, m, i)]

LEMMA SameAsFlags == ASSUME NEW c \in DOMAIN SameAs PROVE SameAs[c] \in Flags
<1>1. c = "h" \/ c = "x" \/ c = "X"
  BY DEF SameAs
<1>2. SameAs["h"] = "b" /\ SameAs["x"] = "D" /\ SameAs["X"] = "T"
  BY DEF SameAs
<1>3. "b" \in Flags /\ "D" \in Flags /\ "T" \in Flags
  BY Zenon DEF Flags
<1> QED BY <1>1, <1>2, <1>3, Zenon

LEMMA PieceType ==
  ASSUME NEW P \in Seq(Tokens), NEW m \in LogMsgs, NEW i \in 1..Len(P)
  PROVE  PieceAt(P, m, i) \in Texts
<1>1. PICK c : c = P[i]
  OBVIOUS
<1>2. c \in Tokens
  BY <1>1
<1>3. <<c>> \in Texts /\ << >> \in Texts /\ <<"%", c>> \in Texts
  <2>1. <<"%">> \in Texts /\ <<c>> \in Texts /\ <<"%">> \o <<c>> = <<"%", c>>
    BY <1>2, TokenFacts, OneToken, JoinTwo, Zenon
  <2>2. <<"%">> \o <<c>> \in Texts
    BY <2>1, TextsJoin, Zenon
  <2> QED BY <2>1, <2>2, NoToken, Zenon
<1>4. c \in Flags => FieldOf(c, m) \in Texts
  BY FieldType, Zenon
<1>5. c \in DOMAIN SameAs => FieldOf(SameAs[c], m) \in Texts
  BY SameAsFlags, FieldType, Zenon
<1> QED BY <1>1, <1>3, <1>4, <1>5, Zenon DEF PieceAt

LEMMA PieceNext ==
  ASSUME NEW P \in Seq(Tokens), NEW m \in LogMsgs, NEW i \in 1..Len(P)
  PROVE  /\ UpTo(Pieces(P, m), i) = UpTo(Pieces(P, m), i - 1) \o PieceAt(P, m, i)
         /\ UpTo(Pieces(P, m), i - 1) \in Texts /\ UpTo(Pieces(P, m), 0) = << >>
<1>1. PICK G, n : G = Pieces(P, m) /\ n = i - 1
  OBVIOUS
<1>2. n \in Nat /\ n + 1 = i
  BY <1>1
<1>3. \A k \in 1..Len(P) : G[k] = PieceAt(P, m, k)
  BY <1>1, Zenon DEF Pieces
<1>4. \A k \in 1..n + 1 : k \in 1..Len(P)
  BY <1>2
<1>5. \A k \in 1..n + 1 : G[k] \in Texts
  BY <1>3, <1>4, PieceType, Zenon
<1>6. UpTo(G, n + 1) = UpTo(G, n) \o G[n + 1] /\ UpTo(G, n) \in Texts /\ UpTo(G, 0) = << >>
  BY <1>2, <1>5, UpToNext, Zenon
<1>7. G[i] = PieceAt(P, m, i)
  BY <1>3, Zenon
<1> QED BY <1>1, <1>2, <1>6, <1>7, Zenon

(* What a list of formatters writes.                                       *)
Formatter == [flag : Flags \cup {"chars"}, chars : Texts]
Render(f, m) == IF f.flag = "chars" THEN f.chars ELSE FieldOf(f.flag, m)
Renders(fs, m) == [i \in 1..Len(fs) |-> Render(fs[i], m)]
Written(fs, m) == UpTo(Renders(fs, m), Len(fs))

LEMMA RenderType ==
  ASSUME NEW m \in LogMsgs, NEW f \in Formatter
  PROVE  Render(f, m) \in Texts
<1>1. (f.flag \in Flags \/ f.flag = "chars") /\ f.chars \in Texts
  BY DEF Formatter
<1> QED BY <1>1, FieldType, Zenon DEF Render

LEMMA RenderNext ==
  ASSUME NEW m \in LogMsgs, NEW fs \in Seq(Formatter), NEW i \in 1..Len(fs)
  PROVE  /\ UpTo(Renders(fs, m), i) = UpTo(Renders(fs, m), i - 1) \o Render(fs[i], m)
         /\ UpTo(Renders(fs, m), i - 1) \in Texts
<1>1. PICK G, n : G = Renders(fs, m) /\ n = i - 1
  OBVIOUS
<1>2. n \in Nat /\ n + 1 = i
  BY <1>1
<1>3. \A k \in 1..Len(fs) : G[k] = Render(fs[k], m) /\ fs[k] \in Formatter
  <2>1. \A k \in 1..Len(fs) : fs[k] \in Formatter
    OBVIOUS
  <2> QED BY <1>1, <2>1, Zenon DEF Renders
<1>4. \A k \in 1..n + 1 : k \in 1..Len(fs)
  BY <1>2
<1>5. \A k \in 1..n + 1 : G[k] \in Texts
  BY <1>3, <1>4, RenderType, Zenon
<1>6. UpTo(G, n + 1) = UpTo(G, n) \o G[n + 1] /\ UpTo(G, n) \in Texts
  BY <1>2, <1>5, UpToNext, Zenon
<1>7. G[i] = Render(fs[i], m)
  BY <1>3, Zenon
<1> QED BY <1>1, <1>2, <1>6, <1>7, Zenon

LEMMA WrittenType ==
  ASSUME NEW m \in LogMsgs, NEW fs \in Seq(Formatter)
  PROVE  Written(fs, m) \in Texts
<1>1. PICK n : n = Len(fs)
  OBVIOUS
<1>2. n \in Nat
  BY <1>1
<1>3. CASE n = 0
  <2>1. [i \in 1..0 |-> Renders(fs, m)[i]] = << >>
    OBVIOUS
  <2>2. UpTo(Renders(fs, m), 0) = << >>
    BY <2>1, FlattenEmpty, Zenon DEF UpTo
  <2> QED BY <1>1, <1>3, <2>2, NoToken, Zenon DEF Written
<1>4. CASE n # 0
  <2>1. n \in 1..n
    BY <1>2, <1>4
  <2>2. PICK U, V, W : /\ U = UpTo(Renders(fs, m), n) /\ V = UpTo(Renders(fs, m), n - 1)
                       /\ W = Render(fs[n], m)
    OBVIOUS
  <2>3. U = V \o W /\ V \in Texts
    BY <1>1, <2>1, <2>2, RenderNext, Zenon
  <2>4. fs[n] \in Formatter
    BY <1>1, <2>1
  <2>5. W \in Texts
    BY <2>2, <2>4, RenderType, Zenon
  <2> QED BY <1>1, <2>2, <2>3, <2>5, TextsJoin, Zenon DEF Written
<1> QED BY <1>3, <1>4

LEMMA WrittenMore ==
  ASSUME NEW m \in LogMsgs, NEW fs \in Seq(Formatter), NEW f \in Formatter
  PROVE  /\ Append(fs, f) \in Seq(Formatter)
         /\ Written(Append(fs, f), m) = Written(fs, m) \o Render(f, m)
<1>1. PICK gs, n, k : gs = Append(fs, f) /\ n = Len(fs) /\ k = n + 1
  OBVIOUS
<1>2. gs \in Seq(Formatter) /\ Len(gs) = k /\ n \in Nat /\ k \in 1..k /\ k - 1 = n /\ gs[k] = f
  BY <1>1
<1>3. \A i \in 1..n : gs[i] = fs[i] /\ i \in 1..k
  BY <1>1
<1>4. UpTo(Renders(gs, m), k) = UpTo(Renders(gs, m), n) \o Render(f, m)
  BY <1>2, RenderNext, Zenon
<1>5. \A i \in 1..n : Renders(gs, m)[i] = Renders(fs, m)[i]
  <2> TAKE i \in 1..n
  <2>1. Renders(gs, m)[i] = Render(gs[i], m)
    BY <1>2, <1>3, Zenon DEF Renders
  <2>2. Renders(fs, m)[i] = Render(fs[i], m)
    BY <1>1, Zenon DEF Renders
  <2> QED BY <1>3, <2>1, <2>2, Zenon
<1>6. [i \in 1..n |-> Renders(gs, m)[i]] = [i \in 1..n |-> Renders(fs, m)[i]]
  BY <1>5, Zenon
<1>7. UpTo(Renders(gs, m), n) = UpTo(Renders(fs, m), n)
  BY <1>6, Zenon DEF UpTo
<1>8. Written(gs, m) = Written(fs, m) \o Render(f, m)
  BY <1>1, <1>2, <1>4, <1>7, Zenon DEF Written
<1> QED BY <1>1, <1>2, <1>8, Zenon

(* What compile_pattern adds to the list.                                  *)
Flushed(fs, uc) == IF uc = << >> THEN fs ELSE Append(fs, Chars(uc))
FlagPiece(c, m) ==
    IF c \in Flags THEN FieldOf(c, m)
    ELSE IF c \in DOMAIN SameAs THEN FieldOf(SameAs[c], m) ELSE <<"%", c>>

LEMMA CharsRender ==
  ASSUME NEW m, NEW cs \in Texts
  PROVE  Chars(cs) \in Formatter /\ Render(Chars(cs), m) = cs
<1>1. PICK f : f = Chars(cs)
  OBVIOUS
<1>2. f = [flag |-> "chars", chars |-> cs]
  BY <1>1 DEF Chars
<1>3. f.flag = "chars" /\ f.chars = cs /\ f \in Formatter
  BY <1>2 DEF Formatter
<1> QED BY <1>1, <1>3, Zenon DEF Render

LEMMA FlagRender ==
  ASSUME NEW m, NEW c \in Flags, NEW f, f = [flag |-> c, chars |-> << >>]
  PROVE  f \in Formatter /\ Render(f, m) = FieldOf(c, m)
<1>1. f.flag = c /\ f.chars = << >> /\ c # "chars"
  BY DEF Flags
<1>2. f \in Formatter
  BY NoToken DEF Formatter
<1> QED BY <1>1, <1>2, Zenon DEF Render

LEMMA FlushedWrites ==
  ASSUME NEW m \in LogMsgs, NEW fs \in Seq(Formatter), NEW uc \in Texts
  PROVE  Flushed(fs, uc) \in Seq(Formatter) /\ Written(Flushed(fs, uc), m) = Written(fs, m) \o uc
<1>1. CASE uc = << >>
  <2>1. Written(fs, m) \o << >> = Written(fs, m)
    BY WrittenType, NothingAdded, Zenon DEF Texts
  <2> QED BY <1>1, <2>1, Zenon DEF Flushed
<1>2. CASE uc # << >>
  <2>1. PICK f, gs : f = Chars(uc) /\ gs = Append(fs, f)
    OBVIOUS
  <2>2. f \in Formatter /\ Render(f, m) = uc
    BY <2>1, CharsRender, Zenon
  <2>3. gs \in Seq(Formatter) /\ Written(gs, m) = Written(fs, m) \o Render(f, m)
    BY <2>1, <2>2, WrittenMore, Zenon
  <2>4. Flushed(fs, uc) = gs
    BY <1>2, <2>1, Zenon DEF Flushed
  <2> QED BY <2>2, <2>3, <2>4, Zenon
<1> QED BY <1>1, <1>2

LEMMA AddOne ==
  ASSUME NEW T, NEW fs \in Seq(T), NEW a \in T
  PROVE  fs \o <<a>> = Append(fs, a)
OBVIOUS

LEMMA AddTwo ==
  ASSUME NEW T, NEW fs \in Seq(T), NEW a \in T, NEW b \in T
  PROVE  fs \o <<a, b>> = Append(Append(fs, a), b)
<1>1. PICK p, gs, hs : p = <<a, b>> /\ gs = fs \o p /\ hs = Append(Append(fs, a), b)
  OBVIOUS
<1>2. p \in Seq(T) /\ Len(p) = 2 /\ p[1] = a /\ p[2] = b
  BY <1>1
<1>3. gs \in Seq(T) /\ Len(gs) = Len(fs) + 2 /\ Len(fs) \in Nat
  BY <1>1, <1>2
<1>4. hs \in Seq(T) /\ Len(hs) = Len(fs) + 2
  BY <1>1
<1>5. \A i \in 1..Len(gs) : gs[i] = hs[i]
  <2> TAKE i \in 1..Len(gs)
  <2>1. i \in 1..Len(fs) \/ i = Len(fs) + 1 \/ i = Len(fs) + 2
    BY <1>3
  <2>2. gs[i] = IF i <= Len(fs) THEN fs[i] ELSE p[i - Len(fs)]
    BY <1>1, <1>2, <1>3
  <2>3. hs[i] = IF i <= Len(fs) THEN fs[i] ELSE IF i = Len(fs) + 1 THEN a ELSE b
    BY <1>1, <1>3, <2>1
  <2> QED BY <1>2, <1>3, <2>1, <2>2, <2>3
<1>6. gs = hs
  BY <1>3, <1>4, <1>5, SameSeq
<1> QED BY <1>1, <1>6, Zenon

LEMMA FlagWrites ==
  ASSUME NEW m \in LogMsgs, NEW fs \in Seq(Formatter), NEW c \in Tokens
  PROVE  /\ fs \o handle_flag(c) \in Seq(Formatter)
         /\ Written(fs \o handle_flag(c), m) = Written(fs, m) \o FlagPiece(c, m)
<1>1. CASE c \in Flags
  <2>1. PICK f : f = [flag |-> c, chars |-> << >>]
    OBVIOUS
  <2>2. f \in Formatter /\ Render(f, m) = FieldOf(c, m)
    BY <1>1, <2>1, FlagRender, Zenon
  <2>3. handle_flag(c) = <<f>> /\ FlagPiece(c, m) = FieldOf(c, m)
    BY <1>1, <2>1, Zenon DEF handle_flag, FlagPiece
  <2>4. PICK gs : gs = fs \o <<f>>
    OBVIOUS
  <2>5. gs = Append(fs, f)
    BY <2>2, <2>4, AddOne, Zenon
  <2>6. gs \in Seq(Formatter) /\ Written(gs, m) = Written(fs, m) \o Render(f, m)
    BY <2>2, <2>5, WrittenMore, Zenon
  <2> QED BY <2>2, <2>3, <2>4, <2>6, Zenon
<1>2. CASE c \notin Flags /\ c \in DOMAIN SameAs
  <2>1. PICK e, f : e = SameAs[c] /\ f = [flag |-> e, chars |-> << >>]
    OBVIOUS
  <2>2. f \in Formatter /\ Render(f, m) = FieldOf(e, m)
    BY <1>2, <2>1, SameAsFlags, FlagRender, Zenon
  <2>3. handle_flag(c) = <<f>> /\ FlagPiece(c, m) = FieldOf(e, m)
    BY <1>2, <2>1, Zenon DEF handle_flag, FlagPiece
  <2>4. PICK gs : gs = fs \o <<f>>
    OBVIOUS
  <2>5. gs = Append(fs, f)
    BY <2>2, <2>4, AddOne, Zenon
  <2>6. gs \in Seq(Formatter) /\ Written(gs, m) = Written(fs, m) \o Render(f, m)
    BY <2>2, <2>5, WrittenMore, Zenon
  <2> QED BY <2>2, <2>3, <2>4, <2>6, Zenon
<1>3. CASE c \notin Flags /\ c \notin DOMAIN SameAs
  <2>1. PICK p, q, a, b : p = <<"%">> /\ q = <<c>> /\ a = Chars(p) /\ b = Chars(q)
    OBVIOUS
  <2>2. p \in Texts /\ q \in Texts /\ p \o q = <<"%", c>>
    BY <2>1, TokenFacts, OneToken, JoinTwo, Zenon
  <2>3. a \in Formatter /\ Render(a, m) = p /\ b \in Formatter /\ Render(b, m) = q
    BY <2>1, <2>2, CharsRender, Zenon
  <2>4. handle_flag(c) = <<a, b>> /\ FlagPiece(c, m) = p \o q
    BY <1>3, <2>1, <2>2, Zenon DEF handle_flag, FlagPiece
  <2>5. PICK gs, hs : gs = Append(fs, a) /\ hs = Append(gs, b)
    OBVIOUS
  <2>6. fs \o <<a, b>> = hs
    <3>1. fs \o <<a, b>> = Append(Append(fs, a), b)
      BY <2>3, AddTwo
    <3> QED BY <2>5, <3>1, Zenon
  <2>7. gs \in Seq(Formatter) /\ Written(gs, m) = Written(fs, m) \o p
    BY <2>3, <2>5, WrittenMore, Zenon
  <2>8. hs \in Seq(Formatter) /\ Written(hs, m) = Written(gs, m) \o q
    BY <2>3, <2>5, <2>7, WrittenMore, Zenon
  <2>9. Written(fs, m) \o (p \o q) = (Written(fs, m) \o p) \o q
    BY <2>2, WrittenType, TextsAssociate, Zenon
  <2> QED BY <2>4, <2>6, <2>7, <2>8, <2>9, Zenon
<1> QED BY <1>1, <1>2, <1>3

(* The list and the characters collected stand for the pattern up to i.    *)
Done(P, i) == IF i > Len(P) THEN Len(P) ELSE i - 1
Compiled(P, m, i, uc, fs) ==
    /\ i \in 1..Len(P) + 2 /\ uc \in Texts /\ fs \in Seq(Formatter)
    /\ i <= Len(P) => ~ FlagsOf(P)[i]
    /\ Written(fs, m) \o uc = UpTo(Pieces(P, m), Done(P, i))

LEMMA CompileChar ==
  ASSUME NEW P \in Seq(Tokens), NEW m \in LogMsgs, NEW i, NEW uc, NEW fs,
         Compiled(P, m, i, uc, fs), i <= Len(P), P[i] # "%"
  PROVE  Compiled(P, m, i + 1, Append(uc, P[i]), fs)
<1>1. PICK n, c, j : n = Len(P) /\ c = P[i] /\ j = i + 1
  OBVIOUS
<1>2. /\ i \in 1..n + 2 /\ uc \in Texts /\ fs \in Seq(Formatter) /\ ~ FlagsOf(P)[i]
      /\ Written(fs, m) \o uc = UpTo(Pieces(P, m), Done(P, i)) /\ n \in Nat
  <2>1. n \in Nat
    BY <1>1
  <2> QED BY <1>1, <2>1, Zenon DEF Compiled
<1>3. i \in 1..n /\ j \in 1..n + 2 /\ Done(P, i) = i - 1 /\ Done(P, j) = i /\ j - 1 = i
  BY <1>1, <1>2 DEF Done
<1>4. c \in Tokens
  BY <1>1, <1>3
<1>5. PieceAt(P, m, i) = <<c>>
  BY <1>1, <1>2, Zenon DEF PieceAt
<1>6. j <= n => ~ FlagsOf(P)[j]
  <2>1. j <= n => j \in 0..n
    BY <1>3
  <2> QED BY <1>1, <1>2, <1>3, <2>1, FlagsAre, Zenon
<1>7. UpTo(Pieces(P, m), i) = UpTo(Pieces(P, m), i - 1) \o <<c>>
  BY <1>1, <1>3, <1>5, PieceNext, Zenon
<1>8. Append(uc, c) = uc \o <<c>> /\ Append(uc, c) \in Texts
  BY <1>2, <1>4 DEF Texts
<1>9. Written(fs, m) \o (uc \o <<c>>) = (Written(fs, m) \o uc) \o <<c>>
  BY <1>2, <1>4, WrittenType, OneToken, TextsAssociate, Zenon
<1>10. Written(fs, m) \o Append(uc, c) = UpTo(Pieces(P, m), Done(P, j))
  BY <1>2, <1>3, <1>7, <1>8, <1>9, Zenon
<1> QED BY <1>1, <1>2, <1>3, <1>6, <1>8, <1>10, Zenon DEF Compiled

LEMMA CompileFlag ==
  ASSUME NEW P \in Seq(Tokens), NEW m \in LogMsgs, NEW i, NEW uc, NEW fs,
         Compiled(P, m, i, uc, fs), i < Len(P), P[i] = "%"
  PROVE  Compiled(P, m, i + 2, << >>, Flushed(fs, uc) \o handle_flag(P[i + 1]))
<1>1. PICK n, k, c, j, gs : /\ n = Len(P) /\ k = i + 1 /\ c = P[k] /\ j = i + 2
                            /\ gs = Flushed(fs, uc)
  OBVIOUS
<1>2. /\ i \in 1..n + 2 /\ uc \in Texts /\ fs \in Seq(Formatter) /\ (i <= n => ~ FlagsOf(P)[i])
      /\ Written(fs, m) \o uc = UpTo(Pieces(P, m), Done(P, i)) /\ n \in Nat
  <2>1. n \in Nat
    BY <1>1
  <2> QED BY <1>1, <2>1, Zenon DEF Compiled
<1>3. /\ i \in 1..n /\ k \in 1..n /\ j \in 1..n + 2 /\ Done(P, i) = i - 1 /\ Done(P, j) = k
      /\ k - 1 = i /\ k \in 0..n /\ k > 1 /\ j - 1 = k /\ i <= n
  BY <1>1, <1>2 DEF Done
<1>4. c \in Tokens
  BY <1>1, <1>3
<1>5. PieceAt(P, m, i) = << >>
  BY <1>2, <1>3, Zenon DEF PieceAt
<1>6. FlagsOf(P)[k]
  BY <1>1, <1>2, <1>3, FlagsAre, Zenon
<1>7. j <= n => ~ FlagsOf(P)[j]
  <2>1. j <= n => j \in 0..n
    BY <1>3
  <2> QED BY <1>1, <1>2, <1>3, <1>6, <2>1, FlagsAre, Zenon
<1>8. PieceAt(P, m, k) = FlagPiece(c, m)
  BY <1>1, <1>6, Zenon DEF PieceAt, FlagPiece
<1>9. PICK A, B, C : /\ A = UpTo(Pieces(P, m), i - 1) /\ B = UpTo(Pieces(P, m), i)
                     /\ C = UpTo(Pieces(P, m), k)
  OBVIOUS
<1>10. A \in Texts /\ B = A \o << >> /\ C = B \o FlagPiece(c, m)
  BY <1>1, <1>3, <1>5, <1>8, <1>9, PieceNext, Zenon
<1>11. B = A
  BY <1>10, NothingAdded, Zenon DEF Texts
<1>12. gs \in Seq(Formatter) /\ Written(gs, m) = A
  BY <1>1, <1>2, <1>3, <1>9, FlushedWrites, Zenon
<1>13. PICK hs : hs = gs \o handle_flag(c)
  OBVIOUS
<1>14. hs \in Seq(Formatter) /\ Written(hs, m) = C
  BY <1>4, <1>10, <1>11, <1>12, <1>13, FlagWrites, Zenon
<1>15. Written(hs, m) \o << >> = C
  BY <1>14, WrittenType, NothingAdded, Zenon DEF Texts
<1>16. Compiled(P, m, j, << >>, hs)
  BY <1>1, <1>3, <1>7, <1>9, <1>14, <1>15, NoToken, Zenon DEF Compiled
<1> QED BY <1>1, <1>13, <1>16, Zenon

LEMMA CompileLast ==
  ASSUME NEW P \in Seq(Tokens), NEW m \in LogMsgs, NEW i, NEW uc, NEW fs,
         Compiled(P, m, i, uc, fs), i = Len(P), P[i] = "%"
  PROVE  Compiled(P, m, i + 2, << >>, Flushed(fs, uc))
<1>1. PICK n, j, gs : n = Len(P) /\ j = i + 2 /\ gs = Flushed(fs, uc)
  OBVIOUS
<1>2. /\ i \in 1..n + 2 /\ uc \in Texts /\ fs \in Seq(Formatter) /\ (i <= n => ~ FlagsOf(P)[i])
      /\ Written(fs, m) \o uc = UpTo(Pieces(P, m), Done(P, i)) /\ n \in Nat
  <2>1. n \in Nat
    BY <1>1
  <2> QED BY <1>1, <2>1, Zenon DEF Compiled
<1>3. /\ i \in 1..n /\ j \in 1..n + 2 /\ Done(P, i) = i - 1 /\ Done(P, j) = i
      /\ i <= n /\ ~(j <= n)
  BY <1>1, <1>2 DEF Done
<1>4. PieceAt(P, m, i) = << >>
  BY <1>2, <1>3, Zenon DEF PieceAt
<1>5. PICK A, B : A = UpTo(Pieces(P, m), i - 1) /\ B = UpTo(Pieces(P, m), i)
  OBVIOUS
<1>6. A \in Texts /\ B = A \o << >>
  BY <1>1, <1>3, <1>4, <1>5, PieceNext, Zenon
<1>7. B = A
  BY <1>6, NothingAdded, Zenon DEF Texts
<1>8. gs \in Seq(Formatter) /\ Written(gs, m) = A
  BY <1>1, <1>2, <1>3, <1>5, FlushedWrites, Zenon
<1>9. Written(gs, m) \o << >> = B
  BY <1>7, <1>8, WrittenType, NothingAdded, Zenon DEF Texts
<1>10. Compiled(P, m, j, << >>, gs)
  BY <1>1, <1>3, <1>5, <1>8, <1>9, NoToken, Zenon DEF Compiled
<1> QED BY <1>1, <1>10, Zenon

LEMMA CompileEnd ==
  ASSUME NEW P \in Seq(Tokens), NEW m \in LogMsgs, NEW i, NEW uc, NEW fs,
         Compiled(P, m, i, uc, fs), i > Len(P)
  PROVE  /\ Flushed(fs, uc) \in Seq(Formatter)
         /\ Written(Flushed(fs, uc), m) = UpTo(Pieces(P, m), Len(P))
<1>1. Done(P, i) = Len(P)
  BY Zenon DEF Done
<1> QED BY <1>1, FlushedWrites, Zenon DEF Compiled

-----------------------------------------------------------------------------
(* While the pattern is compiled, the formatters and the characters        *)
(* collected write what the pattern up to the place means, and the place   *)
(* is never a flag; while the message is formatted, what is written is     *)
(* what the formatters up to the place write.                              *)
Whole(P, m) == UpTo(Pieces(P, m), Len(P))

PInv ==
    /\ pattern \in Patterns /\ log_msg \in LogMsgs
    /\ ppc \in {"compile", "format", "formatted"}
    /\ ppc = "compile" => /\ Compiled(pattern, log_msg, it, user_chars, formatters)
                          /\ formatted = << >>
    /\ ppc = "format" => /\ formatters \in Seq(Formatter) /\ it \in 1..Len(formatters) + 1
                         /\ Written(formatters, log_msg) = Whole(pattern, log_msg)
                         /\ formatted = UpTo(Renders(formatters, log_msg), it - 1)
    /\ ppc = "formatted" => formatted = Whole(pattern, log_msg) \o <<"eol">>

LEMMA SeqOfMore ==
  ASSUME NEW S, NEW T, S \subseteq T, NEW f \in Seq(S)
  PROVE  f \in Seq(T) /\ Len(f) \in Nat
<1>1. f \in [1..Len(f) -> T] /\ Len(f) \in Nat
  OBVIOUS
<1> QED BY <1>1, FunctionIsSeq, Zenon

LEMMA PatternType == ASSUME NEW P \in Patterns PROVE P \in Seq(Tokens) /\ Len(P) \in Nat
<1>1. P \in Seq(STRING) /\ STRING \subseteq Tokens
  BY PatternAssumption, TokenFacts, Zenon
<1> QED BY <1>1, SeqOfMore, Zenon

LEMMA UpToNone == ASSUME NEW G PROVE UpTo(G, 0) = << >>
<1>1. [i \in 1..0 |-> G[i]] = << >>
  OBVIOUS
<1> QED BY <1>1, FlattenEmpty, Zenon DEF UpTo

LEMMA PInvInit == PInit => PInv
<1> SUFFICES ASSUME PInit PROVE PInv
  OBVIOUS
<1>1. /\ pattern \in Patterns /\ log_msg \in LogMsgs /\ ppc = "compile" /\ it = 1
      /\ user_chars = << >> /\ formatters = << >> /\ formatted = << >>
  BY Zenon DEF PInit
<1>2. PICK P, m, fs : P = pattern /\ m = log_msg /\ fs = << >>
  OBVIOUS
<1>3. P \in Seq(Tokens) /\ Len(P) \in Nat /\ m \in LogMsgs
  BY <1>1, <1>2, PatternType, Zenon
<1>4. 1 \in 1..Len(P) + 2 /\ 1 \in 0..Len(P) + 1 /\ Done(P, 1) = 0
  <2>1. Len(P) = 0 \/ ~(1 > Len(P))
    BY <1>3
  <2>2. 1 > 0 /\ 1 - 1 = 0 /\ 1 \in 1..Len(P) + 2 /\ 1 \in 0..Len(P) + 1
    BY <1>3
  <2> QED BY <2>1, <2>2, Zenon DEF Done
<1>5. 1 <= Len(P) => ~ FlagsOf(P)[1]
  <2>1. SUFFICES ASSUME 1 <= Len(P) PROVE ~ FlagsOf(P)[1]
    OBVIOUS
  <2>2. 1 \in 0..Len(P) /\ ~(1 > 1)
    BY <1>3, <2>1
  <2> QED BY <1>3, <2>2, FlagsAre, Zenon
<1>6. fs \in Seq(Formatter) /\ Len(fs) = 0
  BY <1>2
<1>7. Written(fs, m) = << >> /\ UpTo(Pieces(P, m), 0) = << >>
  BY <1>6, UpToNone, Zenon DEF Written
<1>8. << >> \o << >> = << >>
  BY NoToken, NothingAdded, Zenon DEF Texts
<1>9. Compiled(P, m, 1, << >>, fs)
  BY <1>4, <1>5, <1>6, <1>7, <1>8, NoToken, Zenon DEF Compiled
<1>10. Compiled(pattern, log_msg, it, user_chars, formatters)
  BY <1>1, <1>2, <1>9, Zenon
<1>11. ppc # "format" /\ ppc # "formatted" /\ ppc \in {"compile", "format", "formatted"}
  BY <1>1
<1> QED BY <1>1, <1>10, <1>11, Zenon DEF PInv

LEMMA CompileStep == ASSUME PInv, compile_pattern PROVE PInv'
<1>1. /\ ppc = "compile" /\ pattern \in Patterns /\ log_msg \in LogMsgs
      /\ Compiled(pattern, log_msg, it, user_chars, formatters) /\ formatted = << >>
      /\ pattern' = pattern /\ log_msg' = log_msg /\ formatted' = formatted
  BY Zenon DEF PInv, compile_pattern
<1>2. pattern \in Seq(Tokens) /\ Len(pattern) \in Nat
  BY <1>1, PatternType, Zenon
<1>3. Collected = Flushed(formatters, user_chars)
  BY Zenon DEF Collected, Flushed
<1>4. it \in 1..Len(pattern) + 2
  BY <1>1, Zenon DEF Compiled
<1>5. CASE it > Len(pattern)
  <2>1. /\ formatters' = Flushed(formatters, user_chars) /\ user_chars' = << >>
        /\ ppc' = "format" /\ it' = 1
    BY <1>3, <1>5, Zenon DEF compile_pattern
  <2>2. /\ formatters' \in Seq(Formatter)
        /\ Written(formatters', log_msg') = Whole(pattern', log_msg')
    BY <1>1, <1>2, <1>5, <2>1, CompileEnd, Zenon DEF Whole
  <2>3. it' \in 1..Len(formatters') + 1 /\ it' - 1 = 0
    BY <2>1, <2>2
  <2>4. formatted' = UpTo(Renders(formatters', log_msg'), it' - 1)
    BY <1>1, <2>3, UpToNone, Zenon
  <2>5. ppc' # "compile" /\ ppc' # "formatted" /\ ppc' \in {"compile", "format", "formatted"}
    BY <2>1
  <2> QED BY <1>1, <2>1, <2>2, <2>3, <2>4, <2>5, Zenon DEF PInv
<1>6. CASE ~(it > Len(pattern))
  <2>1. SUFFICES /\ ppc' = ppc
                 /\ Compiled(pattern', log_msg', it', user_chars', formatters')
    <3>1. SUFFICES ASSUME ppc' = ppc,
                          Compiled(pattern', log_msg', it', user_chars', formatters')
                   PROVE  PInv'
      OBVIOUS
    <3>2. ppc' # "format" /\ ppc' # "formatted" /\ ppc' \in {"compile", "format", "formatted"}
      BY <1>1, <3>1
    <3> QED BY <1>1, <3>1, <3>2, Zenon DEF PInv
  <2>2. it <= Len(pattern) /\ (it < Len(pattern) \/ (it = Len(pattern) /\ ~(it < Len(pattern))))
    BY <1>2, <1>4, <1>6
  <2>3. CASE pattern[it] # "%"
    <3>1. /\ user_chars' = Append(user_chars, pattern[it]) /\ it' = it + 1
          /\ ppc' = ppc /\ formatters' = formatters
      BY <1>6, <2>3, Zenon DEF compile_pattern
    <3>2. Compiled(pattern, log_msg, it + 1, Append(user_chars, pattern[it]), formatters)
      BY <1>1, <1>2, <2>2, <2>3, CompileChar
    <3> QED BY <1>1, <3>1, <3>2, Zenon
  <2>4. CASE pattern[it] = "%" /\ it < Len(pattern)
    <3>1. /\ formatters' = Flushed(formatters, user_chars) \o handle_flag(pattern[it + 1])
          /\ user_chars' = << >> /\ it' = it + 2 /\ ppc' = ppc
      BY <1>3, <1>6, <2>4, Zenon DEF compile_pattern
    <3>2. Compiled(pattern, log_msg, it + 2, << >>,
                   Flushed(formatters, user_chars) \o handle_flag(pattern[it + 1]))
      BY <1>1, <1>2, <2>4, CompileFlag
    <3> QED BY <1>1, <3>1, <3>2, Zenon
  <2>5. CASE pattern[it] = "%" /\ it = Len(pattern) /\ ~(it < Len(pattern))
    <3>1. /\ formatters' = Flushed(formatters, user_chars)
          /\ user_chars' = << >> /\ it' = it + 2 /\ ppc' = ppc
      BY <1>3, <1>6, <2>5, Zenon DEF compile_pattern
    <3>2. Compiled(pattern, log_msg, it + 2, << >>, Flushed(formatters, user_chars))
      BY <1>1, <1>2, <2>5, CompileLast
    <3> QED BY <1>1, <3>1, <3>2, Zenon
  <2> QED BY <2>2, <2>3, <2>4, <2>5, Zenon
<1> QED BY <1>5, <1>6, Zenon

LEMMA FormatStep == ASSUME PInv, format_line PROVE PInv'
<1>1. /\ ppc = "format" /\ pattern \in Patterns /\ log_msg \in LogMsgs
      /\ formatters \in Seq(Formatter) /\ it \in 1..Len(formatters) + 1
      /\ Written(formatters, log_msg) = Whole(pattern, log_msg)
      /\ formatted = UpTo(Renders(formatters, log_msg), it - 1)
      /\ pattern' = pattern /\ log_msg' = log_msg /\ formatters' = formatters
  BY Zenon DEF PInv, format_line
<1>2. Len(formatters) \in Nat
  BY <1>1
<1>3. CASE it > Len(formatters)
  <2>1. it - 1 = Len(formatters)
    BY <1>1, <1>2, <1>3
  <2>2. formatted = Whole(pattern, log_msg) /\ formatted \in Texts
    BY <1>1, <2>1, WrittenType, Zenon DEF Written
  <2>3. Append(formatted, "eol") = formatted \o <<"eol">>
    BY <2>2, TokenFacts, AddOne, Zenon DEF Texts
  <2>4. formatted' = Append(formatted, "eol") /\ ppc' = "formatted"
    BY <1>3, Zenon DEF format_line
  <2>5. formatted' = Whole(pattern', log_msg') \o <<"eol">>
    BY <1>1, <2>2, <2>3, <2>4, Zenon
  <2>6. ppc' # "compile" /\ ppc' # "format" /\ ppc' \in {"compile", "format", "formatted"}
    BY <2>4
  <2> QED BY <1>1, <2>5, <2>6, Zenon DEF PInv
<1>4. CASE ~(it > Len(formatters))
  <2>1. /\ it \in 1..Len(formatters) /\ it + 1 \in 1..Len(formatters) + 1 /\ (it + 1) - 1 = it
    BY <1>1, <1>2, <1>4
  <2>2. /\ formatted' = formatted \o Render(formatters[it], log_msg)
        /\ it' = it + 1 /\ ppc' = ppc
    BY <1>4, Zenon DEF format_line, Render
  <2>3. UpTo(Renders(formatters, log_msg), it)
          = UpTo(Renders(formatters, log_msg), it - 1) \o Render(formatters[it], log_msg)
    BY <1>1, <2>1, RenderNext, Zenon
  <2>4. formatted' = UpTo(Renders(formatters', log_msg'), it' - 1)
    BY <1>1, <2>1, <2>2, <2>3, Zenon
  <2>5. it' \in 1..Len(formatters') + 1
    BY <1>1, <2>1, <2>2, Zenon
  <2>6. ppc' = "format" /\ ppc' # "compile" /\ ppc' # "formatted"
    BY <1>1, <2>2
  <2>7. ppc' \in {"compile", "format", "formatted"}
    BY <2>6
  <2> QED BY <1>1, <2>4, <2>5, <2>6, <2>7, Zenon DEF PInv
<1> QED BY <1>3, <1>4, Zenon

LEMMA PInvNext == ASSUME PInv, [PNext]_pvars PROVE PInv'
<1>1. CASE PNext
  BY <1>1, CompileStep, FormatStep, Zenon DEF PNext
<1>2. CASE UNCHANGED pvars
  <2>1. /\ pattern' = pattern /\ log_msg' = log_msg /\ ppc' = ppc /\ it' = it
        /\ user_chars' = user_chars /\ formatters' = formatters /\ formatted' = formatted
    BY <1>2, Zenon DEF pvars
  <2> QED BY <2>1, Zenon DEF PInv
<1> QED BY <1>1, <1>2, Zenon

(* What the reference asks for, and what the formatters write: the same    *)
(* when no flag is disputed.                                               *)
NoneDisputed == \A i \in 1..Len(pattern) : ~(FlagAt[i] /\ Disputed(pattern[i], log_msg))
MeantAt(P, m, i) ==
    IF FlagsOf(P)[i]
    THEN IF P[i] \in Flags THEN FieldMeant(P[i], m)
         ELSE IF P[i] \in DOMAIN SameAs THEN FieldMeant(SameAs[P[i]], m)
         ELSE <<"%", P[i]>>
    ELSE IF P[i] = "%" THEN << >> ELSE <<P[i]>>

LEMMA SameAsUndisputed ==
  ASSUME NEW c \in DOMAIN SameAs, NEW m PROVE ~Disputed(SameAs[c], m)
<1>1. c = "h" \/ c = "x" \/ c = "X"
  BY DEF SameAs
<1>2. SameAs["h"] = "b" /\ SameAs["x"] = "D" /\ SameAs["X"] = "T"
  BY DEF SameAs
<1>3. SameAs[c] # "I" /\ SameAs[c] # "r"
  BY <1>1, <1>2
<1> QED BY <1>3, Zenon DEF Disputed

LEMMA LineMeantIs ==
  ASSUME log_msg \in LogMsgs, NoneDisputed
  PROVE  LineMeant = Whole(pattern, log_msg) \o <<"eol">>
<1>1. PICK P, m : P = pattern /\ m = log_msg
  OBVIOUS
<1>2. FlagAt = FlagsOf(P)
  BY <1>1, Zenon DEF FlagAt, FlagsOf, IsFlags
<1>3. ASSUME NEW i \in 1..Len(P) PROVE MeantAt(P, m, i) = PieceAt(P, m, i)
  <2>1. FlagsOf(P)[i] => ~Disputed(P[i], m)
    BY <1>1, <1>2, Zenon DEF NoneDisputed
  <2>2. FlagsOf(P)[i] /\ P[i] \in Flags => FieldMeant(P[i], m) = FieldOf(P[i], m)
    BY <1>1, <2>1, FieldIsMeant, Zenon
  <2>3. P[i] \in DOMAIN SameAs => FieldMeant(SameAs[P[i]], m) = FieldOf(SameAs[P[i]], m)
    BY <1>1, SameAsFlags, SameAsUndisputed, FieldIsMeant, Zenon
  <2> QED BY <2>2, <2>3, Zenon DEF MeantAt, PieceAt
<1>4. PICK D : D = [i \in 1..Len(P) |-> MeantAt(P, m, i)]
  OBVIOUS
<1>5. LineMeant = FlattenSeq(D) \o <<"eol">>
  BY <1>1, <1>2, <1>4, Zenon DEF LineMeant, MeantAt
<1>6. D = [i \in 1..Len(P) |-> PieceAt(P, m, i)]
  BY <1>3, <1>4, Zenon
<1>7. D = [i \in 1..Len(P) |-> D[i]]
  BY <1>6, Zenon
<1>8. D = Pieces(P, m)
  BY <1>6, Zenon DEF Pieces
<1>9. FlattenSeq(D) = Whole(P, m)
  BY <1>7, <1>8, Zenon DEF Whole, UpTo
<1> QED BY <1>1, <1>5, <1>9, Zenon

(* pattern_formatter writes every line as its pattern and the comments at  *)
(* the formatters say, whatever the pattern and the message: each          *)
(* character is kept or replaced by its name or number, with the digits    *)
(* and zeros it should have, in order.  The 12 hour clock in the hour      *)
(* after midnight is the exception: there to12h differs from the comment.  *)
THEOREM PatternIsFormatted == PSpec => []LinesAsMeant
<1>1. ASSUME PInv PROVE LinesAsMeant
  <2>1. SUFFICES ASSUME ppc = "formatted", NoneDisputed PROVE formatted = LineMeant
    BY Zenon DEF LinesAsMeant, NoneDisputed
  <2>2. log_msg \in LogMsgs /\ formatted = Whole(pattern, log_msg) \o <<"eol">>
    BY <1>1, <2>1, Zenon DEF PInv
  <2> QED BY <2>1, <2>2, LineMeantIs, Zenon
<1> QED BY <1>1, PInvInit, PInvNext, PTL DEF PSpec


-----------------------------------------------------------------------------
(* How fmt reads a format string: the Nul ends every part of a field.      *)
LEMMA NotDigit == Nul \notin Digits
<1>1. DOMAIN DecimalDigits = 1..10
  BY DEF DecimalDigits
<1>2. \A i \in 1..10 : DecimalDigits[i] # Nul
  <2> TAKE i \in 1..10
  <2>1. \/ i = 1 \/ i = 2 \/ i = 3 \/ i = 4 \/ i = 5 \/ i = 6 \/ i = 7 \/ i = 8 \/ i = 9 \/ i = 10
    OBVIOUS
  <2>2. /\ DecimalDigits[1] = "0" /\ DecimalDigits[2] = "1" /\ DecimalDigits[3] = "2"
        /\ DecimalDigits[4] = "3" /\ DecimalDigits[5] = "4" /\ DecimalDigits[6] = "5"
        /\ DecimalDigits[7] = "6" /\ DecimalDigits[8] = "7" /\ DecimalDigits[9] = "8"
        /\ DecimalDigits[10] = "9"
    BY DEF DecimalDigits
  <2>3. /\ "0" # Nul /\ "1" # Nul /\ "2" # Nul /\ "3" # Nul /\ "4" # Nul /\ "5" # Nul
        /\ "6" # Nul /\ "7" # Nul /\ "8" # Nul /\ "9" # Nul
    BY DEF Nul
  <2> QED BY <2>1, <2>2, <2>3, Zenon
<1> QED BY <1>1, <1>2, Zenon DEF Digits, ToSet

LEMMA NotInName == ~ is_name_start(Nul)
BY DEF Nul, is_name_start

InString(i) == i \in Int /\ 1 <= i /\ i <= Len(call.str) + 1
IsCall == call \in FormatCalls

LEMMA StringFacts == ASSUME IsCall PROVE Len(call.str) \in Nat /\ DOMAIN call.str = 1..Len(call.str)
<1>1. call.str \in Seq(STRING)
  BY FormatAssumption, Zenon DEF IsCall
<1> QED BY <1>1

LEMMA CharFacts ==
  ASSUME IsCall, NEW i \in Int
  PROVE  (CharAt(i) # Nul => 1 <= i /\ i <= Len(call.str)) /\ CharAt(Len(call.str) + 1) = Nul
<1>1. Len(call.str) \in Nat /\ DOMAIN call.str = 1..Len(call.str)
  BY StringFacts, Zenon
<1>2. CharAt(i) # Nul => i \in 1..Len(call.str)
  BY <1>1, Zenon DEF CharAt
<1>3. Len(call.str) + 1 \notin 1..Len(call.str)
  BY <1>1
<1>4. CharAt(Len(call.str) + 1) = Nul
  BY <1>1, <1>3, Zenon DEF CharAt
<1> QED BY <1>1, <1>2, <1>4

(* The characters of a kind from a place on end within the string.         *)
LEMMA RunExists ==
  ASSUME IsCall, NEW S, Nul \notin S, NEW i, InString(i)
  PROVE  \E n \in 0..Len(call.str) :
           (\A k \in 0..n - 1 : CharAt(i + k) \in S) /\ CharAt(i + n) \notin S
<1>1. PICK l : l = Len(call.str)
  OBVIOUS
<1>2. l \in Nat /\ i \in Int /\ 1 <= i /\ i <= l + 1
  BY <1>1, StringFacts, Zenon DEF InString
<1>3. PICK T : T = {n \in Nat : CharAt(i + n) \notin S}
  OBVIOUS
<1>4. PICK d : d = l + 1 - i
  OBVIOUS
<1>5. d \in Nat /\ i + d = l + 1 /\ d <= l
  BY <1>2, <1>4
<1>6. d \in T
  <2>1. CharAt(l + 1) = Nul
    BY <1>1, <1>2, CharFacts, Zenon
  <2> QED BY <1>3, <1>5, <2>1, Zenon
<1>7. PICK n \in T : \A y \in T : n <= y
  BY <1>3, <1>6, LeastNumber
<1>8. n \in Nat /\ n <= d /\ CharAt(i + n) \notin S
  BY <1>3, <1>6, <1>7, Zenon
<1>9. n \in 0..l
  BY <1>2, <1>5, <1>8
<1>10. \A k \in 0..n - 1 : CharAt(i + k) \in S
  <2> TAKE k \in 0..n - 1
  <2>1. k \in Nat /\ ~(n <= k)
    BY <1>8
  <2> QED BY <1>3, <1>7, <2>1, Zenon
<1> QED BY <1>1, <1>8, <1>9, <1>10

LEMMA RunEnds ==
  ASSUME IsCall, NEW S, Nul \notin S, NEW i, InString(i), NEW n \in Nat,
         \A k \in 0..n - 1 : CharAt(i + k) \in S
  PROVE  InString(i + n) /\ i <= i + n
<1>1. PICK l : l = Len(call.str)
  OBVIOUS
<1>2. l \in Nat /\ i \in Int /\ 1 <= i /\ i <= l + 1
  BY <1>1, StringFacts, Zenon DEF InString
<1>3. CASE n = 0
  BY <1>1, <1>2, <1>3 DEF InString
<1>4. CASE n # 0
  <2>1. PICK k : k = n - 1
    OBVIOUS
  <2>2. k \in 0..n - 1 /\ i + k \in Int
    BY <1>2, <1>4, <2>1
  <2>3. CharAt(i + k) # Nul
    BY <2>2, Zenon
  <2>4. i + k <= l
    BY <1>1, <2>2, <2>3, CharFacts, Zenon
  <2> QED BY <1>1, <1>2, <2>1, <2>2, <2>4 DEF InString
<1> QED BY <1>3, <1>4

LEMMA NumberEnds ==
  ASSUME IsCall, NEW i, InString(i)
  PROVE  InString(parse_nonnegative_int(i).end) /\ i <= parse_nonnegative_int(i).end
<1> DEFINE Q(n) == (\A k \in 0..n - 1 : CharAt(i + k) \in Digits) /\ CharAt(i + n) \notin Digits
           r == CHOOSE n \in 0..Len(call.str) : Q(n)
<1>1. \E n \in 0..Len(call.str) : Q(n)
  BY NotDigit, RunExists, Zenon
<1>2. r \in 0..Len(call.str) /\ Q(r)
  <2> HIDE DEF Q
  <2> QED BY <1>1, Zenon
<1>3. parse_nonnegative_int(i).end = i + r
  BY DEF parse_nonnegative_int
<1> HIDE DEF r
<1>4. r \in Nat
  BY <1>2, StringFacts
<1>5. InString(i + r) /\ i <= i + r
  BY <1>2, <1>4, NotDigit, RunEnds, Zenon
<1> QED BY <1>3, <1>5, Zenon

NameChars == Digits \cup {"a", "b", "c", "d", "n", "o", "p", "s", "x", "B", "X", "_"}

LEMMA NameCharsAre ==
  ASSUME NEW c PROVE (is_name_start(c) \/ c \in Digits) <=> c \in NameChars
BY Zenon DEF NameChars, is_name_start

LEMMA NameEnds ==
  ASSUME IsCall, NEW i, InString(i)
  PROVE  InString(parse_arg_name(i).end) /\ i <= parse_arg_name(i).end
<1> DEFINE Q(e) == /\ \A k \in i..e - 1 : is_name_start(CharAt(k)) \/ CharAt(k) \in Digits
                   /\ ~ is_name_start(CharAt(e)) /\ CharAt(e) \notin Digits
           r == CHOOSE e \in i..Len(call.str) + 1 : Q(e)
<1>1. PICK l : l = Len(call.str)
  OBVIOUS
<1>2. l \in Nat /\ i \in Int /\ 1 <= i /\ i <= l + 1
  BY <1>1, StringFacts, Zenon DEF InString
<1>3. Nul \notin NameChars
  BY NotDigit, NotInName, NameCharsAre, Zenon
<1>4. PICK n \in 0..l : (\A k \in 0..n - 1 : CharAt(i + k) \in NameChars)
                        /\ CharAt(i + n) \notin NameChars
  BY <1>1, <1>3, RunExists, Zenon
<1>5. InString(i + n) /\ n \in Nat
  <2>1. n \in Nat
    BY <1>2
  <2> QED BY <1>3, <1>4, <2>1, RunEnds, Zenon
<1>6. \E e \in i..l + 1 : Q(e)
  <2>1. PICK e : e = i + n
    OBVIOUS
  <2>2. e \in i..l + 1
    BY <1>1, <1>2, <1>5, <2>1 DEF InString
  <2>3. \A k \in i..e - 1 : CharAt(k) \in NameChars
    <3> TAKE k \in i..e - 1
    <3>1. k - i \in 0..n - 1 /\ i + (k - i) = k
      BY <1>2, <1>5, <2>1
    <3> QED BY <1>4, <3>1, Zenon
  <2>4. CharAt(e) \notin NameChars
    BY <1>4, <2>1, Zenon
  <2>5. Q(e)
    BY <2>3, <2>4, NameCharsAre, Zenon
  <2> HIDE DEF Q
  <2> QED BY <2>2, <2>5, Zenon
<1>7. r \in i..l + 1
  <2> HIDE DEF Q
  <2> QED BY <1>1, <1>6, Zenon
<1>8. parse_arg_name(i).end = r
  BY DEF parse_arg_name, Found
<1> HIDE DEF r
<1> QED BY <1>1, <1>2, <1>7, <1>8 DEF InString

LEMMA ArgumentEnds ==
  ASSUME IsCall, NEW i, InString(i)
  PROVE  InString(parse_argument(i).end) /\ i <= parse_argument(i).end
<1>1. i \in Int
  BY Zenon DEF InString
<1>2. CharAt(i) \in Digits => parse_arg_index(i).end = parse_nonnegative_int(i).end
  BY DEF parse_arg_index, Found
<1>3. CharAt(i) \notin Digits => parse_arg_index(i).end = i
  BY DEF parse_arg_index, Found
<1>4. i <= i
  BY <1>1
<1>5. InString(parse_arg_index(i).end) /\ i <= parse_arg_index(i).end
  BY <1>2, <1>3, <1>4, NumberEnds, Zenon
<1> QED BY <1>5, NameEnds, Zenon DEF parse_argument

IsNested(i) == CharAt(i) = "{" /\ ~ Nested(i).error

LEMMA NestedEnds ==
  ASSUME IsCall, NEW i, InString(i), IsNested(i)
  PROVE  InString(Nested(i).end) /\ i <= Nested(i).end
<1>0. PICK l, j : l = Len(call.str) /\ j = i + 1
  OBVIOUS
<1>1. PICK e : e = parse_argument(j).end
  OBVIOUS
<1>2. l \in Nat /\ i \in Int /\ 1 <= i
  BY <1>0, StringFacts, Zenon DEF InString
<1>3. "{" # Nul /\ "}" # Nul
  BY DEF Nul
<1>4. i <= l
  BY <1>0, <1>2, <1>3, CharFacts, Zenon DEF IsNested
<1>5. InString(j)
  <2>1. j \in Int /\ 1 <= j /\ j <= l + 1
    BY <1>0, <1>2, <1>4
  <2> QED BY <1>0, <2>1, Zenon DEF InString
<1>6. InString(e) /\ j <= e
  BY <1>1, <1>5, ArgumentEnds, Zenon
<1>7. Nested(i).end = e + 1
  BY <1>0, <1>1 DEF Nested
<1>8. CharAt(e) = "}"
  BY <1>0, <1>1 DEF Nested, IsNested
<1>9. e \in Int
  BY <1>6, Zenon DEF InString
<1>10. e <= l
  BY <1>0, <1>3, <1>8, <1>9, CharFacts, Zenon
<1>11. InString(e + 1) /\ i <= e + 1
  <2>1. j \in Int
    BY <1>0, <1>2
  <2>2. e + 1 \in Int /\ 1 <= e + 1 /\ e + 1 <= l + 1 /\ i <= e + 1
    BY <1>0, <1>2, <1>6, <1>9, <1>10
  <2> QED BY <1>0, <2>2, Zenon DEF InString
<1> QED BY <1>7, <1>11, Zenon

-----------------------------------------------------------------------------
(* The pointer is in the string or at its Nul, after what is still to be   *)
(* copied, and at a colon when a specification is about to be read.        *)
SInv ==
    /\ IsCall /\ InString(s)
    /\ start \in Int /\ 1 <= start /\ start <= s
    /\ fpc = "align" => CharAt(s) = ":"

(* A step that leaves the pointer at e, in the string and not before it.   *)
MovesTo(e) == /\ InString(e) /\ s <= e /\ s' = e
              /\ call' = call /\ start' = start /\ fpc' # "align"

LEMMA SInvFacts ==
  ASSUME SInv
  PROVE  s \in Int /\ 1 <= s /\ s <= Len(call.str) + 1 /\ start \in Int /\ start <= s /\ s <= s
<1>1. s \in Int /\ 1 <= s /\ s <= Len(call.str) + 1 /\ start \in Int /\ start <= s
  BY Zenon DEF SInv, InString
<1>2. s <= s
  BY <1>1
<1> QED BY <1>1, <1>2, Zenon

LEMMA MovesKeep == ASSUME SInv, NEW e, MovesTo(e) PROVE SInv'
<1>1. e \in Int /\ start <= e
  <2>1. e \in Int /\ s \in Int /\ start \in Int /\ s <= e /\ start <= s
    BY Zenon DEF SInv, InString, MovesTo
  <2> QED BY <2>1
<1>2. IsCall' /\ InString(s)'
  BY Zenon DEF SInv, MovesTo, IsCall, InString
<1>3. start' \in Int /\ 1 <= start' /\ start' <= s'
  BY <1>1, Zenon DEF SInv, MovesTo
<1> QED BY <1>2, <1>3, Zenon DEF SInv, MovesTo

LEMMA ThrowKeeps == ASSUME SInv, Throw PROVE SInv'
<1>1. /\ s' = s /\ call' = call /\ start' = start /\ fpc' = "error"
  BY Zenon DEF Throw
<1>2. fpc' # "align"
  BY <1>1
<1>3. MovesTo(s)
  BY <1>1, <1>2, SInvFacts, Zenon DEF MovesTo, SInv
<1> QED BY <1>3, MovesKeep, Zenon

(* One character that is not the Nul, or two, can be passed.               *)
LEMMA PassedOver ==
  ASSUME IsCall, NEW i \in Int, 1 <= i, CharAt(i) # Nul
  PROVE  InString(i) /\ InString(i + 1) /\ i <= i + 1
<1>1. PICK l : l = Len(call.str)
  OBVIOUS
<1>2. l \in Nat /\ i <= l
  BY <1>1, StringFacts, CharFacts, Zenon
<1>3. i <= l + 1 /\ i + 1 \in Int /\ 1 <= i + 1 /\ i + 1 <= l + 1 /\ i <= i + 1
  BY <1>2
<1> QED BY <1>1, <1>3, Zenon DEF InString

(* What every part of a specification comes to.                            *)
PartTo(end) == Throw \/ (s' = end /\ call' = call /\ start' = start /\ fpc' # "align")

LEMMA PartKeeps == ASSUME SInv, NEW end, InString(end), s <= end, PartTo(end) PROVE SInv'
<1>1. CASE Throw
  BY <1>1, ThrowKeeps
<1>2. CASE s' = end /\ call' = call /\ start' = start /\ fpc' # "align"
  <2>1. MovesTo(end)
    BY <1>2, Zenon DEF MovesTo
  <2> QED BY <2>1, MovesKeep, Zenon
<1> QED BY <1>1, <1>2, Zenon DEF PartTo

LEMMA PartIs ==
  ASSUME NEW now, NEW next, next # "align", NEW error, NEW end, NEW new,
         Part(now, next, error, end, new)
  PROVE  PartTo(end)
BY Zenon DEF Part, PartTo

LEMMA HerePart == ASSUME SInv, PartTo(s) PROVE SInv'
BY SInvFacts, PartKeeps, Zenon DEF SInv

LEMMA NextPart == ASSUME SInv, CharAt(s) # Nul, PartTo(s + 1) PROVE SInv'
<1>1. InString(s + 1) /\ s <= s + 1
  BY SInvFacts, PassedOver, Zenon DEF SInv
<1> QED BY <1>1, PartKeeps, Zenon

LEMMA SignKeeps == ASSUME SInv, Sign PROVE SInv'
<1>1. CharAt(s) \in {"+", "-", " "} => CharAt(s) # Nul
  BY DEF Nul
<1>2. "hash" # "align"
  OBVIOUS
<1>3. PartTo(s) \/ (CharAt(s) \in {"+", "-", " "} /\ PartTo(s + 1))
  BY <1>2, PartIs, Zenon DEF Sign
<1> QED BY <1>1, <1>3, HerePart, NextPart, Zenon

LEMMA HashKeeps == ASSUME SInv, Hash PROVE SInv'
<1>1. CharAt(s) = "#" => CharAt(s) # Nul
  BY DEF Nul
<1>2. "zero" # "align"
  OBVIOUS
<1>3. PartTo(s) \/ (CharAt(s) = "#" /\ PartTo(s + 1))
  BY <1>2, PartIs, Zenon DEF Hash
<1> QED BY <1>1, <1>3, HerePart, NextPart, Zenon

LEMMA ZeroKeeps == ASSUME SInv, Zero PROVE SInv'
<1>1. CharAt(s) = "0" => CharAt(s) # Nul
  BY DEF Nul
<1>2. "width" # "align"
  OBVIOUS
<1>3. PartTo(s) \/ (CharAt(s) = "0" /\ PartTo(s + 1))
  BY <1>2, PartIs, Zenon DEF Zero
<1> QED BY <1>1, <1>3, HerePart, NextPart, Zenon

LEMMA TypeKeeps == ASSUME SInv, Type PROVE SInv'
<1>1. "close" # "align"
  OBVIOUS
<1>2. PartTo(s) \/ (CharAt(s) \notin {"}", Nul} /\ PartTo(s + 1))
  BY <1>1, PartIs, Zenon DEF Type
<1>3. CharAt(s) \notin {"}", Nul} => CharAt(s) # Nul
  BY Zenon
<1> QED BY <1>2, <1>3, HerePart, NextPart, Zenon

LEMMA WidthKeeps == ASSUME SInv, Width PROVE SInv'
<1>1. "precision" # "align"
  OBVIOUS
<1>2. PICK n, p : n = parse_nonnegative_int(s) /\ p = Nested(s)
  OBVIOUS
<1>3. PartTo(s) \/ PartTo(n.end) \/ Throw \/ (IsNested(s) /\ PartTo(p.end))
  BY <1>1, <1>2, PartIs, Zenon DEF Width, IsNested, PartTo
<1>4. IsCall /\ InString(s)
  BY Zenon DEF SInv
<1>5. InString(n.end) /\ s <= n.end
  BY <1>2, <1>4, NumberEnds, Zenon
<1>6. IsNested(s) => InString(p.end) /\ s <= p.end
  BY <1>2, <1>4, NestedEnds, Zenon
<1> QED BY <1>3, <1>5, <1>6, HerePart, PartKeeps, ThrowKeeps, Zenon

LEMMA PrecisionKeeps == ASSUME SInv, Precision PROVE SInv'
<1>1. "type" # "align"
  OBVIOUS
<1>2. PICK j : j = s + 1
  OBVIOUS
<1>3. PICK n, p : n = parse_nonnegative_int(j) /\ p = Nested(j)
  OBVIOUS
<1>4. \/ PartTo(s) \/ Throw \/ (CharAt(s) = "." /\ PartTo(n.end))
      \/ (CharAt(s) = "." /\ IsNested(j) /\ PartTo(p.end))
  BY <1>1, <1>2, <1>3, PartIs, Zenon DEF Precision, IsNested, PartTo
<1>5. SUFFICES ASSUME CharAt(s) = ".", PartTo(n.end) \/ (IsNested(j) /\ PartTo(p.end))
               PROVE  SInv'
  BY <1>4, HerePart, ThrowKeeps, Zenon
<1>6. CharAt(s) # Nul
  BY <1>5 DEF Nul
<1>7. IsCall /\ s \in Int /\ 1 <= s /\ InString(j) /\ s <= j
  BY <1>2, <1>6, SInvFacts, PassedOver, Zenon DEF SInv
<1>8. InString(n.end) /\ j <= n.end
  BY <1>3, <1>7, NumberEnds, Zenon
<1>9. IsNested(j) => InString(p.end) /\ j <= p.end
  BY <1>3, <1>7, NestedEnds, Zenon
<1>10. ASSUME NEW e, InString(e), j <= e PROVE s <= e
  <2>1. e \in Int /\ j \in Int
    BY <1>7, <1>10, Zenon DEF InString
  <2>2. s \in Int /\ s <= j
    BY <1>7, Zenon
  <2> HIDE <1>5
  <2> QED BY <1>10, <2>1, <2>2
<1> QED BY <1>5, <1>8, <1>9, <1>10, PartKeeps, Zenon

LEMMA AlignKeeps == ASSUME SInv, Align PROVE SInv'
<1>1. "sign" # "align"
  OBVIOUS
<1>2. PICK i : i = s + 1
  OBVIOUS
<1>3. fpc = "align"
  BY Zenon DEF Align, Part
<1>4. CharAt(s) # Nul
  <2>1. CharAt(s) = ":"
    BY <1>3, Zenon DEF SInv
  <2> QED BY <2>1 DEF Nul
<1>5. IsCall /\ InString(i) /\ s <= i /\ i \in Int /\ 1 <= i /\ s \in Int
  BY <1>2, <1>4, SInvFacts, PassedOver, Zenon DEF SInv, InString
<1>6. \/ PartTo(i) \/ (CharAt(i) # Nul /\ PartTo(i + 1))
      \/ (CharAt(i + 1) \in DOMAIN Aligns /\ PartTo(i + 2))
  BY <1>1, <1>2, PartIs, Zenon DEF Align
<1>7. CASE PartTo(i)
  BY <1>5, <1>7, PartKeeps, Zenon
<1>8. CASE CharAt(i) # Nul /\ PartTo(i + 1)
  <2>1. InString(i + 1) /\ i <= i + 1
    BY <1>5, <1>8, PassedOver, Zenon
  <2>2. s <= i + 1
    BY <1>2, <1>5
  <2> QED BY <1>8, <2>1, <2>2, PartKeeps, Zenon
<1>9. CASE CharAt(i + 1) \in DOMAIN Aligns /\ PartTo(i + 2)
  <2>1. CharAt(i + 1) \in {"<", ">", "=", "^"}
    BY <1>9, Zenon DEF Aligns
  <2>2. CharAt(i + 1) # Nul
    BY <2>1 DEF Nul
  <2>3. i + 1 \in Int /\ 1 <= i + 1 /\ (i + 1) + 1 = i + 2 /\ s <= i + 2
    BY <1>2, <1>5
  <2>4. InString(i + 2)
    BY <1>5, <2>2, <2>3, PassedOver, Zenon
  <2> QED BY <1>9, <2>3, <2>4, PartKeeps, Zenon
<1> QED BY <1>6, <1>7, <1>8, <1>9, Zenon

LEMMA ArgumentKeeps == ASSUME SInv, Argument PROVE SInv'
<1>1. PICK p : p = parse_argument(s)
  OBVIOUS
<1>2. Throw \/ (/\ s' = p.end /\ call' = call /\ start' = start
                /\ fpc' = IF CharAt(p.end) = ":" THEN "align" ELSE "close")
  BY <1>1, Zenon DEF Argument
<1>3. SUFFICES ASSUME s' = p.end, call' = call, start' = start,
                      fpc' = IF CharAt(p.end) = ":" THEN "align" ELSE "close"
               PROVE  SInv'
  BY <1>2, ThrowKeeps, Zenon
<1>4. InString(p.end) /\ s <= p.end
  BY <1>1, ArgumentEnds, Zenon DEF SInv
<1>5. PICK e : e = p.end
  OBVIOUS
<1>6. e \in Int /\ s \in Int /\ start \in Int /\ start <= s /\ s <= e
  BY <1>4, <1>5, Zenon DEF SInv, InString
<1>7. start <= e
  BY <1>6
<1>8. "close" # "align"
  OBVIOUS
<1>9. IsCall' /\ InString(s)'
  BY <1>3, <1>4, Zenon DEF SInv, IsCall, InString
<1>10. fpc' = "align" => CharAt(s)' = ":"
  BY <1>3, <1>8, Zenon DEF CharAt
<1> QED BY <1>3, <1>5, <1>7, <1>9, <1>10, Zenon DEF SInv

(* The copied part starts where the pointer goes.                          *)
LEMMA RestartKeeps ==
  ASSUME SInv, NEW e, InString(e), s' = e, start' = e, call' = call, fpc' # "align"
  PROVE  SInv'
<1>1. e \in Int /\ 1 <= e
  BY Zenon DEF InString
<1>2. e <= e
  BY <1>1
<1>3. IsCall' /\ InString(s)'
  BY Zenon DEF SInv, IsCall, InString
<1> QED BY <1>1, <1>2, <1>3, Zenon DEF SInv

LEMMA TextKeeps == ASSUME SInv, Text PROVE SInv'
<1>1. PICK c : c = CharAt(s)
  OBVIOUS
<1>2. /\ call' = call /\ fpc = "text"
      /\ \/ fpc' = "done" /\ s' = s /\ start' = start
         \/ c # Nul /\ s' = s + 1 /\ fpc' = fpc /\ start' = start
         \/ /\ c \in {"{", "}"} /\ CharAt(s + 1) = c
            /\ s' = s + 2 /\ start' = s + 2 /\ fpc' = fpc
         \/ fpc' = "error" /\ s' = s /\ start' = start
         \/ c = "{" /\ s' = s + 1 /\ fpc' = "argument" /\ start' = start
  BY <1>1, Zenon DEF Text
<1>3. fpc' # "align"
  BY <1>2
<1>4. c \in {"{", "}"} => c # Nul
  BY DEF Nul
<1>5. c = "{" => c # Nul
  BY DEF Nul
<1>6. \/ s' = s /\ start' = start
      \/ c # Nul /\ s' = s + 1 /\ start' = start
      \/ c # Nul /\ CharAt(s + 1) = c /\ s' = s + 2 /\ start' = s + 2
  BY <1>2, <1>4, <1>5, Zenon
<1>7. CASE s' = s /\ start' = start
  BY <1>2, <1>3, <1>7, HerePart, Zenon DEF PartTo
<1>8. CASE c # Nul /\ s' = s + 1 /\ start' = start
  BY <1>1, <1>2, <1>3, <1>8, NextPart, Zenon DEF PartTo
<1>9. CASE c # Nul /\ CharAt(s + 1) = c /\ s' = s + 2 /\ start' = s + 2
  <2>1. s \in Int /\ 1 <= s /\ IsCall
    BY SInvFacts, Zenon DEF SInv
  <2>2. s + 1 \in Int /\ 1 <= s + 1 /\ (s + 1) + 1 = s + 2
    BY <2>1
  <2>3. InString(s + 2)
    BY <1>9, <2>1, <2>2, PassedOver, Zenon
  <2> QED BY <1>2, <1>3, <1>9, <2>3, RestartKeeps, Zenon
<1> QED BY <1>6, <1>7, <1>8, <1>9, Zenon

LEMMA CloseKeeps == ASSUME SInv, Close PROVE SInv'
<1>1. Throw \/ (/\ CharAt(s) = "}" /\ s' = s + 1 /\ start' = s + 1 /\ fpc' = "text"
                /\ call' = call)
  BY Zenon DEF Close
<1>2. SUFFICES ASSUME CharAt(s) = "}", s' = s + 1, start' = s + 1, fpc' = "text", call' = call
               PROVE  SInv'
  BY <1>1, ThrowKeeps, Zenon
<1>3. CharAt(s) # Nul /\ fpc' # "align"
  BY <1>2 DEF Nul
<1>4. InString(s + 1)
  BY <1>3, SInvFacts, PassedOver, Zenon DEF SInv
<1> QED BY <1>2, <1>3, <1>4, RestartKeeps, Zenon

(* fmt's format stays within the format string, whatever the string, the   *)
(* arguments and the width of unsigned: every part of a replacement field  *)
(* ends at the Nul at the latest, where the next check throws.             *)
THEOREM FormatStaysInString == FSpec => []StaysInString
<1>1. FInit => SInv
  <2>1. SUFFICES ASSUME FInit PROVE SInv
    OBVIOUS
  <2>2. call \in FormatCalls /\ fpc = "text" /\ s = 1 /\ start = 1
    BY <2>1, Zenon DEF FInit
  <2>3. IsCall
    BY <2>2, Zenon DEF IsCall
  <2>4. PICK l : l = Len(call.str)
    OBVIOUS
  <2>5. l \in Nat
    BY <2>3, <2>4, StringFacts, Zenon
  <2>6. 1 \in Int /\ 1 <= 1 /\ 1 <= l + 1
    BY <2>5
  <2>7. fpc # "align"
    BY <2>2
  <2> QED BY <2>2, <2>3, <2>4, <2>6, <2>7, Zenon DEF SInv, InString
<1>2. SInv /\ [FNext]_fvars => SInv'
  <2>1. SUFFICES ASSUME SInv, [FNext]_fvars PROVE SInv'
    OBVIOUS
  <2>2. CASE FNext
    BY <2>1, <2>2, TextKeeps, ArgumentKeeps, AlignKeeps, SignKeeps, HashKeeps, ZeroKeeps,
       WidthKeeps, PrecisionKeeps, TypeKeeps, CloseKeeps, Zenon DEF FNext
  <2>3. CASE UNCHANGED fvars
    BY <2>1, <2>3, Zenon DEF fvars, SInv, IsCall, InString, CharAt
  <2> QED BY <2>1, <2>2, <2>3, Zenon
<1>3. SInv => StaysInString
  BY Zenon DEF SInv, InString, StaysInString
<1> QED BY <1>1, <1>2, <1>3, PTL DEF FSpec
=============================================================================
