--------------------------- MODULE PreludeProofs ---------------------------
(***************************************************************************)
(* The password arrives as it was sent, for every length of token, nonce,  *)
(* tag, header and RSA block, all passwords, tokens and keys.              *)
(*                                                                         *)
(* The loops of security.rs are recursive functions in Prelude. What they  *)
(* compute is shown by the least number for which it would fail.           *)
(***************************************************************************)
EXTENDS Prelude, SequenceTheorems, WellFoundedInduction, TLAPS

-----------------------------------------------------------------------------
(* Recursion and induction over the naturals.                              *)

\* A set of naturals that is not empty has a least element.
LEMMA LeastNatural ==
    ASSUME NEW S, S \subseteq Nat, S # {}
    PROVE  \E m \in S : \A k \in S : m <= k
<1> DEFINE R == OpToRel(<, Nat)
<1>1. IsWellFoundedOn(R, Nat)
  BY NatLessThanWellFounded
<1>2. PICK m \in S : \A k \in S : ~ (<<k, m>> \in R)
  <2> HIDE DEF R
  <2> QED
    BY <1>1, WFMin
<1>3. \A k \in S : ~ (k < m)
  BY <1>2 DEF OpToRel
<1> QED
  BY <1>3

\* A set of naturals that holds 0 and with n the next number holds all up to N.
LEMMA UpTo ==
    ASSUME NEW N \in Nat, NEW P, 0 \in P, \A n \in 0 .. N : n < N /\ n \in P => n + 1 \in P
    PROVE  0 .. N \subseteq P
<1> DEFINE S == {n \in 0 .. N : n \notin P}
<1>1. SUFFICES ASSUME S # {} PROVE FALSE
  OBVIOUS
<1>2. PICK m \in S : \A k \in S : m <= k
  <2>1. S \subseteq Nat
    OBVIOUS
  <2>2. QED
    BY <1>1, <2>1, LeastNatural
<1>3. m # 0 /\ m - 1 \in 0 .. N /\ m - 1 < N
  BY <1>2
<1>4. m - 1 \in P
  BY <1>2, <1>3
<1>5. m - 1 + 1 \in P
  BY <1>3, <1>4
<1>6. QED
  BY <1>2, <1>3, <1>5

\* f is computed by a loop that starts with a and takes x to step[i][x] in its i-th
\* round, for N rounds.
Loop(f, N, V, a, step) ==
    /\ f \in [0 .. N -> V]
    /\ f[0] = a
    /\ \A i \in 1 .. N : f[i] = step[i][f[i - 1]]

\* Every loop computes a function.
LEMMA LoopExists ==
    ASSUME NEW V, NEW a \in V, NEW step, NEW N \in Nat,
           \A i \in 1 .. N : \A x \in V : step[i][x] \in V
    PROVE  \E f : Loop(f, N, V, a, step)
<1> DEFINE P == {n \in 0 .. N : \E f : Loop(f, n, V, a, step)}
<1>1. 0 \in P
  <2>1. Loop([i \in 0 .. 0 |-> a], 0, V, a, step)
    BY DEF Loop
  <2>2. QED
    BY <2>1
<1>2. ASSUME NEW n \in 0 .. N, n < N, n \in P PROVE n + 1 \in P
  <2>1. PICK f : Loop(f, n, V, a, step)
    BY <1>2
  <2> DEFINE g == [i \in 0 .. n + 1 |-> IF i <= n THEN f[i] ELSE step[n + 1][f[n]]]
  <2>2. step[n + 1][f[n]] \in V
    <3>1. n + 1 \in 1 .. N /\ f[n] \in V
      BY <1>2, <2>1 DEF Loop
    <3>2. QED
      BY <3>1
  <2>3. g \in [0 .. n + 1 -> V] /\ g[0] = a
    BY <1>2, <2>1, <2>2 DEF Loop
  <2>4. ASSUME NEW i \in 1 .. n + 1 PROVE g[i] = step[i][g[i - 1]]
    <3>1. CASE i <= n
      <4>1. i \in 1 .. n /\ g[i] = f[i] /\ g[i - 1] = f[i - 1]
        BY <1>2, <3>1
      <4>2. QED
        BY <2>1, <4>1 DEF Loop
    <3>2. CASE i = n + 1
      <4>1. g[i] = step[i][f[n]] /\ g[i - 1] = f[n]
        BY <1>2, <3>2
      <4>2. QED
        BY <4>1
    <3>3. QED
      BY <1>2, <3>1, <3>2
  <2>5. Loop(g, n + 1, V, a, step)
    <3> HIDE DEF g
    <3> QED
      BY <2>3, <2>4 DEF Loop
  <2>6. QED
    BY <1>2, <2>5
<1>3. 0 .. N \subseteq P
  <2> HIDE DEF P
  <2> QED
    BY <1>1, <1>2, UpTo
<1>4. QED
  BY <1>3

\* Two loops that do the same agree as far as both go.
LEMMA LoopsAgree ==
    ASSUME NEW V, NEW a, NEW step, NEW N \in Nat, NEW M \in Nat, N <= M,
           NEW f, NEW g, Loop(f, N, V, a, step), Loop(g, M, V, a, step)
    PROVE  \A n \in 0 .. N : f[n] = g[n]
<1> DEFINE P == {n \in 0 .. N : f[n] = g[n]}
<1>1. 0 \in P
  BY DEF Loop
<1>2. ASSUME NEW n \in 0 .. N, n < N, n \in P PROVE n + 1 \in P
  <2>1. n + 1 \in 1 .. N /\ n + 1 \in 1 .. M /\ n + 1 - 1 = n
    BY <1>2
  <2>2. f[n + 1] = step[n + 1][f[n]] /\ g[n + 1] = step[n + 1][g[n]]
    BY <2>1 DEF Loop
  <2>3. QED
    BY <1>2, <2>1, <2>2
<1>3. 0 .. N \subseteq P
  <2> HIDE DEF P
  <2> QED
    BY <1>1, <1>2, UpTo
<1>4. QED
  BY <1>3

\* The same for a loop without end.
Endless(f, V, a, step) ==
    /\ f \in [Nat -> V]
    /\ f[0] = a
    /\ \A i \in Nat \ {0} : f[i] = step[i][f[i - 1]]

\* A loop without end computes a function of all naturals.
LEMMA EndlessLoop ==
    ASSUME NEW V, NEW a \in V, NEW step,
           \A i \in Nat \ {0} : \A x \in V : step[i][x] \in V
    PROVE  \E f : Endless(f, V, a, step)
<1> DEFINE C(n) == CHOOSE f : Loop(f, n, V, a, step)
           h == [n \in Nat |-> C(n)[n]]
<1>1. ASSUME NEW n \in Nat PROVE Loop(C(n), n, V, a, step)
  <2>1. \E f : Loop(f, n, V, a, step)
    <3>1. \A i \in 1 .. n : \A x \in V : step[i][x] \in V
      OBVIOUS
    <3>2. QED
      BY <3>1, LoopExists
  <2>2. QED
    BY <2>1
<1> HIDE DEF C
<1>2. \A n \in Nat : h[n] = C(n)[n]
  OBVIOUS
<1>3. ASSUME NEW n \in Nat PROVE h[n] \in V
  <2>1. C(n) \in [0 .. n -> V] /\ n \in 0 .. n
    BY <1>1 DEF Loop
  <2>2. QED
    BY <1>2, <2>1
<1>4. h[0] = a
  BY <1>1, <1>2 DEF Loop
<1>5. ASSUME NEW i \in Nat \ {0} PROVE h[i] = step[i][h[i - 1]]
  <2>1. i - 1 \in Nat /\ i \in Nat /\ i - 1 <= i
    OBVIOUS
  <2>2. Loop(C(i), i, V, a, step) /\ Loop(C(i - 1), i - 1, V, a, step)
    BY <1>1, <2>1
  <2>3. \A n \in 0 .. i - 1 : C(i - 1)[n] = C(i)[n]
    BY <2>1, <2>2, LoopsAgree
  <2>4. C(i - 1)[i - 1] = C(i)[i - 1]
    BY <2>1, <2>3
  <2>5. C(i)[i] = step[i][C(i)[i - 1]]
    BY <2>1, <2>2 DEF Loop
  <2>6. QED
    BY <1>2, <2>1, <2>4, <2>5
<1>6. h \in [Nat -> V]
  BY <1>3
<1> HIDE DEF h
<1>7. Endless(h, V, a, step)
  BY <1>4, <1>5, <1>6 DEF Endless
<1>8. QED
  BY <1>7

\* A function of the first n numbers is a sequence of length n.
LEMMA FunctionIsSequence ==
    ASSUME NEW n \in Nat, NEW S, NEW f \in [1 .. n -> S]
    PROVE  f \in Seq(S) /\ Len(f) = n
<1>1. f \in Seq(S)
  BY SeqDef
<1>2. Len(f) \in Nat /\ DOMAIN f = 1 .. Len(f) /\ DOMAIN f = 1 .. n
  BY <1>1, LenProperties
<1>3. QED
  BY <1>1, <1>2

-----------------------------------------------------------------------------
(* Shifts, and the length of the RSA block in the header.                  *)

\* Each further bit doubles.
LEMMA Pow2Def ==
    /\ Pow2 \in [Nat -> Nat]
    /\ Pow2[0] = 1
    /\ \A n \in Nat : Pow2[n + 1] = 2 * Pow2[n]
<1> DEFINE step == [i \in Nat \ {0} |-> [x \in Nat |-> 2 * x]]
           Def(f) == [n \in Nat |-> IF n = 0 THEN 1 ELSE 2 * f[n - 1]]
<1>1. PICK f : Endless(f, Nat, 1, step)
  <2>1. \A i \in Nat \ {0} : \A x \in Nat : step[i][x] \in Nat
    OBVIOUS
  <2> HIDE DEF step
  <2>2. QED
    BY <2>1, EndlessLoop
<1>2. ASSUME NEW n \in Nat \ {0} PROVE f[n] = 2 * f[n - 1]
  <2>1. f[n - 1] \in Nat
    BY <1>1 DEF Endless
  <2>2. QED
    BY <1>1, <2>1 DEF Endless
<1>3. f = Def(f)
  BY <1>1, <1>2 DEF Endless
<1>4. Pow2 = CHOOSE g : g = Def(g)
  BY DEF Pow2
<1> HIDE DEF Def
<1>5. Pow2 = Def(Pow2)
  BY <1>3, <1>4
<1> USE DEF Def
<1>6. Pow2[0] = 1 /\ \A n \in Nat : Pow2[n + 1] = 2 * Pow2[n]
  <2>1. \A n \in Nat : Pow2[n] = IF n = 0 THEN 1 ELSE 2 * Pow2[n - 1]
    BY <1>5
  <2>2. ASSUME NEW n \in Nat PROVE Pow2[n + 1] = 2 * Pow2[n]
    <3>1. n + 1 \in Nat /\ n + 1 # 0 /\ n + 1 - 1 = n
      OBVIOUS
    <3>2. QED
      BY <2>1, <3>1
  <2>3. QED
    BY <2>1, <2>2
<1>7. ASSUME NEW N \in Nat PROVE Pow2[N] \in Nat
  <2> DEFINE P == {n \in 0 .. N : Pow2[n] \in Nat}
  <2>1. 0 \in P
    BY <1>6
  <2>2. ASSUME NEW n \in 0 .. N, n < N, n \in P PROVE n + 1 \in P
    BY <1>6, <2>2
  <2>3. 0 .. N \subseteq P
    <3> HIDE DEF P
    <3> QED
      BY <2>1, <2>2, UpTo
  <2>4. QED
    BY <2>3
<1>8. Pow2 \in [Nat -> Nat]
  BY <1>5, <1>7
<1>9. QED
  BY <1>6, <1>8

\* A shifted bit is not lost.
LEMMA Pow2Positive ==
    ASSUME NEW N \in Nat
    PROVE  Pow2[N] \in Nat \ {0}
<1> DEFINE P == {n \in 0 .. N : Pow2[n] # 0}
<1>1. 0 \in P
  BY Pow2Def
<1>2. ASSUME NEW n \in 0 .. N, n < N, n \in P PROVE n + 1 \in P
  <2>1. Pow2[n] \in Nat /\ Pow2[n] # 0 /\ Pow2[n + 1] = 2 * Pow2[n]
    BY <1>2, Pow2Def
  <2>2. QED
    BY <1>2, <2>1
<1>3. 0 .. N \subseteq P
  <2> HIDE DEF P
  <2> QED
    BY <1>1, <1>2, UpTo
<1>4. QED
  BY <1>3, Pow2Def

\* Shifting twice is shifting by the sum.
LEMMA Pow2Sum ==
    ASSUME NEW a \in Nat, NEW N \in Nat
    PROVE  Pow2[a + N] = Pow2[a] * Pow2[N]
<1> DEFINE P == {n \in 0 .. N : Pow2[a + n] = Pow2[a] * Pow2[n]}
<1>1. 0 \in P
  BY Pow2Def
<1>2. ASSUME NEW n \in 0 .. N, n < N, n \in P PROVE n + 1 \in P
  <2> DEFINE x == Pow2[a]  y == Pow2[n]  z == Pow2[a + n]
  <2>1. x \in Nat /\ y \in Nat /\ z \in Nat /\ z = x * y
    BY <1>2, Pow2Def
  <2>2. Pow2[n + 1] = 2 * y
    BY <1>2, Pow2Def
  <2>3. Pow2[a + (n + 1)] = 2 * z
    <3>1. a + n \in Nat /\ a + (n + 1) = (a + n) + 1
      BY <1>2
    <3>2. QED
      BY <3>1, Pow2Def
  <2> HIDE DEF x, y, z
  <2>4. 2 * z = x * (2 * y)
    BY <2>1
  <2>5. QED
    BY <1>2, <2>2, <2>3, <2>4 DEF x
<1>3. 0 .. N \subseteq P
  <2> HIDE DEF P
  <2> QED
    BY <1>1, <1>2, UpTo
<1>4. QED
  BY <1>3

\* Quotient and remainder.
LEMMA Division ==
    ASSUME NEW a \in Nat, NEW b \in Nat \ {0}
    PROVE  /\ a \div b \in Nat /\ a % b \in Nat /\ a % b < b
           /\ a = b * (a \div b) + (a % b)
  OBVIOUS

\* There is one quotient only.
LEMMA Quotient ==
    ASSUME NEW b \in Nat \ {0}, NEW q \in Nat, NEW r \in Nat, r < b
    PROVE  (b * q + r) \div b = q
  OBVIOUS

\* Dividing twice is dividing by the product.
LEMMA DivideTwice ==
    ASSUME NEW a \in Nat, NEW b \in Nat \ {0}, NEW c \in Nat \ {0}
    PROVE  a \div (b * c) = (a \div b) \div c
<1> DEFINE q == a \div b  r == a % b  s == q \div c  t == q % c
<1>1. q \in Nat /\ r \in Nat /\ r < b /\ a = b * q + r
  BY Division
<1>2. s \in Nat /\ t \in Nat /\ t < c /\ q = c * s + t
  BY <1>1, Division
<1> HIDE DEF q, r, s, t
<1>3. a = (b * c) * s + (b * t + r)
  BY <1>1, <1>2
<1>4. b * t + r \in Nat /\ b * t + r < b * c
  <2>1. t + 1 <= c
    BY <1>2
  <2>2. b * (t + 1) <= b * c
    BY <1>2, <2>1
  <2>3. b * (t + 1) = b * t + b
    BY <1>2
  <2>4. QED
    BY <1>1, <1>2, <2>2, <2>3
<1>5. b * c \in Nat \ {0}
  OBVIOUS
<1>6. a \div (b * c) = s
  BY <1>2, <1>3, <1>4, <1>5, Quotient
<1>7. QED
  BY <1>6 DEF q, s

\* The loop that puts the header together (security.rs:184).
LEMMA ValueLoop ==
    ASSUME NEW bytes \in Seq(Nat)
    PROVE  \E value \in [0 .. Len(bytes) -> Nat] :
              /\ value[0] = 0
              /\ \A i \in 1 .. Len(bytes) : value[i] = value[i - 1] + bytes[i] * Shift(i - 1)
              /\ header_value(bytes) = value[Len(bytes)]
<1> DEFINE N == Len(bytes)
           step == [i \in 1 .. N |-> [x \in Nat |-> x + bytes[i] * Shift(i - 1)]]
           Def(f) == [i \in 0 .. N |->
                         IF i = 0 THEN 0 ELSE f[i - 1] + bytes[i] * Shift(i - 1)]
           value == CHOOSE f : f = Def(f)
<1>1. N \in Nat /\ \A i \in 1 .. N : bytes[i] \in Nat
  BY LenProperties, ElementOfSeq
<1>2. ASSUME NEW i \in 1 .. N PROVE Shift(i - 1) \in Nat
  <2>1. ENCRYPTED_KEY_LEN * (i - 1) \in Nat
    BY <1>1, PreludeAssumption
  <2>2. QED
    BY <2>1, Pow2Def DEF Shift
<1>3. ASSUME NEW i \in 1 .. N, NEW x \in Nat
      PROVE  step[i][x] \in Nat /\ step[i][x] = x + bytes[i] * Shift(i - 1)
  <2>1. step[i][x] = x + bytes[i] * Shift(i - 1)
    OBVIOUS
  <2>2. bytes[i] \in Nat /\ Shift(i - 1) \in Nat
    BY <1>1, <1>2
  <2> HIDE DEF step
  <2>3. QED
    BY <2>1, <2>2
<1>4. PICK f : Loop(f, N, Nat, 0, step)
  <2> HIDE DEF step, N
  <2> QED
    BY <1>1, <1>3, LoopExists
<1>5. ASSUME NEW i \in 1 .. N PROVE f[i] = f[i - 1] + bytes[i] * Shift(i - 1)
  <2> HIDE DEF step, N
  <2>1. f[i - 1] \in Nat /\ f[i] = step[i][f[i - 1]]
    BY <1>1, <1>4 DEF Loop
  <2>2. QED
    BY <1>3, <2>1
<1>6. f = Def(f)
  BY <1>1, <1>4, <1>5 DEF Loop
<1>7. value = Def(value)
  <2> HIDE DEF Def
  <2> QED
    BY <1>6
<1>8. header_value(bytes) = value[N]
  BY DEF header_value
<1> HIDE DEF value, N
<1>9. value[0] = 0 /\ \A i \in 1 .. N : value[i] = value[i - 1] + bytes[i] * Shift(i - 1)
  BY <1>1, <1>7
<1>10. 0 .. N \subseteq {n \in 0 .. N : value[n] \in Nat}
  <2> DEFINE P == {n \in 0 .. N : value[n] \in Nat}
  <2>1. 0 \in P
    BY <1>1, <1>9
  <2>2. ASSUME NEW n \in 0 .. N, n < N, n \in P PROVE n + 1 \in P
    <3>1. n + 1 \in 1 .. N /\ n + 1 - 1 = n
      BY <1>1, <2>2
    <3> DEFINE i == n + 1
    <3>2. i \in 1 .. N /\ value[i - 1] \in Nat
      BY <2>2, <3>1
    <3> HIDE DEF i
    <3>3. bytes[i] \in Nat /\ Shift(i - 1) \in Nat
      BY <1>1, <1>2, <3>2
    <3>4. value[i] = value[i - 1] + bytes[i] * Shift(i - 1)
      BY <1>9, <3>2
    <3> HIDE DEF P
    <3>5. value[i] \in Nat
      BY <3>2, <3>3, <3>4
    <3> USE DEF P
    <3>6. QED
      BY <1>1, <3>1, <3>5 DEF i
  <2> HIDE DEF P
  <2>3. 0 .. N \subseteq P
    BY <1>1, <2>1, <2>2, UpTo
  <2>4. QED
    BY <2>3 DEF P
<1>11. value \in [0 .. N -> Nat]
  BY <1>7, <1>10
<1>12. QED
  BY <1>8, <1>9, <1>11 DEF N

\* The header is made of bytes.
LEMMA HeaderBytes ==
    ASSUME NEW len \in Nat
    PROVE  /\ header(len) \in Seq(Byte) /\ header(len) \in Seq(Nat)
           /\ Len(header(len)) = ENCRYPTED_KEY_LEN
<1>1. ASSUME NEW i \in 1 .. ENCRYPTED_KEY_LEN
      PROVE  (len \div Shift(i - 1)) % Pow2[ENCRYPTED_KEY_LEN] \in Byte
  <2>1. ENCRYPTED_KEY_LEN * (i - 1) \in Nat
    BY PreludeAssumption
  <2>2. Shift(i - 1) \in Nat \ {0} /\ Pow2[ENCRYPTED_KEY_LEN] \in Nat \ {0}
    BY <2>1, PreludeAssumption, Pow2Positive DEF Shift
  <2>3. len \div Shift(i - 1) \in Nat
    BY <2>2, Division
  <2>4. QED
    BY <2>2, <2>3, Division DEF Byte
<1>2. header(len) \in [1 .. ENCRYPTED_KEY_LEN -> Byte]
  BY <1>1 DEF header
<1>3. Byte \subseteq Nat
  BY DEF Byte
<1>4. QED
  BY <1>2, <1>3, PreludeAssumption, FunctionIsSequence, SeqMonotonic

\* security.rs:151, 184: decrypt reads the length that encrypt wrote.
LEMMA HeaderRead ==
    ASSUME NEW len \in Nat, len < Pow2[ENCRYPTED_KEY_LEN * ENCRYPTED_KEY_LEN]
    PROVE  header_value(header(len)) = len
<1> DEFINE w == ENCRYPTED_KEY_LEN
           bytes == header(len)
<1>1. w \in Nat \ {0} /\ bytes \in Seq(Nat) /\ Len(bytes) = w
  BY HeaderBytes, PreludeAssumption
<1>2. PICK value \in [0 .. w -> Nat] :
         /\ value[0] = 0
         /\ \A i \in 1 .. w : value[i] = value[i - 1] + bytes[i] * Shift(i - 1)
         /\ header_value(bytes) = value[w]
  <2> HIDE DEF bytes
  <2> QED
    BY <1>1, ValueLoop
<1>3. ASSUME NEW i \in Nat PROVE Shift(i) \in Nat \ {0} /\ Shift(i + 1) = Shift(i) * Pow2[w]
  <2>1. w * i \in Nat /\ w * (i + 1) = w * i + w
    BY <1>1
  <2>2. QED
    BY <1>1, <2>1, Pow2Positive, Pow2Sum DEF Shift
<1>4. Pow2[w] \in Nat \ {0}
  BY <1>1, Pow2Positive
\* Up to the n-th byte: what has been read, and above it the rest.
<1> DEFINE P == {n \in 0 .. w : len = value[n] + Shift(n) * (len \div Shift(n))}
<1>5. 0 \in P
  <2>1. Shift(0) = 1
    BY <1>1, Pow2Def DEF Shift
  <2>2. QED
    BY <1>1, <1>2, <2>1
<1>6. ASSUME NEW n \in 0 .. w, n < w, n \in P PROVE n + 1 \in P
  <2> DEFINE b == Pow2[w]
             s == Shift(n)
             q == len \div s
             d == q \div b
             r == q % b
             v == value[n]
  <2>1. n \in Nat /\ n + 1 \in 1 .. w /\ n + 1 - 1 = n /\ v \in Nat
    BY <1>1, <1>2, <1>6
  <2>2. s \in Nat \ {0} /\ b \in Nat \ {0} /\ Shift(n + 1) = s * b
    BY <1>3, <1>4, <2>1
  <2>3. q \in Nat
    BY <2>2, Division
  <2>4. d \in Nat /\ r \in Nat /\ q = b * d + r
    BY <2>2, <2>3, Division
  <2>5. bytes[n + 1] = r
    BY <1>1, <2>1 DEF header
  <2>6. value[n + 1] = v + r * s
    BY <1>2, <2>1, <2>5
  <2>7. len \div Shift(n + 1) = d
    BY <2>2, DivideTwice
  <2>8. len = v + s * q
    BY <1>6
  <2> HIDE DEF b, s, q, d, r, v
  <2>9. s * q = (s * b) * d + r * s
    BY <2>2, <2>3, <2>4
  <2>10. len = (v + r * s) + (s * b) * d
    BY <2>1, <2>2, <2>3, <2>4, <2>8, <2>9
  <2>11. len = value[n + 1] + Shift(n + 1) * (len \div Shift(n + 1))
    BY <2>2, <2>6, <2>7, <2>10
  <2>12. QED
    BY <2>1, <2>11
<1>7. 0 .. w \subseteq P
  <2> HIDE DEF P, w
  <2> QED
    BY <1>1, <1>5, <1>6, UpTo
<1>8. len = value[w] + Shift(w) * (len \div Shift(w))
  BY <1>1, <1>7
<1>9. len \div Shift(w) = 0
  <2>1. Shift(w) \in Nat \ {0} /\ len < Shift(w)
    BY <1>1, <1>3 DEF Shift
  <2>2. len = Shift(w) * 0 + len
    BY <2>1
  <2>3. QED
    BY <2>1, <2>2, Quotient
<1>10. QED
  BY <1>1, <1>2, <1>3, <1>8, <1>9

-----------------------------------------------------------------------------
(* Padding and mixing.                                                     *)

\* The padded password has the length of the token.
LEMMA Padded ==
    ASSUME NEW p \in Passwords
    PROVE  /\ string_to_vec_u8(p) \in Seq(Byte)
           /\ Len(string_to_vec_u8(p)) = TOKEN_LEN
           /\ \A i \in 1 .. TOKEN_LEN :
                 string_to_vec_u8(p)[i] = IF i <= Len(p) THEN p[i] ELSE 0
<1>1. p \in Seq(Byte \ {0}) /\ TOKEN_LEN \in Nat
  BY PreludeAssumption
<1>2. Len(p) \in Nat /\ \A i \in 1 .. Len(p) : p[i] \in Byte
  BY <1>1, LenProperties, ElementOfSeq
<1>3. 0 \in Byte
  BY PreludeAssumption, Pow2Positive DEF Byte
<1>4. string_to_vec_u8(p) \in [1 .. TOKEN_LEN -> Byte]
  BY <1>1, <1>2, <1>3 DEF string_to_vec_u8
<1>5. QED
  BY <1>1, <1>4, FunctionIsSequence DEF string_to_vec_u8

\* security.rs:51, 233: removing the zeros undoes the padding.
LEMMA PaddingRemoved ==
    ASSUME NEW p \in Passwords, Len(p) <= TOKEN_LEN
    PROVE  filter_map(string_to_vec_u8(p)) = p
<1> DEFINE N == TOKEN_LEN
           S == Byte \ {0}
           bytes == string_to_vec_u8(p)
           end(i) == IF i <= Len(p) THEN i ELSE Len(p)
           f == [i \in 0 .. N |-> SubSeq(p, 1, end(i))]
           Def(g) == [i \in 0 .. N |->
                         IF i = 0 THEN <<>>
                         ELSE IF bytes[i] = 0 THEN g[i - 1]
                         ELSE Append(g[i - 1], bytes[i])]
           kept == CHOOSE g : g = Def(g)
<1>1. p \in Seq(S) /\ N \in Nat /\ Len(p) \in Nat /\ \A i \in 1 .. Len(p) : p[i] \in S
  BY PreludeAssumption, LenProperties, ElementOfSeq
<1>2. Len(bytes) = N /\ \A i \in 1 .. N : bytes[i] = IF i <= Len(p) THEN p[i] ELSE 0
  BY Padded
<1> HIDE DEF N, S, bytes
<1>3. ASSUME NEW i \in 0 .. N PROVE f[i] = SubSeq(p, 1, end(i))
  OBVIOUS
<1> HIDE DEF f
<1>4. f[0] = <<>>
  <2>1. f[0] = SubSeq(p, 1, 0)
    BY <1>1, <1>3
  <2>2. QED
    BY <2>1, SubSeqEmpty
<1>5. ASSUME NEW i \in 1 .. N
      PROVE  f[i] = IF bytes[i] = 0 THEN f[i - 1] ELSE Append(f[i - 1], bytes[i])
  <2>1. CASE i <= Len(p)
    <3>1. bytes[i] = p[i] /\ p[i] \in S /\ p[i] # 0
      BY <1>1, <1>2, <2>1 DEF S
    <3>2. f[i] = SubSeq(p, 1, i) /\ f[i - 1] = SubSeq(p, 1, i - 1)
      BY <1>1, <1>3, <2>1
    <3>3. i \in 1 .. Len(p) /\ 1 \in 1 .. Len(p) /\ i \in 1 .. Len(p)
      BY <1>1, <2>1
    <3>4. SubSeq(p, 1, i) = SubSeq(p, 1, i - 1) \o <<p[i]>>
      BY <1>1, <3>3, SubSeqRecursiveSecond
    <3>5. SubSeq(p, 1, i - 1) \in Seq(S)
      <4>1. \A j \in 1 .. i - 1 : p[j] \in S
        BY <1>1, <2>1
      <4>2. 1 \in Int /\ i - 1 \in Int
        BY <1>1
      <4>3. QED
        BY <4>1, <4>2, SubSeqProperties
    <3>6. SubSeq(p, 1, i) = Append(SubSeq(p, 1, i - 1), p[i])
      BY <3>1, <3>4, <3>5, AppendIsConcat
    <3>7. QED
      BY <3>1, <3>2, <3>6
  <2>2. CASE i > Len(p)
    <3>1. bytes[i] = 0
      BY <1>1, <1>2, <2>2
    <3>2. end(i) = Len(p) /\ end(i - 1) = Len(p) /\ i \in 0 .. N /\ i - 1 \in 0 .. N
      BY <1>1, <2>2
    <3>3. QED
      BY <1>3, <3>1, <3>2
  <2>3. QED
    BY <1>1, <2>1, <2>2
<1>6. f = Def(f)
  <2>1. f = [i \in 0 .. N |-> f[i]]
    BY DEF f
  <2>2. ASSUME NEW i \in 0 .. N
        PROVE  f[i] = IF i = 0 THEN <<>>
                      ELSE IF bytes[i] = 0 THEN f[i - 1] ELSE Append(f[i - 1], bytes[i])
    BY <1>1, <1>4, <1>5
  <2>3. QED
    BY <2>1, <2>2, Zenon
<1>7. kept = Def(kept)
  <2> HIDE DEF Def
  <2> QED
    BY <1>6
<1>8. filter_map(bytes) = kept[N]
  BY <1>2 DEF filter_map
<1> HIDE DEF kept
<1>9. ASSUME NEW i \in 0 .. N
      PROVE  kept[i] = IF i = 0 THEN <<>>
                       ELSE IF bytes[i] = 0 THEN kept[i - 1] ELSE Append(kept[i - 1], bytes[i])
  BY <1>7
<1> HIDE DEF Def
<1> DEFINE P == {n \in 0 .. N : kept[n] = f[n]}
<1>10. 0 \in P
  BY <1>1, <1>4, <1>9
<1>11. ASSUME NEW n \in 0 .. N, n < N, n \in P PROVE n + 1 \in P
  <2>1. n + 1 \in 1 .. N /\ n + 1 \in 0 .. N /\ n + 1 # 0 /\ n + 1 - 1 = n
    BY <1>1, <1>11
  <2>2. kept[n + 1] = IF bytes[n + 1] = 0 THEN kept[n] ELSE Append(kept[n], bytes[n + 1])
    BY <1>9, <2>1
  <2>3. f[n + 1] = IF bytes[n + 1] = 0 THEN f[n] ELSE Append(f[n], bytes[n + 1])
    BY <1>5, <2>1
  <2>4. kept[n] = f[n]
    BY <1>11
  <2>5. QED
    BY <2>1, <2>2, <2>3, <2>4
<1>12. 0 .. N \subseteq P
  <2> HIDE DEF P
  <2> QED
    BY <1>1, <1>10, <1>11, UpTo
<1>13. kept[N] = SubSeq(p, 1, Len(p))
  <2>1. N \in P /\ N \in 0 .. N /\ end(N) = Len(p)
    BY <1>1, <1>12 DEF N
  <2>2. QED
    BY <1>3, <2>1
<1>14. QED
  BY <1>1, <1>8, <1>13, SubSeqFull DEF bytes

\* The mixed message is twice as long as the token.
LEMMA Mixed ==
    ASSUME NEW otp \in OneTimeTokens, NEW data \in Seq(Byte), Len(data) = TOKEN_LEN
    PROVE  /\ combine(otp, data) \in Seq(Byte)
           /\ Len(combine(otp, data)) = MIXED_LEN
           /\ \A k \in 1 .. TOKEN_LEN : /\ combine(otp, data)[2 * k] = otp[k]
                                        /\ combine(otp, data)[2 * k - 1] = data[k]
<1> DEFINE N == TOKEN_LEN
           c == combine(otp, data)
           at(i) == ((i \div 2 - 1) % Len(otp)) + 1
<1>1. N \in Nat \ {0} /\ otp \in Seq(Byte) /\ Len(otp) = N /\ Len(data) = N
  BY PreludeAssumption
<1>2. \A k \in 1 .. N : otp[k] \in Byte /\ data[k] \in Byte
  BY <1>1, ElementOfSeq
<1>3. c = [i \in 1 .. 2 * N |-> IF i % 2 = 1 THEN data[(i + 1) \div 2] ELSE otp[at(i)]]
  BY <1>1 DEF combine
<1>4. ASSUME NEW k \in 1 .. N PROVE at(2 * k) = k
  <2>1. (2 * k) \div 2 = k
    BY <1>1
  <2>2. k - 1 \in Nat /\ k - 1 < N
    BY <1>1
  <2>3. (k - 1) % N = k - 1
    BY <1>1, <2>2
  <2>4. QED
    BY <1>1, <2>1, <2>3
<1> HIDE DEF c
<1>5. ASSUME NEW k \in 1 .. N PROVE c[2 * k] = otp[k] /\ c[2 * k - 1] = data[k]
  <2>1. /\ 2 * k \in 1 .. 2 * N /\ 2 * k - 1 \in 1 .. 2 * N
        /\ (2 * k) % 2 = 0 /\ (2 * k - 1) % 2 = 1 /\ (2 * k - 1 + 1) \div 2 = k
    BY <1>1
  <2>2. c[2 * k] = otp[at(2 * k)]
    BY <1>3, <2>1
  <2>3. c[2 * k - 1] = data[k]
    BY <1>3, <2>1
  <2>4. QED
    BY <1>4, <2>2, <2>3
<1>6. ASSUME NEW i \in 1 .. 2 * N PROVE c[i] \in Byte
  <2>1. \E k \in 1 .. N : i = 2 * k \/ i = 2 * k - 1
    <3>1. (i + 1) \div 2 \in 1 .. N
      BY <1>1
    <3>2. i = 2 * ((i + 1) \div 2) \/ i = 2 * ((i + 1) \div 2) - 1
      BY <1>1
    <3>3. QED
      BY <3>1, <3>2
  <2>2. QED
    BY <1>2, <1>5, <2>1
<1>7. c \in [1 .. 2 * N -> Byte] /\ 2 * N \in Nat
  BY <1>1, <1>3, <1>6
<1>8. QED
  BY <1>5, <1>7, FunctionIsSequence DEF c, MIXED_LEN

\* security.rs:65, 76: split takes apart what combine mixed.
LEMMA MixingUndone ==
    ASSUME NEW otp \in OneTimeTokens, NEW data \in Seq(Byte), Len(data) = TOKEN_LEN
    PROVE  /\ split(combine(otp, data)).otp = otp
           /\ split(combine(otp, data)).data = data
<1> DEFINE N == TOKEN_LEN
           c == combine(otp, data)
<1>1. /\ N \in Nat /\ otp \in Seq(Byte) /\ otp \in [1 .. N -> Byte]
      /\ data \in [1 .. N -> Byte]
  BY PreludeAssumption, LenProperties
<1>2. Len(c) = 2 * N /\ \A k \in 1 .. N : c[2 * k] = otp[k] /\ c[2 * k - 1] = data[k]
  BY Mixed DEF MIXED_LEN
<1> HIDE DEF c
<1>3. Len(c) \div 2 = N /\ (Len(c) + 1) \div 2 = N
  BY <1>1, <1>2
<1>4. split(c).otp = [i \in 1 .. N |-> c[2 * i]]
  BY <1>3 DEF split
<1>5. split(c).data = [i \in 1 .. N |-> c[2 * i - 1]]
  BY <1>3 DEF split
<1>6. split(c).otp = otp
  BY <1>1, <1>2, <1>4
<1>7. split(c).data = data
  BY <1>1, <1>2, <1>5
<1>8. QED
  BY <1>6, <1>7 DEF c

-----------------------------------------------------------------------------
(* The layout of a message, and what decrypt makes of one that is cut.     *)

CellOf(kind, key, nonce, text, i) ==
    [kind |-> kind, key |-> key, nonce |-> nonce, text |-> text, at |-> i]

\* A sequence of that length, of whatever it is made of.
CellSeq(b, len) == b \in Seq({b[i] : i \in 1 .. len}) /\ Len(b) = len

\* A block is one.
LEMMA Cells ==
    ASSUME NEW kind, NEW key, NEW nonce, NEW text, NEW len \in Nat
    PROVE  CellSeq(Block(kind, key, nonce, text, len), len)
<1> DEFINE b == Block(kind, key, nonce, text, len)
           S == {b[i] : i \in 1 .. len}
<1>1. b \in [1 .. len -> S]
  BY DEF Block
<1> HIDE DEF S, b
<1>2. b \in Seq(S) /\ Len(b) = len
  BY <1>1, FunctionIsSequence
<1>3. QED
  BY <1>2 DEF S, b, CellSeq

\* The cells of a block say what it is.
LEMMA CellIs ==
    ASSUME NEW kind, NEW key, NEW nonce, NEW text, NEW len \in Nat, NEW i \in 1 .. len
    PROVE  Block(kind, key, nonce, text, len)[i] = CellOf(kind, key, nonce, text, i)
  BY DEF Block, CellOf

\* Four sequences one after the other.
LEMMA FourParts ==
    ASSUME NEW S, NEW a \in Seq(S), NEW b \in Seq(S), NEW c \in Seq(S), NEW d \in Seq(S),
           NEW s, s = a \o b \o c \o d
    PROVE  /\ s \in Seq(S) /\ Len(s) = Len(a) + Len(b) + Len(c) + Len(d)
           /\ \A i \in 1 .. Len(a) : s[i] = a[i]
           /\ \A i \in 1 .. Len(b) : s[Len(a) + i] = b[i]
           /\ \A i \in 1 .. Len(c) : s[Len(a) + Len(b) + i] = c[i]
           /\ \A i \in 1 .. Len(d) : s[Len(a) + Len(b) + Len(c) + i] = d[i]
<1> DEFINE x == a \o b
           y == x \o c
<1>0. s = y \o d
  OBVIOUS
<1>1. Len(a) \in Nat /\ Len(b) \in Nat /\ Len(c) \in Nat /\ Len(d) \in Nat
  BY LenProperties
<1>2. /\ x \in Seq(S) /\ Len(x) = Len(a) + Len(b)
      /\ \A i \in 1 .. Len(a) + Len(b) : x[i] = IF i <= Len(a) THEN a[i] ELSE b[i - Len(a)]
  BY ConcatProperties
<1> HIDE DEF x
<1>3. /\ y \in Seq(S) /\ Len(y) = Len(x) + Len(c)
      /\ \A i \in 1 .. Len(x) + Len(c) : y[i] = IF i <= Len(x) THEN x[i] ELSE c[i - Len(x)]
  <2>1. x \in Seq(S)
    BY <1>2
  <2>2. QED
    BY <2>1, ConcatProperties
<1> HIDE DEF y
<1>4. /\ s \in Seq(S) /\ Len(s) = Len(y) + Len(d)
      /\ \A i \in 1 .. Len(y) + Len(d) : s[i] = IF i <= Len(y) THEN y[i] ELSE d[i - Len(y)]
  <2>1. y \in Seq(S)
    BY <1>3
  <2>2. QED
    BY <1>0, <2>1, ConcatProperties
<1>5. Len(s) = Len(a) + Len(b) + Len(c) + Len(d)
  BY <1>1, <1>2, <1>3, <1>4
<1>6. ASSUME NEW i \in 1 .. Len(a) PROVE s[i] = a[i]
  BY <1>1, <1>2, <1>3, <1>4
<1>7. ASSUME NEW i \in 1 .. Len(b) PROVE s[Len(a) + i] = b[i]
  BY <1>1, <1>2, <1>3, <1>4
<1>8. ASSUME NEW i \in 1 .. Len(c) PROVE s[Len(a) + Len(b) + i] = c[i]
  BY <1>1, <1>2, <1>3, <1>4
<1>9. ASSUME NEW i \in 1 .. Len(d) PROVE s[Len(a) + Len(b) + Len(c) + i] = d[i]
  <2>1. Len(y) = Len(a) + Len(b) + Len(c) /\ Len(y) \in Nat
    BY <1>1, <1>2, <1>3
  <2>2. s[Len(y) + i] = d[i]
    <3> DEFINE j == Len(y) + i
    <3>1. j \in 1 .. Len(y) + Len(d) /\ ~ (j <= Len(y)) /\ j - Len(y) = i
      BY <1>1, <2>1
    <3> HIDE DEF j
    <3>2. s[j] = d[j - Len(y)]
      BY <1>4, <3>1
    <3>3. QED
      BY <3>1, <3>2 DEF j
  <2>3. QED
    BY <2>1, <2>2
<1>10. QED
  BY <1>4, <1>5, <1>6, <1>7, <1>8, <1>9

\* A slice is a part if its cells are.
PartAt(s, from, to, part) ==
    /\ from \in Nat /\ to \in Nat /\ from <= to /\ Len(part) = to - from
    /\ \A i \in 1 .. to - from : s[from + i] = part[i]

\* Taking the slice gives the part.
LEMMA SliceIs ==
    ASSUME NEW s, NEW from, NEW to, NEW S, NEW part \in Seq(S), PartAt(s, from, to, part)
    PROVE  Slice(s, from, to) = part
<1> USE DEF PartAt
<1> DEFINE sub == SubSeq(s, from + 1, to)
<1>1. \A j \in from + 1 .. to : s[j] \in S
  <2>1. ASSUME NEW j \in from + 1 .. to PROVE s[j] \in S
    <3>1. j - from \in 1 .. to - from /\ from + (j - from) = j
      OBVIOUS
    <3>2. QED
      BY <3>1, ElementOfSeq
  <2>2. QED
    BY <2>1
<1>2. from + 1 \in Int /\ to \in Int
  OBVIOUS
<1>3. /\ sub \in Seq(S)
      /\ Len(sub) = IF from + 1 <= to THEN to - (from + 1) + 1 ELSE 0
      /\ \A i \in 1 .. to - (from + 1) + 1 : sub[i] = s[from + 1 + i - 1]
  BY <1>1, <1>2, SubSeqProperties
<1> HIDE DEF sub
<1>4. Len(sub) = to - from
  BY <1>3
<1>5. ASSUME NEW i \in 1 .. Len(sub) PROVE sub[i] = part[i]
  <2>1. i \in 1 .. to - (from + 1) + 1 /\ i \in 1 .. to - from /\ from + 1 + i - 1 = from + i
    BY <1>4
  <2>2. QED
    BY <1>3, <2>1
<1>6. sub = part
  BY <1>3, <1>4, <1>5, SeqEqual
<1>7. QED
  BY <1>6 DEF sub, Slice

\* The beginning of a sequence.
LEMMA Beginning ==
    ASSUME NEW S, NEW s \in Seq(S), NEW k \in 0 .. Len(s)
    PROVE  /\ SubSeq(s, 1, k) \in Seq(S) /\ Len(SubSeq(s, 1, k)) = k
           /\ \A i \in 1 .. k : SubSeq(s, 1, k)[i] = s[i]
<1>1. Len(s) \in Nat
  BY LenProperties
<1>2. \A i \in 1 .. k : s[i] \in S
  BY <1>1, ElementOfSeq
<1>3. 1 \in Int /\ k \in Int
  BY <1>1
<1>4. /\ SubSeq(s, 1, k) \in Seq(S)
      /\ Len(SubSeq(s, 1, k)) = IF 1 <= k THEN k - 1 + 1 ELSE 0
      /\ \A i \in 1 .. k - 1 + 1 : SubSeq(s, 1, k)[i] = s[1 + i - 1]
  BY <1>2, <1>3, SubSeqProperties
<1>5. QED
  BY <1>1, <1>4

Preludes == [pub_pkcs1_pem : PrivKeys \cup {None}, one_time_token : OneTimeTokens]

\* encrypt does not refuse the password.
Sendable(p, plaintext) ==
    p \in Preludes /\ plaintext \in Passwords /\ encrypt_error(p, plaintext) = "none"

\* What is encrypted under the AES key, and the parts after the header.
Mix(p, plaintext) == combine(p.one_time_token, string_to_vec_u8(plaintext))
KeyPart(p, key) == rsa_encrypt(p.pub_pkcs1_pem, key)
TextPart(p, plaintext, key, nonce) ==
    aes_encrypt(key, nonce_slice(nonce), Mix(p, plaintext))

BODY == ENCRYPTED_KEY_LEN + NONCE_LEN + RSA_LEN

\* The lengths are natural numbers.
LEMMA Lengths ==
    /\ TOKEN_LEN \in Nat \ {0} /\ ENCRYPTED_KEY_LEN \in Nat \ {0} /\ NONCE_LEN \in Nat
    /\ TAG_LEN \in Nat /\ RSA_LEN \in Nat \ {0} /\ MIXED_LEN \in Nat \ {0}
    /\ BODY \in Nat /\ FULL_LEN = BODY + MIXED_LEN + TAG_LEN /\ FULL_LEN \in Nat
  BY PreludeAssumption DEF MIXED_LEN, BODY, FULL_LEN

\* What encrypt refuses not: the password fits and the key is one.
LEMMA SendableFacts ==
    ASSUME NEW p, NEW plaintext, Sendable(p, plaintext)
    PROVE  /\ p.one_time_token \in OneTimeTokens /\ p.pub_pkcs1_pem \in PrivKeys
           /\ plaintext \in Passwords /\ Len(plaintext) <= TOKEN_LEN
           /\ Mix(p, plaintext) \in Seq(Byte) /\ Len(Mix(p, plaintext)) = MIXED_LEN
           /\ Mix(p, plaintext) # None
<1>1. p.one_time_token \in OneTimeTokens /\ plaintext \in Passwords
  BY DEF Sendable, Preludes
<1>2. Len(plaintext) \in Nat
  BY <1>1, PreludeAssumption, LenProperties
<1>3. Len(plaintext) <= TOKEN_LEN /\ p.pub_pkcs1_pem \in PrivKeys
  BY <1>2, Lengths DEF Sendable, encrypt_error
<1>4. Mix(p, plaintext) \in Seq(Byte) /\ Len(Mix(p, plaintext)) = MIXED_LEN
  BY <1>1, Padded, Mixed DEF Mix
<1>5. QED
  BY <1>1, <1>3, <1>4, PreludeAssumption

\* The nonce, the encrypted key and the encrypted password are such sequences.
LEMMA Blocks ==
    ASSUME NEW p, NEW plaintext, Sendable(p, plaintext), NEW key, NEW nonce
    PROVE  /\ CellSeq(nonce_slice(nonce), NONCE_LEN)
           /\ CellSeq(KeyPart(p, key), RSA_LEN)
           /\ CellSeq(TextPart(p, plaintext, key, nonce), MIXED_LEN + TAG_LEN)
<1>1. NONCE_LEN \in Nat /\ RSA_LEN \in Nat /\ MIXED_LEN + TAG_LEN \in Nat
  BY Lengths
<1>2. CellSeq(nonce_slice(nonce), NONCE_LEN)
  BY <1>1, Cells DEF nonce_slice
<1>3. CellSeq(KeyPart(p, key), RSA_LEN)
  BY <1>1, Cells DEF KeyPart, rsa_encrypt
<1>4. CellSeq(TextPart(p, plaintext, key, nonce), MIXED_LEN + TAG_LEN)
  <2>1. Len(Mix(p, plaintext)) = MIXED_LEN
    BY SendableFacts
  <2>2. TextPart(p, plaintext, key, nonce)
            = Block("aes", key, nonce_slice(nonce), Mix(p, plaintext), MIXED_LEN + TAG_LEN)
    BY <2>1 DEF TextPart, aes_encrypt
  <2>3. QED
    BY <1>1, <2>2, Cells
<1>5. QED
  BY <1>2, <1>3, <1>4

\* security.rs:162: header, nonce, key and text, one after the other.
LEMMA Layout ==
    ASSUME NEW p, NEW plaintext, Sendable(p, plaintext), NEW key, NEW nonce
    PROVE  LET m == encrypt(p, plaintext, key, nonce)
           IN  /\ \E S : m \in Seq(S)
               /\ Len(m) = FULL_LEN
               /\ \A i \in 1 .. ENCRYPTED_KEY_LEN : m[i] = header(RSA_LEN)[i]
               /\ \A i \in 1 .. NONCE_LEN : m[ENCRYPTED_KEY_LEN + i] = nonce_slice(nonce)[i]
               /\ \A i \in 1 .. RSA_LEN :
                     m[ENCRYPTED_KEY_LEN + NONCE_LEN + i] = KeyPart(p, key)[i]
               /\ \A i \in 1 .. MIXED_LEN + TAG_LEN :
                     m[BODY + i] = TextPart(p, plaintext, key, nonce)[i]
<1> DEFINE h == header(RSA_LEN)
           n == nonce_slice(nonce)
           r == KeyPart(p, key)
           a == TextPart(p, plaintext, key, nonce)
           NS == {n[i] : i \in 1 .. NONCE_LEN}
           RS == {r[i] : i \in 1 .. RSA_LEN}
           AS == {a[i] : i \in 1 .. MIXED_LEN + TAG_LEN}
           S == Byte \cup NS \cup RS \cup AS
<1>1. h \in Seq(Byte) /\ Len(h) = ENCRYPTED_KEY_LEN
  BY Lengths, HeaderBytes
<1>0. /\ CellSeq(n, NONCE_LEN) /\ CellSeq(r, RSA_LEN)
      /\ CellSeq(a, MIXED_LEN + TAG_LEN)
  BY Blocks
<1>2. n \in Seq(NS) /\ Len(n) = NONCE_LEN
  BY <1>0 DEF CellSeq
<1>3. r \in Seq(RS) /\ Len(r) = RSA_LEN
  BY <1>0 DEF CellSeq
<1>4. a \in Seq(AS) /\ Len(a) = MIXED_LEN + TAG_LEN
  BY <1>0 DEF CellSeq
<1>5. encrypt(p, plaintext, key, nonce) = h \o n \o r \o a
  BY DEF encrypt, KeyPart, TextPart, Mix
<1> HIDE DEF h, n, r, a, NS, RS, AS
<1>6. h \in Seq(S) /\ n \in Seq(S) /\ r \in Seq(S) /\ a \in Seq(S)
  <2>1. Byte \subseteq S /\ NS \subseteq S /\ RS \subseteq S /\ AS \subseteq S
    OBVIOUS
  <2> HIDE DEF S
  <2>2. QED
    BY <1>1, <1>2, <1>3, <1>4, <2>1, SeqMonotonic
<1> HIDE DEF S
<1> DEFINE m == encrypt(p, plaintext, key, nonce)
<1> HIDE DEF m
<1>7. /\ m \in Seq(S) /\ Len(m) = Len(h) + Len(n) + Len(r) + Len(a)
      /\ \A i \in 1 .. Len(h) : m[i] = h[i]
      /\ \A i \in 1 .. Len(n) : m[Len(h) + i] = n[i]
      /\ \A i \in 1 .. Len(r) : m[Len(h) + Len(n) + i] = r[i]
      /\ \A i \in 1 .. Len(a) : m[Len(h) + Len(n) + Len(r) + i] = a[i]
  <2>1. m = h \o n \o r \o a
    BY <1>5 DEF m
  <2>2. QED
    BY <1>6, <2>1, FourParts
<1>8. Len(m) = FULL_LEN
  BY <1>1, <1>2, <1>3, <1>4, <1>7, Lengths DEF BODY
<1>9. /\ \E T : m \in Seq(T)
      /\ \A i \in 1 .. ENCRYPTED_KEY_LEN : m[i] = h[i]
      /\ \A i \in 1 .. NONCE_LEN : m[ENCRYPTED_KEY_LEN + i] = n[i]
      /\ \A i \in 1 .. RSA_LEN : m[ENCRYPTED_KEY_LEN + NONCE_LEN + i] = r[i]
      /\ \A i \in 1 .. MIXED_LEN + TAG_LEN : m[BODY + i] = a[i]
  BY <1>1, <1>2, <1>3, <1>4, <1>7 DEF BODY
<1>10. QED
  BY <1>8, <1>9 DEF m, h, n, r, a

\* An RSA block opens with its own key only.
LEMMA KeyOpens ==
    ASSUME NEW pub, NEW key, NEW priv
    PROVE  /\ rsa_decrypt(pub, rsa_encrypt(pub, key)) = key
           /\ priv # pub => rsa_decrypt(priv, rsa_encrypt(pub, key)) = None
<1> DEFINE b == rsa_encrypt(pub, key)
<1>1. /\ Len(b) = RSA_LEN
      /\ \A i \in 1 .. RSA_LEN : b[i] = CellOf("rsa", pub, None, key, i)
  <2>1. RSA_LEN \in Nat
    BY Lengths
  <2>2. CellSeq(b, RSA_LEN)
    BY <2>1, Cells DEF rsa_encrypt
  <2>3. \A i \in 1 .. RSA_LEN : b[i] = CellOf("rsa", pub, None, key, i)
    BY <2>1, CellIs DEF rsa_encrypt
  <2>4. QED
    BY <2>2, <2>3 DEF CellSeq
<1>2. 1 \in 1 .. RSA_LEN
  BY Lengths
<1>3. b[1].text = key /\ b[1].key = pub
  BY <1>1, <1>2 DEF CellOf
<1>4. b # <<>>
  BY <1>1, Lengths
<1>5. rsa_decrypt(pub, b) = key
  BY <1>3, <1>4 DEF rsa_decrypt
<1>6. ASSUME priv # pub PROVE b # rsa_encrypt(priv, key)
  <2>1. rsa_encrypt(priv, key)[1].key = priv
    BY <1>2, Lengths DEF rsa_encrypt, Block
  <2>2. QED
    BY <1>3, <1>6, <2>1
<1>7. ASSUME priv # pub PROVE rsa_decrypt(priv, b) = None
  BY <1>3, <1>6, <1>7 DEF rsa_decrypt
<1>8. QED
  BY <1>5, <1>7

\* An AES block opens whole only.
LEMMA TextOpens ==
    ASSUME NEW key, NEW nonce, NEW text, Len(text) \in Nat, NEW m,
           NEW k \in 1 .. Len(text) + TAG_LEN,
           m = SubSeq(aes_encrypt(key, nonce, text), 1, k)
    PROVE  aes_decrypt(key, nonce, m) = IF k = Len(text) + TAG_LEN THEN text ELSE None
<1> DEFINE L == Len(text) + TAG_LEN
           b == aes_encrypt(key, nonce, text)
<1>1. L \in Nat
  BY Lengths
<1>2. /\ b \in Seq({b[i] : i \in 1 .. L}) /\ Len(b) = L
      /\ \A i \in 1 .. L : b[i] = CellOf("aes", key, nonce, text, i)
  <2>1. b = Block("aes", key, nonce, text, L)
    BY DEF aes_encrypt
  <2> HIDE DEF b, L
  <2>2. CellSeq(b, L)
    BY <1>1, <2>1, Cells
  <2>3. \A i \in 1 .. L : b[i] = CellOf("aes", key, nonce, text, i)
    BY <1>1, <2>1, CellIs
  <2>4. QED
    BY <2>2, <2>3 DEF CellSeq
<1> HIDE DEF b
<1>3. /\ Len(m) = k /\ \A i \in 1 .. k : m[i] = b[i]
  <2>1. k \in 0 .. Len(b)
    BY <1>1, <1>2
  <2>2. m = SubSeq(b, 1, k)
    BY DEF b
  <2>3. QED
    BY <1>2, <2>1, <2>2, Beginning
<1>4. m[1].text = text /\ m # <<>>
  <2>1. 1 \in 1 .. k /\ 1 \in 1 .. L /\ k # 0
    BY <1>1
  <2>2. m[1] = CellOf("aes", key, nonce, text, 1)
    BY <1>2, <1>3, <2>1
  <2>3. m[1].text = text
    BY <2>2 DEF CellOf
  <2>4. Len(<<>>) = 0
    BY EmptySeq
  <2>5. QED
    BY <1>3, <2>1, <2>3, <2>4
<1>5. aes_decrypt(key, nonce, m) = IF m = b THEN text ELSE None
  BY <1>4 DEF aes_decrypt, b
<1>6. CASE k = L
  <2>1. m = b
    BY <1>2, <1>6, SubSeqFull DEF b
  <2>2. QED
    BY <1>5, <1>6, <2>1
<1>7. CASE k # L
  BY <1>2, <1>3, <1>5, <1>7
<1>8. QED
  BY <1>6, <1>7


\* The parts of a message of which so much has arrived that decrypt reads on.
LEMMA Parts ==
    ASSUME NEW p, NEW plaintext, Sendable(p, plaintext), NEW key, NEW nonce,
           NEW k \in BODY + MIXED_LEN .. FULL_LEN, NEW m, Len(m) = k,
           \A i \in 1 .. k : m[i] = encrypt(p, plaintext, key, nonce)[i]
    PROVE  /\ Slice(m, ENCRYPTED_KEY_LEN, ENCRYPTED_KEY_LEN + NONCE_LEN) = nonce_slice(nonce)
           /\ Slice(m, ENCRYPTED_KEY_LEN + NONCE_LEN, BODY) = KeyPart(p, key)
           /\ Slice(m, BODY, k) = SubSeq(TextPart(p, plaintext, key, nonce), 1, k - BODY)
<1> DEFINE w == ENCRYPTED_KEY_LEN
           e == encrypt(p, plaintext, key, nonce)
           n == nonce_slice(nonce)
           r == KeyPart(p, key)
           a == TextPart(p, plaintext, key, nonce)
           NS == {n[i] : i \in 1 .. NONCE_LEN}
           RS == {r[i] : i \in 1 .. RSA_LEN}
           AS == {a[i] : i \in 1 .. MIXED_LEN + TAG_LEN}
<1>1. /\ \A i \in 1 .. NONCE_LEN : e[w + i] = n[i]
      /\ \A i \in 1 .. RSA_LEN : e[w + NONCE_LEN + i] = r[i]
      /\ \A i \in 1 .. MIXED_LEN + TAG_LEN : e[BODY + i] = a[i]
  BY Layout
<1>0. /\ CellSeq(n, NONCE_LEN) /\ CellSeq(r, RSA_LEN)
      /\ CellSeq(a, MIXED_LEN + TAG_LEN)
  BY Blocks
<1>2. n \in Seq(NS) /\ Len(n) = NONCE_LEN
  BY <1>0 DEF CellSeq
<1>3. r \in Seq(RS) /\ Len(r) = RSA_LEN
  BY <1>0 DEF CellSeq
<1>4. a \in Seq(AS) /\ Len(a) = MIXED_LEN + TAG_LEN
  BY <1>0 DEF CellSeq
<1> HIDE DEF e, n, r, a, NS, RS, AS
<1>5. \A i \in 1 .. k : m[i] = e[i]
  BY DEF e
<1>6. Slice(m, w, w + NONCE_LEN) = n
  <2> DEFINE to == w + NONCE_LEN
  <2>1. \A i \in 1 .. NONCE_LEN : w + i \in 1 .. k
    BY Lengths DEF BODY
  <2>2. to - w = NONCE_LEN /\ to \in Nat /\ w \in Nat /\ w <= to
    BY Lengths
  <2> HIDE DEF to
  <2>3. PartAt(m, w, to, n)
    BY <1>1, <1>2, <1>5, <2>1, <2>2 DEF PartAt
  <2>4. Slice(m, w, to) = n
    BY <1>2, <2>3, SliceIs
  <2>5. QED
    BY <2>4 DEF to
<1>7. Slice(m, w + NONCE_LEN, BODY) = r
  <2> DEFINE from == w + NONCE_LEN
  <2>1. \A i \in 1 .. RSA_LEN : from + i \in 1 .. k
    BY Lengths DEF BODY
  <2>2. BODY - from = RSA_LEN /\ from \in Nat /\ BODY \in Nat /\ from <= BODY
    BY Lengths DEF BODY
  <2>3. \A i \in 1 .. RSA_LEN : e[from + i] = r[i]
    BY <1>1
  <2> HIDE DEF from
  <2>4. PartAt(m, from, BODY, r)
    BY <1>3, <1>5, <2>1, <2>2, <2>3 DEF PartAt
  <2>5. Slice(m, from, BODY) = r
    BY <1>3, <2>4, SliceIs
  <2>6. QED
    BY <2>5 DEF from
<1>8. Slice(m, BODY, k) = SubSeq(a, 1, k - BODY)
  <2> DEFINE j == k - BODY
             part == SubSeq(a, 1, j)
  <2>1. j \in 0 .. Len(a) /\ k \in Nat /\ BODY \in Nat /\ BODY <= k /\ k - BODY = j
    BY <1>4, Lengths
  <2>2. \A i \in 1 .. j : BODY + i \in 1 .. k /\ i \in 1 .. MIXED_LEN + TAG_LEN
    BY Lengths
  <2> HIDE DEF j
  <2>3. part \in Seq(AS) /\ Len(part) = j /\ \A i \in 1 .. j : part[i] = a[i]
    BY <1>4, <2>1, Beginning
  <2> HIDE DEF part
  <2>4. PartAt(m, BODY, k, part)
    BY <1>1, <1>5, <2>1, <2>2, <2>3 DEF PartAt
  <2>5. Slice(m, BODY, k) = part
    BY <2>3, <2>4, SliceIs
  <2>6. QED
    BY <2>5 DEF part, j
<1>9. QED
  BY <1>6, <1>7, <1>8 DEF n, r, a

\* What arrives of a message: its first k cells.
Received(m, p, plaintext, key, nonce, k) ==
    /\ k \in 0 .. FULL_LEN /\ Len(m) = k
    /\ \A i \in 1 .. k : m[i] = encrypt(p, plaintext, key, nonce)[i]

\* security.rs:180: the header, once it is there, says where the body begins.
LEMMA BodyBegins ==
    ASSUME NEW p, NEW plaintext, Sendable(p, plaintext), NEW key, NEW nonce,
           NEW m, NEW k, Received(m, p, plaintext, key, nonce, k), ENCRYPTED_KEY_LEN <= k
    PROVE  body(m) = BODY
<1> DEFINE w == ENCRYPTED_KEY_LEN
           h == header(RSA_LEN)
<1>1. h \in Seq(Byte) /\ Len(h) = w
  BY Lengths, HeaderBytes
<1>2. \A i \in 1 .. w : i \in 1 .. k /\ encrypt(p, plaintext, key, nonce)[i] = h[i]
  BY Layout, Lengths DEF Received
<1>3. w \in Nat /\ w - 0 = w /\ \A i \in 1 .. w : 0 + i = i
  BY Lengths
<1> HIDE DEF h
<1>4. PartAt(m, 0, w, h)
  BY <1>1, <1>2, <1>3 DEF PartAt, Received
<1>5. Slice(m, 0, w) = h
  BY <1>1, <1>4, SliceIs
<1>6. header_value(h) = RSA_LEN
  BY PreludeAssumption, HeaderRead DEF h
<1>7. QED
  BY <1>5, <1>6 DEF body, rsa_encrypted_key_len, BODY

\* security.rs:190: what ends before the body could is refused.
LEMMA ShortRefused ==
    ASSUME NEW p, NEW plaintext, Sendable(p, plaintext), NEW key, NEW nonce,
           NEW m, NEW k, Received(m, p, plaintext, key, nonce, k), k < BODY + MIXED_LEN,
           NEW priv
    PROVE  decrypt(priv, m) = Outcome("InvalidCiphertext")
<1>1. k \in Nat /\ Len(m) = k
  BY Lengths DEF Received
<1>2. ~ long_enough(m)
  <2>1. CASE k < ENCRYPTED_KEY_LEN
    BY <1>1, <2>1, Lengths DEF long_enough
  <2>2. CASE ENCRYPTED_KEY_LEN <= k
    <3>1. body(m) = BODY
      BY <2>2, BodyBegins
    <3>2. QED
      BY <1>1, <3>1, Lengths DEF long_enough
  <2>3. QED
    BY <1>1, <2>1, <2>2, Lengths
<1>3. QED
  BY <1>2 DEF decrypt

Arrived(p, plaintext) ==
    [err |-> "none", otp |-> p.one_time_token, password |-> plaintext]

\* security.rs:233: the token and the password, from what was mixed.
LEMMA Unmixed ==
    ASSUME NEW p, NEW plaintext, Sendable(p, plaintext)
    PROVE  unmix(Mix(p, plaintext)) = Arrived(p, plaintext)
<1> DEFINE data == string_to_vec_u8(plaintext)
           otp == p.one_time_token
<1>1. otp \in OneTimeTokens /\ plaintext \in Passwords /\ Len(plaintext) <= TOKEN_LEN
  BY SendableFacts
<1>2. data \in Seq(Byte) /\ Len(data) = TOKEN_LEN
  BY <1>1, Padded
<1>3. filter_map(data) = plaintext
  BY <1>1, PaddingRemoved
<1> HIDE DEF data
<1>4. split(combine(otp, data)).otp = otp /\ split(combine(otp, data)).data = data
  BY <1>1, <1>2, MixingUndone
<1>5. Mix(p, plaintext) = combine(otp, data)
  BY DEF Mix, data
<1>6. QED
  BY <1>3, <1>4, <1>5 DEF unmix, Arrived

\* security.rs:193: what decrypt does with a message it reads.
LEMMA DecryptsParts ==
    ASSUME NEW p, NEW plaintext, Sendable(p, plaintext), NEW key \in AesKeys, NEW nonce,
           NEW m, NEW k, Received(m, p, plaintext, key, nonce, k), BODY + MIXED_LEN <= k,
           NEW priv
    PROVE  decrypt(priv, m) = IF priv # p.pub_pkcs1_pem THEN Outcome("RSAError")
                              ELSE IF k # FULL_LEN THEN Outcome("AESError")
                              ELSE Arrived(p, plaintext)
<1> DEFINE n == nonce_slice(nonce)
           a == TextPart(p, plaintext, key, nonce)
           text == SubSeq(a, 1, k - BODY)
           opened == rsa_decrypt(priv, KeyPart(p, key))
           mixed == aes_decrypt(opened, n, text)
           mix == Mix(p, plaintext)
<1>1. k \in BODY + MIXED_LEN .. FULL_LEN /\ k \in Nat /\ Len(m) = k
  BY Lengths DEF Received
<1>2. body(m) = BODY
  BY <1>1, BodyBegins, Lengths DEF BODY
<1>3. long_enough(m) /\ in_range(m)
  BY <1>1, <1>2, Lengths DEF long_enough, in_range, BODY
<1>4. /\ Slice(m, ENCRYPTED_KEY_LEN, ENCRYPTED_KEY_LEN + NONCE_LEN) = n
      /\ Slice(m, ENCRYPTED_KEY_LEN + NONCE_LEN, BODY) = KeyPart(p, key)
      /\ Slice(m, BODY, k) = text
  BY <1>1, Parts DEF Received
<1>5. mix \in Seq(Byte) /\ Len(mix) = MIXED_LEN /\ mix # None
  BY SendableFacts
<1> HIDE DEF mix
<1>6. decrypt(priv, m) = IF opened = None THEN Outcome("RSAError")
                         ELSE IF mixed = None THEN Outcome("AESError")
                         ELSE IF Len(mixed) # MIXED_LEN THEN Outcome("InvalidCiphertext")
                         ELSE unmix(mixed)
  BY <1>1, <1>2, <1>3, <1>4 DEF decrypt
<1>7. opened = IF priv # p.pub_pkcs1_pem THEN None ELSE key
  BY KeyOpens DEF KeyPart
<1>8. key # None
  BY PreludeAssumption
<1>9. aes_decrypt(key, n, text) = IF k = FULL_LEN THEN mix ELSE None
  <2> DEFINE j == k - BODY
  <2>1. j \in 1 .. Len(mix) + TAG_LEN /\ Len(mix) \in Nat
        /\ (j = Len(mix) + TAG_LEN <=> k = FULL_LEN)
    BY <1>1, <1>5, Lengths
  <2>2. a = aes_encrypt(key, n, mix)
    BY DEF TextPart, mix
  <2> HIDE DEF j, n
  <2>3. text = SubSeq(aes_encrypt(key, n, mix), 1, j)
    BY <2>2 DEF j
  <2> HIDE DEF text
  <2>4. aes_decrypt(key, n, text) = IF j = Len(mix) + TAG_LEN THEN mix ELSE None
    BY <2>1, <2>3, TextOpens
  <2>5. QED
    BY <2>1, <2>4
<1> HIDE DEF opened, n, text
<1>10. CASE priv # p.pub_pkcs1_pem
  BY <1>6, <1>7, <1>10
<1>11. CASE priv = p.pub_pkcs1_pem /\ k # FULL_LEN
  BY <1>6, <1>7, <1>8, <1>9, <1>11
<1>12. CASE priv = p.pub_pkcs1_pem /\ k = FULL_LEN
  <2>1. unmix(mix) = Arrived(p, plaintext)
    BY Unmixed DEF mix
  <2>2. opened = key /\ opened # None
    BY <1>7, <1>8, <1>12
  <2>3. mixed = mix
    BY <1>9, <1>12, <2>2
  <2>4. QED
    BY <1>5, <1>6, <1>12, <2>1, <2>2, <2>3
<1>13. QED
  BY <1>10, <1>11, <1>12

-----------------------------------------------------------------------------
(* The invariant: what is on the bus is the beginning of what encrypt made *)
(* of the prelude and of the typed password.                               *)

SentAs(key, nonce, k) ==
    message = SubSeq(encrypt(prelude, typed, key, nonce), 1, k)

OnTheBus ==
    /\ Sendable(prelude, typed)
    /\ \E key \in AesKeys, nonce \in Nonces, k \in 0 .. FULL_LEN : SentAs(key, nonce, k)

PInv ==
    /\ prelude \in Preludes \cup {None} /\ typed \in Passwords \cup {None}
    /\ typed # None => prelude # None
    /\ typed = None => message = <<>> /\ result = None
    /\ message = <<>> \/ OnTheBus
    /\ DeliveredAsSent

\* The beginning of a message has its cells.
LEMMA SentIsReceived ==
    ASSUME Sendable(prelude, typed), NEW key, NEW nonce, NEW k \in 0 .. FULL_LEN,
           SentAs(key, nonce, k)
    PROVE  Received(message, prelude, typed, key, nonce, k)
<1> DEFINE e == encrypt(prelude, typed, key, nonce)
<1>1. PICK S : e \in Seq(S)
  BY Layout
<1>2. Len(e) = FULL_LEN
  BY Layout
<1> HIDE DEF e
<1>3. Len(SubSeq(e, 1, k)) = k /\ \A i \in 1 .. k : SubSeq(e, 1, k)[i] = e[i]
  BY <1>1, <1>2, Beginning
<1>4. QED
  BY <1>3 DEF SentAs, Received, e

\* Nothing is made of an empty message.
LEMMA EmptyRefused ==
    ASSUME NEW priv
    PROVE  decrypt(priv, <<>>) = Outcome("InvalidCiphertext")
<1>1. Len(<<>>) = 0
  BY EmptySeq
<1>2. ~ long_enough(<<>>)
  BY <1>1, Lengths DEF long_enough
<1>3. QED
  BY <1>2 DEF decrypt

\* What decrypt makes of what is on the bus.
LEMMA DecryptOutcome ==
    ASSUME PInv, NEW priv
    PROVE  \/ decrypt(priv, message) = Outcome("InvalidCiphertext") /\ Len(message) < FULL_LEN
           \/ decrypt(priv, message) = Outcome("RSAError") /\ priv # prelude.pub_pkcs1_pem
           \/ decrypt(priv, message) = Outcome("AESError") /\ Len(message) < FULL_LEN
           \/ decrypt(priv, message) = Arrived(prelude, typed) /\ Len(message) = FULL_LEN
<1>1. CASE message = <<>>
  BY <1>1, EmptyRefused, EmptySeq, Lengths
<1>2. CASE OnTheBus
  <2>1. Sendable(prelude, typed)
    BY <1>2 DEF OnTheBus
  <2>2. PICK key \in AesKeys, nonce \in Nonces, k \in 0 .. FULL_LEN : SentAs(key, nonce, k)
    BY <1>2 DEF OnTheBus
  <2>3. Received(message, prelude, typed, key, nonce, k)
    BY <2>1, <2>2, SentIsReceived
  <2>4. Len(message) = k /\ k \in Nat /\ k <= FULL_LEN
    BY <2>3, Lengths DEF Received
  <2>5. CASE k < BODY + MIXED_LEN
    <3>1. decrypt(priv, message) = Outcome("InvalidCiphertext")
      BY <2>1, <2>3, <2>5, ShortRefused
    <3>2. QED
      BY <2>4, <2>5, <3>1, Lengths
  <2>6. CASE BODY + MIXED_LEN <= k
    <3>1. decrypt(priv, message)
            = IF priv # prelude.pub_pkcs1_pem THEN Outcome("RSAError")
              ELSE IF k # FULL_LEN THEN Outcome("AESError")
              ELSE Arrived(prelude, typed)
      BY <2>1, <2>3, <2>6, DecryptsParts
    <3>2. QED
      BY <2>4, <3>1, Lengths
  <2>7. QED
    BY <2>4, <2>5, <2>6, Lengths
<1>3. QED
  BY <1>1, <1>2 DEF PInv

\* Nothing is handed out, typed or sent at the start.
LEMMA PInvInit == Init => PInv
  BY DEF Init, PInv, DeliveredAsSent

\* No step of the client, the bus or the service breaks it.
LEMMA PInvNext == PInv /\ [Next]_vars => PInv'
<1> SUFFICES ASSUME PInv, [Next]_vars PROVE PInv'
  OBVIOUS
<1>1. ASSUME NEW pem \in PrivKeys \cup {None}, NEW token \in OneTimeTokens, New(pem, token)
      PROVE  PInv'
  <2>1. typed = None /\ message = <<>> /\ result = None
    BY <1>1 DEF PInv, New
  <2>2. prelude' \in Preludes /\ UNCHANGED <<typed, message, result>>
    BY <1>1 DEF New, Preludes
  <2>3. QED
    BY <2>1, <2>2 DEF PInv, DeliveredAsSent
<1>2. ASSUME NEW plaintext \in Passwords, NEW key \in AesKeys, NEW nonce \in Nonces,
             Encrypt(plaintext, key, nonce)
      PROVE  PInv'
  <2>1. message = <<>> /\ result = None /\ prelude \in Preludes /\ prelude # None
    BY <1>2 DEF PInv, Encrypt
  <2>2. prelude' = prelude /\ typed' = plaintext /\ typed' # None
    <3>1. plaintext # None
      <4>1. plaintext \in Seq(Byte \ {0})
        BY PreludeAssumption
      <4>2. plaintext \in Seq(Byte)
        BY <4>1, SeqMonotonic
      <4>3. QED
        BY <4>2, PreludeAssumption
    <3>2. QED
      BY <1>2, <3>1 DEF Encrypt
  <2>3. CASE encrypt_error(prelude, plaintext) = "none"
    <3> DEFINE e == encrypt(prelude, plaintext, key, nonce)
    <3>1. Sendable(prelude, plaintext)
      BY <2>1, <2>3 DEF Sendable
    <3>2. PICK S : e \in Seq(S)
      BY <3>1, Layout
    <3>3. Len(e) = FULL_LEN
      BY <3>1, Layout
    <3>4. message' = e /\ result' = None
      BY <1>2, <2>1, <2>3 DEF Encrypt
    <3> HIDE DEF e
    <3>5. e = SubSeq(e, 1, FULL_LEN)
      BY <3>2, <3>3, SubSeqFull
    <3>6. SentAs(key, nonce, FULL_LEN)'
      BY <2>2, <3>4, <3>5 DEF SentAs, e
    <3>7. FULL_LEN \in 0 .. FULL_LEN
      BY Lengths
    <3>8. OnTheBus'
      <4>1. Sendable(prelude, typed)'
        BY <2>2, <3>1 DEF Sendable, Preludes, encrypt_error
      <4>2. QED
        BY <3>6, <3>7, <4>1 DEF OnTheBus
    <3>9. QED
      BY <2>1, <2>2, <3>4, <3>8 DEF PInv, DeliveredAsSent
  <2>4. CASE encrypt_error(prelude, plaintext) # "none"
    <3>1. message' = <<>> /\ result'.err # "none"
      BY <1>2, <2>1, <2>4 DEF Encrypt, Outcome
    <3>2. QED
      BY <2>1, <2>2, <3>1 DEF PInv, DeliveredAsSent
  <2>5. QED
    BY <2>3, <2>4
<1>3. ASSUME NEW n \in 0 .. FULL_LEN, Cut(n) PROVE PInv'
  <2>1. message' = SubSeq(message, 1, n) /\ n < Len(message)
        /\ result = None /\ UNCHANGED <<prelude, typed, result>>
    BY <1>3 DEF Cut
  <2>2. OnTheBus
    <3>1. Len(<<>>) = 0
      BY EmptySeq
    <3>2. QED
      BY <2>1, <3>1, Lengths DEF PInv
  <2>3. PICK key \in AesKeys, nonce \in Nonces, k \in 0 .. FULL_LEN : SentAs(key, nonce, k)
    BY <2>2 DEF OnTheBus
  <2> DEFINE e == encrypt(prelude, typed, key, nonce)
  <2>4. Sendable(prelude, typed)
    BY <2>2 DEF OnTheBus
  <2>5. PICK S : e \in Seq(S)
    BY <2>4, Layout
  <2>6. Len(e) = FULL_LEN /\ message = SubSeq(e, 1, k)
    BY <2>3, <2>4, Layout DEF SentAs
  <2> HIDE DEF e
  <2>7. SubSeq(message, 1, n) = SubSeq(e, 1, n)
    <3>1. message \in Seq(S) /\ Len(message) = k /\ \A i \in 1 .. k : message[i] = e[i]
      BY <2>5, <2>6, Beginning
    <3>2. n \in 0 .. Len(message) /\ n \in 0 .. Len(e) /\ \A i \in 1 .. n : i \in 1 .. k
      BY <2>1, <2>6, <3>1, Lengths
    <3> DEFINE x == SubSeq(message, 1, n)
               y == SubSeq(e, 1, n)
    <3>3. x \in Seq(S) /\ Len(x) = n /\ \A i \in 1 .. n : x[i] = message[i]
      BY <3>1, <3>2, Beginning
    <3>4. y \in Seq(S) /\ Len(y) = n /\ \A i \in 1 .. n : y[i] = e[i]
      BY <2>5, <3>2, Beginning
    <3> HIDE DEF x, y
    <3>5. x = y
      BY <3>1, <3>2, <3>3, <3>4, SeqEqual
    <3>6. QED
      BY <3>5 DEF x, y
  <2>8. SentAs(key, nonce, n)'
    BY <2>1, <2>7 DEF SentAs, e
  <2>9. OnTheBus'
    <3>1. Sendable(prelude, typed)'
      BY <2>1, <2>4 DEF Sendable, Preludes, encrypt_error
    <3>2. QED
      BY <2>8, <3>1 DEF OnTheBus
  <2>10. typed # None
    BY <2>1, EmptySeq, Lengths DEF PInv
  <2>11. QED
    BY <2>1, <2>9, <2>10 DEF PInv, DeliveredAsSent
<1>4. ASSUME NEW priv_key \in PrivKeys, Decrypt(priv_key) PROVE PInv'
  <2>1. typed # None /\ result' = decrypt(priv_key, message)
        /\ UNCHANGED <<prelude, typed, message>>
    BY <1>4 DEF Decrypt
  <2>2. result'.err # "none" \/ result' = Arrived(prelude, typed)
    BY <2>1, DecryptOutcome DEF Outcome
  <2>3. DeliveredAsSent'
    BY <2>1, <2>2 DEF DeliveredAsSent, Arrived
  <2>4. OnTheBus => OnTheBus'
    BY <2>1 DEF OnTheBus, Sendable, Preludes, encrypt_error, SentAs
  <2>5. QED
    BY <2>1, <2>3, <2>4 DEF PInv
<1>5. CASE Again
  BY <1>5 DEF Again, PInv, DeliveredAsSent
<1>6. CASE UNCHANGED vars
  <2>1. OnTheBus => OnTheBus'
    BY <1>6 DEF vars, OnTheBus, Sendable, Preludes, encrypt_error, SentAs
  <2>2. QED
    BY <1>6, <2>1 DEF vars, PInv, DeliveredAsSent
<1>7. QED
  BY <1>1, <1>2, <1>3, <1>4, <1>5, <1>6 DEF Next

\* security.rs:162, 184: the bus carries the beginning of what encrypt made of
\* the prelude and of the typed password, until the next login.
THEOREM PreludeInvariant == Spec => []PInv
  BY PInvInit, PInvNext, PTL DEF Spec

\* The tokens and passwords are what the constants say; the message is no
\* longer than encrypt makes it, and its header is of bytes.
THEOREM PreludeTypeCorrect == Spec => []TypeOK
<1>1. PInv => TypeOK
  <2> SUFFICES ASSUME PInv PROVE TypeOK
    OBVIOUS
  <2>1. prelude # None => prelude.one_time_token \in OneTimeTokens
    BY DEF PInv, Preludes
  <2>2. CASE message = <<>>
    BY <2>1, <2>2, EmptySeq, Lengths DEF PInv, TypeOK
  <2>3. CASE OnTheBus
    <3> DEFINE h == header(RSA_LEN)
    <3>1. Sendable(prelude, typed)
      BY <2>3 DEF OnTheBus
    <3>2. PICK key \in AesKeys, nonce \in Nonces, k \in 0 .. FULL_LEN : SentAs(key, nonce, k)
      BY <2>3 DEF OnTheBus
    <3>3. Received(message, prelude, typed, key, nonce, k)
      BY <3>1, <3>2, SentIsReceived
    <3>4. Len(message) = k /\ k \in Nat /\ k <= FULL_LEN
      BY <3>3, Lengths DEF Received
    <3>5. h \in Seq(Byte) /\ Len(h) = ENCRYPTED_KEY_LEN
      BY Lengths, HeaderBytes
    <3>6. \A i \in 1 .. ENCRYPTED_KEY_LEN :
             encrypt(prelude, typed, key, nonce)[i] = h[i] /\ h[i] \in Byte
      BY <3>1, <3>5, Layout, Lengths, ElementOfSeq
    <3>7. \A i \in 1 .. ENCRYPTED_KEY_LEN : i <= Len(message) => message[i] \in Byte
      BY <3>3, <3>4, <3>6, Lengths DEF Received
    <3>8. QED
      BY <2>1, <3>4, <3>7 DEF PInv, TypeOK
  <2>4. QED
    BY <2>2, <2>3 DEF PInv
<1>2. QED
  BY <1>1, PreludeInvariant, PTL

\* security.rs:120, 65, 76, 233: whatever decrypt returns without an error is
\* the token that was handed out and the password that was typed, for every
\* length of token, header, nonce, tag and RSA block, every password and key.
THEOREM Delivered == Spec => []DeliveredAsSent
<1>1. PInv => DeliveredAsSent
  BY DEF PInv
<1>2. QED
  BY <1>1, PreludeInvariant, PTL

\* security.rs:151, 184: a password that encrypt accepts and that arrives whole
\* is decrypted by the service whose key the prelude holds.
THEOREM Arrives == Spec => []HonestArrives
<1>1. PInv => HonestArrives
  <2> SUFFICES ASSUME PInv, NEW k \in PrivKeys, typed # None, Len(message) = FULL_LEN,
                      k = prelude.pub_pkcs1_pem
               PROVE  decrypt(k, message).err = "none"
    BY DEF HonestArrives
  <2>1. decrypt(k, message) = Arrived(prelude, typed)
    BY DecryptOutcome, Lengths
  <2>2. QED
    BY <2>1 DEF Arrived
<1>2. QED
  BY <1>1, PreludeInvariant, PTL

\* security.rs:180, 190: a message cut anywhere is refused with an error, with
\* whichever key it is decrypted, and no slice is out of range.
THEOREM CutsRefused == Spec => []CutIsRefused
<1>1. PInv => CutIsRefused
  <2> SUFFICES ASSUME PInv, NEW k \in PrivKeys, Len(message) < FULL_LEN
               PROVE  decrypt(k, message).err \notin {"none", "panic"}
    BY DEF CutIsRefused
  <2>1. Len(message) # FULL_LEN
    BY Lengths
  <2>2. QED
    BY <2>1, DecryptOutcome DEF Outcome
<1>2. QED
  BY <1>1, PreludeInvariant, PTL
============================================================================
