---------------------------- MODULE Number_proofs ----------------------------
(***************************************************************************)
(* For every text, size of the integers and length at which the scanners   *)
(* give up that fits the sizes: an integer that is accepted has the value  *)
(* its digits make and the type its suffixes say, and a floating number    *)
(* the form one has.                                                       *)
(***************************************************************************)
EXTENDS NumberProps, NaturalsInduction, WellFoundedInduction, SequenceTheorems, FiniteSetTheorems, TLAPS

-----------------------------------------------------------------------------
(* Functions of the natural numbers that are defined by recursion exist,   *)
(* and what holds of 0 and is passed on holds of all numbers.  The library *)
(* states this for operators; here it is stated for sets and functions.    *)

(* Of the numbers of a set one is the least.                               *)
LEMMA LeastExists ==
    ASSUME NEW D \in SUBSET Nat, D # {}
    PROVE  \E i \in D : \A j \in D : i <= j
<1>1. PICK i \in D : \A j \in D : ~(<<j, i>> \in OpToRel(<, Nat))
  BY WFMin, NatLessThanWellFounded, Zenon
<1>2. \A j \in D : ~(j < i)
  BY <1>1, Zenon DEF OpToRel
<1> QED
  BY <1>2

(* What holds of 0 and is passed on holds of every number.                 *)
LEMMA AllNumbers ==
    ASSUME NEW D \in SUBSET Nat, 0 \in D, \A n \in Nat : n \in D => n + 1 \in D
    PROVE  D = Nat
<1> SUFFICES ASSUME Nat \ D # {} PROVE FALSE
  OBVIOUS
<1>1. PICK i \in Nat \ D : \A j \in Nat \ D : i <= j
  BY LeastExists
<1>2. i # 0 /\ i - 1 \in Nat /\ ~(i <= i - 1)
  BY <1>1
<1>3. i - 1 \in D
  BY <1>1, <1>2
<1>4. (i - 1) + 1 \in D
  BY <1>2, <1>3
<1> QED
  BY <1>1, <1>4

(* A function of numbers may be defined by its value at 0 and by what      *)
(* becomes of each value.                                                  *)
Starts(f, z, g, n) == /\ f[0] = z
                      /\ \A i \in 1..n : f[i] = g[i][f[i - 1]]
Follows(S, f, z, g, n) == f \in [0..n -> S] /\ Starts(f, z, g, n)

(* As far as one likes there is such a function.                           *)
LEMMA FollowsOn ==
    ASSUME NEW S, NEW z \in S, NEW g \in [Nat -> [S -> S]]
    PROVE  \A n \in Nat : \E f : Follows(S, f, z, g, n)
<1> DEFINE D == {n \in Nat : \E f : Follows(S, f, z, g, n)}
<1>1. 0 \in D
  <2> DEFINE f == [i \in 0..0 |-> z]
  <2>1. Follows(S, f, z, g, 0)
    BY DEF Follows, Starts
  <2> QED
    BY <2>1
<1>2. ASSUME NEW n \in Nat, n \in D PROVE n + 1 \in D
  <2>1. PICK f : Follows(S, f, z, g, n)
    BY <1>2
  <2> DEFINE h == [i \in 0..n + 1 |-> IF i = n + 1 THEN g[n + 1][f[n]] ELSE f[i]]
  <2>2. f \in [0..n -> S] /\ f[0] = z /\ \A i \in 1..n : f[i] = g[i][f[i - 1]]
    BY <2>1 DEF Follows, Starts
  <2>3. f[n] \in S /\ g[n + 1] \in [S -> S]
    <3>1. n \in 0..n /\ n + 1 \in Nat
      OBVIOUS
    <3> QED
      BY <2>2, <3>1
  <2>4. h \in [0..n + 1 -> S]
    <3>1. g[n + 1][f[n]] \in S
      BY <2>3
    <3>2. \A i \in 0..n + 1 : i # n + 1 => i \in 0..n
      OBVIOUS
    <3> QED
      BY <2>2, <3>1, <3>2
  <2>5. h[0] = z
    <3>1. 0 \in 0..n + 1 /\ 0 # n + 1
      OBVIOUS
    <3> QED
      BY <2>2, <3>1
  <2>6. ASSUME NEW i \in 1..n + 1 PROVE h[i] = g[i][h[i - 1]]
    <3>1. i - 1 \in 0..n + 1 /\ i - 1 # n + 1 /\ i \in 0..n + 1
      OBVIOUS
    <3>2. h[i - 1] = f[i - 1]
      BY <3>1
    <3>3. CASE i = n + 1
      BY <3>2, <3>3
    <3>4. CASE i # n + 1
      <4>1. i \in 1..n
        BY <3>4
      <4> QED
        BY <2>2, <3>1, <3>2, <3>4, <4>1
    <3> QED
      BY <3>3, <3>4
  <2> HIDE DEF h
  <2>7. Follows(S, h, z, g, n + 1)
    BY <2>4, <2>5, <2>6 DEF Follows, Starts
  <2> QED
    BY <2>7
<1> HIDE DEF D
<1>3. D = Nat
  BY <1>1, <1>2, AllNumbers DEF D
<1> QED
  BY <1>3 DEF D

(* Two of them agree as far as both go.                                    *)
LEMMA FollowsOnce ==
    ASSUME NEW S, NEW z, NEW g, NEW n \in Nat, NEW m \in Nat, n <= m,
           NEW f, NEW h, Follows(S, f, z, g, n), Follows(S, h, z, g, m)
    PROVE  \A i \in 0..n : f[i] = h[i]
<1> DEFINE D == {i \in Nat : i <= n => f[i] = h[i]}
<1>1. 0 \in D
  BY DEF Follows, Starts
<1>2. ASSUME NEW i \in Nat, i \in D PROVE i + 1 \in D
  <2> SUFFICES ASSUME i + 1 <= n PROVE f[i + 1] = h[i + 1]
    OBVIOUS
  <2>1. i + 1 \in 1..n /\ i + 1 \in 1..m /\ (i + 1) - 1 = i /\ i <= n
    OBVIOUS
  <2>2. f[i] = h[i]
    BY <1>2, <2>1
  <2>3. f[i + 1] = g[i + 1][f[(i + 1) - 1]] /\ h[i + 1] = g[i + 1][h[(i + 1) - 1]]
    BY <2>1 DEF Follows, Starts
  <2> QED
    BY <2>1, <2>2, <2>3
<1> HIDE DEF D
<1>3. D = Nat
  BY <1>1, <1>2, AllNumbers DEF D
<1> QED
  BY <1>3 DEF D

(* The last value of the shorter one is that of the longer one there.      *)
LEMMA FollowsSame ==
    ASSUME NEW S, NEW z, NEW g, NEW k \in Nat, NEW n \in Nat, n = k + 1,
           NEW p, NEW q, Follows(S, p, z, g, k), Follows(S, q, z, g, n)
    PROVE  p[k] = q[k]
<1>1. k <= n /\ k \in 0..k
  OBVIOUS
<1>2. \A i \in 0..k : p[i] = q[i]
  BY <1>1, FollowsOnce
<1> QED
  BY <1>1, <1>2

(* f is the function defined so for all numbers, and stays in S.           *)
Recursive(S, f, z, g) == /\ f = [n \in Nat |-> IF n = 0 THEN z ELSE g[n][f[n - 1]]]
                         /\ f \in [Nat -> S]

(* There is one.                                                           *)
LEMMA Recursion ==
    ASSUME NEW S, NEW z \in S, NEW g \in [Nat -> [S -> S]]
    PROVE  \E f : Recursive(S, f, z, g)
<1> DEFINE Up(n) == CHOOSE f : Follows(S, f, z, g, n)
           f == [n \in Nat |-> Up(n)[n]]
<1>1. \A n \in Nat : Follows(S, Up(n), z, g, n)
  BY FollowsOn
<1> HIDE DEF Up
<1>2. ASSUME NEW n \in Nat PROVE f[n] = IF n = 0 THEN z ELSE g[n][f[n - 1]]
  <2>1. CASE n = 0
    BY <1>1, <2>1 DEF Follows, Starts
  <2>2. CASE n # 0
    <3>1. n \in 1..n /\ n - 1 \in Nat /\ n - 1 <= n /\ n - 1 \in 0..n - 1
      BY <2>2
    <3>2. Up(n)[n] = g[n][Up(n)[n - 1]]
      BY <1>1, <3>1 DEF Follows, Starts
    <3>3. Follows(S, Up(n - 1), z, g, n - 1) /\ Follows(S, Up(n), z, g, n)
      BY <1>1, <3>1
    <3>4. Up(n - 1)[n - 1] = Up(n)[n - 1]
      <4> DEFINE k == n - 1
      <4>1. k \in Nat /\ n = k + 1 /\ Follows(S, Up(k), z, g, k) /\ Follows(S, Up(n), z, g, n)
        BY <3>1, <3>3
      <4> HIDE DEF k, f
      <4>2. Up(k)[k] = Up(n)[k]
        BY <4>1, FollowsSame
      <4> QED
        BY <4>2 DEF k
    <3> QED
      BY <2>2, <3>1, <3>2, <3>4
  <2> QED
    BY <2>1, <2>2
<1> HIDE DEF f
<1>3. f = [n \in Nat |-> IF n = 0 THEN z ELSE g[n][f[n - 1]]]
  <2>1. f = [n \in Nat |-> f[n]]
    BY DEF f
  <2> QED
    BY <1>2, <2>1
<1>4. f \in [Nat -> S]
  <2>1. \A n \in Nat : Up(n)[n] \in S
    BY <1>1 DEF Follows
  <2> QED
    BY <2>1 DEF f
<1> QED
  BY <1>3, <1>4 DEF Recursive

-----------------------------------------------------------------------------
(* The recursive functions of NumberProps.                                 *)
LEMMA PowerIs ==
    ASSUME NEW b \in Nat
    PROVE  /\ Power(b)[0] = 1
           /\ \A n \in Nat : Power(b)[n] \in Nat /\ Power(b)[n + 1] = b * Power(b)[n]
<1> DEFINE g == [n \in Nat |-> [x \in Nat |-> b * x]]
           Def(p) == [n \in Nat |-> IF n = 0 THEN 1 ELSE b * p[n - 1]]
<1>1. g \in [Nat -> [Nat -> Nat]]
  OBVIOUS
<1>2. PICK f : Recursive(Nat, f, 1, g)
  <2> HIDE DEF g
  <2> QED
    BY <1>1, Recursion
<1>3. f = Def(f)
  <2>1. ASSUME NEW n \in Nat, n # 0 PROVE g[n][f[n - 1]] = b * f[n - 1]
    <3>1. f[n - 1] \in Nat
      <4>1. f \in [Nat -> Nat] /\ n - 1 \in Nat
        <5>1. n - 1 \in Nat
          BY <2>1
        <5> QED
          BY <1>2, <5>1, Zenon DEF Recursive
      <4> HIDE DEF g
      <4> QED
        BY <4>1
    <3>2. g[n] = [x \in Nat |-> b * x]
      OBVIOUS
    <3> QED
      BY <3>1, <3>2
  <2> HIDE DEF g
  <2> QED
    BY <1>2, <2>1 DEF Recursive
<1>4. Power(b) = CHOOSE p : p = Def(p)
  BY DEF Power
<1>5. Power(b) = Def(Power(b))
  BY <1>3, <1>4, Zenon
<1> DEFINE D == {n \in Nat : Power(b)[n] \in Nat}
<1>6. Power(b)[0] = 1 /\ \A n \in Nat : n # 0 => Power(b)[n] = b * Power(b)[n - 1]
  BY <1>5
<1> HIDE DEF Def
<1>7. \A n \in Nat : Power(b)[n + 1] = b * Power(b)[n]
  <2> TAKE n \in Nat
  <2>1. n + 1 \in Nat /\ n + 1 # 0 /\ (n + 1) - 1 = n
    OBVIOUS
  <2> QED
    BY <1>6, <2>1
<1>8. D = Nat
  <2>1. 0 \in D
    BY <1>6
  <2>2. \A n \in Nat : n \in D => n + 1 \in D
    BY <1>7
  <2> HIDE DEF D
  <2> QED
    BY <2>1, <2>2, AllNumbers DEF D
<1>9. \A n \in Nat : Power(b)[n] \in Nat
  BY <1>8
<1> QED
  BY <1>6, <1>7, <1>9, Zenon

LEMMA WeightsAre ==
    ASSUME NEW t \in Seq(STRING), NEW r \in Nat
    PROVE  /\ Weights(t, r)[0] = 1
           /\ \A n \in Nat :
                /\ Weights(t, r)[n] \in Nat
                /\ Weights(t, r)[n + 1] = IF DigitAt(t, r, Len(t) - n)
                                          THEN r * Weights(t, r)[n] ELSE Weights(t, r)[n]
<1> DEFINE g == [n \in Nat |-> [x \in Nat |-> IF DigitAt(t, r, Len(t) - n + 1) THEN r * x
                                              ELSE x]]
           Def(w) == [n \in Nat |-> IF n = 0 THEN 1
                                    ELSE IF DigitAt(t, r, Len(t) - n + 1) THEN r * w[n - 1]
                                    ELSE w[n - 1]]
           W == Weights(t, r)
<1>1. g \in [Nat -> [Nat -> Nat]]
  OBVIOUS
<1>2. PICK f : Recursive(Nat, f, 1, g)
  <2> HIDE DEF g
  <2> QED
    BY <1>1, Recursion
<1>3. f = Def(f)
  <2>1. ASSUME NEW n \in Nat, n # 0
        PROVE  g[n][f[n - 1]] = IF DigitAt(t, r, Len(t) - n + 1) THEN r * f[n - 1]
                                ELSE f[n - 1]
    <3>1. f[n - 1] \in Nat
      <4>1. f \in [Nat -> Nat] /\ n - 1 \in Nat
        <5>1. n - 1 \in Nat
          BY <2>1
        <5> QED
          BY <1>2, <5>1, Zenon DEF Recursive
      <4> HIDE DEF g
      <4> QED
        BY <4>1
    <3>2. g[n] = [x \in Nat |-> IF DigitAt(t, r, Len(t) - n + 1) THEN r * x ELSE x]
      OBVIOUS
    <3> QED
      BY <3>1, <3>2
  <2> HIDE DEF g
  <2> QED
    BY <1>2, <2>1 DEF Recursive
<1>4. W = CHOOSE w : w = Def(w)
  BY DEF Weights
<1>5. W = Def(W)
  <2> HIDE DEF W, Def
  <2> QED
    BY <1>3, <1>4, Zenon
<1> HIDE DEF W
<1>6. W[0] = 1 /\ \A n \in Nat : n # 0 => W[n] = IF DigitAt(t, r, Len(t) - n + 1)
                                               THEN r * W[n - 1] ELSE W[n - 1]
  BY <1>5
<1> HIDE DEF Def
<1>7. \A n \in Nat : W[n + 1] = IF DigitAt(t, r, Len(t) - n) THEN r * W[n] ELSE W[n]
  <2> TAKE n \in Nat
  <2>1. /\ n + 1 \in Nat /\ n + 1 # 0 /\ (n + 1) - 1 = n
        /\ Len(t) - (n + 1) + 1 = Len(t) - n
    BY LenProperties
  <2> QED
    BY <1>6, <2>1
<1> DEFINE D == {n \in Nat : W[n] \in Nat}
<1>8. D = Nat
  <2>1. 0 \in D
    BY <1>6
  <2>2. ASSUME NEW n \in Nat, W[n] \in Nat PROVE W[n + 1] \in Nat
    <3>1. r * W[n] \in Nat
      BY <2>2
    <3> QED
      BY <1>7, <2>2, <3>1
  <2>3. \A n \in Nat : n \in D => n + 1 \in D
    BY <2>2
  <2> HIDE DEF D
  <2> QED
    BY <2>1, <2>3, AllNumbers DEF D
<1>9. \A n \in Nat : W[n] \in Nat
  BY <1>8
<1> QED
  BY <1>6, <1>7, <1>9, Zenon DEF W

-----------------------------------------------------------------------------
(* What the digits are worth.                                              *)
LEMMA NumeralsApart ==
    \A v, w \in 1..16 : Numerals[v] = Numerals[w] => v = w
  BY DEF Numerals

LEMMA WorthIs ==
    ASSUME NEW k \in 1..16, NEW c \in {Numerals[v] : v \in 1..k}
    PROVE  Worth(c) \in 0..k - 1
<1>1. PICK v \in 1..k : c = Numerals[v]
  OBVIOUS
<1>2. v \in 1..16
  OBVIOUS
<1> DEFINE w == CHOOSE u \in 1..16 : Numerals[u] = c
<1>3. w \in 1..16 /\ Numerals[w] = c
  BY <1>1, <1>2, Zenon
<1> HIDE DEF w
<1>4. w = v
  BY <1>1, <1>2, <1>3, NumeralsApart
<1>5. Worth(c) = w - 1
  BY Zenon DEF Worth, w
<1> QED
  BY <1>1, <1>4, <1>5

Greatest(r) == IF r = 8 THEN 8 ELSE r - 1

LEMMA DigitIs ==
    ASSUME NEW r \in {8, 10, 16}, NEW c \in Digits[r]
    PROVE  /\ Worth(c) \in 0..Greatest(r) /\ Worth(c) \in Nat
           /\ c \notin {"u", "l", ".", "x", "+", "-"}
           /\ r = 10 => c \in Decimals
<1> DEFINE k == IF r = 8 THEN 9 ELSE IF r = 10 THEN 10 ELSE 16
<1>1. Digits[r] = {Numerals[v] : v \in 1..k}
  BY DEF Digits
<1>2. k \in 1..16 /\ k - 1 = Greatest(r)
  BY DEF Greatest
<1> HIDE DEF k
<1>3. Worth(c) \in 0..k - 1
  BY <1>1, <1>2, WorthIs
<1>4. c \notin {"u", "l", ".", "x", "+", "-"}
  <2>1. \A v \in 1..16 : Numerals[v] \notin {"u", "l", ".", "x", "+", "-"}
    BY DEF Numerals
  <2> QED
    BY <1>1, <1>2, <2>1
<1>5. r = 10 => c \in Decimals
  BY DEF Digits, Decimals
<1> QED
  BY <1>2, <1>3, <1>4, <1>5 DEF Greatest

LEMMA ZeroIsNothing == Worth("0") = 0
<1>1. Numerals[1] = "0" /\ 1 \in 1..16
  BY DEF Numerals
<1> DEFINE w == CHOOSE u \in 1..16 : Numerals[u] = "0"
<1>2. w \in 1..16 /\ Numerals[w] = "0"
  BY <1>1, Zenon
<1> HIDE DEF w
<1>3. w = 1
  BY <1>1, <1>2, NumeralsApart
<1> QED
  BY <1>3 DEF Worth, w

LEMMA SumsAre ==
    ASSUME NEW t \in Seq(STRING), NEW r \in {8, 10, 16}
    PROVE  /\ Sums(t, r)[0] = 0
           /\ \A n \in Nat :
                /\ Sums(t, r)[n] \in Nat
                /\ Sums(t, r)[n + 1] =
                      IF DigitAt(t, r, n + 1)
                      THEN Sums(t, r)[n] + Worth(t[n + 1]) * Weights(t, r)[Len(t) - (n + 1)]
                      ELSE Sums(t, r)[n]
<1> DEFINE More(n) == Worth(t[n]) * Weights(t, r)[Len(t) - n]
           g == [n \in Nat |-> [x \in Nat |-> IF DigitAt(t, r, n) THEN x + More(n) ELSE x]]
           Def(s) == [n \in Nat |-> IF n = 0 THEN 0
                                    ELSE IF DigitAt(t, r, n) THEN s[n - 1] + More(n)
                                    ELSE s[n - 1]]
           S == Sums(t, r)
<1>0. ASSUME NEW n \in Nat, DigitAt(t, r, n) PROVE More(n) \in Nat
  <2>1. n <= Len(t) /\ t[n] \in Digits[r] /\ Len(t) - n \in Nat
    BY <1>0, LenProperties DEF DigitAt
  <2>2. Worth(t[n]) \in Nat
    BY <2>1, DigitIs
  <2>3. Weights(t, r)[Len(t) - n] \in Nat
    <3>1. r \in Nat
      OBVIOUS
    <3> QED
      BY <2>1, <3>1, WeightsAre, Zenon
  <2> QED
    BY <2>2, <2>3
<1>1. g \in [Nat -> [Nat -> Nat]]
  <2> HIDE DEF More
  <2> QED
    BY <1>0
<1>2. PICK f : Recursive(Nat, f, 0, g)
  <2> HIDE DEF g
  <2> QED
    BY <1>1, Recursion
<1>3. f = Def(f)
  <2>1. ASSUME NEW n \in Nat, n # 0
        PROVE  g[n][f[n - 1]] = IF DigitAt(t, r, n) THEN f[n - 1] + More(n) ELSE f[n - 1]
    <3>1. f[n - 1] \in Nat
      <4>1. f \in [Nat -> Nat] /\ n - 1 \in Nat
        <5>1. n - 1 \in Nat
          BY <2>1
        <5> QED
          BY <1>2, <5>1, Zenon DEF Recursive
      <4> HIDE DEF g
      <4> QED
        BY <4>1
    <3> HIDE DEF More
    <3>2. g[n] = [x \in Nat |-> IF DigitAt(t, r, n) THEN x + More(n) ELSE x]
      OBVIOUS
    <3> QED
      BY <3>1, <3>2
  <2> HIDE DEF g, More
  <2> QED
    BY <1>2, <2>1 DEF Recursive
<1>4. S = CHOOSE s : s = Def(s)
  BY DEF Sums
<1> HIDE DEF More
<1>5. S = Def(S)
  <2> HIDE DEF S, Def
  <2> QED
    BY <1>3, <1>4, Zenon
<1> HIDE DEF S
<1>6. S[0] = 0 /\ \A n \in Nat : n # 0 => S[n] = IF DigitAt(t, r, n)
                                               THEN S[n - 1] + More(n) ELSE S[n - 1]
  BY <1>5
<1> HIDE DEF Def
<1>7. \A n \in Nat : S[n + 1] = IF DigitAt(t, r, n + 1) THEN S[n] + More(n + 1) ELSE S[n]
  <2> TAKE n \in Nat
  <2>1. n + 1 \in Nat /\ n + 1 # 0 /\ (n + 1) - 1 = n
    OBVIOUS
  <2> QED
    BY <1>6, <2>1
<1> DEFINE D == {n \in Nat : S[n] \in Nat}
<1>8. D = Nat
  <2>1. 0 \in D
    BY <1>6
  <2>2. ASSUME NEW n \in Nat, S[n] \in Nat PROVE S[n + 1] \in Nat
    <3>1. CASE DigitAt(t, r, n + 1)
      <4>1. More(n + 1) \in Nat
        BY <1>0, <3>1
      <4>2. S[n + 1] = S[n] + More(n + 1)
        BY <1>7, <3>1
      <4> HIDE DEF D
      <4> QED
        BY <2>2, <4>1, <4>2
    <3>2. CASE ~DigitAt(t, r, n + 1)
      BY <1>7, <2>2, <3>2
    <3> QED
      BY <3>1, <3>2
  <2>3. \A n \in Nat : n \in D => n + 1 \in D
    BY <2>2
  <2> HIDE DEF D
  <2> QED
    BY <2>1, <2>3, AllNumbers DEF D
<1>9. \A n \in Nat : S[n] \in Nat
  BY <1>8
<1> QED
  BY <1>6, <1>7, <1>9, Zenon DEF S, More

-----------------------------------------------------------------------------
(* How far a number has grown after n of its digits.                       *)
LEMMA PowerGrows ==
    ASSUME NEW b \in Nat \ {0}, NEW n \in Nat, NEW m \in Nat, n <= m
    PROVE  Power(b)[n] <= Power(b)[m]
<1> DEFINE P == Power(b)
           D == {k \in Nat : P[n] <= P[n + k]}
<1>1. \A k \in Nat : P[k] \in Nat /\ P[k + 1] = b * P[k]
  BY PowerIs
<1> HIDE DEF P
<1>2. D = Nat
  <2>1. 0 \in D
    <3>1. n + 0 = n /\ P[n] \in Nat
      BY <1>1
    <3> QED
      BY <3>1
  <2>2. ASSUME NEW k \in Nat, P[n] <= P[n + k] PROVE P[n] <= P[n + (k + 1)]
    <3>1. n + k \in Nat /\ n + (k + 1) = (n + k) + 1
      OBVIOUS
    <3>2. P[n] \in Nat /\ P[n + k] \in Nat /\ P[n + (k + 1)] = b * P[n + k]
      BY <1>1, <3>1
    <3>3. \A x \in Nat : x <= b * x
      OBVIOUS
    <3>4. b * P[n + k] \in Nat
      BY <3>2
    <3> QED
      BY <2>2, <3>2, <3>3, <3>4
  <2>3. \A k \in Nat : k \in D => k + 1 \in D
    BY <2>2
  <2> HIDE DEF D
  <2> QED
    BY <2>1, <2>3, AllNumbers DEF D
<1>3. m - n \in Nat /\ n + (m - n) = m
  OBVIOUS
<1> QED
  BY <1>2, <1>3 DEF P

LEMMA OneDigitMore ==
    ASSUME NEW r \in {8, 10, 16}, NEW v \in Nat, NEW d \in 0..Greatest(r), NEW n \in Nat,
           NEW b, b = (IF r = 8 THEN 9 ELSE r), v < Power(b)[n]
    PROVE  v * r + d \in Nat /\ v * r + d < Power(b)[n + 1]
<1>1. b \in Nat
  OBVIOUS
<1>2. Power(b)[n] \in Nat /\ Power(b)[n + 1] = b * Power(b)[n]
  BY <1>1, PowerIs
<1> DEFINE x == Power(b)[n]
<1>3. x \in Nat /\ v + 1 <= x
  BY <1>2
<1> HIDE DEF x
<1>4. v * r + d \in Nat /\ v * r + d < b * x
  BY <1>3 DEF Greatest
<1> QED
  BY <1>2, <1>4 DEF x

-----------------------------------------------------------------------------
(* The inductive invariant.  Of the characters before tp, an integer       *)
(* scanner keeps their value, times what they count in the whole number,   *)
(* and knows their suffixes; a floating one their marks.                   *)
Base(r) == IF r = 8 THEN 9 ELSE r
Grown(r, n) == IF r = 8 /\ n # 0 THEN n - 1 ELSE n  \* the first one is '0'
So(t, c, n) == {i \in 1..n : t[i] = c}
AtMostOne(S) == \A i, j \in S : i = j
Ahead(t, c, d, n) == \A i \in So(t, c, n), j \in So(t, d, n) : i < j

Fits(r, n, v) ==
    /\ ~TooLong(n)
    /\ v < Power(Base(r))[Grown(r, n)]
Valued(t, r, n, v) == v * Weights(t, r)[Len(t) - n] = Sums(t, r)[n]
Flagged(t, n, fl) ==
    /\ fl \subseteq IntegerFlags
    /\ "unsigned" \in fl <=> So(t, "u", n) # {}
    /\ "long" \in fl <=> So(t, "l", n) # {}
Remembered(t, r, n, sn) ==
    /\ "u" \in sn <=> So(t, "u", n) # {} \/ (r # 16 /\ So(t, "l", n) # {})
    /\ "l" \in sn <=> r = 16 /\ So(t, "l", n) # {}
Sensible(t, r, n) ==
    /\ AtMostOne(So(t, "u", n))
    /\ r = 16 => AtMostOne(So(t, "l", n))
    /\ r # 16 => Ahead(t, "u", "l", n)

InInteger ==
    pc = "integer" =>
        /\ Fits(radix, times, result)
        /\ radix = 16 => at > 2
        /\ times = 0 => result = 0 /\ (radix = 8 => at = 1)
        /\ Valued(text, radix, at - 1, result)
        /\ flags \subseteq IntegerFlags
        /\ marks["."] = 0 /\ marks["e"] = 0
        /\ errors = {} => /\ Flagged(text, at - 1, flags)
                          /\ Remembered(text, radix, at - 1, seen)
                          /\ Sensible(text, radix, at - 1)

Marked(t, n, mk) ==
    /\ \A c \in {".", "e", "f", "l"} : /\ mk[c] = 0 => So(t, c, n) = {}
                                       /\ mk[c] <= 1 => AtMostOne(So(t, c, n))
    /\ mk["."] <= 1 /\ mk["e"] <= 1
    /\ Ahead(t, ".", "e", n)
    /\ So(t, "u", n) = {} /\ So(t, "x", n) = {}
InFloat ==
    pc = "float" => /\ radix = 10
                    /\ flags \subseteq FloatFlags /\ flags # {}
                    /\ Marked(text, at - 1, marks)

Well ==
    pc = "done" /\ errors = {} =>
        \/ /\ at = Len(text) + 1
           /\ Fits(radix, times, result)
           /\ Valued(text, radix, Len(text), result)
           /\ Flagged(text, Len(text), flags)
           /\ Sensible(text, radix, Len(text))
        \/ /\ \A c \in {".", "e", "f", "l"} : AtMostOne(So(text, c, Len(text)))
           /\ Ahead(text, ".", "e", Len(text))
           /\ So(text, "u", Len(text)) = {} /\ So(text, "x", Len(text)) = {}
           /\ flags \in {{f} : f \in FloatFlags}

NInv ==
    /\ TypeOK
    /\ text \in Texts /\ radix = RadixOf(text)
    /\ InInteger /\ InFloat /\ Well

-----------------------------------------------------------------------------
(* One character more.                                                     *)
LEMMA TextIs ==
    ASSUME NEW t \in Texts
    PROVE  /\ t \in Seq(STRING) /\ Len(t) \in Nat /\ Len(t) > 0
           /\ RadixOf(t) \in {8, 10, 16}
           /\ RadixOf(t) = 8 => t[1] = "0"
           /\ RadixOf(t) = 16 => t[1] = "0" /\ t[2] = "x" /\ Len(t) > 1
<1>1. t \in Seq(STRING) /\ t # <<>>
  BY TextsAssumption
<1>2. Len(t) \in Nat /\ Len(t) > 0
  BY <1>1, EmptySeq, LenProperties
<1> QED
  BY <1>1, <1>2 DEF RadixOf

LEMMA SoNext ==
    ASSUME NEW t, NEW c, NEW n \in Nat, NEW k, k = n + 1
    PROVE  /\ So(t, c, k) = IF t[k] = c THEN So(t, c, n) \cup {k} ELSE So(t, c, n)
           /\ So(t, c, n) \subseteq 1..n
           /\ So(t, c, 0) = {}
<1>1. 1..k = (1..n) \cup {k} /\ 1..0 = {}
  OBVIOUS
<1> QED
  BY <1>1 DEF So

AllNext(t, n, k) ==
    \A c : /\ t[k] = c => So(t, c, k) = So(t, c, n) \cup {k}
           /\ t[k] # c => So(t, c, k) = So(t, c, n)
           /\ So(t, c, n) \subseteq 1..n

LEMMA SoNexts ==
    ASSUME NEW t, NEW n \in Nat, NEW k, k = n + 1
    PROVE  AllNext(t, n, k)
<1>1. ASSUME NEW c
      PROVE  /\ t[k] = c => So(t, c, k) = So(t, c, n) \cup {k}
             /\ t[k] # c => So(t, c, k) = So(t, c, n)
             /\ So(t, c, n) \subseteq 1..n
  BY SoNext
<1> QED
  BY <1>1 DEF AllNext

LEMMA ValuedDigit ==
    ASSUME NEW t \in Seq(STRING), NEW r \in {8, 10, 16}, NEW n \in Nat, NEW v \in Nat,
           DigitAt(t, r, n + 1), Valued(t, r, n, v)
    PROVE  Valued(t, r, n + 1, v * r + Worth(t[n + 1]))
<1>1. /\ n + 1 <= Len(t) /\ t[n + 1] \in Digits[r] /\ Len(t) \in Nat
  BY LenProperties DEF DigitAt
<1> DEFINE m == Len(t) - (n + 1)
           x == Weights(t, r)[m]
           y == Weights(t, r)[Len(t) - n]
           d == Worth(t[n + 1])
<1>2. m \in Nat /\ m + 1 = Len(t) - n /\ Len(t) - m = n + 1
  BY <1>1
<1>3. x \in Nat /\ y = r * x
  <2>1. /\ Weights(t, r)[m] \in Nat
        /\ Weights(t, r)[m + 1] = IF DigitAt(t, r, Len(t) - m)
                                  THEN r * Weights(t, r)[m] ELSE Weights(t, r)[m]
    <3> HIDE DEF m
    <3>1. r \in Nat
      OBVIOUS
    <3> QED
      BY <1>2, <3>1, WeightsAre
  <2> QED
    BY <1>2, <2>1
<1>4. Sums(t, r)[n + 1] = Sums(t, r)[n] + d * x
  BY SumsAre
<1>5. d \in Nat
  BY <1>1, DigitIs
<1>6. v * y = Sums(t, r)[n]
  BY DEF Valued
<1> HIDE DEF x, y, d
<1>7. (v * r + d) * x = v * (r * x) + d * x
  BY <1>3, <1>5
<1>8. (v * r + d) * x = Sums(t, r)[n + 1]
  BY <1>3, <1>4, <1>6, <1>7
<1> QED
  BY <1>8 DEF Valued, x, d

LEMMA ValuedOther ==
    ASSUME NEW t \in Seq(STRING), NEW r \in {8, 10, 16}, NEW n \in Nat, NEW v,
           n < Len(t), ~DigitAt(t, r, n + 1), Valued(t, r, n, v)
    PROVE  Valued(t, r, n + 1, v)
<1> DEFINE m == Len(t) - (n + 1)
<1>1. m \in Nat /\ m + 1 = Len(t) - n /\ Len(t) - m = n + 1
  BY LenProperties
<1>2. Weights(t, r)[m + 1] = Weights(t, r)[m]
  <2> HIDE DEF m
  <2>1. r \in Nat
    OBVIOUS
  <2>2. Weights(t, r)[m + 1] = IF DigitAt(t, r, Len(t) - m)
                               THEN r * Weights(t, r)[m] ELSE Weights(t, r)[m]
    BY <1>1, <2>1, WeightsAre
  <2> QED
    BY <1>1, <2>2
<1>3. Sums(t, r)[n + 1] = Sums(t, r)[n]
  BY SumsAre
<1> QED
  BY <1>1, <1>2, <1>3 DEF Valued

(* A number that is not too long fits the size it is computed in.          *)
LEMMA NoWrap ==
    ASSUME NEW n \in Nat, NEW v \in Nat, radix \in {8, 10, 16}, Fits(radix, n, v)
    PROVE  v < Size /\ (radix = 8 => v < IntValues \div 2)
<1>1. v < Power(Base(radix))[Grown(radix, n)]
  BY DEF Fits
<1>2. CASE radix = 10
  <2>1. n <= DecLimit /\ DecLimit \in Nat
    BY <1>2, LimitAssumption DEF Fits, TooLong
  <2>2. Power(10)[n] <= Power(10)[DecLimit] /\ Power(10)[n] \in Nat
        /\ Power(10)[DecLimit] \in Nat
    BY <2>1, PowerGrows, PowerIs
  <2>3. v < Power(10)[n]
    BY <1>1, <1>2 DEF Base, Grown
  <2> QED
    BY <1>2, <2>2, <2>3, FitAssumption, SizeAssumption DEF Size
<1>3. CASE radix = 16
  <2>1. n <= HexLimit /\ HexLimit \in Nat
    BY <1>3, LimitAssumption DEF Fits, TooLong
  <2>2. Power(16)[n] <= Power(16)[HexLimit] /\ Power(16)[n] \in Nat
        /\ Power(16)[HexLimit] \in Nat
    BY <2>1, PowerGrows, PowerIs
  <2>3. v < Power(16)[n]
    BY <1>1, <1>3 DEF Base, Grown
  <2> QED
    BY <1>3, <2>2, <2>3, FitAssumption, SizeAssumption DEF Size
<1>4. CASE radix = 8
  <2> DEFINE m == IF n = 0 THEN 0 ELSE n - 1
             k == OctLimit - 2
  <2>1. m <= k /\ m \in Nat /\ k \in Nat
    BY <1>4, LimitAssumption DEF Fits, TooLong
  <2>2. v < Power(9)[m]
    BY <1>1, <1>4 DEF Base, Grown
  <2>3. Power(9)[k] <= IntValues \div 2
    BY FitAssumption
  <2> HIDE DEF m, k
  <2>4. Power(9)[m] <= Power(9)[k] /\ Power(9)[m] \in Nat /\ Power(9)[k] \in Nat
    BY <2>1, PowerGrows, PowerIs
  <2>5. IntValues \div 2 \in Nat /\ IntValues \div 2 <= IntValues
    BY SizeAssumption
  <2> QED
    BY <1>4, <2>2, <2>3, <2>4, <2>5, SizeAssumption DEF Size
<1> QED
  BY <1>2, <1>3, <1>4

LEMMA SizeIs ==
    ASSUME radix \in {8, 10, 16}, NEW v \in Nat
    PROVE  /\ Size \in Nat \ {0} /\ Size <= LongValues /\ LongValues \in Nat \ {0}
           /\ v % Size \in 0..LongValues - 1
           /\ v < Size => v % Size = v
<1>1. /\ Size \in Nat \ {0} /\ Size <= LongValues /\ LongValues \in Nat \ {0}
  BY SizeAssumption DEF Size
<1>2. v % Size \in 0..Size - 1
  BY <1>1
<1>3. v < Size => v % Size = v
  BY <1>1
<1> QED
  BY <1>1, <1>2, <1>3

-----------------------------------------------------------------------------
(* The lengths.                                                            *)
LEMMA TooLongIs ==
    ASSUME radix \in {8, 10, 16}, NEW n \in Nat
    PROVE  LET top == CASE radix = 8 -> OctLimit [] radix = 10 -> DecLimit + 1
                        [] radix = 16 -> HexLimit + 1
           IN  /\ top \in Nat /\ top > 1
               /\ TooLong(n) <=> n >= top
<1>1. /\ DecLimit \in Nat /\ HexLimit \in Nat /\ OctLimit \in Nat
      /\ DecLimit > 1 /\ HexLimit > 1 /\ OctLimit > 1
  BY LimitAssumption
<1>2. CASE radix = 8
  BY <1>1, <1>2 DEF TooLong
<1>3. CASE radix = 10
  BY <1>1, <1>3 DEF TooLong
<1>4. CASE radix = 16
  BY <1>1, <1>4 DEF TooLong
<1> QED
  BY <1>2, <1>3, <1>4

LEMMA SumsSkip ==
    ASSUME NEW t \in Seq(STRING), NEW r \in {8, 10, 16}, NEW n \in Nat, NEW k, k = n + 1,
           ~DigitAt(t, r, k)
    PROVE  Sums(t, r)[k] = Sums(t, r)[n]
  BY SumsAre

(* The invariant holds at first.                                           *)
LEMMA InitNumber == Init => NInv
<1> SUFFICES ASSUME Init PROVE NInv
  OBVIOUS
<1>1. /\ text \in Texts /\ radix = RadixOf(text) /\ pc = "integer" /\ times = 0 /\ result = 0
      /\ at = (IF radix = 16 THEN 3 ELSE 1) /\ seen = {} /\ flags = {} /\ errors = {}
      /\ marks = [m \in {".", "e", "f", "l"} |-> 0]
  BY DEF Init
<1>2. /\ text \in Seq(STRING) /\ Len(text) \in Nat /\ Len(text) > 0 /\ radix \in {8, 10, 16}
      /\ radix = 16 => text[1] = "0" /\ text[2] = "x" /\ Len(text) > 1
  BY <1>1, TextIs
<1> DEFINE n == at - 1
<1>3. n \in Nat /\ n = (IF radix = 16 THEN 2 ELSE 0) /\ at - 1 = n
  BY <1>1, <1>2
<1> HIDE DEF n
<1>4. TypeOK
  BY <1>1, <1>2, SizeAssumption, LimitAssumption DEF TypeOK
<1>5. ~TooLong(0)
  BY <1>2, TooLongIs
<1>6. Fits(radix, 0, 0)
  <2>1. Base(radix) \in Nat /\ Grown(radix, 0) = 0
    BY <1>2 DEF Base, Grown
  <2>2. Power(Base(radix))[0] = 1
    BY <2>1, PowerIs
  <2> QED
    BY <1>5, <2>1, <2>2 DEF Fits
<1>7. Sums(text, radix)[n] = 0
  <2>1. Sums(text, radix)[0] = 0
    BY <1>2, SumsAre
  <2>2. CASE radix = 16
    <3>1. ~DigitAt(text, radix, 1) /\ ~DigitAt(text, radix, 2)
      BY <2>2 DEF DigitAt
    <3>2. Sums(text, radix)[1] = Sums(text, radix)[0]
      BY <1>2, <3>1, SumsSkip
    <3>3. Sums(text, radix)[2] = Sums(text, radix)[1]
      BY <1>2, <3>1, SumsSkip
    <3> QED
      BY <1>3, <2>1, <2>2, <3>2, <3>3
  <2>3. CASE radix # 16
    BY <1>3, <2>1, <2>3
  <2> QED
    BY <2>2, <2>3
<1>8. Valued(text, radix, n, 0)
  <2>1. n <= Len(text) /\ Len(text) - n \in Nat
    BY <1>2, <1>3
  <2>2. Weights(text, radix)[Len(text) - n] \in Nat
    BY <1>2, <2>1, WeightsAre
  <2> QED
    BY <1>7, <2>2 DEF Valued
<1>9. So(text, "u", n) = {} /\ So(text, "l", n) = {}
  <2>1. \A i \in 1..n : text[i] # "u" /\ text[i] # "l"
    BY <1>2, <1>3
  <2> QED
    BY <2>1 DEF So
<1>10. InInteger
  <2>1. Flagged(text, n, flags)
    BY <1>1, <1>9 DEF Flagged
  <2>2. Remembered(text, radix, n, seen)
    BY <1>1, <1>9 DEF Remembered
  <2>3. Sensible(text, radix, n)
    BY <1>9 DEF Sensible, AtMostOne, Ahead
  <2>4. marks["."] = 0 /\ marks["e"] = 0
    BY <1>1
  <2> QED
    BY <1>1, <1>3, <1>6, <1>8, <2>1, <2>2, <2>3, <2>4 DEF InInteger
<1> QED
  BY <1>1, <1>4, <1>10 DEF NInv, InFloat, Well

-----------------------------------------------------------------------------
(* A turn of an integer loop.                                              *)
Reads(n, v, fl, sn, errs) ==
    /\ ~TooLong(times + 1) => /\ v < Power(Base(radix))[Grown(radix, times + 1)]
                              /\ Valued(text, radix, n, v)
    /\ errs = {} => /\ Flagged(text, n, fl)
                    /\ Remembered(text, radix, n, sn)
                    /\ Sensible(text, radix, n)

LEMMA TurnKeeps ==
    ASSUME NInv, AtCharacter("integer"), NEW errs \in SUBSET Reports, Turn(errs),
           result' \in 0..LongValues - 1, flags' \subseteq IntegerFlags,
           seen' \subseteq {"u", "l"}, Reads(at, result', flags', seen', errors \cup errs)
    PROVE  NInv'
<1>1. /\ at' = at + 1 /\ times' = times + 1 /\ text' = text /\ radix' = radix
      /\ marks' = marks
      /\ pc' = IF TooLong(times + 1) THEN "done" ELSE "integer"
      /\ errors' = errors \cup errs \cup (IF TooLong(times + 1) THEN {"LE06"} ELSE {})
  BY DEF Turn
<1>2. /\ pc = "integer" /\ at <= Len(text) /\ TypeOK /\ InInteger
      /\ text \in Texts /\ radix = RadixOf(text)
  BY DEF AtCharacter, NInv
<1>3. Len(text) \in Nat /\ at \in Nat /\ radix \in {8, 10, 16} /\ times \in Nat
  BY <1>2, TextIs, LimitAssumption DEF TypeOK
<1>4. /\ Fits(radix, times, result) /\ (radix = 16 => at > 2)
  BY <1>2 DEF InInteger
<1>5. TypeOK'
  <2>1. at' \in 1..Len(text') + 1
    BY <1>1, <1>2, <1>3
  <2>2. times' \in 0..(CASE radix' = 8 -> OctLimit [] radix' = 10 -> DecLimit + 1
                         [] radix' = 16 -> HexLimit + 1)
    <3>1. ~TooLong(times)
      BY <1>4 DEF Fits
    <3> QED
      BY <1>1, <1>3, <3>1, TooLongIs
  <2>3. errors' \subseteq Reports
    BY <1>1, <1>2 DEF TypeOK, Reports
  <2> QED
    BY <1>1, <1>2, <1>3, <2>1, <2>2, <2>3 DEF TypeOK
<1>6. CASE TooLong(times + 1)
  <2>1. pc' = "done" /\ errors' # {}
    BY <1>1, <1>6
  <2> QED
    BY <1>1, <1>2, <1>5, <2>1 DEF NInv, InInteger, InFloat, Well
<1>7. CASE ~TooLong(times + 1)
  <2>1. pc' = "integer" /\ errors' = errors \cup errs /\ at' - 1 = at
    BY <1>1, <1>3, <1>7
  <2>2. Fits(radix, times, result)'
    <3>1. result' < Power(Base(radix))[Grown(radix, times + 1)]
      BY <1>7 DEF Reads
    <3> QED
      BY <1>1, <1>7, <3>1 DEF Fits, TooLong
  <2>3. times' # 0 /\ (radix' = 16 => at' > 2)
    BY <1>1, <1>3, <1>4
  <2>4. Valued(text', radix', at' - 1, result')
    BY <1>1, <1>7, <2>1 DEF Reads
  <2>5. errors' = {} => /\ Flagged(text', at' - 1, flags')
                        /\ Remembered(text', radix', at' - 1, seen')
                        /\ Sensible(text', radix', at' - 1)
    BY <1>1, <2>1 DEF Reads
  <2>6. InInteger'
    <3>1. marks'["."] = 0 /\ marks'["e"] = 0
      BY <1>1, <1>2 DEF InInteger
    <3> QED
      BY <1>1, <2>1, <2>2, <2>3, <2>4, <2>5, <3>1 DEF InInteger
  <2> QED
    BY <1>1, <1>2, <1>5, <2>1, <2>6 DEF NInv, InFloat, Well
<1> QED
  BY <1>6, <1>7

(* What is known at a character of an integer.                             *)
LEMMA AtInteger ==
    ASSUME NInv, AtCharacter("integer")
    PROVE  /\ pc = "integer" /\ at \in Nat /\ at >= 1 /\ at <= Len(text) /\ Len(text) \in Nat
           /\ text \in Seq(STRING) /\ radix \in {8, 10, 16} /\ times \in Nat
           /\ at - 1 \in Nat /\ (at - 1) + 1 = at
           /\ radix = 8 /\ times = 0 => text[at] = "0"
           /\ DigitAt(text, radix, at) <=> text[at] \in Digits[radix]
           /\ Fits(radix, times, result) /\ Valued(text, radix, at - 1, result)
           /\ result \in Nat /\ result \in 0..LongValues - 1
           /\ times = 0 => result = 0
           /\ seen \subseteq {"u", "l"} /\ flags \subseteq IntegerFlags
           /\ errors = {} => /\ Flagged(text, at - 1, flags)
                             /\ Remembered(text, radix, at - 1, seen)
                             /\ Sensible(text, radix, at - 1)
<1>1. /\ pc = "integer" /\ at <= Len(text) /\ TypeOK /\ InInteger
      /\ text \in Texts /\ radix = RadixOf(text)
  BY DEF AtCharacter, NInv
<1>2. /\ Len(text) \in Nat /\ at \in Nat /\ at >= 1 /\ radix \in {8, 10, 16} /\ times \in Nat
      /\ text \in Seq(STRING) /\ result \in 0..LongValues - 1 /\ result \in Nat
      /\ radix = 8 => text[1] = "0"
      /\ seen \subseteq {"u", "l"}
  <2>1. /\ Len(text) \in Nat /\ radix \in {8, 10, 16} /\ text \in Seq(STRING)
        /\ radix = 8 => text[1] = "0"
    BY <1>1, TextIs
  <2>2. at \in Nat /\ at >= 1 /\ seen \subseteq {"u", "l"} /\ result \in 0..LongValues - 1
    BY <1>1, <2>1 DEF TypeOK
  <2>3. result \in Nat
    BY <2>2, SizeAssumption
  <2>4. times \in Nat
    BY <1>1, <2>1, LimitAssumption DEF TypeOK
  <2> QED
    BY <2>1, <2>2, <2>3, <2>4
<1>3. /\ Fits(radix, times, result) /\ (radix = 16 => at > 2)
      /\ times = 0 => result = 0 /\ (radix = 8 => at = 1)
      /\ Valued(text, radix, at - 1, result) /\ flags \subseteq IntegerFlags
      /\ errors = {} => /\ Flagged(text, at - 1, flags)
                        /\ Remembered(text, radix, at - 1, seen)
                        /\ Sensible(text, radix, at - 1)
  BY <1>1 DEF InInteger
<1>4. DigitAt(text, radix, at) <=> text[at] \in Digits[radix]
  BY <1>1, <1>2, <1>3 DEF DigitAt
<1>5. at - 1 \in Nat /\ (at - 1) + 1 = at
  BY <1>2
<1>6. radix = 8 /\ times = 0 => text[at] = "0"
  BY <1>2, <1>3
<1> QED
  BY <1>1, <1>2, <1>3, <1>4, <1>5, <1>6

-----------------------------------------------------------------------------
(* A character that is no suffix, and one that is no digit.                *)
LEMMA NoSuffix ==
    ASSUME NEW t, NEW r, NEW n \in Nat, NEW k, k = n + 1, t[k] \notin {"u", "l"},
           NEW fl, NEW sn
    PROVE  /\ Flagged(t, n, fl) => Flagged(t, k, fl)
           /\ Remembered(t, r, n, sn) => Remembered(t, r, k, sn)
           /\ Sensible(t, r, n) => Sensible(t, r, k)
<1>1. So(t, "u", k) = So(t, "u", n)
  BY SoNext
<1>2. So(t, "l", k) = So(t, "l", n)
  BY SoNext
<1> QED
  BY <1>1, <1>2 DEF Flagged, Remembered, Sensible, Ahead

LEMMA NoDigit ==
    ASSUME NInv, AtCharacter("integer"), text[at] \notin Digits[radix]
    PROVE  ~TooLong(times + 1) => /\ result < Power(Base(radix))[Grown(radix, times + 1)]
                                  /\ Valued(text, radix, at, result)
<1> DEFINE n == at - 1
<1>1. /\ at \in Nat /\ at <= Len(text) /\ Len(text) \in Nat /\ text \in Seq(STRING)
      /\ radix \in {8, 10, 16} /\ times \in Nat /\ n \in Nat /\ n + 1 = at
      /\ ~DigitAt(text, radix, at) /\ result \in Nat
      /\ Fits(radix, times, result) /\ Valued(text, radix, n, result)
  BY AtInteger
<1> HIDE DEF n
<1>2. n < Len(text) /\ ~DigitAt(text, radix, n + 1)
  BY <1>1
<1>3. Valued(text, radix, at, result)
  BY <1>1, <1>2, ValuedOther
<1> DEFINE a == Grown(radix, times)
           b == Grown(radix, times + 1)
           B == Base(radix)
<1>4. a \in Nat /\ b \in Nat /\ a <= b /\ B \in Nat \ {0}
  BY <1>1 DEF Grown, Base
<1>5. result < Power(B)[a]
  BY <1>1 DEF Fits
<1> HIDE DEF a, b, B
<1>6. Power(B)[a] <= Power(B)[b] /\ Power(B)[a] \in Nat /\ Power(B)[b] \in Nat
  BY <1>4, PowerGrows, PowerIs
<1>7. result < Power(B)[b]
  BY <1>1, <1>5, <1>6
<1> QED
  BY <1>3, <1>7 DEF B, b

LEMMA IntegerDigitKeeps == ASSUME NInv, IntegerDigit PROVE NInv'
<1> DEFINE n == at - 1
           d == Worth(text[at])
           v == result * radix + d
<1>1. /\ AtCharacter("integer") /\ text[at] \in Digits[radix] /\ result' = v % Size
      /\ Turn({}) /\ seen' = seen /\ flags' = flags
  BY DEF IntegerDigit
<1>2. /\ at \in Nat /\ at <= Len(text) /\ Len(text) \in Nat /\ text \in Seq(STRING)
      /\ radix \in {8, 10, 16} /\ times \in Nat /\ n \in Nat /\ n + 1 = at
      /\ DigitAt(text, radix, at) /\ result \in Nat
      /\ Fits(radix, times, result) /\ Valued(text, radix, n, result)
      /\ radix = 8 /\ times = 0 => text[at] = "0"
      /\ times = 0 => result = 0
      /\ seen \subseteq {"u", "l"} /\ flags \subseteq IntegerFlags
      /\ errors = {} => /\ Flagged(text, n, flags)
                        /\ Remembered(text, radix, n, seen)
                        /\ Sensible(text, radix, n)
  BY <1>1, AtInteger
<1>3. d \in 0..Greatest(radix) /\ d \in Nat /\ text[at] \notin {"u", "l"}
  BY <1>1, <1>2, DigitIs
<1>4. radix = 8 /\ times = 0 => d = 0
  BY <1>2, ZeroIsNothing
<1> HIDE DEF d, n
<1>5. v \in Nat
  BY <1>2, <1>3
<1>6. v < Power(Base(radix))[Grown(radix, times + 1)]
  <2> DEFINE m == Grown(radix, times)
             b == Base(radix)
  <2>1. m \in Nat /\ b \in Nat /\ b = (IF radix = 8 THEN 9 ELSE radix)
    BY <1>2 DEF Grown, Base
  <2>2. result < Power(b)[m]
    BY <1>2 DEF Fits
  <2>3. CASE radix = 8 /\ times = 0
    <3>1. Grown(radix, times + 1) = 0 /\ v = 0
      BY <1>2, <1>4, <2>3 DEF Grown
    <3>2. Power(b)[0] = 1
      BY <2>1, PowerIs
    <3> QED
      BY <3>1, <3>2
  <2>4. CASE ~(radix = 8 /\ times = 0)
    <3>1. Grown(radix, times + 1) = m + 1
      BY <1>2, <2>4 DEF Grown
    <3> HIDE DEF m, b
    <3>2. result * radix + d < Power(b)[m + 1]
      BY <1>2, <1>3, <2>1, <2>2, OneDigitMore
    <3> QED
      BY <3>1, <3>2 DEF b
  <2> QED
    BY <2>3, <2>4
<1>7. result' \in 0..LongValues - 1
  BY <1>1, <1>2, <1>5, SizeIs
<1>8. ASSUME ~TooLong(times + 1)
      PROVE  result' = v /\ Valued(text, radix, at, v)
  <2>1. Fits(radix, times + 1, v)
    BY <1>6, <1>8 DEF Fits
  <2>2. times + 1 \in Nat
    BY <1>2
  <2> HIDE DEF v
  <2>3. v < Size
    BY <1>2, <1>5, <2>1, <2>2, NoWrap
  <2>4. result' = v
    BY <1>1, <1>2, <1>5, <2>3, SizeIs
  <2>5. Valued(text, radix, n + 1, v)
    <3>1. DigitAt(text, radix, n + 1)
      BY <1>2
    <3>2. Valued(text, radix, n + 1, result * radix + Worth(text[n + 1]))
      BY <1>2, <3>1, ValuedDigit
    <3> QED
      BY <1>2, <3>2 DEF v, d
  <2> QED
    BY <1>2, <2>4, <2>5
<1>9. errors = {} => /\ Flagged(text, at, flags)
                     /\ Remembered(text, radix, at, seen)
                     /\ Sensible(text, radix, at)
  BY <1>2, <1>3, NoSuffix
<1> HIDE DEF v
<1>10. Reads(at, result', flags', seen', errors \cup {})
  BY <1>1, <1>6, <1>8, <1>9 DEF Reads
<1> QED
  BY <1>1, <1>2, <1>7, <1>10, TurnKeeps

LEMMA UnsignedSuffixKeeps == ASSUME NInv, UnsignedSuffix PROVE NInv'
<1>1. /\ AtCharacter("integer") /\ text[at] = "u" /\ result' = result
  BY DEF UnsignedSuffix
<1> DEFINE n == at - 1
<1>2. /\ at \in Nat /\ n \in Nat /\ n + 1 = at /\ radix \in {8, 10, 16}
      /\ result \in 0..LongValues - 1
      /\ seen \subseteq {"u", "l"} /\ flags \subseteq IntegerFlags
      /\ errors = {} => /\ Flagged(text, n, flags)
                        /\ Remembered(text, radix, n, seen)
                        /\ Sensible(text, radix, n)
  BY <1>1, AtInteger
<1> HIDE DEF n
<1>3. text[at] \notin Digits[radix]
  BY <1>1, <1>2, DigitIs
<1>4. ~TooLong(times + 1) => /\ result < Power(Base(radix))[Grown(radix, times + 1)]
                             /\ Valued(text, radix, at, result)
  BY <1>1, <1>3, NoDigit
<1>5. CASE "u" \notin seen
  <2>1. flags' = flags \cup {"unsigned"} /\ seen' = seen \cup {"u"} /\ Turn({})
    BY <1>5 DEF UnsignedSuffix
  <2>2. So(text, "u", at) = So(text, "u", n) \cup {at} /\ So(text, "l", at) = So(text, "l", n)
    <3>1. So(text, "u", at) = So(text, "u", n) \cup {at}
      <4>1. So(text, "u", at) = IF text[at] = "u" THEN So(text, "u", n) \cup {at}
                               ELSE So(text, "u", n)
        BY <1>2, SoNext
      <4> QED
        BY <1>1, <4>1
    <3>2. So(text, "l", at) = So(text, "l", n)
      <4>1. text[at] # "l"
        BY <1>1
      <4> QED
        BY <1>2, <4>1, SoNext
    <3> QED
      BY <3>1, <3>2
  <2>3. ASSUME errors = {}
        PROVE  /\ Flagged(text, at, flags')
               /\ Remembered(text, radix, at, seen')
               /\ Sensible(text, radix, at)
    <3>1. So(text, "u", n) = {} /\ (radix # 16 => So(text, "l", n) = {})
      BY <1>2, <1>5, <2>3 DEF Remembered
    <3>2. Flagged(text, at, flags')
      BY <1>2, <2>1, <2>2, <2>3 DEF Flagged, IntegerFlags
    <3>3. Remembered(text, radix, at, seen')
      BY <1>2, <2>1, <2>2, <2>3 DEF Remembered
    <3>4. Sensible(text, radix, at)
      BY <1>2, <2>2, <2>3, <3>1 DEF Sensible, AtMostOne, Ahead
    <3> QED
      BY <3>2, <3>3, <3>4
  <2>4. Reads(at, result', flags', seen', errors \cup {})
    BY <1>1, <1>4, <2>3 DEF Reads
  <2>5. flags' \subseteq IntegerFlags /\ seen' \subseteq {"u", "l"}
    BY <1>2, <2>1 DEF IntegerFlags
  <2> QED
    BY <1>1, <1>2, <2>1, <2>4, <2>5, TurnKeeps
<1>6. CASE "u" \in seen
  <2>1. flags' = flags /\ seen' = seen /\ Turn({"LE03"}) /\ {"LE03"} \in SUBSET Reports
    BY <1>6 DEF UnsignedSuffix, Reports
  <2>2. Reads(at, result', flags', seen', errors \cup {"LE03"})
    BY <1>1, <1>4, <2>1 DEF Reads
  <2> QED
    BY <1>1, <1>2, <2>1, <2>2, TurnKeeps
<1> QED
  BY <1>5, <1>6

LEMMA LongSuffixKeeps == ASSUME NInv, LongSuffix PROVE NInv'
<1>1. /\ AtCharacter("integer") /\ text[at] = "l" /\ result' = result
  BY DEF LongSuffix
<1> DEFINE n == at - 1
<1>2. /\ at \in Nat /\ n \in Nat /\ n + 1 = at /\ radix \in {8, 10, 16}
      /\ result \in 0..LongValues - 1
      /\ seen \subseteq {"u", "l"} /\ flags \subseteq IntegerFlags
      /\ errors = {} => /\ Flagged(text, n, flags)
                        /\ Remembered(text, radix, n, seen)
                        /\ Sensible(text, radix, n)
  BY <1>1, AtInteger
<1> HIDE DEF n
<1>3. text[at] \notin Digits[radix]
  BY <1>1, <1>2, DigitIs
<1>4. ~TooLong(times + 1) => /\ result < Power(Base(radix))[Grown(radix, times + 1)]
                             /\ Valued(text, radix, at, result)
  BY <1>1, <1>3, NoDigit
<1>5. CASE "l" \notin seen
  <2>1. /\ flags' = flags \cup {"long"} /\ Turn({})
        /\ seen' = seen \cup (IF radix = 16 THEN {"l"} ELSE {"u"})
    BY <1>5 DEF LongSuffix
  <2>2. So(text, "l", at) = So(text, "l", n) \cup {at} /\ So(text, "u", at) = So(text, "u", n)
        /\ So(text, "u", n) \subseteq 1..n
    <3>1. So(text, "l", at) = So(text, "l", n) \cup {at}
      <4>1. So(text, "l", at) = IF text[at] = "l" THEN So(text, "l", n) \cup {at}
                               ELSE So(text, "l", n)
        BY <1>2, SoNext
      <4> QED
        BY <1>1, <4>1
    <3>2. So(text, "u", at) = So(text, "u", n) /\ So(text, "u", n) \subseteq 1..n
      <4>1. text[at] # "u"
        BY <1>1
      <4> QED
        BY <1>2, <4>1, SoNext
    <3> QED
      BY <3>1, <3>2
  <2>3. ASSUME errors = {}
        PROVE  /\ Flagged(text, at, flags')
               /\ Remembered(text, radix, at, seen')
               /\ Sensible(text, radix, at)
    <3>1. radix = 16 => So(text, "l", n) = {}
      BY <1>2, <1>5, <2>3 DEF Remembered
    <3>2. Flagged(text, at, flags')
      BY <1>2, <2>1, <2>2, <2>3 DEF Flagged, IntegerFlags
    <3>3. Remembered(text, radix, at, seen')
      BY <1>2, <2>1, <2>2, <2>3 DEF Remembered
    <3>4. Sensible(text, radix, at)
      <4>1. \A i \in So(text, "u", n) : i < at
        BY <1>2, <2>2
      <4> QED
        BY <1>2, <2>2, <2>3, <3>1, <4>1 DEF Sensible, AtMostOne, Ahead
    <3> QED
      BY <3>2, <3>3, <3>4
  <2>4. Reads(at, result', flags', seen', errors \cup {})
    BY <1>1, <1>4, <2>3 DEF Reads
  <2>5. flags' \subseteq IntegerFlags /\ seen' \subseteq {"u", "l"}
    BY <1>2, <2>1 DEF IntegerFlags
  <2> QED
    BY <1>1, <1>2, <2>1, <2>4, <2>5, TurnKeeps
<1>6. CASE "l" \in seen
  <2>1. flags' = flags /\ seen' = seen /\ Turn({"LE03"}) /\ {"LE03"} \in SUBSET Reports
    BY <1>6 DEF LongSuffix, Reports
  <2>2. Reads(at, result', flags', seen', errors \cup {"LE03"})
    BY <1>1, <1>4, <2>1 DEF Reads
  <2> QED
    BY <1>1, <1>2, <2>1, <2>2, TurnKeeps
<1> QED
  BY <1>5, <1>6

LEMMA IllegalCharacterKeeps == ASSUME NInv, IllegalCharacter PROVE NInv'
<1>1. /\ AtCharacter("integer") /\ result' = result /\ seen' = seen /\ flags' = flags
      /\ text[at] \notin Digits[radix]
  BY DEF IllegalCharacter, Foreign
<1>2. /\ result \in 0..LongValues - 1
      /\ seen \subseteq {"u", "l"} /\ flags \subseteq IntegerFlags
  BY <1>1, AtInteger
<1>3. CASE Turn({"LE03"})
  <2>1. {"LE03"} \in SUBSET Reports
    BY DEF Reports
  <2>2. Reads(at, result', flags', seen', errors \cup {"LE03"})
    <3>1. ~TooLong(times + 1) => /\ result < Power(Base(radix))[Grown(radix, times + 1)]
                                 /\ Valued(text, radix, at, result)
      BY <1>1, NoDigit
    <3> QED
      BY <1>1, <3>1 DEF Reads
  <2> QED
    BY <1>1, <1>2, <1>3, <2>1, <2>2, TurnKeeps
<1>4. CASE ~Turn({"LE03"})
  <2>1. /\ pc' = "done"
        /\ errors' = errors \cup {IF radix = 16 THEN "LE04" ELSE "LE14"}
        /\ UNCHANGED <<text, radix, at, times, marks>>
    BY <1>4 DEF IllegalCharacter
  <2>2. errors' # {} /\ errors' \subseteq errors \cup Reports
    BY <2>1 DEF Reports
  <2>3. TypeOK'
    BY <1>1, <2>1, <2>2 DEF NInv, TypeOK
  <2> QED
    BY <2>1, <2>2, <2>3 DEF NInv, InInteger, InFloat, Well
<1> QED
  BY <1>3, <1>4

(* The loops end, and the floating scanner begins.                         *)
LEMMA IntegerEndKeeps == ASSUME NInv, IntegerEnd PROVE NInv'
<1>1. /\ pc = "integer" /\ at > Len(text) /\ pc' = "done"
      /\ UNCHANGED <<text, radix, at, times, result, seen, flags, marks, errors>>
  BY DEF IntegerEnd
<1>2. /\ TypeOK /\ InInteger /\ text \in Texts /\ radix = RadixOf(text)
  BY DEF NInv
<1>3. at = Len(text) + 1 /\ at - 1 = Len(text)
  <2>1. Len(text) \in Nat
    BY <1>2, TextIs
  <2> QED
    BY <1>1, <1>2, <2>1 DEF TypeOK
<1>4. TypeOK'
  BY <1>1, <1>2 DEF TypeOK
<1>5. Fits(radix', times', result')
  BY <1>1, <1>2 DEF InInteger, Fits, TooLong
<1>6. Valued(text, radix, Len(text), result)
      /\ (errors = {} => Flagged(text, Len(text), flags) /\ Sensible(text, radix, Len(text)))
  BY <1>1, <1>2, <1>3 DEF InInteger
<1>7. Well'
  BY <1>1, <1>3, <1>5, <1>6 DEF Well, Fits, TooLong
<1> QED
  BY <1>1, <1>2, <1>4, <1>7 DEF NInv, InInteger, InFloat

LEMMA BecomesFloatKeeps == ASSUME NInv, BecomesFloat PROVE NInv'
<1>1. /\ AtCharacter("integer") /\ radix = 10 /\ pc' = "float" /\ at' = 1
      /\ flags' = {"double"}
      /\ UNCHANGED <<text, radix, times, result, seen, marks, errors>>
  BY DEF BecomesFloat
<1>2. /\ pc = "integer" /\ TypeOK /\ InInteger /\ text \in Texts /\ radix = RadixOf(text)
  BY <1>1 DEF AtCharacter, NInv
<1>3. Len(text) \in Nat
  BY <1>2, TextIs
<1>4. TypeOK'
  <2>1. flags' \subseteq FloatFlags /\ flags' # {}
    BY <1>1 DEF FloatFlags
  <2>2. at' \in 1..Len(text') + 1
    BY <1>1, <1>3
  <2> QED
    BY <1>1, <1>2, <2>1, <2>2 DEF TypeOK
<1>5. Marked(text, 0, marks)
  <2>1. \A c : So(text, c, 0) = {}
    BY SoNext
  <2>2. marks["."] = 0 /\ marks["e"] = 0
    BY <1>2 DEF InInteger
  <2> QED
    BY <2>1, <2>2 DEF Marked, AtMostOne, Ahead
<1>6. InFloat'
  <2>1. flags' \subseteq FloatFlags /\ flags' # {}
    BY <1>1 DEF FloatFlags
  <2>2. at' - 1 = 0
    BY <1>1
  <2> QED
    BY <1>1, <1>5, <2>1, <2>2 DEF InFloat
<1> QED
  BY <1>1, <1>2, <1>4, <1>6 DEF NInv, InInteger, Well

-----------------------------------------------------------------------------
(* The floating scanner.                                                   *)
LEMMA AtFloat ==
    ASSUME NInv, pc = "float"
    PROVE  /\ text \in Texts /\ text \in Seq(STRING) /\ Len(text) \in Nat
           /\ radix = RadixOf(text) /\ radix = 10 /\ TypeOK
           /\ at \in Nat /\ at >= 1 /\ at - 1 \in Nat /\ (at - 1) + 1 = at
           /\ flags \subseteq FloatFlags /\ flags # {}
           /\ marks \in [{".", "e", "f", "l"} -> Nat]
           /\ Marked(text, at - 1, marks)
<1>1. /\ TypeOK /\ InFloat /\ text \in Texts /\ radix = RadixOf(text)
  BY DEF NInv
<1>2. Len(text) \in Nat /\ text \in Seq(STRING)
  BY <1>1, TextIs
<1> QED
  BY <1>1, <1>2 DEF InFloat, TypeOK

(* An error ends it.                                                       *)
LEMMA FloatErrorKeeps ==
    ASSUME NInv, pc = "float", NEW e \in Reports, FloatError(e)
    PROVE  NInv'
<1>1. /\ pc' = "done" /\ errors' = errors \cup {e} /\ errors' # {}
      /\ UNCHANGED <<text, radix, at, times, result, seen, flags, marks>>
  BY DEF FloatError
<1>2. TypeOK'
  BY <1>1 DEF NInv, TypeOK
<1> QED
  BY <1>1, <1>2 DEF NInv, InInteger, InFloat, Well

LEMMA FloatTurnKeeps ==
    ASSUME NInv, AtCharacter("float"), NEW new \in [{".", "e", "f", "l"} -> Nat],
           FloatTurn(new), Marked(text, at, new)
    PROVE  NInv'
<1>1. /\ marks' = new /\ at' = at + 1 /\ at' - 1 = at
      /\ UNCHANGED <<text, radix, pc, times, result, seen, flags, errors>>
  <2>1. at \in Nat
    BY AtFloat DEF AtCharacter
  <2> QED
    BY <2>1 DEF FloatTurn
<1>2. /\ pc = "float" /\ at <= Len(text) /\ Len(text) \in Nat /\ TypeOK /\ at \in Nat
      /\ text \in Texts /\ radix = RadixOf(text) /\ radix = 10
      /\ flags \subseteq FloatFlags /\ flags # {}
  BY AtFloat DEF AtCharacter
<1>3. TypeOK'
  <2>1. at' \in 1..Len(text') + 1
    BY <1>1, <1>2
  <2> QED
    BY <1>1, <1>2, <2>1 DEF TypeOK
<1>4. InFloat'
  BY <1>1, <1>2 DEF InFloat
<1> QED
  BY <1>1, <1>2, <1>3, <1>4 DEF NInv, InInteger, Well

(* What one character does to the marks.                                   *)
LEMMA Unmarked ==
    ASSUME NEW t, NEW n \in Nat, NEW k, k = n + 1, NEW mk, Marked(t, n, mk),
           t[k] \notin {".", "e", "f", "l", "u", "x"}
    PROVE  Marked(t, k, mk)
<1>1. \A c \in {".", "e", "f", "l", "u", "x"} : So(t, c, k) = So(t, c, n)
  BY SoNext
<1>2. So(t, ".", k) = So(t, ".", n) /\ So(t, "e", k) = So(t, "e", n)
      /\ So(t, "u", k) = So(t, "u", n) /\ So(t, "x", k) = So(t, "x", n)
  BY <1>1
<1> QED
  BY <1>1, <1>2 DEF Marked, Ahead

LEMMA MarkedOne ==
    ASSUME NEW t, NEW n \in Nat, NEW k, k = n + 1,
           NEW mk \in [{".", "e", "f", "l"} -> Nat], Marked(t, n, mk),
           NEW c \in {".", "e", "f", "l"}, t[k] = c,
           NEW v \in Nat, v > mk[c], v > 1 \/ mk[c] = 0, c \in {".", "e"} => v = 1,
           c = "." => mk["e"] = 0
    PROVE  Marked(t, k, [mk EXCEPT ![c] = v])
<1>2. /\ So(t, c, k) = So(t, c, n) \cup {k}
      /\ \A d \in {".", "e", "f", "l", "u", "x"} \ {c} : So(t, d, k) = So(t, d, n)
      /\ \A d : So(t, d, n) \subseteq 1..n
  <2>1. AllNext(t, n, k)
    BY SoNexts
  <2>2. t[k] = c
    OBVIOUS
  <2> QED
    BY <2>1, <2>2 DEF AllNext
<1> DEFINE nk == [mk EXCEPT ![c] = v]
<1>1. /\ nk[c] = v
      /\ \A d \in {".", "e", "f", "l"} \ {c} : nk[d] = mk[d]
  OBVIOUS
<1>3. /\ \A d \in {".", "e", "f", "l"} : /\ mk[d] = 0 => So(t, d, n) = {}
                                         /\ mk[d] <= 1 => AtMostOne(So(t, d, n))
      /\ mk["."] <= 1 /\ mk["e"] <= 1 /\ Ahead(t, ".", "e", n)
      /\ So(t, "u", n) = {} /\ So(t, "x", n) = {}
  BY DEF Marked
<1> HIDE DEF nk
<1>4. ASSUME NEW d \in {".", "e", "f", "l"}
      PROVE  /\ nk[d] = 0 => So(t, d, k) = {}
             /\ nk[d] <= 1 => AtMostOne(So(t, d, k))
  <2>1. CASE d = c
    <3>1. nk[d] # 0
      BY <1>1, <2>1
    <3>2. ASSUME nk[d] <= 1 PROVE AtMostOne(So(t, d, k))
      <4>1. mk[c] = 0
        BY <1>1, <2>1, <3>2
      <4>2. So(t, c, n) = {}
        BY <1>3, <4>1
      <4> QED
        BY <1>2, <2>1, <4>2 DEF AtMostOne
    <3> QED
      BY <3>1, <3>2
  <2>2. CASE d # c
    <3>1. nk[d] = mk[d] /\ So(t, d, k) = So(t, d, n)
      BY <1>1, <1>2, <2>2
    <3> QED
      BY <1>3, <3>1
  <2> QED
    BY <2>1, <2>2
<1>5. nk["."] <= 1 /\ nk["e"] <= 1
  BY <1>1, <1>3
<1>6. So(t, "u", k) = {} /\ So(t, "x", k) = {}
  BY <1>2, <1>3
<1>7. Ahead(t, ".", "e", k)
  <2>1. CASE c = "."
    <3>1. So(t, "e", n) = {} /\ So(t, "e", k) = So(t, "e", n)
      BY <1>2, <1>3, <2>1
    <3> QED
      BY <3>1 DEF Ahead
  <2>2. CASE c = "e"
    <3>1. So(t, ".", k) = So(t, ".", n) /\ So(t, "e", k) = So(t, "e", n) \cup {k}
          /\ \A i \in So(t, ".", n) : i < k
      BY <1>2, <2>2
    <3> QED
      BY <1>3, <3>1 DEF Ahead
  <2>3. CASE c \notin {".", "e"}
    <3>1. So(t, ".", k) = So(t, ".", n) /\ So(t, "e", k) = So(t, "e", n)
      BY <1>2, <2>3
    <3> QED
      BY <1>3, <3>1 DEF Ahead
  <2> QED
    BY <2>1, <2>2, <2>3
<1> QED
  BY <1>4, <1>5, <1>6, <1>7 DEF Marked, nk

LEMMA FloatCharacterKeeps == ASSUME NInv, FloatCharacter PROVE NInv'
<1> DEFINE c == text[at]
           n == at - 1
           repeated == \/ c = "." /\ (marks["e"] # 0 \/ marks["."] # 0)
                       \/ c = "e" /\ marks["e"] # 0
<1>1. /\ AtCharacter("float") /\ pc = "float"
      /\ \/ c \in Decimals \cup {"+", "-"} /\ FloatTurn(marks)
         \/ c \in {".", "e"} /\ ~repeated /\ FloatTurn([marks EXCEPT ![c] = 1])
         \/ c \in {"f", "l"} /\ FloatTurn([marks EXCEPT ![c] = marks[c] + 1])
         \/ FloatError("LE10")
  BY DEF FloatCharacter, AtCharacter
<1>2. /\ n \in Nat /\ n + 1 = at /\ at = n + 1 /\ marks \in [{".", "e", "f", "l"} -> Nat]
      /\ Marked(text, n, marks)
  BY <1>1, AtFloat
<1> HIDE DEF n
<1>3. CASE FloatError("LE10")
  <2>1. "LE10" \in Reports
    BY DEF Reports
  <2> QED
    BY <1>1, <1>3, <2>1, FloatErrorKeeps
<1>4. CASE c \in Decimals \cup {"+", "-"} /\ FloatTurn(marks)
  <2>1. c \notin {".", "e", "f", "l", "u", "x"}
    BY <1>4 DEF Decimals, Numerals
  <2>2. Marked(text, at, marks)
    BY <1>2, <2>1, Unmarked
  <2> QED
    BY <1>1, <1>2, <1>4, <2>2, FloatTurnKeeps
<1>5. CASE c \in {".", "e"} /\ ~repeated /\ FloatTurn([marks EXCEPT ![c] = 1])
  <2>1. marks[c] = 0 /\ marks[c] \in Nat /\ (c = "." => marks["e"] = 0) /\ c \in {".", "e", "f", "l"}
    BY <1>2, <1>5
  <2> DEFINE new == [marks EXCEPT ![c] = 1]
  <2>2. FloatTurn(new)
    BY <1>5
  <2>3. Marked(text, at, new)
    <3> HIDE DEF c
    <3>1. text[at] = c
      BY DEF c
    <3>2. 1 \in Nat /\ 1 > marks[c] /\ (c \in {".", "e"} => 1 = 1)
      BY <2>1
    <3> QED
      BY <1>2, <2>1, <3>1, <3>2, MarkedOne
  <2>4. new \in [{".", "e", "f", "l"} -> Nat]
    BY <1>2
  <2> HIDE DEF new
  <2> QED
    BY <1>1, <2>2, <2>3, <2>4, FloatTurnKeeps
<1>6. CASE c \in {"f", "l"} /\ FloatTurn([marks EXCEPT ![c] = marks[c] + 1])
  <2> DEFINE v == marks[c] + 1
             new == [marks EXCEPT ![c] = v]
  <2>1. /\ marks[c] \in Nat /\ v \in Nat /\ v > marks[c] /\ (v > 1 \/ marks[c] = 0)
        /\ c \in {".", "e", "f", "l"} /\ c \notin {".", "e"}
    BY <1>2, <1>6
  <2>2. FloatTurn(new)
    BY <1>6
  <2>3. Marked(text, at, new)
    <3> HIDE DEF c, v
    <3>1. text[at] = c
      BY DEF c
    <3> QED
      BY <1>2, <2>1, <3>1, MarkedOne
  <2>4. new \in [{".", "e", "f", "l"} -> Nat]
    BY <1>2, <2>1
  <2> HIDE DEF new
  <2> QED
    BY <1>1, <2>2, <2>3, <2>4, FloatTurnKeeps
<1> QED
  BY <1>1, <1>3, <1>4, <1>5, <1>6

LEMMA FloatEndKeeps == ASSUME NInv, FloatEnd PROVE NInv'
<1>1. pc = "float" /\ at > Len(text)
  BY DEF FloatEnd
<1>2. /\ text \in Texts /\ Len(text) \in Nat /\ radix = RadixOf(text) /\ TypeOK
      /\ at = Len(text) + 1 /\ at - 1 = Len(text)
      /\ flags \subseteq FloatFlags /\ flags # {}
      /\ marks \in [{".", "e", "f", "l"} -> Nat]
      /\ Marked(text, Len(text), marks)
  <2>1. /\ text \in Texts /\ Len(text) \in Nat /\ radix = RadixOf(text) /\ TypeOK /\ at \in Nat
        /\ flags \subseteq FloatFlags /\ flags # {}
        /\ marks \in [{".", "e", "f", "l"} -> Nat]
        /\ Marked(text, at - 1, marks)
    BY <1>1, AtFloat
  <2>2. at = Len(text) + 1 /\ at - 1 = Len(text)
    BY <1>1, <2>1 DEF TypeOK
  <2> QED
    BY <2>1, <2>2
<1>3. CASE FloatError("LE10") \/ FloatError("LE12")
  <2>1. "LE10" \in Reports /\ "LE12" \in Reports
    BY DEF Reports
  <2> QED
    BY <1>1, <1>3, <2>1, FloatErrorKeeps
<1>4. CASE ~(FloatError("LE10") \/ FloatError("LE12"))
  <2>1. /\ marks["f"] <= 1 /\ marks["l"] <= 1 /\ pc' = "done"
        /\ flags' = CASE marks["l"] = 1 -> {"long double"}
                      [] marks["l"] = 0 /\ marks["f"] = 1 -> {"single"}
                      [] OTHER -> {"double"}
        /\ UNCHANGED <<text, radix, at, times, result, seen, marks, errors>>
    BY <1>4 DEF FloatEnd
  <2>2. flags' \in {{f} : f \in FloatFlags} /\ flags' \subseteq FloatFlags
    <3>1. flags' \in {{"long double"}, {"single"}, {"double"}}
      BY <2>1
    <3> QED
      BY <3>1 DEF FloatFlags
  <2>3. TypeOK'
    BY <1>2, <2>1, <2>2 DEF TypeOK
  <2>4. Well'
    <3>1. /\ \A c \in {".", "e", "f", "l"} : AtMostOne(So(text, c, Len(text)))
          /\ Ahead(text, ".", "e", Len(text))
          /\ So(text, "u", Len(text)) = {} /\ So(text, "x", Len(text)) = {}
      BY <1>2, <2>1 DEF Marked
    <3> QED
      BY <2>1, <2>2, <3>1 DEF Well
  <2> QED
    BY <1>2, <2>1, <2>3, <2>4 DEF NInv, InInteger, InFloat
<1> QED
  BY <1>3, <1>4

-----------------------------------------------------------------------------
LEMMA StepNumber == NInv /\ [Next]_vars => NInv'
<1> SUFFICES ASSUME NInv, [Next]_vars PROVE NInv'
  OBVIOUS
<1>1. CASE UNCHANGED vars
  <2>1. UNCHANGED <<text, radix, pc, at, times, result, seen, flags, marks, errors>>
    BY <1>1 DEF vars
  <2>2. TypeOK'
    BY <2>1 DEF NInv, TypeOK
  <2>3. InInteger' /\ InFloat' /\ Well'
    BY <2>1 DEF NInv, InInteger, InFloat, Well, Fits, TooLong
  <2> QED
    BY <2>1, <2>2, <2>3 DEF NInv
<1> QED
  BY <1>1, IntegerDigitKeeps, UnsignedSuffixKeeps, LongSuffixKeeps, IllegalCharacterKeeps,
     IntegerEndKeeps, BecomesFloatKeeps, FloatCharacterKeeps, FloatEndKeeps DEF Next

LEMMA NumberInvariant == Spec => []NInv
<1>1. Init => NInv
  BY InitNumber
<1>2. NInv /\ [Next]_vars => NInv'
  BY StepNumber
<1> QED
  BY <1>1, <1>2, PTL DEF Spec

-----------------------------------------------------------------------------
(* What the invariant says of an accepted number.                          *)
LEMMA Counted ==
    ASSUME NEW t \in Texts, NEW c
    PROVE  LET S == So(t, c, Len(t))
           IN  /\ Cardinality({i \in 1..Len(t) : t[i] = c}) \in Nat
               /\ Cardinality({i \in 1..Len(t) : t[i] = c}) > 0 <=> S # {}
               /\ Cardinality({i \in 1..Len(t) : t[i] = c}) <= 1 <=> AtMostOne(S)
<1> DEFINE S == So(t, c, Len(t))
<1>1. Len(t) \in Nat /\ S = {i \in 1..Len(t) : t[i] = c}
  BY TextIs DEF So
<1>2. IsFiniteSet(S)
  <2>1. IsFiniteSet(1..Len(t))
    BY <1>1, FS_Interval
  <2>2. S \subseteq 1..Len(t)
    BY <1>1
  <2> QED
    BY <2>1, <2>2, FS_Subset
<1> HIDE DEF S
<1>3. Cardinality(S) \in Nat
  BY <1>2, FS_CardinalityType
<1>4. Cardinality(S) = 0 <=> S = {}
  BY <1>2, FS_EmptySet
<1>5. Cardinality(S) = 1 <=> \E x : S = {x}
  BY <1>2, FS_Singleton
<1>6. AtMostOne(S) <=> S = {} \/ \E x : S = {x}
  BY DEF AtMostOne
<1>7. Cardinality(S) <= 1 <=> AtMostOne(S)
  BY <1>3, <1>4, <1>5, <1>6
<1> QED
  BY <1>1, <1>3, <1>4, <1>7 DEF S

LEMMA IntegerAccepted ==
    ASSUME NInv, Accepted, ~IsFloat
    PROVE  /\ at = Len(text) + 1
           /\ Fits(radix, times, result)
           /\ Valued(text, radix, Len(text), result)
           /\ Flagged(text, Len(text), flags)
           /\ Sensible(text, radix, Len(text))
<1>1. Well /\ pc = "done" /\ errors = {}
  BY DEF NInv, Accepted
<1>2. flags \notin {{f} : f \in FloatFlags}
  BY DEF IsFloat
<1> QED
  BY <1>1, <1>2 DEF Well

(* Every variable stays in its type, and no loop of lib/lex/lex.cc takes   *)
(* more characters than its limit and the one that exceeds it.             *)
THEOREM TypeCorrect == Spec => []TypeOK
<1>1. NInv => TypeOK
  BY DEF NInv
<1> QED
  BY <1>1, NumberInvariant, PTL

(* An integer that tryParseDecNumber, tryParseHexNumber or                 *)
(* tryParseOctNumber accepts without a report is the number its digits     *)
(* make, whatever the text and wherever its suffixes stand: none was left  *)
(* out and none made the int or the uint64_t wrap around, and only a hex   *)
(* number may change when it is widened.                                   *)
THEOREM ValueCorrect == Spec => []AcceptedIsExact
<1>1. NInv => AcceptedIsExact
  <2> SUFFICES ASSUME NInv, Accepted, ~IsFloat
               PROVE  /\ at = Len(text) + 1
                      /\ result = Numeral
                      /\ Value # Numeral => radix = 16 /\ Numeral >= IntValues \div 2
    BY DEF AcceptedIsExact
  <2>1. /\ at = Len(text) + 1
        /\ Fits(radix, times, result)
        /\ Valued(text, radix, Len(text), result)
    BY IntegerAccepted
  <2>2. /\ text \in Texts /\ text \in Seq(STRING) /\ Len(text) \in Nat
        /\ radix \in {8, 10, 16} /\ result \in Nat /\ times \in Nat
    BY TextIs, SizeAssumption, LimitAssumption DEF NInv, TypeOK
  <2>3. result = Numeral
    <3>1. radix \in Nat /\ text \in Seq(STRING) /\ Len(text) - Len(text) = 0
      BY <2>2
    <3>2. Weights(text, radix)[0] = 1
      BY <3>1, WeightsAre, Zenon
    <3>3. result * 1 = Sums(text, radix)[Len(text)]
      BY <2>1, <3>1, <3>2 DEF Valued
    <3> QED
      BY <2>2, <3>3 DEF Numeral
  <2>4. radix = 8 => result < IntValues \div 2
    BY <2>1, <2>2, NoWrap
  <2>5. IntValues \div 2 \in Nat
    BY SizeAssumption
  <2>6. Value # result => radix # 10 /\ result >= IntValues \div 2
    BY DEF Value
  <2>7. Value # result => radix = 16
    BY <2>2, <2>4, <2>5, <2>6
  <2> QED
    BY <2>1, <2>3, <2>6, <2>7
<1> QED
  BY <1>1, NumberInvariant, PTL

(* The type of an accepted integer is what its suffixes say, wherever they *)
(* stand; it has its u once, and a hex number its l once.                  *)
LEMMA SuffixesTold == NInv => SuffixesTell
<1> SUFFICES ASSUME NInv, Accepted, ~IsFloat
             PROVE  /\ flags = {f \in IntegerFlags :
                                   Count(IF f = "unsigned" THEN "u" ELSE "l") > 0}
                    /\ Count("u") <= 1
                    /\ radix = 16 => Count("l") <= 1
  BY DEF SuffixesTell
<1>1. /\ Flagged(text, Len(text), flags) /\ Sensible(text, radix, Len(text))
      /\ text \in Texts
  BY IntegerAccepted DEF NInv
<1>2. /\ Count("u") > 0 <=> So(text, "u", Len(text)) # {}
      /\ Count("u") <= 1 <=> AtMostOne(So(text, "u", Len(text)))
  BY <1>1, Counted DEF Count
<1>3. /\ Count("l") > 0 <=> So(text, "l", Len(text)) # {}
      /\ Count("l") <= 1 <=> AtMostOne(So(text, "l", Len(text)))
  BY <1>1, Counted DEF Count
<1>4. flags = {f \in IntegerFlags : Count(IF f = "unsigned" THEN "u" ELSE "l") > 0}
  BY <1>1, <1>2, <1>3 DEF Flagged, IntegerFlags
<1> QED
  BY <1>1, <1>2, <1>3, <1>4 DEF Sensible

(* n digits, and behind them a suffix of the grammar that the scanner of   *)
(* this radix takes.                                                       *)
Suffix(n) == SubSeq(text, n + 1, Len(text))
Documented(n) ==
    /\ n \in 1..Len(text) /\ AllDigits(n)
    /\ Suffix(n) \in IntegerSuffixes
    /\ ~(radix # 16 /\ Suffix(n) = <<"l", "u">>)

(* What stands in such a text before a suffix and in its place.            *)
LEMMA DocumentedText ==
    ASSUME text \in Texts, radix = RadixOf(text), NEW n, Documented(n),
           NEW i \in 1..Len(text), radix = 16 => i > 2
    PROVE  /\ text[i] \in Digits[radix] \cup {"u", "l"}
           /\ \A j \in 1..i - 1 :
                 text[j] \in {"u", "l"} =>
                    /\ i = n + 2 /\ j = n + 1 /\ text[i] # text[j]
                    /\ radix = 16 \/ text[i] = "l"
<1> DEFINE len == Len(text)
<1>1. /\ text \in Seq(STRING) /\ len \in Nat /\ radix \in {8, 10, 16}
      /\ radix = 16 => text[1] = "0" /\ text[2] = "x"
      /\ n \in 1..len /\ n \in Nat /\ i \in Nat
  BY TextIs DEF Documented
<1>2. /\ Len(Suffix(n)) = len - n
      /\ \A k \in 1..len - n : Suffix(n)[k] = text[n + k]
  BY <1>1 DEF Suffix
<1>3. \A j \in 1..n : text[j] \in Digits[radix] \/ (radix = 16 /\ j <= 2)
  BY <1>1 DEF Documented, AllDigits, DigitAt
<1>4. \A j \in 1..n : text[j] \notin {"u", "l"}
  <2> SUFFICES ASSUME NEW j \in 1..n PROVE text[j] \notin {"u", "l"}
    OBVIOUS
  <2>1. CASE text[j] \in Digits[radix]
    BY <1>1, <2>1, DigitIs
  <2>2. CASE radix = 16 /\ j <= 2
    <3>1. j = 1 \/ j = 2
      BY <1>1, <2>2
    <3> QED
      BY <1>1, <2>2, <3>1
  <2> QED
    BY <1>3, <2>1, <2>2
<1>5. /\ len - n \in 0..2
      /\ len - n = 1 => text[n + 1] \in {"u", "l"}
      /\ len - n = 2 => /\ text[n + 1] \in {"u", "l"} /\ text[n + 2] \in {"u", "l"}
                        /\ text[n + 1] # text[n + 2]
                        /\ radix = 16 \/ text[n + 2] = "l"
  <2> DEFINE s == Suffix(n)
  <2>1. /\ s \in {<<>>, <<"u">>, <<"l">>, <<"u", "l">>, <<"l", "u">>}
        /\ radix = 16 \/ s # <<"l", "u">>
    BY DEF Documented, IntegerSuffixes
  <2>2. Len(s) = len - n /\ \A k \in 1..len - n : s[k] = text[n + k]
    BY <1>2
  <2> HIDE DEF s
  <2>3. CASE s = <<>>
    BY <1>1, <2>2, <2>3
  <2>4. CASE s = <<"u">> \/ s = <<"l">>
    <3>1. Len(s) = 1 /\ s[1] \in {"u", "l"}
      BY <2>4
    <3>2. len - n = 1
      BY <2>2, <3>1
    <3>3. s[1] = text[n + 1]
      BY <2>2, <3>2
    <3> QED
      BY <3>1, <3>2, <3>3
  <2>5. CASE s = <<"u", "l">>
    <3>1. Len(s) = 2 /\ s[1] = "u" /\ s[2] = "l"
      BY <2>5
    <3>2. len - n = 2
      BY <2>2, <3>1
    <3>3. s[1] = text[n + 1] /\ s[2] = text[n + 2]
      BY <2>2, <3>2
    <3> QED
      BY <3>1, <3>2, <3>3
  <2>6. CASE s = <<"l", "u">>
    <3>1. Len(s) = 2 /\ s[1] = "l" /\ s[2] = "u" /\ radix = 16
      BY <2>1, <2>6
    <3>2. len - n = 2
      BY <2>2, <3>1
    <3>3. s[1] = text[n + 1] /\ s[2] = text[n + 2]
      BY <2>2, <3>2
    <3> QED
      BY <3>1, <3>2, <3>3
  <2> QED
    BY <2>1, <2>3, <2>4, <2>5, <2>6
<1>6. i <= n \/ i = n + 1 \/ i = n + 2
  BY <1>1, <1>5
<1>7. text[i] \in Digits[radix] \cup {"u", "l"}
  BY <1>1, <1>3, <1>5, <1>6
<1>8. ASSUME NEW j \in 1..i - 1, text[j] \in {"u", "l"}
      PROVE  i = n + 2 /\ j = n + 1
  BY <1>1, <1>4, <1>6, <1>8
<1>9. i = n + 2 => /\ text[i] # text[n + 1]
                   /\ radix = 16 \/ text[i] = "l"
  BY <1>1, <1>5
<1> QED
  BY <1>7, <1>8, <1>9

(* No suffix of such a text is reported, and it does not become a float.   *)
DocInv ==
    /\ pc = "integer" => errors \subseteq {"LE03"}
    /\ \A n : Documented(n) => pc # "float" /\ "LE03" \notin errors

LEMMA DocumentedTurn ==
    ASSUME DocInv, AtCharacter("integer"), NEW errs, Turn(errs), errs \subseteq {"LE03"},
           errs # {} => \A n : ~Documented(n)
    PROVE  DocInv'
<1>1. /\ pc = "integer" /\ text' = text /\ radix' = radix /\ pc' \in {"integer", "done"}
      /\ pc' = "integer" => errors' = errors \cup errs
      /\ errors' \subseteq errors \cup errs \cup {"LE06"}
  BY DEF AtCharacter, Turn
<1>2. \A n : Documented(n)' <=> Documented(n)
  BY <1>1 DEF Documented, Suffix, AllDigits
<1> QED
  BY <1>1, <1>2 DEF DocInv

LEMMA DocumentedStep == NInv /\ DocInv /\ [Next]_vars => DocInv'
<1> SUFFICES ASSUME NInv, DocInv, [Next]_vars PROVE DocInv'
  OBVIOUS
<1>1. text \in Texts /\ radix = RadixOf(text)
  BY DEF NInv
<1>2. ASSUME AtCharacter("integer")
      PROVE  /\ at \in 1..Len(text) /\ at \in Nat /\ (radix = 16 => at > 2)
             /\ errors = {} => Remembered(text, radix, at - 1, seen)
             /\ at - 1 \in Nat
  BY <1>2, AtInteger DEF NInv, InInteger
<1>3. CASE IntegerDigit
  BY <1>3, DocumentedTurn DEF IntegerDigit
<1>4. CASE UnsignedSuffix
  <2>1. AtCharacter("integer") /\ text[at] = "u"
    BY <1>4 DEF UnsignedSuffix
  <2>2. CASE "u" \notin seen
    BY <1>4, <2>1, <2>2, DocumentedTurn DEF UnsignedSuffix
  <2>3. CASE "u" \in seen
    <3>1. ASSUME NEW n, Documented(n) PROVE FALSE
      <4>1. errors = {}
        BY <2>1, <3>1 DEF DocInv, AtCharacter
      <4>2. PICK j \in 1..at - 1 : text[j] = "u" \/ (radix # 16 /\ text[j] = "l")
        BY <1>2, <2>1, <2>3, <4>1 DEF Remembered, So
      <4> QED
        BY <1>1, <1>2, <2>1, <3>1, <4>2, DocumentedText
    <3> QED
      BY <1>4, <2>1, <2>3, <3>1, DocumentedTurn DEF UnsignedSuffix
  <2> QED
    BY <2>2, <2>3
<1>5. CASE LongSuffix
  <2>1. AtCharacter("integer") /\ text[at] = "l"
    BY <1>5 DEF LongSuffix
  <2>2. CASE "l" \notin seen
    BY <1>5, <2>1, <2>2, DocumentedTurn DEF LongSuffix
  <2>3. CASE "l" \in seen
    <3>1. ASSUME NEW n, Documented(n) PROVE FALSE
      <4>1. errors = {}
        BY <2>1, <3>1 DEF DocInv, AtCharacter
      <4>2. PICK j \in 1..at - 1 : text[j] = "l"
        BY <1>2, <2>1, <2>3, <4>1 DEF Remembered, So
      <4> QED
        BY <1>1, <1>2, <2>1, <3>1, <4>2, DocumentedText
    <3> QED
      BY <1>5, <2>1, <2>3, <3>1, DocumentedTurn DEF LongSuffix
  <2> QED
    BY <2>2, <2>3
<1>6. CASE IllegalCharacter
  <2>1. AtCharacter("integer") /\ text[at] \notin Digits[radix] \cup {"u", "l"}
    BY <1>6 DEF IllegalCharacter, Foreign
  <2>2. \A n : ~Documented(n)
    BY <1>1, <1>2, <2>1, DocumentedText
  <2>3. CASE Turn({"LE03"})
    BY <2>1, <2>2, <2>3, DocumentedTurn
  <2>4. CASE pc' = "done" /\ text' = text /\ radix' = radix
    <3>1. \A n : Documented(n)' <=> Documented(n)
      BY <2>4 DEF Documented, Suffix, AllDigits
    <3> QED
      BY <2>2, <2>4, <3>1 DEF DocInv
  <2> QED
    BY <1>6, <2>3, <2>4 DEF IllegalCharacter
<1>7. CASE BecomesFloat
  <2>1. /\ AtCharacter("integer") /\ radix = 10 /\ text[at] \in {".", "e"}
        /\ text' = text /\ radix' = radix /\ pc' = "float"
    BY <1>7 DEF BecomesFloat
  <2>2. text[at] \notin Digits[radix] \cup {"u", "l"}
    BY <2>1 DEF Digits, Numerals
  <2>3. \A n : ~Documented(n)
    BY <1>1, <1>2, <2>1, <2>2, DocumentedText
  <2>4. \A n : Documented(n)' <=> Documented(n)
    BY <2>1 DEF Documented, Suffix, AllDigits
  <2> QED
    BY <2>1, <2>3, <2>4 DEF DocInv
<1>8. CASE IntegerEnd \/ UNCHANGED vars
  <2>1. /\ text' = text /\ radix' = radix /\ errors' = errors
        /\ pc' = "done" \/ pc' = pc
    BY <1>8 DEF IntegerEnd, vars
  <2>2. \A n : Documented(n)' <=> Documented(n)
    BY <2>1 DEF Documented, Suffix, AllDigits
  <2> QED
    BY <2>1, <2>2 DEF DocInv
<1>9. CASE FloatCharacter \/ FloatEnd
  <2>1. pc = "float" /\ text' = text /\ radix' = radix /\ pc' \in {"float", "done"}
    BY <1>9 DEF FloatCharacter, FloatEnd, FloatTurn, FloatError, AtCharacter
  <2>2. \A n : ~Documented(n)
    BY <2>1 DEF DocInv
  <2>3. \A n : Documented(n)' <=> Documented(n)
    BY <2>1 DEF Documented, Suffix, AllDigits
  <2> QED
    BY <2>1, <2>2, <2>3 DEF DocInv
<1> QED
  BY <1>3, <1>4, <1>5, <1>6, <1>7, <1>8, <1>9 DEF Next

(* The suffixes of the grammar are taken, but for a u after the l of a     *)
(* decimal or octal number, which is never accepted.                       *)
LEMMA SuffixesKnown == NInv /\ DocInv => SuffixesTaken
<1> SUFFICES ASSUME NInv, DocInv, pc = "done", NEW n \in 1..Len(text),
                    AllDigits(n), Suffix(n) \in IntegerSuffixes
             PROVE  IF radix # 16 /\ Suffix(n) = <<"l", "u">> THEN ~Accepted
                    ELSE "LE03" \notin errors
  BY DEF SuffixesTaken, Suffix
<1>1. CASE radix # 16 /\ Suffix(n) = <<"l", "u">>
  <2> SUFFICES ASSUME errors = {} PROVE FALSE
    BY <1>1 DEF Accepted
  <2>1. text \in Seq(STRING) /\ Len(text) \in Nat
    BY TextIs DEF NInv
  <2>2. /\ Len(text) = n + 2 /\ text[n + 1] = "l" /\ text[n + 2] = "u"
    <3>1. Len(Suffix(n)) = 2 /\ Suffix(n)[1] = "l" /\ Suffix(n)[2] = "u"
      BY <1>1
    <3>2. /\ Len(Suffix(n)) = Len(text) - n
          /\ \A k \in 1..Len(text) - n : Suffix(n)[k] = text[n + k]
      BY <2>1 DEF Suffix
    <3>3. Len(text) - n = 2
      BY <3>1, <3>2
    <3>4. text[n + 1] = "l" /\ text[n + 2] = "u"
      BY <3>1, <3>2, <3>3
    <3> QED
      BY <2>1, <3>3, <3>4
  <2>3. n + 2 \in So(text, "u", Len(text)) /\ n + 1 \in So(text, "l", Len(text))
    BY <2>1, <2>2 DEF So
  <2>4. Sensible(text, radix, Len(text)) \/ So(text, "u", Len(text)) = {}
    BY DEF NInv, Well
  <2>5. ~(n + 2 < n + 1)
    OBVIOUS
  <2> QED
    BY <1>1, <2>3, <2>4, <2>5 DEF Sensible, Ahead
<1>2. CASE ~(radix # 16 /\ Suffix(n) = <<"l", "u">>)
  BY <1>2 DEF DocInv, Documented
<1> QED
  BY <1>1, <1>2

(* What the suffixes of an integer do in the scanners of lib/lex/lex.cc:   *)
(* those of the grammar are taken, but for a u after the l of a decimal or *)
(* octal number; the type of an accepted integer is what its suffixes say, *)
(* wherever they stand; it has its u once, and a hex number its l once.    *)
THEOREM SuffixesCorrect == Spec => []SuffixesExact
<1>1. Init => DocInv
  BY DEF Init, DocInv
<1>2. NInv /\ DocInv => SuffixesExact
  BY SuffixesTold, SuffixesKnown DEF SuffixesExact
<1> QED
  BY <1>1, <1>2, DocumentedStep, NumberInvariant, PTL DEF Spec

(* A floating number that tryParseFloatNumber accepts has the shape of     *)
(* one: nothing the decimal scanner had let pass before the '.' or the 'e' *)
(* stays in it unseen.                                                     *)
THEOREM FloatCorrect == Spec => []FloatShape
<1>1. NInv => FloatShape
  <2> SUFFICES ASSUME NInv, Accepted, IsFloat
               PROVE  /\ \A c \in {".", "e", "f", "l"} : Count(c) <= 1
                      /\ Before(".", "e")
                      /\ Count("u") = 0 /\ Count("x") = 0
                      /\ flags \in {{f} : f \in FloatFlags}
    BY DEF FloatShape
  <2> DEFINE n == Len(text)
  <2>1. ~(flags \subseteq IntegerFlags)
    BY DEF IsFloat, IntegerFlags, FloatFlags
  <2>2. /\ \A c \in {".", "e", "f", "l"} : AtMostOne(So(text, c, n))
        /\ Ahead(text, ".", "e", n)
        /\ So(text, "u", n) = {} /\ So(text, "x", n) = {}
        /\ flags \in {{f} : f \in FloatFlags}
    BY <2>1 DEF NInv, Well, Accepted, Flagged
  <2>3. \A c : /\ Count(c) \in Nat
               /\ Count(c) > 0 <=> So(text, c, n) # {}
               /\ Count(c) <= 1 <=> AtMostOne(So(text, c, n))
    BY Counted DEF Count, NInv
  <2>4. Before(".", "e")
    BY <2>2 DEF Ahead, Before, So
  <2>5. Count("u") = 0 /\ Count("x") = 0
    BY <2>2, <2>3
  <2> QED
    BY <2>2, <2>3, <2>4, <2>5
<1> QED
  BY <1>1, NumberInvariant, PTL
=============================================================================
