------------------------------- MODULE Lemmas -------------------------------
(***************************************************************************)
(* Facts the proofs share, about no component: division and multiples,     *)
(* lists without repetitions, tilings and sums.                            *)
(***************************************************************************)
EXTENDS Blocks, Sequences, SequencesExt, SequenceTheorems, FiniteSets,
        FiniteSetTheorems, WellFoundedInduction, TLAPS

-----------------------------------------------------------------------------
(* Arithmetic.                                                             *)

LEMMA TimesPositive ==
  ASSUME NEW p \in Nat \ {0}, NEW k \in Int, k >= 1
  PROVE  p * k >= p
OBVIOUS

LEMMA TimesMonotone ==
  ASSUME NEW p \in Nat \ {0}, NEW j \in Nat, NEW k \in Nat, j < k
  PROVE  p * j < p * k
<1>1. p * (k - j) >= p
  BY TimesPositive
<1>2. p * (k - j) = p * k - p * j
  OBVIOUS
<1> QED
  BY <1>1, <1>2

LEMMA Division ==
  ASSUME NEW p \in Nat \ {0}, NEW n \in Nat
  PROVE  /\ n % p \in 0 .. (p - 1) /\ n \div p \in Nat
         /\ n = p * (n \div p) + (n % p)
         /\ n < p => n % p = n
OBVIOUS

(* Quotient and remainder are unique.                                      *)
LEMMA UniqueRemainder ==
  ASSUME NEW p \in Nat \ {0}, NEW j \in Int, NEW k \in Int,
         NEW a \in 0 .. (p - 1), NEW b \in 0 .. (p - 1),
         p * j + a = p * k + b
  PROVE  a = b
<1>1. p * (j - k) = b - a /\ p * (k - j) = a - b
  OBVIOUS
<1>2. CASE j - k >= 1
  <2>1. p * (j - k) >= p
    BY <1>2, TimesPositive
  <2> QED
    BY <1>1, <2>1
<1>3. CASE k - j >= 1
  <2>1. p * (k - j) >= p
    BY <1>3, TimesPositive
  <2> QED
    BY <1>1, <2>1
<1>4. CASE j = k
  BY <1>4
<1> QED
  BY <1>2, <1>3, <1>4

(* Taking a multiple of p away does not change the remainder.              *)
LEMMA SameRemainder ==
  ASSUME NEW p \in Nat \ {0}, NEW n \in Nat, NEW r \in Nat, NEW m \in Nat,
         n = r + p * m
  PROVE  r % p = n % p
<1> DEFINE j == r \div p
           k == n \div p
           a == r % p
           b == n % p
           l == j + m
<1>1. r = p * j + a /\ a \in 0 .. (p - 1) /\ j \in Nat
  BY Division
<1>2. n = p * k + b /\ b \in 0 .. (p - 1) /\ k \in Nat
  BY Division
<1> HIDE DEF j, k, a, b
<1>3. p * l = p * j + p * m /\ l \in Int
  BY <1>1
<1> HIDE DEF l
<1>4. p * l + a = p * k + b
  BY <1>1, <1>2, <1>3
<1>5. k \in Int
  BY <1>2
<1>6. a = b
  BY <1>1, <1>2, <1>3, <1>4, <1>5, UniqueRemainder, Zenon
<1> QED
  BY <1>6 DEF a, b

(* There is one quotient only.                                             *)
LEMMA UniqueQuotient ==
  ASSUME NEW p \in Nat \ {0}, NEW n \in Nat, NEW j \in Nat, NEW r \in 0 .. (p - 1),
         n = p * j + r
  PROVE  n \div p = j
<1> DEFINE k == n \div p
           s == n % p
<1>1. n = p * k + s /\ s \in 0 .. (p - 1) /\ k \in Nat
  BY Division
<1> HIDE DEF k, s
<1>2. r = s
  <2>1. p * j + r = p * k + s /\ j \in Int /\ k \in Int
    BY <1>1
  <2> QED
    BY <1>1, <2>1, UniqueRemainder, Zenon
<1>3. p * j = p * k
  BY <1>1, <1>2
<1>4. ~ (j < k) /\ ~ (k < j)
  BY <1>1, <1>3, TimesMonotone
<1>5. j = k
  BY <1>1, <1>4
<1> QED
  BY <1>5 DEF k

-----------------------------------------------------------------------------
(* Multiples.                                                              *)
Multiple(a, n) == \E k \in Nat : a = n * k

LEMMA MultipleMod ==
  ASSUME NEW n \in Nat \ {0}, NEW a \in Nat
  PROVE  a % n = 0 <=> Multiple(a, n)
<1>1. ASSUME a % n = 0 PROVE Multiple(a, n)
  <2>1. a = n * (a \div n) + (a % n) /\ a \div n \in Nat
    BY Division
  <2> DEFINE k == a \div n
  <2> HIDE DEF k
  <2>2. k \in Nat /\ a = n * k
    BY <1>1, <2>1 DEF k
  <2> QED
    BY <2>2 DEF Multiple
<1>2. ASSUME Multiple(a, n) PROVE a % n = 0
  <2>1. PICK k \in Nat : a = n * k
    BY <1>2 DEF Multiple
  <2>2. a = 0 + n * k
    BY <2>1
  <2>3. 0 % n = 0
    BY Division
  <2> QED
    BY <2>2, <2>3, SameRemainder
<1> QED
  BY <1>1, <1>2

LEMMA MultipleTrans ==
  ASSUME NEW n \in Nat, NEW m \in Nat, NEW a, Multiple(a, m), Multiple(m, n)
  PROVE  Multiple(a, n)
<1>1. PICK j \in Nat : a = m * j
  BY DEF Multiple
<1>2. PICK k \in Nat : m = n * k
  BY DEF Multiple
<1>3. a = n * (k * j) /\ k * j \in Nat
  BY <1>1, <1>2
<1> QED
  BY <1>3 DEF Multiple

LEMMA MultipleSum ==
  ASSUME NEW n \in Nat, NEW a, NEW b, Multiple(a, n), Multiple(b, n)
  PROVE  Multiple(a + b, n)
<1>1. PICK j \in Nat : a = n * j
  BY DEF Multiple
<1>2. PICK k \in Nat : b = n * k
  BY DEF Multiple
<1>3. a + b = n * (j + k) /\ j + k \in Nat
  BY <1>1, <1>2
<1> QED
  BY <1>3 DEF Multiple

LEMMA MultipleDifference ==
  ASSUME NEW n \in Nat \ {0}, NEW a, NEW b, Multiple(a, n), Multiple(b, n), b <= a
  PROVE  Multiple(a - b, n)
<1>1. PICK j \in Nat : a = n * j
  BY DEF Multiple
<1>2. PICK k \in Nat : b = n * k
  BY DEF Multiple
<1>3. ~ (j < k)
  BY <1>1, <1>2, TimesMonotone
<1>4. a - b = n * (j - k) /\ j - k \in Nat
  BY <1>1, <1>2, <1>3
<1> QED
  BY <1>4 DEF Multiple

(* Every set of numbers has a least element.                               *)
LEMMA LeastOf ==
  ASSUME NEW S \in SUBSET Nat, S # {}
  PROVE  \E n \in S : \A m \in S : n <= m
<1> DEFINE Less == OpToRel(<, Nat)
<1>1. \A m, n \in Nat : <<m, n>> \in Less <=> m < n
  BY DEF OpToRel
<1>2. IsWellFoundedOn(Less, Nat)
  BY NatLessThanWellFounded
<1> HIDE DEF Less
<1>3. \E n \in S : \A m \in S : ~ (<<m, n>> \in Less)
  BY <1>2, WFMin
<1>4. PICK n \in S : \A m \in S : ~ (<<m, n>> \in Less)
  BY <1>3
<1>5. ASSUME NEW m \in S PROVE n <= m
  <2>1. n \in Nat /\ m \in Nat /\ ~ (<<m, n>> \in Less)
    BY <1>4
  <2>2. ~ (m < n)
    BY <1>1, <2>1, Zenon
  <2> QED
    BY <2>1, <2>2
<1> QED
  BY <1>5

(* A boundary of n below the end of a block of n bytes on such a boundary  *)
(* is not above its start.                                                 *)
LEMMA BoundaryBelow ==
  ASSUME NEW n \in Nat \ {0}, NEW a, NEW c, Multiple(a, n), Multiple(c, n), a < c + n
  PROVE  a <= c
<1>1. PICK j \in Nat : a = n * j
  BY DEF Multiple
<1>2. PICK k \in Nat : c = n * k
  BY DEF Multiple
<1>3. ~ (k + 1 <= j)
  <2>1. ASSUME k + 1 <= j PROVE FALSE
    <3>1. n * (k + 1) <= n * j
      <4>1. k + 1 = j \/ k + 1 < j
        BY <2>1
      <4> QED
        BY <4>1, TimesMonotone
    <3> QED
      BY <1>1, <1>2, <3>1
  <2> QED
    BY <2>1
<1>4. j = k \/ j < k
  BY <1>3
<1> QED
  BY <1>1, <1>2, <1>4, TimesMonotone

-----------------------------------------------------------------------------
(* Two sequences, one after the other.                                     *)

LEMMA Joined ==
  ASSUME NEW S, NEW s \in Seq(S), NEW t \in Seq(S)
  PROVE  /\ s \o t \in Seq(S) /\ Len(s \o t) = Len(s) + Len(t)
         /\ DOMAIN (s \o t) = 1 .. Len(s \o t)
         /\ \A i \in 1 .. Len(s) : (s \o t)[i] = s[i]
         /\ \A i \in 1 .. Len(t) : (s \o t)[Len(s) + i] = t[i]
<1> DEFINE u == s \o t
<1>1. /\ u \in Seq(S) /\ Len(u) = Len(s) + Len(t)
      /\ \A i \in 1 .. Len(s) + Len(t) : u[i] = IF i <= Len(s) THEN s[i] ELSE t[i - Len(s)]
  BY ConcatProperties, Zenon
<1> HIDE DEF u
<1>2. Len(s) \in Nat /\ Len(t) \in Nat /\ DOMAIN u = 1 .. Len(u)
  BY <1>1
<1>3. \A i \in 1 .. Len(s) : u[i] = s[i]
  BY <1>1, <1>2
<1>4. \A i \in 1 .. Len(t) : u[Len(s) + i] = t[i]
  <2> TAKE i \in 1 .. Len(t)
  <2>1. Len(s) + i \in 1 .. Len(s) + Len(t) /\ ~ (Len(s) + i <= Len(s)) /\ Len(s) + i - Len(s) = i
    BY <1>2
  <2> QED
    BY <1>1, <2>1
<1> QED
  BY <1>1, <1>2, <1>3, <1>4 DEF u

(* A sequence with something put in front, and taken from the front.       *)
LEMMA PutFirst ==
  ASSUME NEW S, NEW a \in S, NEW t \in Seq(S), NEW u, u = <<a>> \o t
  PROVE  /\ u \in Seq(S) /\ Len(u) = Len(t) + 1 /\ u[1] = a
         /\ \A i \in 1 .. Len(t) : u[i + 1] = t[i]
<1> DEFINE v == <<a>>
<1>1. v \in Seq(S) /\ Len(v) = 1 /\ v[1] = a
  OBVIOUS
<1> HIDE DEF v
<1>2. u = v \o t
  BY DEF v
<1>3. u \in Seq(S) /\ Len(u) = Len(v) + Len(t)
  BY <1>1, <1>2, Joined
<1>4. \A i \in 1 .. Len(v) : u[i] = v[i]
  BY <1>1, <1>2, Joined
<1>5. \A i \in 1 .. Len(t) : u[Len(v) + i] = t[i]
  BY <1>1, <1>2, Joined
<1>6. u[1] = a /\ Len(u) = Len(t) + 1
  BY <1>1, <1>3, <1>4
<1>7. ASSUME NEW i \in 1 .. Len(t) PROVE u[i + 1] = t[i]
  <2>1. u[1 + i] = t[i] /\ 1 + i = i + 1
    BY <1>1, <1>5
  <2> QED
    BY <2>1
<1> QED
  BY <1>3, <1>6, <1>7

LEMMA SplitFirst ==
  ASSUME NEW S, NEW s \in Seq(S), s # <<>>
  PROVE  Head(s) \in S /\ Tail(s) \in Seq(S) /\ s = <<Head(s)>> \o Tail(s)
<1> DEFINE a == Head(s)
           t == Tail(s)
           u == <<a>> \o t
<1>1. a \in S /\ t \in Seq(S)
  BY HeadTailProperties
<1>2. Len(s) \in Nat /\ Len(s) # 0
  BY EmptySeq
<1>3. Len(t) = Len(s) - 1 /\ \A i \in 1 .. Len(t) : t[i] = s[i + 1]
  BY HeadTailProperties
<1>4. s[1] = a
  OBVIOUS
<1> HIDE DEF a, t
<1>5. /\ u \in Seq(S) /\ Len(u) = Len(t) + 1 /\ u[1] = a
      /\ \A i \in 1 .. Len(t) : u[i + 1] = t[i]
  <2> HIDE DEF u
  <2>1. u = <<a>> \o t
    BY DEF u
  <2> QED
    BY <1>1, <2>1, PutFirst
<1> HIDE DEF u
<1>6. ASSUME NEW i \in 1 .. Len(s) PROVE s[i] = u[i]
  <2>1. CASE i = 1
    BY <1>4, <1>5, <2>1
  <2>2. CASE i # 1
    <3>1. i - 1 \in 1 .. Len(t) /\ (i - 1) + 1 = i
      BY <1>2, <1>3, <2>2
    <3>2. u[(i - 1) + 1] = t[i - 1] /\ t[i - 1] = s[(i - 1) + 1]
      BY <1>3, <1>5, <3>1
    <3> QED
      BY <3>1, <3>2
  <2> QED
    BY <2>1, <2>2
<1>7. Len(s) = Len(u)
  BY <1>2, <1>3, <1>5
<1>8. s = u
  BY <1>5, <1>6, <1>7, SeqEqual
<1> QED
  BY <1>1, <1>8 DEF a, t, u

-----------------------------------------------------------------------------
(* Lists of addresses: what putting an address on a list and taking one    *)
(* off it do to the set of the addresses on it, and that no address gets   *)
(* on a list twice.                                                        *)

(* Putting an address in front.                                            *)
LEMMA ConsRange ==
  ASSUME NEW s \in Seq(Nat), NEW e \in Nat
  PROVE  /\ Cons(e, s) \in Seq(Nat)
         /\ Range(Cons(e, s)) = Range(s) \cup {e}
         /\ IsInjective(s) /\ e \notin Range(s) => IsInjective(Cons(e, s))
<1> DEFINE c == <<e>> \o s
           n == Len(s)
<1>1. Cons(e, s) = c
  BY DEF Cons
<1>2. c \in Seq(Nat) /\ DOMAIN c = 1 .. n + 1 /\ c[1] = e /\ n \in Nat
  OBVIOUS
<1>3. \A i \in 1 .. n : c[i + 1] = s[i]
  OBVIOUS
<1>4. DOMAIN s = 1 .. n
  OBVIOUS
<1> HIDE DEF c, n
<1>5. \A i \in 1 .. n + 1 : i = 1 \/ (i - 1 \in 1 .. n /\ c[i] = s[i - 1])
  BY <1>2, <1>3
<1>6. Range(c) = Range(s) \cup {e}
  <2>1. \A x \in Range(c) : x \in Range(s) \cup {e}
    <3> SUFFICES ASSUME NEW i \in 1 .. n + 1 PROVE c[i] \in Range(s) \cup {e}
      BY <1>2 DEF Range
    <3>1. i = 1 \/ (i - 1 \in DOMAIN s /\ c[i] = s[i - 1])
      BY <1>4, <1>5
    <3> QED
      BY <1>2, <3>1 DEF Range
  <2>2. \A x \in Range(s) : x \in Range(c)
    <3> SUFFICES ASSUME NEW i \in 1 .. n PROVE s[i] \in Range(c)
      BY <1>4 DEF Range
    <3>1. i + 1 \in DOMAIN c /\ c[i + 1] = s[i]
      BY <1>2, <1>3
    <3> QED
      BY <3>1 DEF Range
  <2>3. e \in Range(c)
    BY <1>2 DEF Range
  <2> QED
    BY <2>1, <2>2, <2>3
<1>7. ASSUME IsInjective(s), e \notin Range(s)
      PROVE  IsInjective(c)
  <2>1. \A i \in 1 .. n : s[i] # e
    BY <1>4, <1>7 DEF Range
  <2> SUFFICES ASSUME NEW i \in 1 .. n + 1, NEW j \in 1 .. n + 1, c[i] = c[j]
               PROVE  i = j
    BY <1>2 DEF IsInjective
  <2>2. CASE i = 1 \/ j = 1
    BY <1>2, <1>5, <2>1, <2>2
  <2>3. CASE i # 1 /\ j # 1
    <3>1. i - 1 = j - 1
      BY <1>4, <1>5, <1>7, <2>3 DEF IsInjective
    <3> QED
      BY <3>1
  <2> QED
    BY <2>2, <2>3
<1> QED
  BY <1>1, <1>2, <1>6, <1>7

LEMMA TwoInFront ==
  ASSUME NEW s \in Seq(Nat), NEW a \in Nat, NEW b \in Nat
  PROVE  <<a, b>> \o s = Cons(a, Cons(b, s))
<1> DEFINE n == Len(s)
           c == <<b>> \o s
           u == <<a, b>> \o s
           v == <<a>> \o c
<1>1. n \in Nat /\ DOMAIN s = 1 .. n
  OBVIOUS
<1>2. c \in Seq(Nat) /\ Len(c) = n + 1 /\ c[1] = b /\ \A i \in 1 .. n : c[1 + i] = s[i]
  OBVIOUS
<1>3. u \in Seq(Nat) /\ Len(u) = n + 2 /\ u[1] = a /\ u[2] = b /\ \A i \in 1 .. n : u[2 + i] = s[i]
  OBVIOUS
<1> HIDE DEF c, u
<1>4. v \in Seq(Nat) /\ Len(v) = n + 2 /\ v[1] = a /\ \A i \in 1 .. n + 1 : v[1 + i] = c[i]
  BY <1>1, <1>2
<1> HIDE DEF n, v
<1>5. ASSUME NEW i \in 1 .. n + 2
      PROVE  u[i] = v[i]
  <2>1. CASE i = 1
    BY <1>3, <1>4, <2>1
  <2>2. CASE i = 2
    <3>1. v[1 + 1] = c[1]
      BY <1>1, <1>4
    <3> QED
      BY <1>2, <1>3, <2>2, <3>1
  <2>3. CASE i \in 3 .. n + 2
    <3>1. i - 2 \in 1 .. n /\ 2 + (i - 2) = i /\ i - 1 \in 1 .. n + 1 /\ 1 + (i - 1) = i
          /\ 1 + (i - 2) = i - 1
      BY <1>1, <2>3
    <3>2. u[2 + (i - 2)] = s[i - 2] /\ v[1 + (i - 1)] = c[i - 1] /\ c[1 + (i - 2)] = s[i - 2]
      BY <1>2, <1>3, <1>4, <3>1
    <3> QED
      BY <3>1, <3>2
  <2> QED
    BY <1>1, <2>1, <2>2, <2>3
<1>6. u = v
  BY <1>3, <1>4, <1>5
<1> QED
  BY <1>6 DEF Cons, u, v, c

(* Taking the head off.                                                    *)
LEMMA TailRange ==
  ASSUME NEW s \in Seq(Nat), s # <<>>, IsInjective(s)
  PROVE  /\ Head(s) \in Nat /\ Head(s) \in Range(s)
         /\ Tail(s) \in Seq(Nat)
         /\ Range(Tail(s)) = Range(s) \ {Head(s)}
         /\ IsInjective(Tail(s))
<1> DEFINE t == Tail(s)
           n == Len(s)
<1>1. n \in Nat /\ n >= 1 /\ DOMAIN s = 1 .. n /\ Head(s) = s[1] /\ s[1] \in Nat
  OBVIOUS
<1>2. t \in Seq(Nat) /\ DOMAIN t = 1 .. n - 1
  OBVIOUS
<1>3. \A i \in 1 .. n - 1 : t[i] = s[i + 1]
  OBVIOUS
<1> HIDE DEF t, n
<1>4. \A i \in 1 .. n : i = 1 \/ (i - 1 \in 1 .. n - 1 /\ t[i - 1] = s[i])
  BY <1>1, <1>3
<1>5. \A i \in 1 .. n - 1 : t[i] \in Range(s) \ {Head(s)}
  <2> TAKE i \in 1 .. n - 1
  <2>1. i + 1 \in 1 .. n /\ i + 1 # 1 /\ 1 \in 1 .. n
    BY <1>1
  <2>2. s[i + 1] # s[1]
    BY <1>1, <2>1 DEF IsInjective
  <2> QED
    BY <1>1, <1>3, <2>1, <2>2 DEF Range
<1>6. Range(t) = Range(s) \ {Head(s)}
  <2>1. \A x \in Range(t) : x \in Range(s) \ {Head(s)}
    BY <1>2, <1>5 DEF Range
  <2>2. ASSUME NEW x \in Range(s), x # Head(s)
        PROVE  x \in Range(t)
    <3>1. PICK i \in 1 .. n : s[i] = x
      BY <1>1 DEF Range
    <3>2. i - 1 \in DOMAIN t /\ t[i - 1] = x
      BY <1>1, <1>2, <1>4, <2>2, <3>1
    <3> QED
      BY <3>2 DEF Range
  <2> QED
    BY <2>1, <2>2
<1>7. IsInjective(t)
  <2> SUFFICES ASSUME NEW i \in 1 .. n - 1, NEW j \in 1 .. n - 1, t[i] = t[j]
               PROVE  i = j
    BY <1>2 DEF IsInjective
  <2>1. i + 1 \in 1 .. n /\ j + 1 \in 1 .. n /\ s[i + 1] = s[j + 1]
    BY <1>1, <1>3
  <2>2. i + 1 = j + 1
    BY <1>1, <2>1 DEF IsInjective
  <2> QED
    BY <2>2
<1>8. Head(s) \in Range(s)
  BY <1>1 DEF Range
<1> QED
  BY <1>1, <1>2, <1>6, <1>7, <1>8 DEF t

(* Unlinking an element anywhere in the list.                              *)
LEMMA RemoveAtRange ==
  ASSUME NEW s \in Seq(Nat), NEW k \in 1 .. Len(s), IsInjective(s)
  PROVE  /\ RemoveAt(s, k) \in Seq(Nat)
         /\ Range(RemoveAt(s, k)) = Range(s) \ {s[k]}
         /\ IsInjective(RemoveAt(s, k))
<1> DEFINE n     == Len(s)
           front == SubSeq(s, 1, k - 1)
           back  == SubSeq(s, k + 1, n)
           r     == front \o back
<1>1. RemoveAt(s, k) = r
  BY DEF RemoveAt
<1>2. n \in Nat /\ n >= 1 /\ DOMAIN s = 1 .. n /\ k \in 1 .. n
  OBVIOUS
<1>3. /\ front \in Seq(Nat) /\ Len(front) = k - 1
      /\ \A i \in 1 .. k - 1 : front[i] = s[i]
  OBVIOUS
<1>4. /\ back \in Seq(Nat) /\ Len(back) = n - k
      /\ \A i \in 1 .. n - k : back[i] = s[k + i]
  OBVIOUS
<1> HIDE DEF front, back, n
<1>5. r \in Seq(Nat) /\ DOMAIN r = 1 .. n - 1
  BY <1>2, <1>3, <1>4
<1>6. \A i \in 1 .. n - 1 : r[i] = IF i < k THEN s[i] ELSE s[i + 1]
  <2> TAKE i \in 1 .. n - 1
  <2>1. CASE i < k
    BY <1>2, <1>3, <1>4, <2>1
  <2>2. CASE ~ (i < k)
    <3>1. i - (k - 1) \in 1 .. n - k
      BY <1>2, <2>2
    <3>2. \A j \in 1 .. Len(front) + Len(back) :
            r[j] = IF j <= Len(front) THEN front[j] ELSE back[j - Len(front)]
      BY <1>3, <1>4, ConcatProperties
    <3>3. i \in 1 .. Len(front) + Len(back) /\ ~ (i <= Len(front))
      BY <1>2, <1>3, <1>4, <2>2
    <3> HIDE DEF r
    <3>4. r[i] = back[i - (k - 1)]
      BY <1>3, <3>2, <3>3
    <3>5. back[i - (k - 1)] = s[k + (i - (k - 1))] /\ k + (i - (k - 1)) = i + 1
      BY <1>2, <1>4, <3>1
    <3> QED
      BY <2>2, <3>4, <3>5
  <2> QED
    BY <2>1, <2>2
<1> HIDE DEF r
<1>7. \A i \in 1 .. n : \/ i = k
                        \/ i \in 1 .. n - 1 /\ r[i] = s[i]
                        \/ i - 1 \in 1 .. n - 1 /\ r[i - 1] = s[i]
  BY <1>2, <1>6
<1>8. \A i \in 1 .. n - 1 : r[i] \in Range(s) \ {s[k]}
  <2> TAKE i \in 1 .. n - 1
  <2>1. i \in 1 .. n /\ i + 1 \in 1 .. n
    BY <1>2
  <2>2. CASE i < k
    <3>1. r[i] = s[i] /\ i # k /\ s[i] # s[k]
      BY <1>2, <1>6, <2>1, <2>2 DEF IsInjective
    <3> QED
      BY <1>2, <2>1, <3>1 DEF Range
  <2>3. CASE ~ (i < k)
    <3>1. i + 1 # k
      BY <1>2, <2>3
    <3>2. r[i] = s[i + 1] /\ s[i + 1] # s[k]
      BY <1>2, <1>6, <2>1, <2>3, <3>1 DEF IsInjective
    <3> QED
      BY <1>2, <2>1, <3>2 DEF Range
  <2> QED
    BY <2>2, <2>3
<1>9. Range(r) = Range(s) \ {s[k]}
  <2>1. \A x \in Range(r) : x \in Range(s) \ {s[k]}
    BY <1>5, <1>8 DEF Range
  <2>2. \A x \in Range(s) \ {s[k]} : x \in Range(r)
    BY <1>2, <1>5, <1>7 DEF Range
  <2> QED
    BY <2>1, <2>2
<1>10. IsInjective(r)
  <2> SUFFICES ASSUME NEW i \in 1 .. n - 1, NEW j \in 1 .. n - 1, r[i] = r[j]
               PROVE  i = j
    BY <1>5 DEF IsInjective
  <2> DEFINE at(m) == IF m < k THEN m ELSE m + 1
  <2>1. at(i) \in 1 .. n /\ at(j) \in 1 .. n /\ s[at(i)] = s[at(j)]
    BY <1>2, <1>6
  <2>2. at(i) = at(j)
    BY <1>2, <2>1 DEF IsInjective
  <2> QED
    BY <1>2, <2>2
<1> QED
  BY <1>1, <1>5, <1>9, <1>10

-----------------------------------------------------------------------------
(* Tilings (Blocks.tla): what splitting a block, joining two neighbours    *)
(* and adding a block at the end do to one.                                *)

(* Nothing is cut into nothing.                                            *)
LEMMA EmptyTiling ==
  ASSUME NEW lo \in Nat
  PROVE  Tiling({}, lo, lo)
BY DEF Tiling, PairwiseApart, Within, Covers

(* Blocks at the same address are the same block.                          *)
LEMMA TileAddress ==
  ASSUME NEW T, NEW lo \in Nat, NEW hi \in Nat, Tiling(T, lo, hi),
         NEW s \in T, NEW t \in T, s.addr = t.addr
  PROVE  s = t
BY DEF Tiling, PairwiseApart, Apart, Block

(* A block that starts where the tiling ends lengthens the tiling.         *)
LEMMA ExtendTiling ==
  ASSUME NEW T, NEW lo \in Nat, NEW hi \in Nat, Tiling(T, lo, hi), lo <= hi,
         NEW n \in Nat \ {0}
  PROVE  /\ Tiling(T \cup {Tile(hi, n)}, lo, hi + n)
         /\ \A t \in T : t.addr # hi
<1> DEFINE U == T \cup {Tile(hi, n)}
<1>1. U \subseteq Block
  BY DEF Tiling, Block, Tile
<1>2. PairwiseApart(U)
  BY DEF Tiling, PairwiseApart, Within, Apart, Block, Tile
<1>3. Within(U, lo, hi + n)
  BY DEF Tiling, Within, Block, Tile
<1>4. Covers(U, lo, hi + n)
  <2> SUFFICES ASSUME NEW x \in lo .. (hi + n - 1)
               PROVE  \E t \in U : t.addr <= x /\ x < t.addr + t.got
    BY DEF Covers
  <2>1. CASE x < hi
    BY <2>1 DEF Tiling, Covers
  <2>2. CASE x >= hi
    <3>1. Tile(hi, n).addr <= x /\ x < Tile(hi, n).addr + Tile(hi, n).got
      BY <2>2 DEF Tile
    <3> QED
      BY <3>1
  <2> QED
    BY <2>1, <2>2
<1>5. \A t \in T : t.addr # hi
  BY DEF Tiling, Within, Block
<1> QED
  BY <1>1, <1>2, <1>3, <1>4, <1>5 DEF Tiling

(* A block may be cut in half.                                             *)
LEMMA HalveTiling ==
  ASSUME NEW T, NEW lo \in Nat, NEW hi \in Nat, Tiling(T, lo, hi),
         NEW a \in Nat, NEW n \in Nat \ {0},
         NEW b, b = a + n, NEW w, w = n + n,
         Tile(a, w) \in T
  PROVE  /\ Tiling((T \ {Tile(a, w)}) \cup {Tile(a, n), Tile(b, n)}, lo, hi)
         /\ \A t \in T : t.addr # b
<1> DEFINE U == (T \ {Tile(a, w)}) \cup {Tile(a, n), Tile(b, n)}
<1>1. U \subseteq Block
  BY DEF Tiling, Block, Tile
<1>2. PairwiseApart(U)
  BY DEF Tiling, PairwiseApart, Apart, Block, Tile
<1>3. Within(U, lo, hi)
  BY DEF Tiling, Within, Block, Tile
<1>4. Covers(U, lo, hi)
  <2> SUFFICES ASSUME NEW x \in lo .. (hi - 1)
               PROVE  \E t \in U : t.addr <= x /\ x < t.addr + t.got
    BY DEF Covers
  <2>1. PICK t \in T : t.addr <= x /\ x < t.addr + t.got
    BY DEF Tiling, Covers
  <2>2. CASE t # Tile(a, w)
    BY <2>1, <2>2
  <2>3. CASE t = Tile(a, w)
    <3>1. \/ Tile(a, n).addr <= x /\ x < Tile(a, n).addr + Tile(a, n).got
          \/ /\ Tile(b, n).addr <= x
             /\ x < Tile(b, n).addr + Tile(b, n).got
      BY <2>1, <2>3 DEF Tile
    <3> QED
      BY <3>1
  <2> QED
    BY <2>2, <2>3
<1>5. \A t \in T : t.addr # b
  BY DEF Tiling, PairwiseApart, Apart, Block, Tile
<1> QED
  BY <1>1, <1>2, <1>3, <1>4, <1>5 DEF Tiling

(* Two blocks of the same size next to each other may be made one.         *)
LEMMA JoinTiling ==
  ASSUME NEW T, NEW lo \in Nat, NEW hi \in Nat, Tiling(T, lo, hi),
         NEW a \in Nat, NEW n \in Nat \ {0},
         NEW b, b = a + n, NEW w, w = n + n,
         Tile(a, n) \in T, Tile(b, n) \in T
  PROVE  Tiling((T \ {Tile(a, n), Tile(b, n)}) \cup {Tile(a, w)}, lo, hi)
<1> DEFINE U == (T \ {Tile(a, n), Tile(b, n)}) \cup {Tile(a, w)}
<1>1. U \subseteq Block
  BY DEF Tiling, Block, Tile
<1>2. PairwiseApart(U)
  BY DEF Tiling, PairwiseApart, Apart, Block, Tile
<1>3. Within(U, lo, hi)
  BY DEF Tiling, Within, Block, Tile
<1>4. Covers(U, lo, hi)
  <2> SUFFICES ASSUME NEW x \in lo .. (hi - 1)
               PROVE  \E t \in U : t.addr <= x /\ x < t.addr + t.got
    BY DEF Covers
  <2>1. PICK t \in T : t.addr <= x /\ x < t.addr + t.got
    BY DEF Tiling, Covers
  <2>2. CASE t \in U
    BY <2>1, <2>2
  <2>3. CASE t = Tile(a, n) \/ t = Tile(b, n)
    <3>1. /\ Tile(a, w).addr <= x
          /\ x < Tile(a, w).addr + Tile(a, w).got
      BY <2>1, <2>3 DEF Tile
    <3> QED
      BY <3>1
  <2> QED
    BY <2>2, <2>3
<1> QED
  BY <1>1, <1>2, <1>3, <1>4 DEF Tiling

-----------------------------------------------------------------------------
(* Sums.  A sum over a finite set is the value of a recursive function on  *)
(* its subsets.  That there is such a function, that it is the only one,   *)
(* and that the order of the summands is of no account, is shown of sets   *)
(* of the least size at which it might fail.                               *)

(* h[s] is g[x] and the value of h on the rest of s, for the x it picks.   *)
Picked(s) == CHOOSE x \in s : TRUE

Sums(h, g, S) ==
  h = [s \in SUBSET S |-> IF s = {} THEN 0 ELSE g[Picked(s)] + h[s \ {Picked(s)}]]

LEMMA SumIs ==
  ASSUME NEW g, NEW S
  PROVE  SumFunctionOnSet(g, S) = (CHOOSE h : Sums(h, g, S))[S]
BY DEF SumFunctionOnSet, FoldFunctionOnSet, MapThenFoldSet, Sums, Picked

LEMMA PickedIn ==
  ASSUME NEW S, S # {}, IsFiniteSet(S)
  PROVE  /\ Picked(S) \in S
         /\ IsFiniteSet(S \ {Picked(S)})
         /\ Cardinality(S) \in Nat /\ Cardinality(S) >= 1
         /\ Cardinality(S \ {Picked(S)}) = Cardinality(S) - 1
<1>1. Picked(S) \in S
  BY DEF Picked
<1> QED
  BY <1>1, FS_RemoveElement, FS_CardinalityType, FS_EmptySet

(* There is such a function.                                               *)
LEMMA SumsExists ==
  ASSUME NEW g, NEW S, IsFiniteSet(S)
  PROVE  \E h : Sums(h, g, S)
<1> DEFINE Small(n) == {s \in SUBSET S : Cardinality(s) <= n}
           Value(h, s) == IF s = {} THEN 0 ELSE g[Picked(s)] + h[s \ {Picked(s)}]
           Upto(n) == \E h : h = [s \in Small(n) |-> Value(h, s)]
           Bad == {n \in Nat : ~ Upto(n)}
<1>a. \A s \in SUBSET S : IsFiniteSet(s) /\ Cardinality(s) \in Nat
  BY FS_Subset, FS_CardinalityType
<1>1. Upto(0)
  <2>1. \A s \in Small(0) : s = {}
    BY <1>a, FS_EmptySet
  <2> DEFINE h == [s \in Small(0) |-> 0]
  <2>2. h = [s \in Small(0) |-> Value(h, s)]
    BY <2>1
  <2> QED
    BY <2>2
<1>2. ASSUME NEW n \in Nat, Upto(n)
      PROVE  Upto(n + 1)
  <2>1. PICK h : h = [s \in Small(n) |-> Value(h, s)]
    BY <1>2
  <2> DEFINE k == [s \in Small(n + 1) |-> Value(h, s)]
  <2>2. \A s \in Small(n) : s \in Small(n + 1) /\ h[s] = k[s]
    <3>1. \A s \in Small(n) : s \in Small(n + 1)
      BY <1>a
    <3>2. \A s \in Small(n) : h[s] = Value(h, s)
      BY <2>1
    <3> QED
      BY <3>1, <3>2
  <2>3. \A s \in Small(n + 1) : s # {} => s \ {Picked(s)} \in Small(n)
    BY <1>a, PickedIn
  <2>4. \A s \in Small(n + 1) : Value(h, s) = Value(k, s)
    BY <2>2, <2>3
  <2>5. k = [s \in Small(n + 1) |-> Value(k, s)]
    BY <2>4
  <2> QED
    BY <2>5
<1>3. Bad = {}
  <2> SUFFICES ASSUME Bad # {} PROVE FALSE
    OBVIOUS
  <2> HIDE DEF Upto
  <2>1. PICK n \in Bad : \A m \in Bad : n <= m
    BY LeastOf
  <2>2. n # 0 /\ n \in Nat
    BY <1>1
  <2>3. n - 1 \in Nat /\ n - 1 \notin Bad /\ n - 1 + 1 = n
    BY <2>1, <2>2
  <2>4. Upto(n - 1 + 1)
    BY <1>2, <2>3
  <2> QED
    BY <2>1, <2>3, <2>4
<1>4. Cardinality(S) \in Nat
  BY FS_CardinalityType
<1>5. Small(Cardinality(S)) = SUBSET S
  BY FS_Subset
<1>6. Upto(Cardinality(S))
  BY <1>3, <1>4
<1> QED
  BY <1>5, <1>6 DEF Sums

(* It may take any element of a set first, and there is only one.          *)
AnyOrder(h, g, s) ==
  /\ h[s] \in Nat
  /\ s = {} => h[s] = 0
  /\ \A y \in s : h[s] = g[y] + h[s \ {y}]

LEMMA SumsAnyOrder ==
  ASSUME NEW g, NEW S, IsFiniteSet(S), \A x \in S : g[x] \in Nat,
         NEW h, Sums(h, g, S)
  PROVE  \A s \in SUBSET S : AnyOrder(h, g, s)
<1> DEFINE Good(s) == /\ h[s] \in Nat
                      /\ \A y \in s : h[s] = g[y] + h[s \ {y}]
           Bad == {Cardinality(s) : s \in {t \in SUBSET S : ~ Good(t)}}
<1>a. \A s \in SUBSET S : IsFiniteSet(s) /\ Cardinality(s) \in Nat
  BY FS_Subset, FS_CardinalityType
<1>b. h[{}] = 0
  BY DEF Sums
<1>c. \A s \in SUBSET S : s # {} => h[s] = g[Picked(s)] + h[s \ {Picked(s)}]
  BY DEF Sums
<1>1. Bad = {}
  <2> SUFFICES ASSUME Bad # {} PROVE FALSE
    OBVIOUS
  <2> HIDE DEF Good
  <2>1. Bad \in SUBSET Nat
    BY <1>a
  <2>2. PICK n \in Bad : \A m \in Bad : n <= m
    BY <2>1, LeastOf
  <2>3. PICK s \in SUBSET S : ~ Good(s) /\ Cardinality(s) = n
    BY <2>2
  <2> DEFINE x == Picked(s)
  <2>4. \A t \in SUBSET S : Cardinality(t) < n => Good(t)
    BY <1>a, <2>2
  <2>5. s # {}
    BY <1>b, <2>3 DEF Good
  <2>6. /\ x \in s /\ s \ {x} \in SUBSET S
        /\ Cardinality(s \ {x}) < n /\ h[s] = g[x] + h[s \ {x}]
    BY <1>a, <1>c, <2>3, <2>5, PickedIn
  <2>7. Good(s \ {x})
    BY <2>4, <2>6
  <2> HIDE DEF x
  <2>8. h[s] \in Nat
    BY <2>6, <2>7 DEF Good
  <2>9. ASSUME NEW y \in s, y # x
        PROVE  h[s] = g[y] + h[s \ {y}]
    <3>1. h[s \ {x}] = g[y] + h[(s \ {x}) \ {y}]
      BY <2>7, <2>9 DEF Good
    <3>2. Cardinality(s \ {y}) < n
      BY <1>a, <2>3, FS_RemoveElement
    <3>3. Good(s \ {y})
      BY <2>4, <3>2
    <3>4. h[s \ {y}] = g[x] + h[(s \ {y}) \ {x}]
      BY <2>6, <2>9, <3>3 DEF Good
    <3>5. (s \ {y}) \ {x} = (s \ {x}) \ {y}
      OBVIOUS
    <3>6. Cardinality((s \ {x}) \ {y}) < n
      <4>1. IsFiniteSet(s \ {x}) /\ (s \ {x}) \ {y} \in SUBSET (s \ {x})
        BY <1>a, <2>6
      <4>2. Cardinality((s \ {x}) \ {y}) <= Cardinality(s \ {x})
        BY <4>1, FS_Subset
      <4>3. /\ Cardinality((s \ {x}) \ {y}) \in Nat
            /\ Cardinality(s \ {x}) \in Nat /\ n \in Nat
        BY <1>a, <2>1, <2>6
      <4> QED
        BY <2>6, <4>2, <4>3
    <3>7. h[(s \ {x}) \ {y}] \in Nat
      BY <2>4, <3>6 DEF Good
    <3>8. g[x] \in Nat /\ g[y] \in Nat
      BY <2>6
    <3> DEFINE rest == h[(s \ {x}) \ {y}]
    <3>9. h[s] = g[x] + (g[y] + rest)
      BY <2>6, <3>1
    <3>10. h[s \ {y}] = g[x] + rest
      BY <3>4, <3>5
    <3>11. rest \in Nat
      BY <3>7
    <3> HIDE DEF rest
    <3>12. g[x] + (g[y] + rest) = g[y] + (g[x] + rest)
      BY <3>8, <3>11
    <3> QED
      BY <3>9, <3>10, <3>12
  <2>10. Good(s)
    BY <2>6, <2>8, <2>9 DEF Good
  <2> QED
    BY <2>3, <2>10
<1> QED
  BY <1>1, <1>b DEF AnyOrder

LEMMA SumsOnlyOne ==
  ASSUME NEW S, IsFiniteSet(S), NEW T \in SUBSET S, NEW f, NEW g,
         \A x \in T : f[x] = g[x],
         NEW h, Sums(h, f, S), NEW k, Sums(k, g, T)
  PROVE  h[T] = k[T]
<1> DEFINE Bad == {Cardinality(s) : s \in {t \in SUBSET T : h[t] # k[t]}}
<1>a. \A s \in SUBSET T : IsFiniteSet(s) /\ Cardinality(s) \in Nat
  BY FS_Subset, FS_CardinalityType
<1>b. h[{}] = 0 /\ k[{}] = 0
  BY DEF Sums
<1>c. \A s \in SUBSET T : s # {} => h[s] = f[Picked(s)] + h[s \ {Picked(s)}]
  BY DEF Sums
<1>d. \A s \in SUBSET T : s # {} => k[s] = g[Picked(s)] + k[s \ {Picked(s)}]
  BY DEF Sums
<1>1. Bad = {}
  <2> SUFFICES ASSUME Bad # {} PROVE FALSE
    OBVIOUS
  <2>1. Bad \in SUBSET Nat
    BY <1>a
  <2>2. PICK n \in Bad : \A m \in Bad : n <= m
    BY <2>1, LeastOf
  <2>3. PICK s \in SUBSET T : h[s] # k[s] /\ Cardinality(s) = n
    BY <2>2
  <2>4. s # {}
    BY <1>b, <2>3
  <2>5. Picked(s) \in s /\ Cardinality(s \ {Picked(s)}) < n
    BY <1>a, <2>3, <2>4, PickedIn
  <2>6. h[s \ {Picked(s)}] = k[s \ {Picked(s)}]
    BY <1>a, <2>2, <2>5
  <2> QED
    BY <1>c, <1>d, <2>3, <2>4, <2>5, <2>6
<1> QED
  BY <1>1

(* What the proofs use of sums of natural numbers.                         *)
LEMMA SumOfEqual ==
  ASSUME NEW S, IsFiniteSet(S), NEW f, NEW g, \A x \in S : f[x] = g[x]
  PROVE  SumFunctionOnSet(f, S) = SumFunctionOnSet(g, S)
<1>1. Sums(CHOOSE h : Sums(h, f, S), f, S)
  BY SumsExists
<1>2. Sums(CHOOSE h : Sums(h, g, S), g, S)
  BY SumsExists
<1> QED
  BY <1>1, <1>2, SumIs, SumsOnlyOne

LEMMA SumOverSet ==
  ASSUME NEW S, IsFiniteSet(S), NEW g, \A x \in S : g[x] \in Nat
  PROVE  /\ SumFunctionOnSet(g, S) \in Nat
         /\ S = {} => SumFunctionOnSet(g, S) = 0
         /\ \A y \in S : SumFunctionOnSet(g, S) = g[y] + SumFunctionOnSet(g, S \ {y})
<1>0. PICK h : h = CHOOSE k : Sums(k, g, S)
  OBVIOUS
<1>1. Sums(h, g, S)
  BY <1>0, SumsExists
<1>2. SumFunctionOnSet(g, S) = h[S]
  BY <1>0, SumIs
<1>3. ASSUME NEW y \in S
      PROVE  SumFunctionOnSet(g, S \ {y}) = h[S \ {y}]
  <2> DEFINE k == CHOOSE k : Sums(k, g, S \ {y})
  <2>1. IsFiniteSet(S \ {y}) /\ S \ {y} \in SUBSET S
    BY FS_RemoveElement
  <2>2. Sums(k, g, S \ {y})
    BY <2>1, SumsExists
  <2>3. SumFunctionOnSet(g, S \ {y}) = k[S \ {y}]
    BY SumIs
  <2> HIDE DEF k
  <2>4. h[S \ {y}] = k[S \ {y}]
    BY <1>1, <2>1, <2>2, SumsOnlyOne
  <2> QED
    BY <2>3, <2>4
<1>4. /\ h[S] \in Nat
      /\ S = {} => h[S] = 0
      /\ \A y \in S : h[S] = g[y] + h[S \ {y}]
  <2>1. \A s \in SUBSET S : AnyOrder(h, g, s)
    BY <1>1, SumsAnyOrder
  <2>2. S \in SUBSET S
    OBVIOUS
  <2> QED
    BY <2>1, <2>2 DEF AnyOrder
<1> QED
  BY <1>2, <1>3, <1>4

(* A sum of zeros.                                                         *)
LEMMA SumOfZeros ==
  ASSUME NEW S, IsFiniteSet(S), NEW g, \A x \in S : g[x] = 0
  PROVE  SumFunctionOnSet(g, S) = 0
<1> DEFINE Bad == {n \in Nat : \E T \in SUBSET S :
                     Cardinality(T) = n /\ SumFunctionOnSet(g, T) # 0}
<1>1. Bad = {}
  <2> SUFFICES ASSUME Bad # {} PROVE FALSE
    OBVIOUS
  <2>1. PICK n \in Bad : \A m \in Bad : n <= m
    BY LeastOf
  <2>2. PICK T \in SUBSET S : Cardinality(T) = n /\ SumFunctionOnSet(g, T) # 0
    BY <2>1
  <2>3. IsFiniteSet(T) /\ \A x \in T : g[x] \in Nat
    BY FS_Subset
  <2>4. T # {}
    BY <2>2, <2>3, SumOverSet
  <2>5. PICK y \in T : TRUE
    BY <2>4
  <2>6. SumFunctionOnSet(g, T) = g[y] + SumFunctionOnSet(g, T \ {y})
    BY <2>3, SumOverSet
  <2>7. Cardinality(T \ {y}) = n - 1 /\ n - 1 \in Nat /\ T \ {y} \in SUBSET S
    <3>1. Cardinality(T \ {y}) = Cardinality(T) - 1
      BY <2>3, FS_RemoveElement
    <3>2. n # 0
      BY <2>2, <2>3, <2>4, FS_EmptySet
    <3> QED
      BY <2>2, <3>1, <3>2
  <2>8. SumFunctionOnSet(g, T \ {y}) = 0
    BY <2>1, <2>7
  <2> QED
    BY <2>2, <2>6, <2>8
<1> QED
  BY <1>1, FS_CardinalityType

(* One more element, and one value changed.                                *)
LEMMA SumOneMore ==
  ASSUME NEW S, IsFiniteSet(S), NEW y, y \notin S, NEW f, NEW g,
         \A x \in S \cup {y} : g[x] \in Nat, \A x \in S : f[x] = g[x]
  PROVE  SumFunctionOnSet(g, S \cup {y}) = g[y] + SumFunctionOnSet(f, S)
<1>1. IsFiniteSet(S \cup {y}) /\ (S \cup {y}) \ {y} = S
  BY FS_AddElement
<1>2. SumFunctionOnSet(g, S \cup {y}) = g[y] + SumFunctionOnSet(g, S)
  BY <1>1, SumOverSet
<1> QED
  BY <1>2, SumOfEqual

LEMMA SumOneChanged ==
  ASSUME NEW S, IsFiniteSet(S), NEW y \in S, NEW f, NEW g,
         \A x \in S : f[x] \in Nat /\ g[x] \in Nat, \A x \in S \ {y} : f[x] = g[x]
  PROVE  SumFunctionOnSet(g, S) - g[y] = SumFunctionOnSet(f, S) - f[y]
<1>1. IsFiniteSet(S \ {y})
  BY FS_RemoveElement
<1>2. SumFunctionOnSet(g, S \ {y}) = SumFunctionOnSet(f, S \ {y})
  BY <1>1, SumOfEqual
<1>3. SumFunctionOnSet(g, S) = g[y] + SumFunctionOnSet(g, S \ {y})
  BY SumOverSet
<1>4. SumFunctionOnSet(f, S) = f[y] + SumFunctionOnSet(f, S \ {y})
  BY SumOverSet
<1>5. SumFunctionOnSet(f, S \ {y}) \in Nat
  BY <1>1, SumOverSet
<1> QED
  BY <1>2, <1>3, <1>4, <1>5

-----------------------------------------------------------------------------
(* Folds to the left.  FoldLeft is the value, at the set of all indexes,   *)
(* of a function that takes the largest index of a set last.               *)
LEMMA LargestIndex ==
  ASSUME NEW l \in Nat, NEW s \in SUBSET (1 .. l), s # {}
  PROVE  /\ Max(s) \in s /\ \A y \in s : Max(s) >= y
         /\ Max(s) \in 1 .. l /\ s \ {Max(s)} \in SUBSET (1 .. (l - 1))
<1> DEFINE Bounds == {n \in Nat : \A y \in s : n >= y}
<1>1. l \in Bounds
  OBVIOUS
<1>2. PICK n \in Bounds : \A m \in Bounds : n <= m
  BY <1>1, LeastOf
<1>3. n \in s
  <2> SUFFICES ASSUME n \notin s PROVE FALSE
    OBVIOUS
  <2>1. PICK y \in s : y \in 1 .. l
    OBVIOUS
  <2>2. n \in Nat /\ n >= y /\ y >= 1
    BY <1>2, <2>1
  <2>3. \A z \in s : z \in Nat /\ n >= z /\ n # z
    BY <1>2
  <2>4. n - 1 \in Nat /\ \A z \in s : n - 1 >= z
    BY <2>2, <2>3
  <2>5. n - 1 \in Bounds
    BY <2>4
  <2>6. n <= n - 1
    BY <1>2, <2>5
  <2> QED
    BY <2>2, <2>6
<1>4. Max(s) \in s /\ \A y \in s : Max(s) >= y
  <2>1. \E x \in s : \A y \in s : x >= y
    BY <1>2, <1>3
  <2> QED
    BY <2>1 DEF Max
<1>5. ASSUME NEW y \in s, y # Max(s) PROVE y \in 1 .. (l - 1)
  <2>1. y \in 1 .. l /\ Max(s) \in 1 .. l /\ Max(s) >= y
    BY <1>4
  <2> HIDE DEF Bounds
  <2> QED
    BY <1>5, <2>1
<1> QED
  BY <1>4, <1>5

(* The sets of the first indexes.                                          *)
LEMMA FirstIndexes ==
  ASSUME NEW l \in Nat, NEW k \in Nat, k < l
  PROVE  /\ 1 .. k \in SUBSET (1 .. l) /\ 1 .. (k + 1) \in SUBSET (1 .. l)
         /\ 1 .. (k + 1) # {} /\ Max(1 .. (k + 1)) = k + 1
         /\ (1 .. (k + 1)) \ {k + 1} = 1 .. k
<1>1. /\ 1 .. k \in SUBSET (1 .. l) /\ 1 .. (k + 1) \in SUBSET (1 .. l)
      /\ k + 1 \in 1 .. (k + 1) /\ (1 .. (k + 1)) \ {k + 1} = 1 .. k
  OBVIOUS
<1>2. Max(1 .. (k + 1)) \in 1 .. (k + 1) /\ \A y \in 1 .. (k + 1) : Max(1 .. (k + 1)) >= y
  BY <1>1, LargestIndex
<1>3. Max(1 .. (k + 1)) = k + 1
  BY <1>1, <1>2
<1> QED
  BY <1>1, <1>3

(* Such a function, with step f[i] taken at index i.                       *)
Folding(h, E, base, f, l) ==
  /\ h \in [SUBSET (1 .. l) -> E]
  /\ \A s \in SUBSET (1 .. l) : h[s] = IF s = {} THEN base ELSE f[Max(s)][h[s \ {Max(s)}]]

(* There is one if the steps stay in a set.                                *)
LEMMA FoldExists ==
  ASSUME NEW E, NEW base \in E, NEW f \in [Nat -> [E -> E]], NEW l \in Nat
  PROVE  \E h : Folding(h, E, base, f, l)
<1> DEFINE Value(h, s) == IF s = {} THEN base ELSE f[Max(s)][h[s \ {Max(s)}]]
           Upto(n) == \E h \in [SUBSET (1 .. n) -> E] : h = [s \in SUBSET (1 .. n) |-> Value(h, s)]
           Bad == {n \in Nat : ~ Upto(n)}
<1>1. Upto(0)
  <2> DEFINE h == [s \in SUBSET (1 .. 0) |-> base]
  <2>1. \A s \in SUBSET (1 .. 0) : s = {}
    OBVIOUS
  <2>2. h = [s \in SUBSET (1 .. 0) |-> Value(h, s)]
    BY <2>1
  <2>3. h \in [SUBSET (1 .. 0) -> E]
    OBVIOUS
  <2> QED
    BY <2>2, <2>3
<1>2. ASSUME NEW n \in Nat, Upto(n)
      PROVE  Upto(n + 1)
  <2>1. PICK h \in [SUBSET (1 .. n) -> E] : h = [s \in SUBSET (1 .. n) |-> Value(h, s)]
    BY <1>2
  <2> DEFINE q == [s \in SUBSET (1 .. (n + 1)) |-> Value(h, s)]
  <2>2. ASSUME NEW s \in SUBSET (1 .. (n + 1)), s # {}
        PROVE  Max(s) \in Nat /\ s \ {Max(s)} \in SUBSET (1 .. n)
               /\ s \ {Max(s)} \in SUBSET (1 .. (n + 1))
    <3>1. Max(s) \in 1 .. (n + 1) /\ s \ {Max(s)} \in SUBSET (1 .. (n + 1 - 1))
      BY <2>2, LargestIndex
    <3> QED
      BY <3>1
  <2>3. \A s \in SUBSET (1 .. n) : s \in SUBSET (1 .. (n + 1)) /\ q[s] = h[s]
    <3>1. \A s \in SUBSET (1 .. n) : s \in SUBSET (1 .. (n + 1))
      OBVIOUS
    <3>2. \A s \in SUBSET (1 .. n) : h[s] = Value(h, s)
      BY <2>1
    <3> QED
      BY <3>1, <3>2
  <2>4. \A s \in SUBSET (1 .. (n + 1)) : Value(h, s) = Value(q, s)
    BY <2>2, <2>3
  <2>5. q = [s \in SUBSET (1 .. (n + 1)) |-> Value(q, s)]
    BY <2>4
  <2>6. \A s \in SUBSET (1 .. (n + 1)) : Value(h, s) \in E
    BY <2>2
  <2>7. q \in [SUBSET (1 .. (n + 1)) -> E]
    BY <2>6
  <2> QED
    BY <2>5, <2>7
<1>3. Bad = {}
  <2> SUFFICES ASSUME Bad # {} PROVE FALSE
    OBVIOUS
  <2> HIDE DEF Upto
  <2>1. PICK n \in Bad : \A m \in Bad : n <= m
    BY LeastOf
  <2>2. n # 0 /\ n \in Nat
    BY <1>1
  <2>3. n - 1 \in Nat /\ n - 1 \notin Bad /\ n - 1 + 1 = n
    BY <2>1, <2>2
  <2>4. Upto(n - 1 + 1)
    BY <1>2, <2>3
  <2> QED
    BY <2>1, <2>3, <2>4
<1>4. PICK h \in [SUBSET (1 .. l) -> E] : h = [s \in SUBSET (1 .. l) |-> Value(h, s)]
  BY <1>3
<1>5. \A s \in SUBSET (1 .. l) : h[s] = Value(h, s)
  BY <1>4
<1> QED
  BY <1>5 DEF Folding

(* What the first step makes true of the value, and each other one keeps,  *)
(* is true of the fold.                                                    *)
LEMMA FoldReached ==
  ASSUME NEW E, NEW h, NEW l \in Nat, h[{}] \in E,
         \A k \in Nat : k < l /\ h[1 .. k] \in E => h[1 .. (k + 1)] \in E
  PROVE  h[1 .. l] \in E
<1> DEFINE Bad == {k \in 0 .. l : h[1 .. k] \notin E}
<1>1. Bad = {}
  <2> SUFFICES ASSUME Bad # {} PROVE FALSE
    OBVIOUS
  <2>1. PICK n \in Bad : \A m \in Bad : n <= m
    <3>1. Bad \in SUBSET Nat
      OBVIOUS
    <3> HIDE DEF Bad
    <3> QED
      BY <3>1, LeastOf
  <2>2. n # 0
    <3>1. 1 .. 0 = {}
      OBVIOUS
    <3> QED
      BY <3>1
  <2>3. n - 1 \in 0 .. l /\ n - 1 \notin Bad /\ n - 1 \in Nat /\ n - 1 < l /\ n - 1 + 1 = n
    BY <2>1, <2>2
  <2>4. h[1 .. (n - 1)] \in E
    BY <2>3
  <2>5. h[1 .. (n - 1 + 1)] \in E
    BY <2>3, <2>4
  <2> QED
    BY <2>1, <2>3, <2>5
<1> QED
  BY <1>1

-----------------------------------------------------------------------------
(* There is a function that flattens a sequence of sequences as FlattenSeq *)
(* does.                                                                   *)
LEMMA FlattenExists ==
  ASSUME NEW seqs, NEW l \in Nat
  PROVE  \E r : r = [i \in 1 .. l |-> IF i = 1 THEN seqs[i] ELSE r[i - 1] \o seqs[i]]
<1> DEFINE Value(r, i) == IF i = 1 THEN seqs[i] ELSE r[i - 1] \o seqs[i]
           Upto(n) == \E r : r = [i \in 1 .. n |-> Value(r, i)]
           Bad == {n \in Nat : ~ Upto(n)}
<1>1. Upto(0)
  <2> DEFINE r == [i \in 1 .. 0 |-> <<>>]
  <2>1. r = [i \in 1 .. 0 |-> Value(r, i)]
    OBVIOUS
  <2> QED
    BY <2>1
<1>2. ASSUME NEW n \in Nat, Upto(n)
      PROVE  Upto(n + 1)
  <2>1. PICK r : r = [i \in 1 .. n |-> Value(r, i)]
    BY <1>2
  <2> DEFINE q == [i \in 1 .. (n + 1) |-> Value(r, i)]
  <2>2. \A i \in 1 .. n : q[i] = r[i]
    <3> HIDE DEF Value
    <3>1. \A i \in 1 .. n : r[i] = Value(r, i) /\ i \in 1 .. (n + 1)
      BY <2>1
    <3> QED
      BY <3>1
  <2>3. \A i \in 1 .. (n + 1) : i # 1 => i - 1 \in 1 .. n
    OBVIOUS
  <2>4. \A i \in 1 .. (n + 1) : Value(r, i) = Value(q, i)
    BY <2>2, <2>3
  <2>5. q = [i \in 1 .. (n + 1) |-> Value(q, i)]
    BY <2>4
  <2> QED
    BY <2>5
<1>3. Bad = {}
  <2> SUFFICES ASSUME Bad # {} PROVE FALSE
    OBVIOUS
  <2> HIDE DEF Upto
  <2>1. PICK n \in Bad : \A m \in Bad : n <= m
    BY LeastOf
  <2>2. n # 0 /\ n \in Nat
    BY <1>1
  <2>3. n - 1 \in Nat /\ n - 1 \notin Bad /\ n - 1 + 1 = n
    BY <2>1, <2>2
  <2>4. Upto(n - 1 + 1)
    BY <1>2, <2>3
  <2> QED
    BY <2>1, <2>3, <2>4
<1> QED
  BY <1>3
=============================================================================
