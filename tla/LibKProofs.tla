----------------------------- MODULE LibKProofs -----------------------------
(***************************************************************************)
(* Theorems about the functions of LibK, for every width of an int, every  *)
(* base, all strings and all pieces of memory.                             *)
(*                                                                         *)
(* A loop is a recursive function of its iteration.  Each is proved equal  *)
(* to a function that says at once what the loop has done by then: it      *)
(* satisfies the recursion, and nothing else does.                         *)
(***************************************************************************)
EXTENDS LibK, Lemmas

-----------------------------------------------------------------------------
(* Memory.                                                                 *)
Memories == [Addresses -> Nat]

(* Memory after the n bytes from src on have been put at dest.             *)
Moved(mem, dest, src, n) ==
  [a \in Addresses |-> IF a \in dest .. (dest + n - 1) THEN mem[a - dest + src] ELSE mem[a]]

Pieces(dest, src, n) ==
  /\ dest \in Nat /\ src \in Nat /\ n \in Nat
  /\ dest + n <= MemorySize /\ src + n <= MemorySize

LEMMA AddressesAre == \A a \in Nat : a < MemorySize <=> a \in Addresses
BY LibKAssumption DEF LibKAssumption, Addresses

(* Two functions of the iteration that begin alike and go on alike.        *)
Ascending(f, g, n) == f[0] = g[0] /\ \A i \in 1 .. n : f[i - 1] = g[i - 1] => f[i] = g[i]

Alike(f, g, lo, hi) == \A i \in lo .. hi : f[i] = g[i]

LEMMA SameSteps ==
  ASSUME NEW n \in Nat, NEW f, NEW g, Ascending(f, g, n)
  PROVE  Alike(f, g, 0, n)
<1> DEFINE Bad == {i \in 0 .. n : f[i] # g[i]}
<1>1. Bad = {}
  <2> SUFFICES ASSUME Bad # {} PROVE FALSE
    OBVIOUS
  <2>1. Bad \in SUBSET Nat
    OBVIOUS
  <2>2. PICK i \in Bad : \A j \in Bad : i <= j
    <3> HIDE DEF Bad
    <3> QED
      BY <2>1, LeastOf
  <2>3. i \in 0 .. n /\ i # 0
    BY <2>2 DEF Ascending
  <2>4. i \in 1 .. n /\ i - 1 \in 0 .. n /\ ~ (i <= i - 1)
    BY <2>3
  <2>5. i - 1 \notin Bad
    BY <2>2, <2>4
  <2>6. f[i - 1] = g[i - 1]
    BY <2>4, <2>5
  <2> QED
    BY <2>2, <2>4, <2>6 DEF Ascending
<1> QED
  BY <1>1 DEF Alike

(* A byte more, from in front.                                             *)
LEMMA CopyStep ==
  ASSUME NEW mem \in Memories, NEW dest, NEW src, NEW n, Pieces(dest, src, n), dest <= src,
         NEW i \in 1 .. n
  PROVE  [Moved(mem, dest, src, i - 1) EXCEPT ![dest + i - 1] = Moved(mem, dest, src, i - 1)[src + i - 1]]
         = Moved(mem, dest, src, i)
<1>1. /\ dest \in Nat /\ src \in Nat /\ n \in Nat /\ i \in Nat /\ i >= 1
      /\ dest + i - 1 < MemorySize /\ src + i - 1 < MemorySize
  BY LibKAssumption DEF LibKAssumption, Pieces
<1>2. dest + i - 1 \in Addresses /\ src + i - 1 \in Addresses
  BY <1>1, AddressesAre
<1> DEFINE before == Moved(mem, dest, src, i - 1)
           after == Moved(mem, dest, src, i)
           d == dest + i - 1
<1>3. before[src + i - 1] = mem[src + i - 1]
  <2>1. src + i - 1 \notin dest .. (dest + (i - 1) - 1)
    BY <1>1
  <2> QED
    BY <1>2, <2>1 DEF Moved
<1>4. after[d] = mem[src + i - 1]
  <2>1. d \in dest .. (dest + i - 1) /\ d - dest + src = src + i - 1
    BY <1>1
  <2> QED
    BY <1>2, <2>1 DEF Moved
<1>5. ASSUME NEW a \in Addresses, a # d PROVE after[a] = before[a]
  <2>1. a \in dest .. (dest + i - 1) <=> a \in dest .. (dest + (i - 1) - 1)
    BY <1>1, <1>5 DEF Addresses
  <2> QED
    BY <2>1 DEF Moved
<1>6. before = [a \in Addresses |-> before[a]] /\ after = [a \in Addresses |-> after[a]]
  BY DEF Moved
<1> HIDE DEF before, after, d
<1>7. [before EXCEPT ![d] = before[src + i - 1]] =
        [a \in Addresses |-> IF a = d THEN before[src + i - 1] ELSE before[a]]
  BY <1>6
<1>8. [before EXCEPT ![d] = before[src + i - 1]] = after
  BY <1>3, <1>4, <1>5, <1>6, <1>7
<1> QED
  BY <1>8 DEF before, after, d

LEMMA NothingMoved ==
  ASSUME NEW mem \in Memories, NEW dest \in Nat, NEW src \in Nat
  PROVE  Moved(mem, dest, src, 0) = mem
<1>1. \A a \in Addresses : a \notin dest .. (dest + 0 - 1)
  OBVIOUS
<1> QED
  BY <1>1 DEF Moved, Memories

LEMMA memcpyMoves ==
  ASSUME NEW mem \in Memories, NEW dest, NEW src, NEW n, Pieces(dest, src, n), dest <= src
  PROVE  memcpy(mem, dest, src, n) = Moved(mem, dest, src, n)
<1> DEFINE Step(f, i) == [f[i - 1] EXCEPT ![dest + i - 1] = f[i - 1][src + i - 1]]
           Is(f) == f = [i \in 0 .. n |-> IF i = 0 THEN mem ELSE Step(f, i)]
           r == [i \in 0 .. n |-> Moved(mem, dest, src, i)]
           q == CHOOSE f : Is(f)
<1>1. dest \in Nat /\ src \in Nat /\ n \in Nat
  BY DEF Pieces
<1>2. \A i \in 1 .. n : i \in 0 .. n /\ i - 1 \in 0 .. n /\ i # 0
  BY <1>1
<1>3. r[0] = mem
  BY <1>1, NothingMoved
<1>4. \A i \in 1 .. n : r[i] = Step(r, i)
  <2> SUFFICES ASSUME NEW i \in 1 .. n PROVE r[i] = Step(r, i)
    OBVIOUS
  <2>1. r[i] = Moved(mem, dest, src, i) /\ r[i - 1] = Moved(mem, dest, src, i - 1)
    BY <1>2
  <2> HIDE DEF r
  <2> QED
    BY <2>1, CopyStep
<1>5. Is(r)
  <2>1. \A i \in 0 .. n : r[i] = IF i = 0 THEN mem ELSE Step(r, i)
    <3>1. \A i \in 0 .. n : i = 0 \/ i \in 1 .. n
      BY <1>1
    <3> HIDE DEF r, Step
    <3> QED
      BY <1>3, <1>4, <3>1
  <2>2. r = [i \in 0 .. n |-> r[i]]
    OBVIOUS
  <2> HIDE DEF r, Step
  <2> QED
    BY <2>1, <2>2
<1>6. Is(q)
  <2> HIDE DEF Is, r
  <2> QED
    BY <1>5
<1>7. memcpy(mem, dest, src, n) = q[n]
  BY DEF memcpy
<1> HIDE DEF q, r
<1>8. q[0] = mem /\ \A i \in 1 .. n : q[i] = Step(q, i)
  <2>1. 0 \in 0 .. n
    BY <1>1
  <2> QED
    BY <1>2, <1>6, <2>1
<1>9. \A i \in 0 .. n : q[i] = r[i]
  <2>1. Ascending(q, r, n)
    BY <1>3, <1>4, <1>8 DEF Ascending
  <2>2. Alike(q, r, 0, n)
    BY <1>1, <2>1, SameSteps
  <2> QED
    BY <2>2 DEF Alike
<1> QED
  BY <1>1, <1>7, <1>9 DEF r

(* A byte more, from the end.                                              *)
LEMMA CopyDownStep ==
  ASSUME NEW mem \in Memories, NEW dest, NEW src, NEW n, Pieces(dest, src, n), src <= dest,
         NEW i \in 1 .. n
  PROVE  LET before == Moved(mem, dest + n - (i - 1), src + n - (i - 1), i - 1)
         IN  [before EXCEPT ![dest + n - i] = before[src + n - i]]
             = Moved(mem, dest + n - i, src + n - i, i)
<1>1. /\ dest \in Nat /\ src \in Nat /\ n \in Nat /\ i \in Nat /\ i >= 1 /\ i <= n
      /\ dest + n - i < MemorySize /\ src + n - i < MemorySize
      /\ dest + n - i \in Nat /\ src + n - i \in Nat
  BY LibKAssumption DEF LibKAssumption, Pieces
<1>2. dest + n - i \in Addresses /\ src + n - i \in Addresses
  BY <1>1, AddressesAre
<1> DEFINE before == Moved(mem, dest + n - (i - 1), src + n - (i - 1), i - 1)
           after == Moved(mem, dest + n - i, src + n - i, i)
           d == dest + n - i
<1>3. before[src + n - i] = mem[src + n - i]
  <2>1. src + n - i \notin (dest + n - (i - 1)) .. ((dest + n - (i - 1)) + (i - 1) - 1)
    BY <1>1
  <2> QED
    BY <1>2, <2>1 DEF Moved
<1>4. after[d] = mem[src + n - i]
  <2>1. d \in d .. (d + i - 1) /\ d - d + (src + n - i) = src + n - i
    BY <1>1
  <2> QED
    BY <1>2, <2>1 DEF Moved
<1>5. ASSUME NEW a \in Addresses, a # d PROVE after[a] = before[a]
  <2>1. a \in d .. (d + i - 1)
        <=> a \in (dest + n - (i - 1)) .. ((dest + n - (i - 1)) + (i - 1) - 1)
    BY <1>1, <1>5 DEF Addresses
  <2>2. a - (dest + n - (i - 1)) + (src + n - (i - 1)) = a - d + (src + n - i)
    BY <1>1 DEF Addresses
  <2> QED
    BY <2>1, <2>2 DEF Moved
<1>6. before = [a \in Addresses |-> before[a]] /\ after = [a \in Addresses |-> after[a]]
  BY DEF Moved
<1> HIDE DEF before, after, d
<1>7. [before EXCEPT ![d] = before[src + n - i]] =
        [a \in Addresses |-> IF a = d THEN before[src + n - i] ELSE before[a]]
  BY <1>6
<1>8. [before EXCEPT ![d] = before[src + n - i]] = after
  BY <1>3, <1>4, <1>5, <1>6, <1>7
<1> QED
  BY <1>8 DEF before, after, d

LEMMA CopyDownMoves ==
  ASSUME NEW mem \in Memories, NEW dest, NEW src, NEW n, Pieces(dest, src, n), src <= dest
  PROVE  CopyDown(mem, dest, src, n) = Moved(mem, dest, src, n)
<1> DEFINE Step(f, i) == [f[i - 1] EXCEPT ![dest + n - i] = f[i - 1][src + n - i]]
           Is(f) == f = [i \in 0 .. n |-> IF i = 0 THEN mem ELSE Step(f, i)]
           r == [i \in 0 .. n |-> Moved(mem, dest + n - i, src + n - i, i)]
           q == CHOOSE f : Is(f)
<1>1. dest \in Nat /\ src \in Nat /\ n \in Nat
  BY DEF Pieces
<1>2. \A i \in 1 .. n : i \in 0 .. n /\ i - 1 \in 0 .. n /\ i # 0
  BY <1>1
<1>3. r[0] = mem
  <2>1. r[0] = Moved(mem, dest + n - 0, src + n - 0, 0)
    BY <1>1
  <2>2. dest + n - 0 \in Nat /\ src + n - 0 \in Nat
    BY <1>1
  <2> QED
    BY <2>1, <2>2, NothingMoved
<1>4. \A i \in 1 .. n : r[i] = Step(r, i)
  <2> SUFFICES ASSUME NEW i \in 1 .. n PROVE r[i] = Step(r, i)
    OBVIOUS
  <2>1. /\ r[i] = Moved(mem, dest + n - i, src + n - i, i)
        /\ r[i - 1] = Moved(mem, dest + n - (i - 1), src + n - (i - 1), i - 1)
    BY <1>2
  <2> HIDE DEF r
  <2> QED
    BY <2>1, CopyDownStep
<1>5. Is(r)
  <2>1. \A i \in 0 .. n : r[i] = IF i = 0 THEN mem ELSE Step(r, i)
    <3>1. \A i \in 0 .. n : i = 0 \/ i \in 1 .. n
      BY <1>1
    <3> HIDE DEF r, Step
    <3> QED
      BY <1>3, <1>4, <3>1
  <2>2. r = [i \in 0 .. n |-> r[i]]
    OBVIOUS
  <2> HIDE DEF r, Step
  <2> QED
    BY <2>1, <2>2
<1>6. Is(q)
  <2> HIDE DEF Is, r
  <2> QED
    BY <1>5
<1>7. CopyDown(mem, dest, src, n) = q[n]
  BY DEF CopyDown
<1> HIDE DEF q, r
<1>8. q[0] = mem /\ \A i \in 1 .. n : q[i] = Step(q, i)
  <2>1. 0 \in 0 .. n
    BY <1>1
  <2> QED
    BY <1>2, <1>6, <2>1
<1>9. \A i \in 0 .. n : q[i] = r[i]
  <2>1. Ascending(q, r, n)
    BY <1>3, <1>4, <1>8 DEF Ascending
  <2>2. Alike(q, r, 0, n)
    BY <1>1, <2>1, SameSteps
  <2> QED
    BY <2>2 DEF Alike
<1>10. r[n] = Moved(mem, dest, src, n)
  <2>1. n \in 0 .. n /\ dest + n - n = dest /\ src + n - n = src
    BY <1>1
  <2> QED
    BY <2>1 DEF r
<1>11. q[n] = r[n]
  <2>1. n \in 0 .. n
    BY <1>1
  <2> QED
    BY <1>9, <2>1
<1> QED
  BY <1>7, <1>10, <1>11

(* Whichever way the pieces overlap.                                       *)
LEMMA memmoveMoves ==
  ASSUME NEW mem \in Memories, NEW dest, NEW src, NEW n, Pieces(dest, src, n)
  PROVE  memmove(mem, dest, src, n) = Moved(mem, dest, src, n)
<1>1. CASE src > dest
  <2>1. dest <= src
    BY <1>1 DEF Pieces
  <2> QED
    BY <1>1, <2>1, memcpyMoves DEF memmove
<1>2. CASE src < dest
  <2>1. src <= dest /\ ~ (src > dest)
    BY <1>2 DEF Pieces
  <2> QED
    BY <1>2, <2>1, CopyDownMoves DEF memmove
<1>3. CASE src = dest
  <2>1. ~ (src > dest) /\ ~ (src < dest)
    BY <1>3 DEF Pieces
  <2>2. memmove(mem, dest, src, n) = mem
    BY <2>1 DEF memmove
  <2>3. \A a \in Addresses : a - dest + src = a
    BY <1>3 DEF Pieces, Addresses
  <2>4. mem = [a \in Addresses |-> mem[a]]
    BY DEF Memories
  <2>5. Moved(mem, dest, src, n) = mem
    BY <2>3, <2>4 DEF Moved
  <2> QED
    BY <2>2, <2>5
<1> QED
  BY <1>1, <1>2, <1>3 DEF Pieces

(* Memory after the n bytes from s on have been made the low byte of c.    *)
Filled(mem, s, c, n) ==
  [a \in Addresses |-> IF a \in s .. (s + n - 1) THEN c % 256 ELSE mem[a]]

LEMMA memsetFills ==
  ASSUME NEW mem \in Memories, NEW s \in Nat, NEW n \in Nat, s + n <= MemorySize, NEW c
  PROVE  memset(mem, s, c, n) = Filled(mem, s, c, n)
<1> DEFINE byte == c % 256
           Step(f, i) == [f[i - 1] EXCEPT ![s + i - 1] = byte]
           Is(f) == f = [i \in 0 .. n |-> IF i = 0 THEN mem ELSE Step(f, i)]
           r == [i \in 0 .. n |-> Filled(mem, s, c, i)]
           q == CHOOSE f : Is(f)
<1>7. memset(mem, s, c, n) = q[n]
  BY DEF memset
<1>10. \A i : Filled(mem, s, c, i) = [a \in Addresses |-> IF a \in s .. (s + i - 1) THEN byte ELSE mem[a]]
  BY DEF Filled
<1> HIDE DEF byte
<1>2. \A i \in 1 .. n : i \in 0 .. n /\ i - 1 \in 0 .. n /\ i # 0
  OBVIOUS
<1>3. r[0] = mem
  <2>1. \A a \in Addresses : a \notin s .. (s + 0 - 1)
    OBVIOUS
  <2>2. Filled(mem, s, c, 0) = mem
    BY <1>10, <2>1 DEF Memories
  <2> QED
    BY <2>2
<1>4. \A i \in 1 .. n : r[i] = Step(r, i)
  <2> SUFFICES ASSUME NEW i \in 1 .. n PROVE r[i] = Step(r, i)
    OBVIOUS
  <2>1. r[i] = Filled(mem, s, c, i) /\ r[i - 1] = Filled(mem, s, c, i - 1)
    BY <1>2
  <2> HIDE DEF r
  <2>2. i \in Nat /\ i >= 1 /\ s + i - 1 \in Addresses
    <3>1. s + i - 1 \in Nat /\ s + i - 1 < MemorySize
      BY LibKAssumption DEF LibKAssumption
    <3> QED
      BY <3>1, AddressesAre
  <2>3. \A a \in Addresses : a \in s .. (s + i - 1) <=> a = s + i - 1 \/ a \in s .. (s + (i - 1) - 1)
    BY <2>2 DEF Addresses
  <2>4. Step(r, i) = [a \in Addresses |-> IF a = s + i - 1 THEN byte ELSE r[i - 1][a]]
    BY <1>10, <2>1
  <2> HIDE DEF Step
  <2>5. \A a \in Addresses : r[i - 1][a] = IF a \in s .. (s + (i - 1) - 1) THEN byte ELSE mem[a]
    BY <1>10, <2>1
  <2>6. r[i] = [a \in Addresses |-> IF a \in s .. (s + i - 1) THEN byte ELSE mem[a]]
    BY <1>10, <2>1
  <2> QED
    BY <2>3, <2>4, <2>5, <2>6
<1>5. Is(r)
  <2>1. \A i \in 0 .. n : r[i] = IF i = 0 THEN mem ELSE Step(r, i)
    <3>1. \A i \in 0 .. n : i = 0 \/ i \in 1 .. n
      OBVIOUS
    <3> HIDE DEF r, Step
    <3> QED
      BY <1>3, <1>4, <3>1
  <2>2. r = [i \in 0 .. n |-> r[i]]
    OBVIOUS
  <2> HIDE DEF r, Step
  <2> QED
    BY <2>1, <2>2
<1>6. Is(q)
  <2> HIDE DEF Is, r
  <2> QED
    BY <1>5
<1> HIDE DEF q, r
<1>8. q[0] = mem /\ \A i \in 1 .. n : q[i] = Step(q, i)
  <2>1. 0 \in 0 .. n
    OBVIOUS
  <2> QED
    BY <1>2, <1>6, <2>1
<1>9. \A i \in 0 .. n : q[i] = r[i]
  <2>1. Ascending(q, r, n)
    BY <1>3, <1>4, <1>8 DEF Ascending
  <2>2. Alike(q, r, 0, n)
    BY <2>1, SameSteps
  <2> QED
    BY <2>2 DEF Alike
<1>11. q[n] = r[n] /\ r[n] = Filled(mem, s, c, n)
  <2>1. n \in 0 .. n
    OBVIOUS
  <2> QED
    BY <1>9, <2>1 DEF r
<1> QED
  BY <1>7, <1>11

(* Two functions that end alike and are alike at a place if they are at    *)
(* the next.                                                               *)
Descending(f, g, lo, hi) ==
  f[hi] = g[hi] /\ \A i \in lo .. (hi - 1) : f[i + 1] = g[i + 1] => f[i] = g[i]

LEMMA SameDown ==
  ASSUME NEW lo \in Nat, NEW hi \in Nat, NEW f, NEW g, Descending(f, g, lo, hi)
  PROVE  Alike(f, g, lo, hi)
<1> DEFINE Bad == {k \in 0 .. (hi - lo) : f[hi - k] # g[hi - k]}
<1>1. Bad = {}
  <2> SUFFICES ASSUME Bad # {} PROVE FALSE
    OBVIOUS
  <2>1. Bad \in SUBSET Nat
    OBVIOUS
  <2>2. PICK k \in Bad : \A j \in Bad : k <= j
    <3> HIDE DEF Bad
    <3> QED
      BY <2>1, LeastOf
  <2>3. k \in 0 .. (hi - lo) /\ f[hi - k] # g[hi - k]
    BY <2>2
  <2>7. k # 0
    <3>1. hi - 0 = hi
      OBVIOUS
    <3> QED
      BY <2>3, <3>1 DEF Descending
  <2>4. k - 1 \in 0 .. (hi - lo) /\ ~ (k <= k - 1) /\ hi - (k - 1) = (hi - k) + 1
        /\ hi - k \in lo .. (hi - 1)
    BY <2>3, <2>7
  <2>5. k - 1 \notin Bad
    BY <2>2, <2>4
  <2>6. f[(hi - k) + 1] = g[(hi - k) + 1]
    BY <2>4, <2>5
  <2> QED
    BY <2>3, <2>4, <2>6 DEF Descending
<1>2. \A i \in lo .. hi : hi - i \in 0 .. (hi - lo) /\ hi - (hi - i) = i
  OBVIOUS
<1>3. \A i \in lo .. hi : f[hi - (hi - i)] = g[hi - (hi - i)]
  BY <1>1, <1>2
<1> QED
  BY <1>2, <1>3 DEF Alike

LEMMA LeastIn ==
  ASSUME NEW S \in SUBSET Nat, S # {}
  PROVE  Min(S) \in S /\ \A m \in S : Min(S) <= m
<1>1. \E n \in S : \A m \in S : n <= m
  BY LeastOf
<1> QED
  BY <1>1 DEF Min

(* Where two pieces of memory differ from i on, and how they compare.      *)
Differing(s1, s2, i) == {j \in i .. Len(s1) : s1[j] # s2[j]}

Sign(s1, s2, i) ==
  IF Differing(s1, s2, i) = {} THEN 0
  ELSE IF s1[Min(Differing(s1, s2, i))] < s2[Min(Differing(s1, s2, i))] THEN -1 ELSE 1

LEMMA memcmpGoesByFirst ==
  ASSUME NEW s1, NEW s2, Len(s1) \in Nat
  PROVE  memcmp(s1, s2) = Sign(s1, s2, 1)
<1> DEFINE l == Len(s1)
           Step(f, i) == IF s1[i] # s2[i] THEN (IF s1[i] < s2[i] THEN -1 ELSE 1) ELSE f[i + 1]
           Is(f) == f = [i \in 1 .. (l + 1) |-> IF i > l THEN 0 ELSE Step(f, i)]
           r == [i \in 1 .. (l + 1) |-> Sign(s1, s2, i)]
           q == CHOOSE f : Is(f)
<1>7. memcmp(s1, s2) = q[1]
  BY DEF memcmp
<1>1. \A j : Differing(s1, s2, j) = {k \in j .. l : s1[k] # s2[k]}
  BY DEF Differing
<1>12. l \in Nat
  OBVIOUS
<1> HIDE DEF l
<1>2. \A i \in 1 .. l : i \in 1 .. (l + 1) /\ i + 1 \in 1 .. (l + 1) /\ ~ (i > l)
  BY <1>12
<1>3. r[l + 1] = 0
  <2>1. l + 1 \in 1 .. (l + 1) /\ (l + 1) .. l = {}
    BY <1>12
  <2>2. Differing(s1, s2, l + 1) = {}
    BY <1>1, <2>1
  <2> QED
    BY <2>1, <2>2 DEF Sign
<1>4. \A i \in 1 .. l : r[i] = Step(r, i)
  <2> SUFFICES ASSUME NEW i \in 1 .. l PROVE r[i] = Step(r, i)
    OBVIOUS
  <2>1. r[i] = Sign(s1, s2, i) /\ r[i + 1] = Sign(s1, s2, i + 1)
    BY <1>2
  <2> HIDE DEF r
  <2>2. CASE s1[i] # s2[i]
    <3>1. i \in Differing(s1, s2, i)
      BY <1>1, <1>12, <2>2
    <3>2. Differing(s1, s2, i) \in SUBSET Nat /\ \A j \in Differing(s1, s2, i) : i <= j
      BY <1>1, <1>12
    <3>3. Min(Differing(s1, s2, i)) = i
      <4> DEFINE m == Min(Differing(s1, s2, i))
      <4>1. m \in Differing(s1, s2, i) /\ m <= i
        BY <3>1, <3>2, LeastIn
      <4>2. i <= m /\ m \in Nat
        BY <3>2, <4>1
      <4> HIDE DEF m
      <4>3. m = i
        BY <4>1, <4>2
      <4> QED
        BY <4>3 DEF m
    <3> QED
      BY <2>1, <2>2, <3>1, <3>3 DEF Sign
  <2>3. CASE s1[i] = s2[i]
    <3>1. \A j : j \in i .. l <=> j = i \/ j \in (i + 1) .. l
      BY <1>12
    <3>2. Differing(s1, s2, i) = Differing(s1, s2, i + 1)
      BY <1>1, <2>3, <3>1
    <3>3. Sign(s1, s2, i) = Sign(s1, s2, i + 1)
      BY <3>2 DEF Sign
    <3> QED
      BY <2>1, <2>3, <3>3
  <2> QED
    BY <2>2, <2>3
<1>5. Is(r)
  <2>1. \A i \in 1 .. (l + 1) : r[i] = IF i > l THEN 0 ELSE Step(r, i)
    <3>1. \A i \in 1 .. (l + 1) : (i = l + 1 /\ i > l) \/ i \in 1 .. l
      BY <1>12
    <3> HIDE DEF r, Step
    <3> QED
      BY <1>2, <1>3, <1>4, <3>1
  <2>2. r = [i \in 1 .. (l + 1) |-> r[i]]
    OBVIOUS
  <2> HIDE DEF r, Step
  <2> QED
    BY <2>1, <2>2
<1>6. Is(q)
  <2> HIDE DEF Is, r
  <2> QED
    BY <1>5
<1> HIDE DEF q, r
<1>8. q[l + 1] = 0 /\ \A i \in 1 .. l : q[i] = Step(q, i)
  <2>1. l + 1 \in 1 .. (l + 1) /\ l + 1 > l
    BY <1>12
  <2> QED
    BY <1>2, <1>6, <2>1
<1>9. \A i \in 1 .. (l + 1) : q[i] = r[i]
  <2>1. \A i \in 1 .. l : q[i + 1] = r[i + 1] => q[i] = r[i]
    BY <1>4, <1>8
  <2>2. l + 1 \in Nat /\ 1 \in Nat /\ (l + 1) - 1 = l
    BY <1>12
  <2> HIDE DEF Step
  <2>3. q[l + 1] = r[l + 1]
    BY <1>3, <1>8
  <2>4. Descending(q, r, 1, l + 1)
    BY <2>1, <2>2, <2>3 DEF Descending
  <2>5. Alike(q, r, 1, l + 1)
    BY <2>2, <2>4, SameDown
  <2> QED
    BY <2>5 DEF Alike
<1>10. q[1] = r[1] /\ r[1] = Sign(s1, s2, 1)
  <2>1. 1 \in 1 .. (l + 1)
    BY <1>12
  <2> QED
    BY <1>9, <2>1 DEF r
<1> QED
  BY <1>7, <1>10

-----------------------------------------------------------------------------
(* The calls.                                                              *)
CallOk == call \in Calls \cup {NoCall}

LEMMA CallsAre == Spec => []CallOk
<1>1. Init => CallOk
  BY DEF Init, CallOk
<1>2. CallOk /\ [Next]_call => CallOk'
  BY DEF Next, CallOk
<1> QED
  BY <1>1, <1>2, PTL DEF Spec

(* The functions that move, fill and compare memory do what memmove,       *)
(* memset and memcmp are for: for every piece of memory, whichever way the *)
(* pieces overlap.                                                         *)
THEOREM MemoryIsMoved == Spec => []MemoryFunctions
<1>1. ASSUME CallOk PROVE MemoryFunctions
  <2> DEFINE args == call.args
             differ == {i \in DOMAIN args.s1 : args.s1[i] # args.s2[i]}
             sign == memcmp(args.s1, args.s2)
  <2>1. Whole \in Memories /\ \A a \in Addresses : Whole[a] = a /\ a \in Nat
    BY DEF Whole, Memories, Addresses
  <2>2. ASSUME Of("memmove")
        PROVE  \A a \in Addresses :
                 memmove(Whole, args.dest, args.src, args.n)[a]
                 = IF a \notin args.dest .. (args.dest + args.n - 1) THEN a ELSE a - args.dest + args.src
    <3>1. args \in Moves
      BY <1>1, <2>2 DEF CallOk, Calls, Of, NoCall
    <3>2. Pieces(args.dest, args.src, args.n)
      BY <3>1, LibKAssumption DEF Moves, Pieces, Addresses, LibKAssumption
    <3> DEFINE d == args.dest
               s == args.src
               n == args.n
    <3> HIDE DEF d, s, n, args
    <3>3. memmove(Whole, d, s, n) = Moved(Whole, d, s, n)
      BY <2>1, <3>2, memmoveMoves DEF d, s, n
    <3>4. Pieces(d, s, n)
      BY <3>2 DEF d, s, n
    <3>5. ASSUME NEW a \in Addresses, a \in d .. (d + n - 1)
          PROVE  a - d + s \in Addresses
      <4>1. a - d + s \in Nat /\ a - d + s < MemorySize
        BY <3>4, <3>5, LibKAssumption DEF Pieces, Addresses, LibKAssumption
      <4> QED
        BY <4>1, AddressesAre
    <3>6. \A a \in Addresses : Moved(Whole, d, s, n)[a] = IF a \notin d .. (d + n - 1) THEN a ELSE a - d + s
      BY <2>1, <3>5 DEF Moved
    <3> QED
      BY <3>3, <3>6 DEF d, s, n
  <2>3. ASSUME Of("memset")
        PROVE  \A a \in Addresses :
                 memset(Whole, args.s, args.c, args.n)[a]
                 = IF a \notin args.s .. (args.s + args.n - 1) THEN a ELSE args.c % 256
    <3>1. args \in Fills
      BY <1>1, <2>3 DEF CallOk, Calls, Of, NoCall
    <3>2. args.s \in Nat /\ args.n \in Nat /\ args.s + args.n <= MemorySize
      BY <3>1, LibKAssumption DEF Fills, Addresses, LibKAssumption
    <3> HIDE DEF args
    <3>3. memset(Whole, args.s, args.c, args.n) = Filled(Whole, args.s, args.c, args.n)
      BY <2>1, <3>2, memsetFills
    <3> QED
      BY <2>1, <3>3 DEF Filled
  <2>4. ASSUME Of("memcmp")
        PROVE  IF differ = {} THEN sign = 0
               ELSE (sign = -1 <=> args.s1[Min(differ)] < args.s2[Min(differ)]) /\ sign # 0
    <3>1. args \in UNION {[s1 : [1 .. n -> Bytes], s2 : [1 .. n -> Bytes]] : n \in 0 .. 2}
      BY <1>1, <2>4 DEF CallOk, Calls, Of, NoCall
    <3>2. PICK n \in 0 .. 2 : args.s1 \in [1 .. n -> Bytes] /\ args.s2 \in [1 .. n -> Bytes]
      BY <3>1
    <3> HIDE DEF args
    <3>3. Len(args.s1) = n /\ DOMAIN args.s1 = 1 .. n
      <4>1. args.s1 \in Seq(Bytes)
        BY <3>2
      <4> QED
        BY <3>2, <4>1, LenProperties
    <3>4. differ = Differing(args.s1, args.s2, 1)
      BY <3>3 DEF Differing
    <3>5. Len(args.s1) \in Nat
      BY <3>3
    <3>6. sign = Sign(args.s1, args.s2, 1)
      BY <3>5, memcmpGoesByFirst
    <3> HIDE DEF differ, sign
    <3> QED
      BY <3>4, <3>6 DEF Sign
  <2>5. Of("memmove") => ~ Of("memset")
    BY DEF Of
  <2> HIDE DEF args, differ, sign
  <2> QED
    BY <2>2, <2>3, <2>4, <2>5 DEF MemoryFunctions, args, differ, sign
<1> QED
  BY <1>1, CallsAre, PTL

-----------------------------------------------------------------------------
(* The ends of strings.                                                    *)
LEMMA ReverseIs ==
  ASSUME NEW S, NEW s \in Seq(S)
  PROVE  /\ Reverse(s) \in Seq(S) /\ Len(Reverse(s)) = Len(s)
         /\ \A i \in 1 .. Len(s) : Reverse(s)[i] = s[Len(s) - i + 1]
<1> DEFINE l == Len(s)
<1>1. l \in Nat /\ \A i \in 1 .. l : s[i] \in S
  OBVIOUS
<1>2. Reverse(s) = [i \in 1 .. l |-> s[(l - i) + 1]]
  BY DEF Reverse
<1> HIDE DEF l
<1>3. \A i \in 1 .. l : (l - i) + 1 \in 1 .. l
  BY <1>1
<1>4. Reverse(s) \in [1 .. l -> S]
  BY <1>1, <1>2, <1>3
<1>5. Reverse(s) \in Seq(S) /\ Len(Reverse(s)) = l
  BY <1>1, <1>4
<1> QED
  BY <1>2, <1>5 DEF l

LEMMA SuffixIs ==
  ASSUME NEW S, NEW s \in Seq(S), NEW t \in Seq(S)
  PROVE  IsSuffix(s, t) <=> /\ Len(s) <= Len(t)
                            /\ \A i \in 0 .. (Len(s) - 1) : s[Len(s) - i] = t[Len(t) - i]
<1> DEFINE m == Len(s)
           n == Len(t)
           x == Reverse(s)
           y == Reverse(t)
<1>1. /\ m \in Nat /\ n \in Nat /\ x \in Seq(S) /\ y \in Seq(S) /\ Len(x) = m /\ Len(y) = n
      /\ \A i \in 1 .. m : x[i] = s[m - i + 1]
      /\ \A i \in 1 .. n : y[i] = t[n - i + 1]
  BY ReverseIs, LenProperties
<1>2. IsSuffix(s, t) <=> Len(x) <= Len(y) /\ SubSeq(x, 1, Len(x)) = SubSeq(y, 1, Len(x))
  BY DEF IsSuffix, IsPrefix
<1> HIDE DEF m, n, x, y
<1>3. IsSuffix(s, t) <=> m <= n /\ SubSeq(x, 1, m) = SubSeq(y, 1, m)
  BY <1>1, <1>2
<1>4. CASE ~ (m <= n)
  BY <1>3, <1>4 DEF m, n
<1>5. CASE m <= n
  <2>1. SubSeq(x, 1, m) = [i \in 1 .. m |-> x[i]]
    BY <1>1
  <2>2. SubSeq(y, 1, m) = [i \in 1 .. m |-> y[i]]
    BY <1>1, <1>5
  <2>3. SubSeq(x, 1, m) = SubSeq(y, 1, m) <=> \A i \in 1 .. m : x[i] = y[i]
    BY <2>1, <2>2
  <2>4. \A i \in 1 .. m : x[i] = s[m - (i - 1)] /\ y[i] = t[n - (i - 1)]
    <3>1. \A i \in 1 .. m : i \in 1 .. n /\ m - i + 1 = m - (i - 1) /\ n - i + 1 = n - (i - 1)
      BY <1>1, <1>5
    <3> QED
      BY <1>1, <3>1
  <2>5. (\A i \in 1 .. m : x[i] = y[i]) <=> \A i \in 0 .. (m - 1) : s[m - i] = t[n - i]
    <3>1. ASSUME \A i \in 1 .. m : x[i] = y[i], NEW i \in 0 .. (m - 1)
          PROVE  s[m - i] = t[n - i]
      <4>1. i + 1 \in 1 .. m /\ (i + 1) - 1 = i
        BY <1>1
      <4> QED
        BY <2>4, <3>1, <4>1
    <3>2. ASSUME \A i \in 0 .. (m - 1) : s[m - i] = t[n - i], NEW i \in 1 .. m
          PROVE  x[i] = y[i]
      <4>1. i - 1 \in 0 .. (m - 1)
        BY <1>1
      <4> QED
        BY <2>4, <3>2, <4>1
    <3> QED
      BY <3>1, <3>2
  <2> QED
    BY <1>3, <1>5, <2>3, <2>5 DEF m, n
<1> QED
  BY <1>4, <1>5

(* What the loop has found when it has come to the first character but one *)
(* of the end.                                                             *)
LEMMA checkStringEndsWithIs ==
  ASSUME NEW str, NEW end, Len(str) \in Nat, Len(end) \in Nat, Len(str) >= 2, Len(end) >= 2
  PROVE  checkStringEndsWith(str, end) <=>
           /\ Len(end) <= Len(str)
           /\ \A i \in 0 .. (Len(end) - 2) : str[Len(str) - i] = end[Len(end) - i]
<1> DEFINE s == Len(str)
           m == Len(end) - 2
           same(i) == str[Len(str) - i] = end[Len(end) - i]
           Value(f, i) == same(i) /\ (i + 2 = Len(end) \/ (i + 2 # Len(str) /\ f[i + 1]))
           Is(f) == f = [i \in 0 .. m |-> Value(f, i)]
           r == [i \in 0 .. m |-> /\ \A j \in i .. m : same(j)
                                  /\ \A j \in i .. (m - 1) : j + 2 # s]
           q == CHOOSE f : Is(f)
<1>1. checkStringEndsWith(str, end) = q[0]
  BY DEF checkStringEndsWith
<1>2. m \in Nat /\ s \in Nat /\ s >= 2 /\ 0 \in 0 .. m
  OBVIOUS
<1>3. \A f, i : Value(f, i) = (same(i) /\ (i + 2 = Len(end) \/ (i + 2 # s /\ f[i + 1])))
  OBVIOUS
<1>4. \A i \in 0 .. m : i + 2 = Len(end) <=> i = m
  OBVIOUS
<1>5. Len(end) <= s <=> \A j \in 0 .. (m - 1) : j + 2 # s
  <2>1. ASSUME Len(end) <= s, NEW j \in 0 .. (m - 1) PROVE j + 2 # s
    BY <2>1
  <2>2. ASSUME ~ (Len(end) <= s) PROVE s - 2 \in 0 .. (m - 1) /\ (s - 2) + 2 = s
    BY <2>2
  <2> QED
    BY <2>1, <2>2
<1> HIDE DEF s, m, same, Value
<1>6. r[m] = Value(r, m) /\ \A f : Value(f, m) = same(m)
  <2>1. m \in 0 .. m /\ (\A j \in m .. m : j = m) /\ m .. (m - 1) = {}
    BY <1>2
  <2>2. r[m] = same(m)
    <3>1. r[m] = (/\ (\A j \in m .. m : same(j)) /\ \A j \in m .. (m - 1) : j + 2 # s)
      BY <2>1
    <3> HIDE DEF r
    <3>2. (\A j \in m .. m : same(j)) <=> same(m)
      BY <2>1
    <3>3. same(m) = (str[Len(str) - m] = end[Len(end) - m])
      BY DEF same
    <3>4. \A j \in m .. (m - 1) : j + 2 # s
      BY <2>1
    <3>5. r[m] <=> same(m)
      BY <3>1, <3>2, <3>4
    <3> QED
      BY <3>1, <3>3, <3>5
  <2>3. \A f : Value(f, m) = same(m)
    BY <1>3, <1>4, <2>1 DEF same
  <2> QED
    BY <2>2, <2>3
<1>7. \A i \in 0 .. (m - 1) : i \in 0 .. m /\ i + 1 \in 0 .. m /\ i # m
  BY <1>2
<1>8. ASSUME NEW i \in 0 .. (m - 1) PROVE r[i] = Value(r, i)
  <2>1. \A j : j \in i .. m <=> j = i \/ j \in (i + 1) .. m
    BY <1>2
  <2>2. \A j : j \in i .. (m - 1) <=> j = i \/ j \in (i + 1) .. (m - 1)
    BY <1>2
  <2>3. /\ r[i] = (/\ (\A j \in i .. m : same(j)) /\ \A j \in i .. (m - 1) : j + 2 # s)
        /\ r[i + 1] = (/\ (\A j \in (i + 1) .. m : same(j)) /\ \A j \in (i + 1) .. (m - 1) : j + 2 # s)
    BY <1>7
  <2> HIDE DEF r
  <2>4. r[i] <=> same(i) /\ i + 2 # s /\ r[i + 1]
    BY <2>1, <2>2, <2>3
  <2>5. Value(r, i) <=> same(i) /\ i + 2 # s /\ r[i + 1]
    BY <1>3, <1>4, <1>7
  <2> QED
    BY <1>3, <2>3, <2>4, <2>5
<1>9. Is(r)
  <2>1. r = [i \in 0 .. m |-> r[i]]
    OBVIOUS
  <2> HIDE DEF r
  <2>2. \A i \in 0 .. m : i = m \/ i \in 0 .. (m - 1)
    BY <1>2
  <2>3. \A i \in 0 .. m : r[i] = Value(r, i)
    BY <1>6, <1>8, <2>2
  <2> QED
    BY <2>1, <2>3
<1>10. Is(q)
  <2> HIDE DEF Is, r
  <2> QED
    BY <1>9
<1>11. r[0] = (/\ (\A j \in 0 .. m : same(j)) /\ \A j \in 0 .. (m - 1) : j + 2 # s)
  BY <1>2
<1> HIDE DEF q, r
<1>12. \A i \in 0 .. m : q[i] = Value(q, i)
  BY <1>10
<1>13. Descending(q, r, 0, m)
  <2>1. q[m] = r[m]
    <3>1. m \in 0 .. m
      BY <1>2
    <3> QED
      BY <1>6, <1>12, <3>1
  <2>2. ASSUME NEW i \in 0 .. (m - 1), q[i + 1] = r[i + 1] PROVE q[i] = r[i]
    <3>1. Value(q, i) = Value(r, i)
      BY <2>2 DEF Value
    <3> QED
      BY <1>7, <1>8, <1>12, <3>1
  <2> QED
    BY <2>1, <2>2 DEF Descending
<1>14. Alike(q, r, 0, m)
  BY <1>2, <1>13, SameDown
<1>15. q[0] = r[0]
  BY <1>2, <1>14 DEF Alike
<1>16. checkStringEndsWith(str, end) <=> (/\ (\A j \in 0 .. m : same(j)) /\ Len(end) <= s)
  BY <1>1, <1>5, <1>11, <1>15
<1> QED
  BY <1>16 DEF m, s, same

(* checkStringEndsWith says whether a string ends in the characters of     *)
(* the end from the second on, for all strings of two characters or more.  *)
THEOREM EndsAreFound == Spec => []EndsButForFirst
<1>1. ASSUME CallOk PROVE EndsButForFirst
  <2> SUFFICES ASSUME Of("checkStringEndsWith")
               PROVE  LET str == call.args.str
                          end == call.args.end
                      IN  checkStringEndsWith(str, end) <=>
                            Len(str) >= Len(end) /\ IsSuffix(Tail(end), str)
    BY DEF EndsButForFirst
  <2> DEFINE str == call.args.str
             end == call.args.end
  <2>1. str \in Strings /\ end \in Strings
    BY <1>1 DEF CallOk, Calls, Of, NoCall
  <2>2. ASSUME NEW x \in Strings
        PROVE  x \in Seq(Letters) /\ Len(x) \in Nat /\ Len(x) >= 2
    <3>1. PICK n \in 0 .. MaxString : x \in [1 .. n -> Letters]
      BY DEF Strings, BoundedSeq, SeqOf
    <3>2. x \in Seq(Letters)
      BY <3>1
    <3> QED
      BY <3>2, LenProperties DEF Strings
  <2> HIDE DEF str, end
  <2>3. /\ str \in Seq(Letters) /\ end \in Seq(Letters) /\ Len(str) \in Nat /\ Len(end) \in Nat
        /\ Len(str) >= 2 /\ Len(end) >= 2
    BY <2>1, <2>2
  <2>4. Tail(end) \in Seq(Letters) /\ Len(Tail(end)) = Len(end) - 1
        /\ \A i \in 1 .. Len(Tail(end)) : Tail(end)[i] = end[i + 1]
    <3>1. end # <<>>
      BY <2>3, EmptySeq
    <3> QED
      BY <2>3, <3>1, HeadTailProperties
  <2> DEFINE t == Tail(end)
             s == Len(str)
             e == Len(end)
  <2>5. IsSuffix(t, str) <=> Len(t) <= s /\ \A i \in 0 .. (Len(t) - 1) : t[Len(t) - i] = str[s - i]
    <3>1. t \in Seq(Letters) /\ str \in Seq(Letters) /\ Len(str) = s
      BY <2>3, <2>4
    <3> HIDE DEF t, s
    <3>2. IsSuffix(t, str) <=> /\ Len(t) <= Len(str)
                               /\ \A i \in 0 .. (Len(t) - 1) : t[Len(t) - i] = str[Len(str) - i]
      BY <3>1, SuffixIs, ZenonT(30)
    <3> QED
      BY <3>1, <3>2
  <2>6. checkStringEndsWith(str, end) <=> e <= s /\ \A i \in 0 .. (e - 2) : str[s - i] = end[e - i]
    BY <2>3, checkStringEndsWithIs
  <2>7. Len(t) = e - 1 /\ (\A i \in 1 .. (e - 1) : t[i] = end[i + 1]) /\ s \in Nat /\ e \in Nat /\ e >= 2
    BY <2>3, <2>4
  <2> HIDE DEF t, s, e
  <2>8. \A i \in 0 .. (e - 2) : t[(e - 1) - i] = end[e - i]
    <3>1. \A i \in 0 .. (e - 2) : (e - 1) - i \in 1 .. (e - 1) /\ ((e - 1) - i) + 1 = e - i
      BY <2>7
    <3> QED
      BY <2>7, <3>1
  <2>9. 0 .. (Len(t) - 1) = 0 .. (e - 2) /\ (Len(t) <= s <=> e - 1 <= s) /\ (s >= e <=> e <= s)
        /\ (e <= s => e - 1 <= s)
    BY <2>7
  <2>10. IsSuffix(t, str) <=> e - 1 <= s /\ \A i \in 0 .. (e - 2) : end[e - i] = str[s - i]
    BY <2>5, <2>7, <2>8, <2>9
  <2>11. checkStringEndsWith(str, end) <=> s >= e /\ IsSuffix(t, str)
    BY <2>6, <2>9, <2>10
  <2> QED
    BY <2>11 DEF t, s, e, str, end
<1> QED
  BY <1>1, CallsAre, PTL

-----------------------------------------------------------------------------
(* Numerals.                                                               *)

(* The loop has put the first c characters and the last c in each other's  *)
(* places.                                                                 *)
Turned(str, c) ==
  [i \in 1 .. Len(str) |->
     IF i <= c \/ i >= Len(str) + 1 - c THEN str[Len(str) + 1 - i] ELSE str[i]]

LEMMA TurnStep ==
  ASSUME NEW S, NEW str \in Seq(S), NEW c \in 1 .. (Len(str) \div 2)
  PROVE  LET before == Turned(str, c - 1)
         IN  [before EXCEPT ![c] = before[Len(str) + 1 - c], ![Len(str) + 1 - c] = before[c]]
             = Turned(str, c)
<1> DEFINE l == Len(str)
           before == Turned(str, c - 1)
           after == Turned(str, c)
           e == l + 1 - c
<1>1. l \in Nat
  BY LenProperties
<1>2. \A k, i : Turned(str, k) =
        [j \in 1 .. l |-> IF j <= k \/ j >= l + 1 - k THEN str[l + 1 - j] ELSE str[j]]
  BY DEF Turned
<1>10. c \in 1 .. (l \div 2)
  OBVIOUS
<1> HIDE DEF l
<1>3. /\ c \in 1 .. l /\ e \in 1 .. l /\ c < e /\ l + 1 - e = c
      /\ ~ (c <= c - 1) /\ ~ (c >= l + 1 - (c - 1)) /\ ~ (e <= c - 1) /\ ~ (e >= l + 1 - (c - 1))
      /\ c <= c /\ e >= l + 1 - c
  BY <1>1, <1>10
<1>11. \A j \in 1 .. l : before[j] = IF j <= c - 1 \/ j >= l + 1 - (c - 1) THEN str[l + 1 - j] ELSE str[j]
  BY <1>2
<1>12. \A j \in 1 .. l : after[j] = IF j <= c \/ j >= l + 1 - c THEN str[l + 1 - j] ELSE str[j]
  BY <1>2
<1>4. before[e] = str[e] /\ before[c] = str[c]
  <2> HIDE DEF before, e
  <2> QED
    BY <1>3, <1>11
<1>5. after[c] = str[e] /\ after[e] = str[c]
  <2> HIDE DEF after
  <2> QED
    BY <1>3, <1>12
<1>6. ASSUME NEW j \in 1 .. l, j # c, j # e PROVE after[j] = before[j]
  <2>1. (j <= c \/ j >= l + 1 - c) <=> (j <= c - 1 \/ j >= l + 1 - (c - 1))
    BY <1>1, <1>3, <1>6
  <2> HIDE DEF before, after
  <2> QED
    BY <1>11, <1>12, <2>1
<1>7. before = [j \in 1 .. l |-> before[j]] /\ after = [j \in 1 .. l |-> after[j]]
  BY <1>2
<1>8. c # e
  BY <1>1, <1>3
<1> HIDE DEF before, after, e
<1>9. [before EXCEPT ![c] = before[e], ![e] = before[c]] = after
  <2> DEFINE half == [before EXCEPT ![c] = before[e]]
  <2>1. half = [j \in 1 .. l |-> IF j = c THEN before[e] ELSE before[j]]
    BY <1>3, <1>7
  <2>2. [half EXCEPT ![e] = before[c]] = [j \in 1 .. l |-> IF j = e THEN before[c] ELSE half[j]]
    BY <2>1
  <2>3. \A j \in 1 .. l : (IF j = e THEN before[c] ELSE half[j]) = after[j]
    BY <1>4, <1>5, <1>6, <1>8, <2>1
  <2>4. [half EXCEPT ![e] = before[c]] = after
    BY <1>7, <2>2, <2>3
  <2> QED
    BY <2>4
<1> QED
  BY <1>9 DEF before, after, e, l

LEMMA reverseReverses ==
  ASSUME NEW S, NEW str \in Seq(S)
  PROVE  reverse(str) = [i \in 1 .. Len(str) |-> str[Len(str) + 1 - i]]
<1> DEFINE l == Len(str)
           half == Len(str) \div 2
           Step(f, c) == [f[c - 1] EXCEPT ![c] = f[c - 1][Len(str) + 1 - c],
                                          ![Len(str) + 1 - c] = f[c - 1][c]]
           Is(f) == f = [c \in 0 .. half |-> IF c = 0 THEN str ELSE Step(f, c)]
           r == [c \in 0 .. half |-> Turned(str, c)]
           q == CHOOSE f : Is(f)
<1>7. reverse(str) = q[half]
  BY DEF reverse
<1>1. l \in Nat /\ half \in Nat /\ half = l \div 2
  BY LenProperties
<1>20. Turned(str, 0) = str
  <2>1. \A i \in 1 .. l : ~ (i <= 0 \/ i >= l + 1 - 0)
    BY <1>1
  <2>2. str = [i \in 1 .. l |-> str[i]]
    OBVIOUS
  <2> QED
    BY <2>1, <2>2 DEF Turned
<1>21. \A c \in 1 .. half : LET before == Turned(str, c - 1)
         IN  [before EXCEPT ![c] = before[Len(str) + 1 - c], ![Len(str) + 1 - c] = before[c]]
             = Turned(str, c)
  BY TurnStep
<1>22. Turned(str, half) = [i \in 1 .. l |-> str[l + 1 - i]]
  <2>1. ASSUME NEW i \in 1 .. l, ~ (i <= half \/ i >= l + 1 - half) PROVE l + 1 - i = i
    <3> HIDE DEF l, half
    <3> QED
      BY <1>1, <2>1
  <2> HIDE DEF half
  <2> QED
    BY <2>1 DEF Turned
<1> HIDE DEF half
<1>2. \A c \in 1 .. half : c \in 0 .. half /\ c - 1 \in 0 .. half /\ c # 0
  BY <1>1
<1>3. r[0] = str
  BY <1>1, <1>20
<1>4. \A c \in 1 .. half : r[c] = Step(r, c)
  <2> SUFFICES ASSUME NEW c \in 1 .. half PROVE r[c] = Step(r, c)
    OBVIOUS
  <2>1. r[c] = Turned(str, c) /\ r[c - 1] = Turned(str, c - 1)
    BY <1>2
  <2> HIDE DEF r
  <2> QED
    BY <1>21, <2>1
<1>5. Is(r)
  <2>1. \A c \in 0 .. half : r[c] = IF c = 0 THEN str ELSE Step(r, c)
    <3>1. \A c \in 0 .. half : c = 0 \/ c \in 1 .. half
      BY <1>1
    <3> HIDE DEF r, Step
    <3> QED
      BY <1>3, <1>4, <3>1
  <2>2. r = [c \in 0 .. half |-> r[c]]
    OBVIOUS
  <2> HIDE DEF r, Step
  <2> QED
    BY <2>1, <2>2
<1>6. Is(q)
  <2> HIDE DEF Is, r
  <2> QED
    BY <1>5
<1> HIDE DEF q, r
<1>8. q[0] = str /\ \A c \in 1 .. half : q[c] = Step(q, c)
  <2>1. 0 \in 0 .. half
    BY <1>1
  <2> QED
    BY <1>2, <1>6, <2>1
<1>9. \A c \in 0 .. half : q[c] = r[c]
  <2>1. Ascending(q, r, half)
    BY <1>3, <1>4, <1>8 DEF Ascending
  <2>2. Alike(q, r, 0, half)
    BY <1>1, <2>1, SameSteps
  <2> QED
    BY <2>2 DEF Alike
<1>10. q[half] = r[half] /\ r[half] = Turned(str, half)
  <2>1. half \in 0 .. half
    BY <1>1
  <2> QED
    BY <1>9, <2>1 DEF r
<1> QED
  BY <1>7, <1>10, <1>22

(* A digit of a number is one of a smaller number.                         *)
LEMMA QuotientSmaller ==
  ASSUME NEW b \in Nat, b >= 2, NEW n \in Nat, n > 0
  PROVE  n \div b \in Nat /\ n \div b < n /\ n % b \in 0 .. (b - 1) /\ n = b * (n \div b) + (n % b)
<1> DEFINE k == n \div b
           d == n % b
<1>1. k \in Nat /\ d \in 0 .. (b - 1) /\ n = b * k + d
  <2>1. b \in Nat \ {0}
    OBVIOUS
  <2> QED
    BY <2>1, Division
<1> HIDE DEF k, d
<1>2. CASE k = 0
  BY <1>1, <1>2 DEF k, d
<1>3. CASE k > 0
  <2>1. k * 1 < k * b
    <3>1. k \in Nat \ {0} /\ 1 \in Nat /\ 1 < b
      BY <1>1, <1>3
    <3> QED
      BY <3>1, TimesMonotone
  <2>2. k * 1 = k /\ k * b = b * k
    BY <1>1
  <2>3. k < b * k
    BY <2>1, <2>2
  <2> DEFINE x == b * k
  <2>4. k < x /\ n = x + d /\ x \in Nat
    BY <1>1, <2>3
  <2> HIDE DEF x
  <2>5. k < n
    BY <1>1, <2>4
  <2> QED
    BY <1>1, <2>5 DEF k, d
<1> QED
  BY <1>1, <1>2, <1>3

LEMMA IntsAre ==
  /\ INT_MIN \in Int /\ -INT_MIN \in Nat /\ -INT_MIN > 0 /\ Ints \subseteq Int
  /\ \A n \in Int : n \in Ints <=> INT_MIN <= n /\ n < -INT_MIN
<1>1. INT_MIN \in Int /\ -INT_MIN \in Nat /\ -INT_MIN > 0
  <2> DEFINE p == 2^(Width - 1)
  <2>1. p \in Nat \ {0}
    BY LibKAssumption DEF LibKAssumption
  <2>2. INT_MIN = -p
    BY DEF INT_MIN
  <2> HIDE DEF p
  <2> QED
    BY <2>1, <2>2
<1> QED
  BY <1>1 DEF Ints

(* Division towards zero takes a number nearer to zero.                    *)
Near(k) == {n \in Ints : -k <= n /\ n <= k}

LEMMA QuotientNearer ==
  ASSUME NEW b \in Nat, b >= 2, NEW k \in Nat, NEW n \in Near(k + 1), n # 0
  PROVE  Quotient(n, b) \in Near(k)
<1>1. n \in Ints /\ n \in Int /\ -(k + 1) <= n /\ n <= k + 1
  BY IntsAre DEF Near
<1>2. INT_MIN <= n /\ n < -INT_MIN /\ INT_MIN \in Int
  BY <1>1, IntsAre
<1>3. CASE n > 0
  <2> DEFINE q == n \div b
  <2>1. q \in Nat /\ q < n
    <3>1. n \in Nat /\ n > 0
      BY <1>1, <1>3
    <3> QED
      BY <3>1, QuotientSmaller
  <2>2. Quotient(n, b) = q
    BY <1>1, <1>3 DEF Quotient
  <2> HIDE DEF q
  <2>3. q \in Int /\ INT_MIN <= q /\ q < -INT_MIN /\ -k <= q /\ q <= k
    BY <1>1, <1>2, <1>3, <2>1
  <2> QED
    BY <2>2, <2>3, IntsAre DEF Near
<1>4. CASE n < 0
  <2> DEFINE q == (-n) \div b
  <2>1. q \in Nat /\ q < -n
    <3>1. -n \in Nat /\ -n > 0
      BY <1>1, <1>4
    <3> QED
      BY <3>1, QuotientSmaller
  <2>2. Quotient(n, b) = -q
    <3>1. ~ (n >= 0)
      BY <1>1, <1>4
    <3> QED
      BY <3>1 DEF Quotient
  <2> HIDE DEF q
  <2>3. -q \in Int /\ INT_MIN <= -q /\ -q < -INT_MIN /\ -k <= -q /\ -q <= k
    BY <1>1, <1>2, <1>4, <2>1
  <2> QED
    BY <2>2, <2>3, IntsAre DEF Near
<1> QED
  BY <1>1, <1>3, <1>4

(* The digits of all numbers, the least significant first.                 *)
Digits(f, b) ==
  \A n \in Ints : f[n] = IF n = 0 THEN <<>> ELSE <<Character(Remainder(n, b))>> \o f[Quotient(n, b)]

LEMMA DigitsExist ==
  ASSUME NEW b \in Nat, b >= 2
  PROVE  \E f : f = [n \in Ints |->
                       IF n = 0 THEN <<>> ELSE <<Character(Remainder(n, b))>> \o f[Quotient(n, b)]]
<1> DEFINE Value(f, n) == IF n = 0 THEN <<>> ELSE <<Character(Remainder(n, b))>> \o f[Quotient(n, b)]
           Upto(k) == \E f : f = [n \in Near(k) |-> Value(f, n)]
           Bad == {k \in Nat : ~ Upto(k)}
<1>1. Upto(0)
  <2> DEFINE f == [n \in Near(0) |-> <<>>]
  <2>1. \A n \in Near(0) : n = 0
    BY IntsAre DEF Near
  <2>2. f = [n \in Near(0) |-> Value(f, n)]
    BY <2>1
  <2> QED
    BY <2>2
<1>2. ASSUME NEW k \in Nat, Upto(k)
      PROVE  Upto(k + 1)
  <2>1. PICK f : f = [n \in Near(k) |-> Value(f, n)]
    BY <1>2
  <2> DEFINE g == [n \in Near(k + 1) |-> Value(f, n)]
  <2>2. \A n \in Near(k) : n \in Near(k + 1)
    BY IntsAre DEF Near
  <2>3. \A n \in Near(k) : g[n] = f[n]
    <3> HIDE DEF Value
    <3>1. \A n \in Near(k) : f[n] = Value(f, n)
      BY <2>1
    <3> QED
      BY <2>2, <3>1
  <2>4. \A n \in Near(k + 1) : Value(f, n) = Value(g, n)
    <3> HIDE DEF g
    <3> QED
      BY <2>3, QuotientNearer
  <2>5. g = [n \in Near(k + 1) |-> Value(g, n)]
    <3> HIDE DEF Value
    <3> QED
      BY <2>4
  <2> QED
    BY <2>5
<1>3. Bad = {}
  <2> SUFFICES ASSUME Bad # {} PROVE FALSE
    OBVIOUS
  <2> HIDE DEF Upto
  <2>1. PICK n \in Bad : \A m \in Bad : n <= m
    BY LeastOf
  <2>2. n # 0 /\ n \in Nat
    BY <1>1
  <2>3. n - 1 \in Nat /\ n - 1 \notin Bad /\ n - 1 + 1 = n
    BY <2>1, <2>2
  <2>4. Upto(n - 1 + 1)
    BY <1>2, <2>3
  <2> QED
    BY <2>1, <2>3, <2>4
<1>4. Upto(-INT_MIN)
  <2> HIDE DEF Upto
  <2> QED
    BY <1>3, IntsAre
<1>5. Near(-INT_MIN) = Ints
  <2> DEFINE p == INT_MIN
  <2>1. p \in Int /\ Ints \subseteq Int /\ \A n \in Int : n \in Ints <=> p <= n /\ n < -p
    BY IntsAre
  <2> HIDE DEF p
  <2>2. \A n \in Ints : -(-p) <= n /\ n <= -p
    BY <2>1
  <2> QED
    BY <2>2 DEF Near, p
<1> QED
  BY <1>4, <1>5

LEMMA CharacterIs ==
  ASSUME NEW d \in Nat
  PROVE  Character(d) \in Nat /\ Character(d) # Minus /\ DigitOf(Character(d)) = d
<1>1. CASE d > 9
  <2>1. Character(d) = d + 87
    BY <1>1 DEF Character
  <2> QED
    BY <1>1, <2>1 DEF Minus, DigitOf
<1>2. CASE ~ (d > 9)
  <2>1. Character(d) = d + 48
    BY <1>2 DEF Character, Zero
  <2> QED
    BY <1>2, <2>1 DEF Minus, DigitOf, Zero
<1> QED
  BY <1>1, <1>2

DigitsOf(b) == {Character(d) : d \in 0 .. (b - 1)}

(* A reader of the digits, most significant first, has the number w[i]     *)
(* after i of them, and m after all.                                       *)
Weighs(w, x, b, m) ==
  /\ w[0] = 0 /\ w[Len(x)] = m
  /\ \A i \in 1 .. Len(x) : w[i] = b * w[i - 1] + DigitOf(x[i])

Backwards(x) == [i \in 1 .. Len(x) |-> x[Len(x) + 1 - i]]

IsNumber(x, b, m) ==
  /\ x \in Seq(DigitsOf(b)) /\ (m > 0 => Len(x) > 0)
  /\ \E w : Weighs(w, Backwards(x), b, m)

LEMMA BackwardsIs ==
  ASSUME NEW S, NEW x \in Seq(S)
  PROVE  /\ Backwards(x) \in Seq(S) /\ Len(Backwards(x)) = Len(x)
         /\ \A i \in 1 .. Len(x) : Backwards(x)[i] = x[Len(x) + 1 - i]
<1> DEFINE l == Len(x)
<1>1. l \in Nat /\ \A i \in 1 .. l : x[i] \in S
  OBVIOUS
<1>2. Backwards(x) = [i \in 1 .. l |-> x[l + 1 - i]]
  BY DEF Backwards
<1> HIDE DEF l
<1>3. \A i \in 1 .. l : l + 1 - i \in 1 .. l
  BY <1>1
<1>4. Backwards(x) \in [1 .. l -> S]
  BY <1>1, <1>2, <1>3
<1>5. Backwards(x) \in Seq(S) /\ Len(Backwards(x)) = l
  BY <1>1, <1>4
<1> QED
  BY <1>2, <1>5 DEF l

(* One more digit, the least significant.                                  *)
LEMMA DigitMore ==
  ASSUME NEW b \in Nat, b >= 2, NEW x, NEW k \in Nat, IsNumber(x, b, k), NEW d \in 0 .. (b - 1)
  PROVE  IsNumber(<<Character(d)>> \o x, b, b * k + d)
<1> DEFINE c == Character(d)
           y == <<c>> \o x
           l == Len(x)
           m == b * k + d
           u == Backwards(x)
           v == Backwards(y)
<1>1. x \in Seq(DigitsOf(b)) /\ c \in DigitsOf(b) /\ DigitOf(c) = d
  BY CharacterIs DEF IsNumber, DigitsOf
<1>2. /\ y \in Seq(DigitsOf(b)) /\ Len(y) = l + 1 /\ l \in Nat
      /\ y[1] = c /\ \A i \in 1 .. l : y[i + 1] = x[i]
  <2> HIDE DEF c
  <2>1. <<c>> \in Seq(DigitsOf(b)) /\ Len(<<c>>) = 1 /\ <<c>>[1] = c
    BY <1>1
  <2>2. /\ y \in Seq(DigitsOf(b)) /\ Len(y) = Len(<<c>>) + Len(x)
        /\ \A i \in 1 .. Len(<<c>>) + Len(x) : y[i] = IF i <= Len(<<c>>) THEN <<c>>[i] ELSE x[i - Len(<<c>>)]
    BY <1>1, <2>1, ConcatProperties
  <2>3. l \in Nat
    BY <1>1, LenProperties
  <2> HIDE DEF y, l
  <2>4. \A i \in 1 .. 1 + l : y[i] = IF i <= 1 THEN <<c>>[i] ELSE x[i - 1]
    BY <2>1, <2>2 DEF l
  <2>5. \A i \in 1 .. l : i + 1 \in 1 .. 1 + l /\ ~ (i + 1 <= 1) /\ (i + 1) - 1 = i
    BY <2>3
  <2>6. 1 \in 1 .. 1 + l /\ 1 <= 1
    BY <2>3
  <2>7. y[1] = c /\ \A i \in 1 .. l : y[i + 1] = x[i]
    BY <2>1, <2>4, <2>5, <2>6
  <2>8. Len(y) = l + 1
    BY <2>1, <2>2, <2>3 DEF l
  <2> QED
    BY <2>2, <2>3, <2>7, <2>8
<1>3. /\ Len(u) = l /\ \A i \in 1 .. l : u[i] = x[l + 1 - i]
  BY <1>1, BackwardsIs
<1>4. /\ Len(v) = Len(y) /\ \A i \in 1 .. Len(y) : v[i] = y[Len(y) + 1 - i]
  <2> HIDE DEF y
  <2> QED
    BY <1>2, BackwardsIs
<1> HIDE DEF y, l, u, v, c
<1>5. Len(v) = l + 1 /\ v[l + 1] = c /\ \A i \in 1 .. l : v[i] = u[i]
  <2>1. \A i \in 1 .. (l + 1) : v[i] = y[(l + 1) + 1 - i]
    BY <1>2, <1>4
  <2>2. /\ l + 1 \in 1 .. (l + 1) /\ (l + 1) + 1 - (l + 1) = 1
        /\ \A i \in 1 .. l : /\ i \in 1 .. (l + 1) /\ l + 1 - i \in 1 .. l
                             /\ (l + 1) + 1 - i = (l + 1 - i) + 1
    BY <1>2
  <2>3. v[l + 1] = c
    BY <1>2, <2>1, <2>2
  <2>4. ASSUME NEW i \in 1 .. l PROVE v[i] = u[i]
    <3>1. v[i] = y[(l + 1) + 1 - i]
      BY <2>1, <2>2
    <3>2. y[(l + 1 - i) + 1] = x[l + 1 - i]
      BY <1>2, <2>2
    <3>3. u[i] = x[l + 1 - i]
      BY <1>3
    <3>4. (l + 1) + 1 - i = (l + 1 - i) + 1
      BY <2>2
    <3> QED
      BY <3>1, <3>2, <3>3, <3>4
  <2> QED
    BY <1>2, <1>4, <2>3, <2>4
<1>6. PICK w : Weighs(w, u, b, k)
  BY DEF IsNumber, u
<1>7. w[0] = 0 /\ w[l] = k /\ \A i \in 1 .. l : w[i] = b * w[i - 1] + DigitOf(u[i])
  BY <1>3, <1>6 DEF Weighs
<1> DEFINE z == [i \in 0 .. (l + 1) |-> IF i = l + 1 THEN m ELSE w[i]]
<1>8. z[0] = 0 /\ z[l + 1] = m /\ \A i \in 0 .. l : z[i] = w[i]
  <2>1. /\ 0 \in 0 .. (l + 1) /\ 0 # l + 1 /\ l + 1 \in 0 .. (l + 1)
        /\ \A i \in 0 .. l : i \in 0 .. (l + 1) /\ i # l + 1
    BY <1>2
  <2> HIDE DEF m
  <2> QED
    BY <1>7, <2>1
<1> HIDE DEF z
<1>9. \A i \in 1 .. (l + 1) : z[i] = b * z[i - 1] + DigitOf(v[i])
  <2> SUFFICES ASSUME NEW i \in 1 .. (l + 1) PROVE z[i] = b * z[i - 1] + DigitOf(v[i])
    OBVIOUS
  <2>1. CASE i \in 1 .. l
    <3>1. i \in 0 .. l /\ i - 1 \in 0 .. l
      BY <1>2, <2>1
    <3>2. z[i] = w[i] /\ z[i - 1] = w[i - 1] /\ v[i] = u[i]
      BY <1>5, <1>8, <2>1, <3>1
    <3> QED
      BY <1>7, <2>1, <3>2
  <2>2. CASE i = l + 1
    <3>1. l \in 0 .. l /\ (l + 1) - 1 = l
      BY <1>2
    <3>2. z[i - 1] = k
      BY <1>7, <1>8, <2>2, <3>1
    <3>3. z[i] = b * k + DigitOf(v[i])
      BY <1>1, <1>5, <1>8, <2>2 DEF m
    <3> QED
      BY <3>2, <3>3
  <2>3. i \in 1 .. l \/ i = l + 1
    BY <1>2
  <2> QED
    BY <2>1, <2>2, <2>3
<1> HIDE DEF m
<1>10. Weighs(z, v, b, m)
  BY <1>5, <1>8, <1>9 DEF Weighs
<1>11. Len(y) > 0
  BY <1>2
<1>12. IsNumber(y, b, m)
  BY <1>2, <1>10, <1>11 DEF IsNumber, v
<1> QED
  BY <1>12 DEF y, m, c

(* The digits of a number that is not negative are those of it.            *)
LEMMA NumbersHaveDigits ==
  ASSUME NEW b \in Nat, b >= 2, NEW f, Digits(f, b)
  PROVE  \A n \in Nat : n \in Ints => IsNumber(f[n], b, n)
<1> DEFINE Bad == {n \in Nat : n \in Ints /\ ~ IsNumber(f[n], b, n)}
<1>1. ASSUME 0 \in Ints PROVE IsNumber(f[0], b, 0)
  <2>1. f[0] = <<>>
    BY <1>1 DEF Digits
  <2> DEFINE w == [i \in 0 .. 0 |-> 0]
             x == <<>>
  <2>2. x \in Seq(DigitsOf(b)) /\ Len(x) = 0
    OBVIOUS
  <2> HIDE DEF x
  <2>3. Len(Backwards(x)) = 0
    BY <2>2, BackwardsIs
  <2>4. w[0] = 0 /\ 1 .. 0 = {}
    OBVIOUS
  <2> HIDE DEF w
  <2>5. Weighs(w, Backwards(x), b, 0)
    BY <2>3, <2>4 DEF Weighs
  <2>6. IsNumber(x, b, 0)
    BY <2>2, <2>5 DEF IsNumber
  <2> QED
    BY <2>1, <2>6 DEF x
<1>2. ASSUME NEW n \in Nat, n \in Ints, n > 0, IsNumber(f[n \div b], b, n \div b)
      PROVE  IsNumber(f[n], b, n)
  <2> DEFINE k == n \div b
             d == n % b
  <2>1. k \in Nat /\ d \in 0 .. (b - 1) /\ n = b * k + d
    BY <1>2, QuotientSmaller
  <2>2. Quotient(n, b) = k /\ Remainder(n, b) = d
    <3>1. Quotient(n, b) = k
      BY <1>2 DEF Quotient
    <3> HIDE DEF k, d
    <3>2. Remainder(n, b) = n - b * k
      BY <3>1 DEF Remainder
    <3> DEFINE x == b * k
    <3>3. x \in Nat /\ n = x + d /\ Remainder(n, b) = n - x
      BY <2>1, <3>2
    <3> HIDE DEF x
    <3>4. Remainder(n, b) = d
      BY <2>1, <3>3
    <3> QED
      BY <3>1, <3>4
  <2>3. f[n] = <<Character(d)>> \o f[k]
    <3>1. n # 0
      BY <1>2
    <3> HIDE DEF k, d
    <3> QED
      BY <1>2, <2>2, <3>1 DEF Digits
  <2>4. IsNumber(f[k], b, k)
    BY <1>2
  <2> HIDE DEF k, d
  <2> QED
    BY <2>1, <2>3, <2>4, DigitMore
<1>3. Bad = {}
  <2> SUFFICES ASSUME Bad # {} PROVE FALSE
    OBVIOUS
  <2>1. PICK n \in Bad : \A m \in Bad : n <= m
    <3>1. Bad \in SUBSET Nat
      OBVIOUS
    <3> HIDE DEF Bad
    <3> QED
      BY <3>1, LeastOf
  <2>2. n \in Nat /\ n \in Ints /\ ~ IsNumber(f[n], b, n)
    BY <2>1
  <2>3. n > 0
    BY <1>1, <2>2
  <2>4. n \div b \in Nat /\ n \div b < n
    BY <2>2, <2>3, QuotientSmaller
  <2> DEFINE k == n \div b
  <2>5. k \in Ints
    <3>1. INT_MIN \in Int /\ -INT_MIN \in Nat /\ n < -INT_MIN /\ k \in Int
      BY <2>2, <2>4, IntsAre
    <3> HIDE DEF k
    <3>2. k \in Nat /\ k < n
      BY <2>4 DEF k
    <3>3. INT_MIN <= k /\ k < -INT_MIN
      BY <2>2, <3>1, <3>2
    <3> QED
      BY <3>1, <3>3, IntsAre
  <2>6. k \notin Bad
    <3>1. k \in Nat /\ k < n
      BY <2>4
    <3> HIDE DEF k, Bad
    <3>2. ~ (n <= k)
      BY <2>2, <3>1
    <3> QED
      BY <2>1, <3>2
  <2>7. IsNumber(f[k], b, k)
    BY <2>4, <2>5, <2>6
  <2> QED
    BY <1>2, <2>2, <2>3, <2>7
<1> QED
  BY <1>3

(* The reader of a numeral.                                                *)
LEMMA ValueOfIs ==
  ASSUME NEW str, NEW base, NEW x, NEW w, NEW m,
         x = IF Head(str) = Minus THEN Tail(str) ELSE str,
         Len(x) \in Nat, Weighs(w, x, base, m)
  PROVE  ValueOf(str, base) = IF Head(str) = Minus THEN -m ELSE m
<1> DEFINE digits == IF Head(str) = Minus THEN Tail(str) ELSE str
           Step(f, i) == base * f[i - 1] + DigitOf(digits[i])
           Is(f) == f = [i \in 0 .. Len(digits) |-> IF i = 0 THEN 0 ELSE Step(f, i)]
           q == CHOOSE f : Is(f)
           l == Len(digits)
           r == [i \in 0 .. l |-> w[i]]
<1>1. ValueOf(str, base) = IF Head(str) = Minus THEN -q[l] ELSE q[l]
  BY DEF ValueOf
<1>2. x = digits
  OBVIOUS
<1> HIDE DEF digits
<1>3. l \in Nat /\ w[0] = 0 /\ w[l] = m /\ \A i \in 1 .. l : w[i] = base * w[i - 1] + DigitOf(digits[i])
  BY <1>2 DEF Weighs
<1>4. \A i \in 1 .. l : i \in 0 .. l /\ i - 1 \in 0 .. l /\ i # 0
  BY <1>3
<1>5. r[0] = 0 /\ r[l] = m /\ \A i \in 1 .. l : r[i] = Step(r, i)
  <2>1. 0 \in 0 .. l /\ l \in 0 .. l
    BY <1>3
  <2>2. \A i \in 0 .. l : r[i] = w[i]
    OBVIOUS
  <2> HIDE DEF r, l
  <2> QED
    BY <1>3, <1>4, <2>1, <2>2
<1>6. Is(r)
  <2>1. \A i \in 0 .. l : r[i] = IF i = 0 THEN 0 ELSE Step(r, i)
    <3>1. \A i \in 0 .. l : i = 0 \/ i \in 1 .. l
      BY <1>3
    <3> HIDE DEF r, Step
    <3> QED
      BY <1>4, <1>5, <3>1
  <2>2. r = [i \in 0 .. l |-> r[i]]
    OBVIOUS
  <2> HIDE DEF r, Step
  <2> QED
    BY <2>1, <2>2
<1>7. Is(q)
  <2> HIDE DEF Is, r
  <2> QED
    BY <1>6
<1> HIDE DEF q, r
<1>8. q[0] = 0 /\ \A i \in 1 .. l : q[i] = Step(q, i)
  <2>1. 0 \in 0 .. l
    BY <1>3
  <2> QED
    BY <1>4, <1>7, <2>1
<1>9. Ascending(q, r, l)
  BY <1>5, <1>8 DEF Ascending
<1> HIDE DEF l
<1>10. Alike(q, r, 0, l)
  BY <1>3, <1>9, SameSteps
<1>11. q[l] = m
  <2>1. l \in 0 .. l
    BY <1>3
  <2> QED
    BY <1>5, <1>10, <2>1 DEF Alike
<1> QED
  BY <1>1, <1>11

(* A numeral of digits, and one with a minus sign.                         *)
Numeral(str, b, num) == IsNumeral(str, b) /\ ValueOf(str, b) = num

LEMMA PlainNumeral ==
  ASSUME NEW b \in Nat, b >= 2, NEW x, NEW m \in Nat, m > 0, IsNumber(x, b, m)
  PROVE  Numeral(Backwards(x), b, m)
<1> DEFINE y == Backwards(x)
<1>1. x \in Seq(DigitsOf(b)) /\ Len(x) > 0
  BY DEF IsNumber
<1>2. y \in Seq(DigitsOf(b)) /\ Len(y) = Len(x)
  BY <1>1, BackwardsIs
<1>3. PICK w : Weighs(w, y, b, m)
  BY DEF IsNumber
<1> HIDE DEF y
<1>4. Len(y) \in Nat /\ Len(y) > 0 /\ DOMAIN y = 1 .. Len(y) /\ \A i \in 1 .. Len(y) : y[i] \in DigitsOf(b)
  BY <1>1, <1>2, LenProperties, ElementOfSeq
<1>5. Head(y) = y[1] /\ y[1] \in DigitsOf(b)
  <2>1. 1 \in 1 .. Len(y)
    BY <1>4
  <2> QED
    BY <1>2, <1>4, <2>1
<1>6. Head(y) # Minus
  BY <1>5, CharacterIs DEF DigitsOf
<1>7. ValueOf(y, b) = m
  BY <1>3, <1>4, <1>6, ValueOfIs
<1>8. IsNumeral(y, b)
  BY <1>4 DEF IsNumeral, DigitsOf
<1> QED
  BY <1>7, <1>8 DEF Numeral, y

LEMMA NegativeNumeral ==
  ASSUME NEW b \in Nat, b >= 2, NEW x, NEW m \in Nat, m > 0, IsNumber(x, b, m)
  PROVE  Numeral(Backwards(x \o <<Minus>>), b, -m)
<1> DEFINE S == DigitsOf(b) \cup {Minus}
           l == Len(x)
           z == x \o <<Minus>>
           y == Backwards(z)
           u == Backwards(x)
<1>1. x \in Seq(DigitsOf(b)) /\ l > 0 /\ l \in Nat
  BY LenProperties DEF IsNumber
<1>2. x \in Seq(S) /\ \A i \in 1 .. l : x[i] \in DigitsOf(b)
  BY <1>1, ElementOfSeq, SeqMonotonic
<1>3. z \in Seq(S) /\ Len(z) = l + 1 /\ z[l + 1] = Minus /\ \A i \in 1 .. l : z[i] = x[i]
  <2>1. z = Append(x, Minus) /\ Minus \in S
    BY <1>2, AppendIsConcat
  <2> HIDE DEF z, S
  <2> QED
    BY <1>2, <2>1, AppendProperties
<1>4. u \in Seq(DigitsOf(b)) /\ Len(u) = l /\ \A i \in 1 .. l : u[i] = x[l + 1 - i]
  BY <1>1, BackwardsIs
<1>5. y \in Seq(S) /\ Len(y) = Len(z) /\ \A i \in 1 .. Len(z) : y[i] = z[Len(z) + 1 - i]
  <2> HIDE DEF z, S
  <2> QED
    BY <1>3, BackwardsIs
<1>6. PICK w : Weighs(w, u, b, m)
  BY DEF IsNumber
<1> HIDE DEF y, z, u, l, S
<1>7. y[1] = Minus /\ \A i \in 1 .. l : y[i + 1] = u[i]
  <2>1. \A i \in 1 .. (l + 1) : y[i] = z[(l + 1) + 1 - i]
    BY <1>3, <1>5
  <2>2. 1 \in 1 .. (l + 1) /\ (l + 1) + 1 - 1 = l + 1
    BY <1>1
  <2>3. y[1] = Minus
    BY <1>3, <2>1, <2>2
  <2>4. ASSUME NEW i \in 1 .. l PROVE y[i + 1] = u[i]
    <3>1. i + 1 \in 1 .. (l + 1) /\ (l + 1) + 1 - (i + 1) = l + 1 - i /\ l + 1 - i \in 1 .. l
      BY <1>1
    <3>2. y[i + 1] = z[l + 1 - i]
      BY <2>1, <3>1
    <3>3. z[l + 1 - i] = x[l + 1 - i]
      BY <1>3, <3>1
    <3>4. u[i] = x[l + 1 - i]
      BY <1>4
    <3> QED
      BY <3>2, <3>3, <3>4
  <2> QED
    BY <2>3, <2>4
<1>8. Len(y) = l + 1 /\ DOMAIN y = 1 .. (l + 1) /\ y # <<>>
  <2>1. Len(y) = l + 1
    BY <1>3, <1>5
  <2>2. DOMAIN y = 1 .. Len(y)
    BY <1>5, LenProperties
  <2>3. y # <<>>
    BY <1>1, <1>5, <2>1, EmptySeq
  <2> QED
    BY <2>1, <2>2, <2>3
<1>9. Head(y) = Minus /\ Tail(y) = u
  <2>1. Head(y) = Minus
    BY <1>1, <1>5, <1>7, <1>8
  <2>2. Tail(y) \in Seq(S) /\ Len(Tail(y)) = Len(y) - 1 /\ \A i \in 1 .. Len(Tail(y)) : Tail(y)[i] = y[i + 1]
    BY <1>5, <1>8, HeadTailProperties
  <2>3. Len(Tail(y)) = l
    BY <1>1, <1>8, <2>2
  <2>4. u \in Seq(S)
    BY <1>4, SeqMonotonic DEF S
  <2>5. \A i \in 1 .. l : Tail(y)[i] = u[i]
    BY <1>7, <2>2, <2>3
  <2> QED
    BY <1>4, <2>1, <2>2, <2>3, <2>4, <2>5, SeqEqual
<1>10. ValueOf(y, b) = -m
  <2>1. Len(u) \in Nat
    BY <1>1, <1>4
  <2> QED
    BY <1>6, <1>9, <2>1, ValueOfIs
<1>11. IsNumeral(y, b)
  <2> SUFFICES ASSUME NEW i \in 1 .. (l + 1)
               PROVE  y[i] \in DigitsOf(b) \/ (i = 1 /\ y[i] = Minus /\ Len(y) > 1)
    BY <1>8 DEF IsNumeral, DigitsOf
  <2>1. CASE i = 1
    BY <1>1, <1>7, <1>8, <2>1
  <2>2. CASE i # 1
    <3>1. i - 1 \in 1 .. l /\ (i - 1) + 1 = i
      BY <1>1, <2>2
    <3>2. y[i] = u[i - 1]
      BY <1>7, <3>1
    <3>3. u[i - 1] \in DigitsOf(b)
      BY <1>4, <3>1, ElementOfSeq
    <3> QED
      BY <3>2, <3>3
  <2> QED
    BY <2>1, <2>2
<1> QED
  BY <1>10, <1>11 DEF Numeral, y, z

LEMMA itoaWrites ==
  ASSUME NEW num \in Ints, NEW base \in Nat, base >= 2,
         num >= 0 \/ (base = 10 /\ num # INT_MIN)
  PROVE  Numeral(itoa(num, base), base, num)
<1> DEFINE negative == num < 0 /\ base = 10
           m == IF negative THEN Negated(num) ELSE num
           sign == IF negative THEN <<Minus>> ELSE <<>>
           Is(f) == f = [n \in Ints |->
                           IF n = 0 THEN <<>>
                           ELSE <<Character(Remainder(n, base))>> \o f[Quotient(n, base)]]
           digits == CHOOSE f : Is(f)
<1>1. itoa(num, base) = IF num = 0 THEN <<Zero>> ELSE reverse(digits[m] \o sign)
  BY DEF itoa
<1>2. Is(digits)
  <2>1. \E f : Is(f)
    BY DigitsExist
  <2> HIDE DEF Is
  <2> QED
    BY <2>1
<1> HIDE DEF digits
<1>3. Digits(digits, base)
  BY <1>2 DEF Digits
<1> HIDE DEF Is
<1>4. num \in Int /\ INT_MIN \in Int /\ INT_MIN <= num /\ num < -INT_MIN
  BY IntsAre
<1>5. CASE num = 0
  <2> DEFINE x == <<Zero>>
             w == [i \in 0 .. 1 |-> 0]
  <2>1. /\ Len(x) = 1 /\ Head(x) = Zero /\ Zero # Minus /\ x[1] = Zero /\ DOMAIN x = 1 .. 1
        /\ Zero = Character(0) /\ DigitOf(Zero) = 0
    BY DEF Zero, Minus, Character, DigitOf
  <2> HIDE DEF x
  <2>2. w[0] = 0 /\ w[1] = 0 /\ \A i \in 1 .. 1 : i = 1 /\ i - 1 = 0
    OBVIOUS
  <2> HIDE DEF w
  <2>3. base * 0 + 0 = 0
    OBVIOUS
  <2>4. Weighs(w, x, base, 0)
    BY <2>1, <2>2, <2>3 DEF Weighs
  <2>5. ValueOf(x, base) = 0
    BY <2>1, <2>4, ValueOfIs
  <2>6. 0 \in 0 .. (base - 1)
    OBVIOUS
  <2>7. IsNumeral(x, base)
    BY <2>1, <2>2, <2>6 DEF IsNumeral
  <2>8. itoa(num, base) = x
    BY <1>1, <1>5 DEF x
  <2> QED
    BY <1>5, <2>5, <2>7, <2>8 DEF Numeral
<1>6. CASE num > 0
  <2>1. ~ negative /\ m = num /\ sign = <<>>
    BY <1>4, <1>6
  <2> HIDE DEF m, sign, negative
  <2>2. num \in Nat
    BY <1>4, <1>6
  <2>3. IsNumber(digits[num], base, num)
    BY <1>3, <2>2, NumbersHaveDigits
  <2> DEFINE x == digits[num]
  <2>4. x \in Seq(DigitsOf(base))
    BY <2>3 DEF IsNumber
  <2>5. Numeral(Backwards(x), base, num)
    BY <1>6, <2>2, <2>3, PlainNumeral
  <2>6. itoa(num, base) = reverse(x \o <<>>)
    BY <1>1, <1>6, <2>1, <2>2
  <2> HIDE DEF x
  <2>7. x \o <<>> = x
    BY <2>4, ConcatEmptySeq
  <2>8. reverse(x) = Backwards(x)
    BY <2>4, reverseReverses DEF Backwards
  <2> QED
    BY <2>5, <2>6, <2>7, <2>8
<1>7. CASE num < 0
  <2>1. negative /\ m = -num /\ sign = <<Minus>> /\ num # 0
    BY <1>4, <1>7 DEF Negated
  <2> HIDE DEF m, sign, negative
  <2>2. -num \in Nat /\ -num > 0 /\ -num \in Ints /\ -(-num) = num
    BY <1>4, <1>7, IntsAre
  <2> DEFINE k == -num
             x == digits[k]
             z == x \o <<Minus>>
  <2>3. IsNumber(x, base, k)
    BY <1>3, <2>2, NumbersHaveDigits
  <2>4. x \in Seq(DigitsOf(base))
    BY <2>3 DEF IsNumber
  <2>5. Numeral(Backwards(z), base, -k)
    <3> HIDE DEF x, k
    <3>1. k \in Nat /\ k > 0
      BY <2>2 DEF k
    <3> QED
      BY <2>3, <3>1, NegativeNumeral DEF z
  <2>6. itoa(num, base) = reverse(z)
    BY <1>1, <2>1
  <2> HIDE DEF k, x
  <2>7. z \in Seq(DigitsOf(base) \cup {Minus})
    <3> DEFINE S == DigitsOf(base) \cup {Minus}
    <3>1. x \in Seq(S) /\ <<Minus>> \in Seq(S)
      <4>1. DigitsOf(base) \subseteq S /\ Minus \in S
        OBVIOUS
      <4> HIDE DEF S
      <4> QED
        BY <2>4, <4>1, SeqMonotonic
    <3> HIDE DEF S
    <3>2. z \in Seq(S)
      BY <3>1, ConcatProperties
    <3> QED
      BY <3>2 DEF S
  <2> HIDE DEF z
  <2>8. reverse(z) = Backwards(z)
    BY <2>7, reverseReverses DEF Backwards
  <2>9. -k = num
    BY <2>2 DEF k
  <2> QED
    BY <2>5, <2>6, <2>8, <2>9
<1> QED
  BY <1>4, <1>5, <1>6, <1>7

(* itoa writes a numeral of its base that reads back as the number: all    *)
(* numbers that are not negative in every base, and in base 10 all but the *)
(* least int, whatever the width of an int.                                *)
THEOREM NumbersReadBack == Spec => []ItoaReadsBack
<1>1. ASSUME CallOk PROVE ItoaReadsBack
  <2> SUFFICES ASSUME Of("itoa"),
                      call.args.num >= 0 \/ (call.args.base = 10 /\ call.args.num # INT_MIN)
               PROVE  LET str == itoa(call.args.num, call.args.base)
                      IN  IsNumeral(str, call.args.base) /\ ValueOf(str, call.args.base) = call.args.num
    BY DEF ItoaReadsBack
  <2>1. call.args.num \in Ints /\ call.args.base \in Bases
    BY <1>1 DEF CallOk, Calls, Of, NoCall
  <2>2. call.args.base \in Nat /\ call.args.base >= 2
    <3>1. Bases \subseteq Nat \ {0, 1}
      BY LibKAssumption DEF LibKAssumption
    <3>2. call.args.base \in Nat /\ call.args.base # 0 /\ call.args.base # 1
      BY <2>1, <3>1
    <3> QED
      BY <3>2
  <2>3. Numeral(itoa(call.args.num, call.args.base), call.args.base, call.args.num)
    BY <2>1, <2>2, itoaWrites
  <2> QED
    BY <2>3 DEF Numeral
<1> QED
  BY <1>1, CallsAre, PTL

-----------------------------------------------------------------------------
(* Quoted strings.                                                         *)

(* A sequence of sequences is put together piece by piece.                 *)
PutTogether(F, seqs) ==
  F[0] = <<>> /\ \A k \in 1 .. Len(seqs) : F[k] = F[k - 1] \o seqs[k]

LEMMA FlattenIs ==
  ASSUME NEW S, NEW seqs \in Seq(Seq(S))
  PROVE  \E F : /\ PutTogether(F, seqs) /\ FlattenSeq(seqs) = F[Len(seqs)]
                /\ \A k \in 0 .. Len(seqs) : F[k] \in Seq(S)
<1> DEFINE l == Len(seqs)
           Is(r) == r = [i \in 1 .. l |-> IF i = 1 THEN seqs[i] ELSE r[i - 1] \o seqs[i]]
           q == CHOOSE r : Is(r)
           F == [k \in 0 .. l |-> IF k = 0 THEN <<>> ELSE q[k]]
<1>1. l \in Nat /\ \A i \in 1 .. l : seqs[i] \in Seq(S)
  OBVIOUS
<1>2. l # 0 => FlattenSeq(seqs) = q[l]
  BY DEF FlattenSeq
<1>3. l = 0 => FlattenSeq(seqs) = <<>>
  <2>1. l = 0 => seqs = <<>>
    BY EmptySeq
  <2> QED
    BY <2>1 DEF FlattenSeq
<1>4. Is(q)
  <2>1. \E r : Is(r)
    BY <1>1, FlattenExists
  <2> HIDE DEF Is
  <2> QED
    BY <2>1
<1> HIDE DEF q
<1>5. \A i \in 1 .. l : q[i] = IF i = 1 THEN seqs[i] ELSE q[i - 1] \o seqs[i]
  BY <1>4
<1>6. /\ F[0] = <<>> /\ \A k \in 1 .. l : F[k] = q[k]
  <2>1. 0 \in 0 .. l /\ \A k \in 1 .. l : k \in 0 .. l /\ k # 0
    BY <1>1
  <2> QED
    BY <2>1
<1> HIDE DEF F, l
<1>7. ASSUME NEW k \in 1 .. l PROVE F[k] = F[k - 1] \o seqs[k]
  <2>1. CASE k = 1
    <3>1. F[k] = seqs[k] /\ F[k - 1] = <<>> /\ seqs[k] \in Seq(S)
      BY <1>1, <1>5, <1>6, <2>1
    <3>2. <<>> \o seqs[k] = seqs[k]
      BY <3>1, ConcatEmptySeq
    <3> QED
      BY <3>1, <3>2
  <2>2. CASE k # 1
    <3>1. k - 1 \in 1 .. l
      BY <1>1, <2>2
    <3> QED
      BY <1>5, <1>6, <2>2, <3>1
  <2> QED
    BY <2>1, <2>2
<1>8. \A k \in 0 .. l : F[k] \in Seq(S)
  <2> DEFINE Bad == {k \in 0 .. l : F[k] \notin Seq(S)}
  <2>1. Bad = {}
    <3> SUFFICES ASSUME Bad # {} PROVE FALSE
      OBVIOUS
    <3>1. PICK n \in Bad : \A m \in Bad : n <= m
      <4>1. Bad \in SUBSET Nat
        BY <1>1
      <4> HIDE DEF Bad
      <4> QED
        BY <4>1, LeastOf
    <3>2. n # 0
      <4>1. <<>> \in Seq(S)
        OBVIOUS
      <4> QED
        BY <1>6, <4>1
    <3>3. n \in 1 .. l /\ n - 1 \in 0 .. l /\ ~ (n <= n - 1)
      BY <1>1, <3>1, <3>2
    <3>4. n - 1 \notin Bad
      BY <3>1, <3>3
    <3>5. F[n - 1] \in Seq(S) /\ seqs[n] \in Seq(S)
      BY <1>1, <3>3, <3>4
    <3>6. F[n] \in Seq(S)
      BY <1>7, <3>3, <3>5, ConcatProperties
    <3> QED
      BY <3>1, <3>6
  <2> QED
    BY <2>1
<1>9. FlattenSeq(seqs) = F[l]
  <2>1. l # 0 => l \in 1 .. l
    BY <1>1
  <2> QED
    BY <1>2, <1>3, <1>6, <2>1
<1> QED
  BY <1>6, <1>7, <1>8, <1>9 DEF PutTogether, l

(* What is put together first is in front.                                 *)
InFront(x, y) == Len(x) <= Len(y) /\ \A j \in 1 .. Len(x) : y[j] = x[j]

LEMMA PieceInFront ==
  ASSUME NEW S, NEW x \in Seq(S), NEW y \in Seq(S)
  PROVE  /\ x \o y \in Seq(S) /\ Len(x \o y) = Len(x) + Len(y) /\ InFront(x, x \o y)
         /\ \A j \in 1 .. Len(y) : (x \o y)[Len(x) + j] = y[j]
<1> DEFINE z == x \o y
           m == Len(x)
           n == Len(y)
<1>1. /\ z \in Seq(S) /\ Len(z) = m + n
      /\ \A i \in 1 .. m + n : z[i] = IF i <= m THEN x[i] ELSE y[i - m]
  BY ConcatProperties
<1>2. m \in Nat /\ n \in Nat
  BY LenProperties
<1> HIDE DEF z, m, n
<1>3. \A j \in 1 .. m : j \in 1 .. m + n /\ j <= m
  BY <1>2
<1>4. \A j \in 1 .. n : m + j \in 1 .. m + n /\ ~ (m + j <= m) /\ (m + j) - m = j
  BY <1>2
<1>5. \A j \in 1 .. m : z[j] = x[j]
  BY <1>1, <1>3
<1>6. \A j \in 1 .. n : z[m + j] = y[j]
  BY <1>1, <1>4
<1>7. m <= m + n
  BY <1>2
<1> QED
  BY <1>1, <1>5, <1>6, <1>7 DEF InFront, z, m, n

LEMMA PiecesInFront ==
  ASSUME NEW S, NEW seqs \in Seq(Seq(S)), NEW F, PutTogether(F, seqs),
         \A k \in 0 .. Len(seqs) : F[k] \in Seq(S)
  PROVE  \A k \in 0 .. Len(seqs) : InFront(F[k], F[Len(seqs)])
<1> DEFINE l == Len(seqs)
           Bad == {d \in 0 .. l : ~ InFront(F[l - d], F[l])}
<1>1. l \in Nat /\ (\A i \in 1 .. l : seqs[i] \in Seq(S)) /\ \A k \in 0 .. l : F[k] \in Seq(S)
  OBVIOUS
<1>5. \A k \in 1 .. l : F[k] = F[k - 1] \o seqs[k]
  BY DEF PutTogether
<1> HIDE DEF l
<1>2. Bad = {}
  <2> SUFFICES ASSUME Bad # {} PROVE FALSE
    OBVIOUS
  <2>1. PICK d \in Bad : \A m \in Bad : d <= m
    <3>1. Bad \in SUBSET Nat
      BY <1>1
    <3> HIDE DEF Bad
    <3> QED
      BY <3>1, LeastOf
  <2>2. d # 0
    <3>1. InFront(F[l], F[l]) /\ l - 0 = l
      <4>1. F[l] \in Seq(S) /\ Len(F[l]) \in Nat
        BY <1>1, LenProperties
      <4> QED
        BY <1>1, <4>1 DEF InFront
    <3> QED
      BY <2>1, <3>1
  <2>3. d \in 1 .. l /\ d - 1 \in 0 .. l /\ ~ (d <= d - 1)
    BY <1>1, <2>1, <2>2
  <2>4. InFront(F[l - (d - 1)], F[l])
    BY <2>1, <2>3
  <2> DEFINE k == l - d
  <2>5. k \in 0 .. l /\ k + 1 \in 1 .. l /\ l - (d - 1) = k + 1 /\ (k + 1) - 1 = k
    BY <1>1, <2>3
  <2> HIDE DEF k
  <2>6. F[k + 1] = F[k] \o seqs[k + 1]
    BY <1>5, <2>5
  <2>7. /\ InFront(F[k], F[k + 1]) /\ InFront(F[k + 1], F[l])
        /\ Len(F[k]) \in Nat /\ Len(F[k + 1]) \in Nat /\ Len(F[l]) \in Nat
    <3>1. F[k] \in Seq(S) /\ F[k + 1] \in Seq(S) /\ F[l] \in Seq(S) /\ seqs[k + 1] \in Seq(S)
      <4>1. k + 1 \in 0 .. l /\ l \in 0 .. l
        BY <1>1, <2>5
      <4> QED
        BY <1>1, <2>5, <4>1
    <3>2. InFront(F[k], F[k + 1])
      BY <2>6, <3>1, PieceInFront
    <3>3. Len(F[k]) \in Nat /\ Len(F[k + 1]) \in Nat /\ Len(F[l]) \in Nat
      BY <3>1, LenProperties
    <3> QED
      BY <2>4, <2>5, <3>2, <3>3
  <2>8. InFront(F[k], F[l])
    <3> DEFINE a == Len(F[k])
               b == Len(F[k + 1])
               c == Len(F[l])
    <3>1. /\ a \in Nat /\ b \in Nat /\ c \in Nat /\ a <= b /\ b <= c
          /\ \A j \in 1 .. a : F[k + 1][j] = F[k][j]
          /\ \A j \in 1 .. b : F[l][j] = F[k + 1][j]
      BY <2>7 DEF InFront
    <3> HIDE DEF a, b, c
    <3>2. a <= c /\ \A j \in 1 .. a : j \in 1 .. b
      BY <3>1
    <3>3. \A j \in 1 .. a : F[l][j] = F[k][j]
      BY <3>1, <3>2
    <3> QED
      BY <3>2, <3>3 DEF InFront, a, c
  <2> QED
    BY <2>1, <2>8 DEF k
<1>3. \A k \in 0 .. l : l - k \in 0 .. l /\ l - (l - k) = k
  BY <1>1
<1>4. \A k \in 0 .. l : InFront(F[l - (l - k)], F[l])
  BY <1>2, <1>3
<1> QED
  BY <1>3, <1>4 DEF l

(* What a reader makes of a text from position i on, if q is what it makes *)
(* of it further on.                                                       *)
HexAt(text, i) == ValueOf(SubSeq(text, i, i + 3), 16)

ReadAt(text, q, i) ==
  IF i > Len(text) \/ text[i] \notin 32 .. 127 THEN <<-1>>
  ELSE IF text[i] = QuotationMark THEN (IF i = Len(text) THEN <<>> ELSE <<-1>>)
  ELSE IF text[i] # Backslash THEN <<text[i]>> \o q[i + 1]
  ELSE IF i + 5 <= Len(text) /\ text[i + 1] = LetterU /\ IsNumeral(SubSeq(text, i + 2, i + 5), 16)
  THEN <<HexAt(text, i + 2)>> \o q[i + 6]
  ELSE IF i < Len(text) /\ text[i + 1] \in {QuotationMark, Backslash}
  THEN <<text[i + 1]>> \o q[i + 2]
  ELSE <<-1>>

LEMMA ReadAtGoesOn ==
  ASSUME NEW text, Len(text) \in Nat, NEW f, NEW g, NEW i \in 1 .. (Len(text) + 1),
         \A j \in (i + 1) .. (Len(text) + 1) : f[j] = g[j]
  PROVE  ReadAt(text, f, i) = ReadAt(text, g, i)
<1> DEFINE l == Len(text)
<1>1. l \in Nat /\ i \in 1 .. (l + 1) /\ \A j \in (i + 1) .. (l + 1) : f[j] = g[j]
  OBVIOUS
<1> HIDE DEF l
<1>2. ~ (i > l) => i + 1 \in (i + 1) .. (l + 1)
  BY <1>1
<1>3. i < l => i + 2 \in (i + 1) .. (l + 1)
  BY <1>1
<1>4. i + 5 <= l => i + 6 \in (i + 1) .. (l + 1)
  BY <1>1
<1>5. /\ ~ (i > l) => f[i + 1] = g[i + 1]
      /\ i < l => f[i + 2] = g[i + 2]
      /\ i + 5 <= l => f[i + 6] = g[i + 6]
  BY <1>1, <1>2, <1>3, <1>4
<1> QED
  BY <1>5 DEF ReadAt, l

LEMMA ReadStringIs ==
  ASSUME NEW text, Len(text) \in Nat
  PROVE  \E q : ReadString(text) = q[1] /\ \A i \in 1 .. (Len(text) + 1) : q[i] = ReadAt(text, q, i)
<1> DEFINE l == Len(text)
           Is(f) == f = [i \in 1 .. (l + 1) |-> ReadAt(text, f, i)]
           q == CHOOSE f : Is(f)
           Part(n) == (l + 1 - n) .. (l + 1)
           Upto(n) == \E f : f = [i \in Part(n) |-> ReadAt(text, f, i)]
           Bad == {n \in 0 .. l : ~ Upto(n)}
<1>1. ReadString(text) = q[1]
  BY DEF ReadString, ReadAt, HexAt
<1>2. l \in Nat
  OBVIOUS
<1>3. Upto(0)
  <2> DEFINE f == [i \in Part(0) |-> <<-1>>]
  <2>1. ASSUME NEW i \in Part(0) PROVE ReadAt(text, f, i) = <<-1>>
    <3>1. i > Len(text)
      BY <1>2
    <3> QED
      BY <3>1 DEF ReadAt
  <2>2. f = [i \in Part(0) |-> ReadAt(text, f, i)]
    BY <2>1
  <2> QED
    BY <2>2
<1>4. ASSUME NEW n \in Nat, n + 1 <= l, Upto(n) PROVE Upto(n + 1)
  <2>1. PICK f : f = [i \in Part(n) |-> ReadAt(text, f, i)]
    BY <1>4
  <2> DEFINE g == [i \in Part(n + 1) |-> ReadAt(text, f, i)]
  <2>2. /\ \A i \in Part(n) : i \in Part(n + 1)
        /\ \A i \in Part(n + 1) : i \in 1 .. (l + 1) /\ \A j \in (i + 1) .. (l + 1) : j \in Part(n)
    BY <1>2, <1>4
  <2> HIDE DEF Part, l
  <2>3. \A i \in Part(n) : g[i] = f[i]
    BY <2>1, <2>2
  <2>4. \A i \in Part(n + 1) : g[i] = ReadAt(text, f, i)
    OBVIOUS
  <2>7. g = [i \in Part(n + 1) |-> g[i]]
    OBVIOUS
  <2> HIDE DEF g
  <2>5. \A i \in Part(n + 1) : ReadAt(text, f, i) = ReadAt(text, g, i)
    BY <2>2, <2>3, ReadAtGoesOn DEF l
  <2>6. g = [i \in Part(n + 1) |-> ReadAt(text, g, i)]
    BY <2>4, <2>5, <2>7
  <2> QED
    BY <2>6
<1>5. Bad = {}
  <2> SUFFICES ASSUME Bad # {} PROVE FALSE
    OBVIOUS
  <2> HIDE DEF Upto
  <2>1. PICK n \in Bad : \A m \in Bad : n <= m
    <3>1. Bad \in SUBSET Nat
      OBVIOUS
    <3> HIDE DEF Bad
    <3> QED
      BY <3>1, LeastOf
  <2>2. n # 0 /\ n \in 0 .. l
    BY <1>3, <2>1
  <2>3. n - 1 \in Nat /\ n - 1 \in 0 .. l /\ n - 1 + 1 = n /\ n - 1 + 1 <= l /\ ~ (n <= n - 1)
    BY <1>2, <2>2
  <2>4. Upto(n - 1)
    BY <2>1, <2>3
  <2>5. Upto(n - 1 + 1)
    BY <1>4, <2>3, <2>4
  <2> QED
    BY <2>1, <2>3, <2>5
<1>6. Is(q)
  <2>1. l \in 0 .. l /\ Part(l) = 1 .. (l + 1)
    BY <1>2
  <2>2. Upto(l)
    <3> HIDE DEF Upto
    <3> QED
      BY <1>5, <2>1
  <2> HIDE DEF Part
  <2>3. \E f : Is(f)
    BY <2>1, <2>2
  <2> HIDE DEF Is
  <2> QED
    BY <2>3
<1> HIDE DEF q
<1>7. \A i \in 1 .. (l + 1) : q[i] = ReadAt(text, q, i)
  BY <1>6
<1> QED
  BY <1>1, <1>7 DEF l

(* The text of a quoted byte is of one, two or six characters, and is read *)
(* as the byte.                                                            *)
QuotedHere(text, p, byte) ==
  /\ p \in Nat /\ p >= 1 /\ p + Len(emit_quoted_byte(byte)) <= Len(text)
  /\ \A j \in 1 .. Len(emit_quoted_byte(byte)) : text[p + j - 1] = emit_quoted_byte(byte)[j]

HexText(byte) ==
  <<Backslash, LetterU, Zero, Zero, Character(byte \div 16), Character(byte % 16)>>

LEMMA QuotedAs ==
  ASSUME NEW byte \in 0 .. 255
  PROVE  emit_quoted_byte(byte) =
           IF byte < 32 \/ byte >= 127 THEN HexText(byte)
           ELSE IF byte \in {QuotationMark, Backslash} THEN <<Backslash, byte>> ELSE <<byte>>
<1> DEFINE c == Character(byte \div 16)
           d == Character(byte % 16)
           x == <<Backslash, LetterU>>
           y == Hex(byte)
           z == HexText(byte)
<1>1. c \in Nat /\ d \in Nat
  <2>1. byte \div 16 \in Nat /\ byte % 16 \in Nat
    OBVIOUS
  <2> QED
    BY <2>1, CharacterIs
<1>2. y = <<Zero, Zero, c, d>> /\ z = <<Backslash, LetterU, Zero, Zero, c, d>>
  BY DEF Hex, HexText
<1> HIDE DEF c, d
<1>3. /\ x \in Seq(Nat) /\ Len(x) = 2 /\ x[1] = Backslash /\ x[2] = LetterU
      /\ y \in Seq(Nat) /\ Len(y) = 4 /\ y[1] = Zero /\ y[2] = Zero /\ y[3] = c /\ y[4] = d
      /\ z \in Seq(Nat) /\ Len(z) = 6 /\ z[1] = Backslash /\ z[2] = LetterU /\ z[3] = Zero /\ z[4] = Zero
      /\ z[5] = c /\ z[6] = d
  <2>1. Backslash \in Nat /\ LetterU \in Nat /\ Zero \in Nat
    BY DEF Backslash, LetterU, Zero
  <2>2. x \in Seq(Nat) /\ Len(x) = 2 /\ x[1] = Backslash /\ x[2] = LetterU
    BY <2>1
  <2> HIDE DEF y, z
  <2>3. y \in Seq(Nat) /\ Len(y) = 4 /\ y[1] = Zero /\ y[2] = Zero /\ y[3] = c /\ y[4] = d
    BY <1>1, <1>2, <2>1
  <2>4. /\ z \in Seq(Nat) /\ Len(z) = 6 /\ z[1] = Backslash /\ z[2] = LetterU /\ z[3] = Zero /\ z[4] = Zero
        /\ z[5] = c /\ z[6] = d
    BY <1>1, <1>2, <2>1
  <2> QED
    BY <2>2, <2>3, <2>4
<1> HIDE DEF x, y, z
<1> DEFINE t == x \o y
<1>4. t \in Seq(Nat) /\ Len(t) = Len(x) + Len(y) /\ InFront(x, t)
      /\ \A j \in 1 .. Len(y) : t[Len(x) + j] = y[j]
  <2>1. x \in Seq(Nat) /\ y \in Seq(Nat)
    BY <1>3
  <2> QED
    BY <2>1, PieceInFront
<1> HIDE DEF t
<1>7. Len(x) = 2 /\ Len(y) = 4 /\ Len(z) = 6
  BY <1>3
<1>8. Len(t) = 6 /\ (\A j \in 1 .. 2 : t[j] = x[j]) /\ \A j \in 1 .. 4 : t[2 + j] = y[j]
  <2>1. 2 + 4 = 6
    OBVIOUS
  <2> QED
    BY <1>4, <1>7, <2>1 DEF InFront
<1>9. t[1] = x[1] /\ t[2] = x[2]
  BY <1>8
<1>10. t[3] = y[1] /\ t[4] = y[2] /\ t[5] = y[3] /\ t[6] = y[4]
  <2>1. /\ 1 \in 1 .. 4 /\ 2 \in 1 .. 4 /\ 3 \in 1 .. 4 /\ 4 \in 1 .. 4
        /\ 2 + 1 = 3 /\ 2 + 2 = 4 /\ 2 + 3 = 5 /\ 2 + 4 = 6
    OBVIOUS
  <2>2. t[2 + 1] = y[1] /\ t[2 + 2] = y[2] /\ t[2 + 3] = y[3] /\ t[2 + 4] = y[4]
    BY <1>8, <2>1
  <2> QED
    BY <2>1, <2>2
<1>11. t[1] = z[1] /\ t[2] = z[2] /\ t[3] = z[3] /\ t[4] = z[4] /\ t[5] = z[5] /\ t[6] = z[6]
  BY <1>3, <1>9, <1>10
<1>5. \A i \in 1 .. 6 : t[i] = z[i]
  <2>1. \A i \in 1 .. 6 : i = 1 \/ i = 2 \/ i = 3 \/ i = 4 \/ i = 5 \/ i = 6
    OBVIOUS
  <2> QED
    BY <1>11, <2>1
<1>6. t = z
  <2>1. t \in Seq(Nat) /\ z \in Seq(Nat)
    BY <1>3, <1>4
  <2> QED
    BY <1>5, <1>7, <1>8, <2>1, SeqEqual
<1> QED
  BY <1>6 DEF emit_quoted_byte, t, x, y, z

LEMMA HexTextIs ==
  ASSUME NEW byte \in 0 .. 255
  PROVE  /\ Len(HexText(byte)) = 6
         /\ HexText(byte)[1] = Backslash /\ HexText(byte)[2] = LetterU
         /\ HexText(byte)[3] = Zero /\ HexText(byte)[4] = Zero
         /\ HexText(byte)[5] = Character(byte \div 16) /\ HexText(byte)[6] = Character(byte % 16)
<1> DEFINE c == Character(byte \div 16)
           d == Character(byte % 16)
<1>1. HexText(byte) = <<Backslash, LetterU, Zero, Zero, c, d>>
  BY DEF HexText
<1> HIDE DEF c, d
<1>2. /\ Len(HexText(byte)) = 6
      /\ HexText(byte)[1] = Backslash /\ HexText(byte)[2] = LetterU
      /\ HexText(byte)[3] = Zero /\ HexText(byte)[4] = Zero
      /\ HexText(byte)[5] = c /\ HexText(byte)[6] = d
  BY <1>1
<1> QED
  BY <1>2 DEF c, d

(* Its four digits are those of the byte.                                  *)
LEMMA HexReadsBack ==
  ASSUME NEW byte \in 0 .. 255, NEW x \in Seq(Nat), Len(x) = 4, x[1] = Zero, x[2] = Zero,
         x[3] = Character(byte \div 16), x[4] = Character(byte % 16)
  PROVE  IsNumeral(x, 16) /\ ValueOf(x, 16) = byte
<1> DEFINE hi == byte \div 16
           lo == byte % 16
<1>1. hi \in 0 .. 15 /\ lo \in 0 .. 15 /\ byte = 16 * hi + lo
  OBVIOUS
<1>2. x[3] = Character(hi) /\ x[4] = Character(lo)
  OBVIOUS
<1> HIDE DEF hi, lo
<1>3. DigitOf(x[3]) = hi /\ DigitOf(x[4]) = lo /\ Zero = Character(0) /\ DigitOf(Zero) = 0 /\ Zero # Minus
  <2>1. hi \in Nat /\ lo \in Nat
    BY <1>1
  <2>2. Zero = Character(0) /\ DigitOf(Zero) = 0 /\ Zero # Minus
    BY DEF Zero, Minus, Character, DigitOf
  <2> QED
    BY <1>2, <2>1, <2>2, CharacterIs
<1>4. DOMAIN x = 1 .. 4 /\ Head(x) = Zero
  <2>1. DOMAIN x = 1 .. Len(x)
    BY LenProperties
  <2>2. Head(x) = x[1]
    OBVIOUS
  <2> QED
    BY <2>1, <2>2
<1>5. IsNumeral(x, 16)
  <2>1. 16 - 1 = 15 /\ 0 \in 0 .. 15
    OBVIOUS
  <2>2. \A i \in 1 .. 4 : i = 1 \/ i = 2 \/ i = 3 \/ i = 4
    OBVIOUS
  <2>4. x[1] = Character(0) /\ x[2] = Character(0)
    BY <1>3
  <2>5. \A d \in 0 .. 15 : Character(d) \in {Character(e) : e \in 0 .. 15}
    OBVIOUS
  <2>3. \A i \in 1 .. 4 : x[i] \in {Character(d) : d \in 0 .. 15}
    <3> DEFINE D == {Character(d) : d \in 0 .. 15}
    <3>1. x[1] \in D /\ x[2] \in D
      BY <2>1, <2>4, <2>5
    <3>2. x[3] \in D /\ x[4] \in D
      BY <1>1, <1>2, <2>5
    <3> HIDE DEF D
    <3>3. \A i \in 1 .. 4 : x[i] \in D
      BY <2>2, <3>1, <3>2
    <3> QED
      BY <3>3 DEF D
  <2> QED
    BY <1>4, <2>1, <2>3 DEF IsNumeral
<1>6. ValueOf(x, 16) = byte
  <2> DEFINE w == [i \in 0 .. 4 |-> IF i = 4 THEN byte ELSE IF i = 3 THEN hi ELSE 0]
  <2>1. w[0] = 0 /\ w[1] = 0 /\ w[2] = 0 /\ w[3] = hi /\ w[4] = byte
    OBVIOUS
  <2> HIDE DEF w
  <2>2. 16 * 0 + 0 = 0 /\ 16 * 0 + hi = hi /\ 16 * hi + lo = byte
    BY <1>1
  <2>3. \A i \in 1 .. 4 : w[i] = 16 * w[i - 1] + DigitOf(x[i])
    <3>1. w[1] = 16 * w[0] + DigitOf(x[1])
      BY <1>3, <2>1, <2>2
    <3>2. w[2] = 16 * w[1] + DigitOf(x[2])
      BY <1>3, <2>1, <2>2
    <3>3. w[3] = 16 * w[2] + DigitOf(x[3])
      BY <1>3, <2>1, <2>2
    <3>4. w[4] = 16 * w[3] + DigitOf(x[4])
      BY <1>3, <2>1, <2>2
    <3>5. 1 - 1 = 0 /\ 2 - 1 = 1 /\ 3 - 1 = 2 /\ 4 - 1 = 3
      OBVIOUS
    <3>6. \A i \in 1 .. 4 : i = 1 \/ i = 2 \/ i = 3 \/ i = 4
      OBVIOUS
    <3> QED
      BY <3>1, <3>2, <3>3, <3>4, <3>5, <3>6
  <2>4. Weighs(w, x, 16, byte)
    BY <2>1, <2>3 DEF Weighs
  <2>5. Len(x) \in Nat /\ Head(x) # Minus
    BY <1>3, <1>4
  <2> QED
    BY <2>4, <2>5, ValueOfIs
<1> QED
  BY <1>5, <1>6

LEMMA ByteReadsBack ==
  ASSUME NEW text \in Seq(Nat), NEW q, NEW p, NEW byte \in 0 .. 255, QuotedHere(text, p, byte)
  PROVE  ReadAt(text, q, p) = <<byte>> \o q[p + Len(emit_quoted_byte(byte))]
<1> DEFINE e == emit_quoted_byte(byte)
           l == Len(text)
           m == Len(e)
<1>1. p \in Nat /\ p >= 1 /\ p + m <= l /\ \A j \in 1 .. m : text[p + j - 1] = e[j]
  BY DEF QuotedHere
<1>2. l \in Nat
  BY LenProperties
<1>3. e = IF byte < 32 \/ byte >= 127 THEN HexText(byte)
          ELSE IF byte \in {QuotationMark, Backslash} THEN <<Backslash, byte>> ELSE <<byte>>
  BY QuotedAs
<1> HIDE DEF e, l, m
<1>4. CASE byte < 32 \/ byte >= 127
  <2> DEFINE x == SubSeq(text, p + 2, p + 5)
  <2>1. e = HexText(byte) /\ m = 6
    BY <1>3, <1>4, HexTextIs DEF m
  <2>2. /\ p + 6 <= l /\ p + 1 - 1 = p /\ p + 2 - 1 = p + 1 /\ p + 3 - 1 = p + 2 /\ p + 4 - 1 = p + 3
        /\ p + 5 - 1 = p + 4 /\ p + 6 - 1 = p + 5
        /\ \A j \in {1, 2, 3, 4, 5, 6} : j \in 1 .. 6
    BY <1>1, <2>1
  <2>3. \A j \in {1, 2, 3, 4, 5, 6} : text[p + j - 1] = HexText(byte)[j]
    BY <1>1, <2>1, <2>2
  <2>4. /\ text[p] = Backslash /\ text[p + 1] = LetterU /\ text[p + 2] = Zero /\ text[p + 3] = Zero
        /\ text[p + 4] = Character(byte \div 16) /\ text[p + 5] = Character(byte % 16)
    <3>1. /\ text[p + 1 - 1] = Backslash /\ text[p + 2 - 1] = LetterU
          /\ text[p + 3 - 1] = Zero /\ text[p + 4 - 1] = Zero
          /\ text[p + 5 - 1] = Character(byte \div 16) /\ text[p + 6 - 1] = Character(byte % 16)
      BY <2>3, HexTextIs
    <3> QED
      BY <2>2, <3>1
  <2>5. x \in Seq(Nat) /\ Len(x) = 4 /\ \A i \in 1 .. 4 : x[i] = text[p + 2 + i - 1]
    <3> DEFINE a == p + 2
               b == p + 5
    <3>1. a \in Int /\ b \in Int /\ a <= b /\ b - a + 1 = 4 /\ \A i \in a .. b : i \in 1 .. l
      BY <1>1, <1>2, <2>2
    <3>2. \A i \in a .. b : text[i] \in Nat
      <4> HIDE DEF a, b
      <4> QED
        BY <3>1, ElementOfSeq DEF l
    <3> HIDE DEF a, b
    <3>3. /\ SubSeq(text, a, b) \in Seq(Nat)
          /\ Len(SubSeq(text, a, b)) = IF a <= b THEN b - a + 1 ELSE 0
          /\ \A i \in 1 .. b - a + 1 : SubSeq(text, a, b)[i] = text[a + i - 1]
      BY <3>1, <3>2, SubSeqProperties
    <3>4. /\ SubSeq(text, a, b) \in Seq(Nat) /\ Len(SubSeq(text, a, b)) = 4
          /\ \A i \in 1 .. 4 : SubSeq(text, a, b)[i] = text[a + i - 1]
      BY <3>1, <3>3
    <3> QED
      BY <3>4 DEF a, b
  <2> HIDE DEF x
  <2>6. x[1] = Zero /\ x[2] = Zero /\ x[3] = Character(byte \div 16) /\ x[4] = Character(byte % 16)
    <3>1. /\ p + 2 + 1 - 1 = p + 2 /\ p + 2 + 2 - 1 = p + 3 /\ p + 2 + 3 - 1 = p + 4 /\ p + 2 + 4 - 1 = p + 5
          /\ 1 \in 1 .. 4 /\ 2 \in 1 .. 4 /\ 3 \in 1 .. 4 /\ 4 \in 1 .. 4
      BY <1>1
    <3>2. x[1] = text[p + 2] /\ x[2] = text[p + 3] /\ x[3] = text[p + 4] /\ x[4] = text[p + 5]
      BY <2>5, <3>1
    <3> QED
      BY <2>4, <3>2
  <2>7. IsNumeral(x, 16) /\ ValueOf(x, 16) = byte
    BY <2>5, <2>6, HexReadsBack
  <2>8. HexAt(text, p + 2) = byte
    <3>1. p + 2 + 3 = p + 5
      BY <1>1
    <3> QED
      BY <2>7, <3>1 DEF HexAt, x
  <2>9. ~ (p > l) /\ p + 5 <= l
    BY <1>1, <1>2, <2>2
  <2>10. Backslash \in 32 .. 127 /\ Backslash # QuotationMark
    BY DEF Backslash, QuotationMark
  <2>11. ReadAt(text, q, p) = <<HexAt(text, p + 2)>> \o q[p + 6]
    BY <2>4, <2>7, <2>9, <2>10 DEF ReadAt, x, l
  <2> QED
    BY <2>1, <2>8, <2>11 DEF m, e
<1>5. CASE ~ (byte < 32 \/ byte >= 127) /\ byte \in {QuotationMark, Backslash}
  <2>1. e = <<Backslash, byte>>
    BY <1>3, <1>5
  <2>2. m = 2 /\ e[1] = Backslash /\ e[2] = byte
    BY <2>1 DEF m
  <2>3. /\ p + 2 <= l /\ p + 1 - 1 = p /\ p + 2 - 1 = p + 1 /\ 1 \in 1 .. m /\ 2 \in 1 .. m
        /\ ~ (p > l) /\ p < l
    BY <1>1, <1>2, <2>2
  <2>4. text[p] = Backslash /\ text[p + 1] = byte
    <3>1. text[p + 1 - 1] = Backslash /\ text[p + 2 - 1] = byte
      BY <1>1, <2>2, <2>3
    <3> QED
      BY <2>3, <3>1
  <2>5. Backslash \in 32 .. 127 /\ Backslash # QuotationMark /\ byte # LetterU
    BY <1>5 DEF Backslash, QuotationMark, LetterU
  <2>6. ReadAt(text, q, p) = <<text[p + 1]>> \o q[p + 2]
    BY <1>5, <2>3, <2>4, <2>5 DEF ReadAt, l
  <2> QED
    BY <2>2, <2>4, <2>6 DEF m, e
<1>6. CASE ~ (byte < 32 \/ byte >= 127) /\ byte \notin {QuotationMark, Backslash}
  <2>1. e = <<byte>>
    BY <1>3, <1>6
  <2>2. m = 1 /\ e[1] = byte
    BY <2>1 DEF m
  <2>3. p + 1 - 1 = p /\ 1 \in 1 .. m /\ ~ (p > l)
    BY <1>1, <1>2, <2>2
  <2>4. text[p] = byte
    <3>1. text[p + 1 - 1] = byte
      BY <1>1, <2>2, <2>3
    <3> QED
      BY <2>3, <3>1
  <2>5. byte \in 32 .. 127 /\ byte # QuotationMark /\ byte # Backslash
    BY <1>6
  <2>6. ReadAt(text, q, p) = <<byte>> \o q[p + 1]
    BY <2>3, <2>4, <2>5 DEF ReadAt, l
  <2> QED
    BY <2>2, <2>6 DEF m, e
<1> QED
  BY <1>4, <1>5, <1>6

LEMMA SeqOfLength ==
  ASSUME NEW S, NEW n \in Nat, NEW v \in [1 .. n -> S]
  PROVE  v \in Seq(S) /\ Len(v) = n
OBVIOUS

Octets == 0 .. 255

(* A string is read from the place of each of its bytes on.                *)
LEMMA QuotedReadsBack ==
  ASSUME NEW bytes \in Seq(Octets)
  PROVE  ReadString(Quoted(bytes) \o <<QuotationMark>>) = bytes
<1> DEFINE l == Len(bytes)
           e(k) == emit_quoted_byte(bytes[k])
           seqs == [k \in DOMAIN bytes |-> e(k)]
           text == Quoted(bytes) \o <<QuotationMark>>
           Rest(k) == [i \in 1 .. (l - k) |-> bytes[k + i]]
<1>1. l \in Nat /\ DOMAIN bytes = 1 .. l /\ \A k \in 1 .. l : bytes[k] \in 0 .. 255
  BY LenProperties, ElementOfSeq DEF Octets
<1>2. \A k \in 1 .. l : e(k) \in Seq(Nat)
  <2> SUFFICES ASSUME NEW byte \in 0 .. 255 PROVE emit_quoted_byte(byte) \in Seq(Nat)
    BY <1>1
  <2> DEFINE c == Character(byte \div 16)
             d == Character(byte % 16)
  <2>1. c \in Nat /\ d \in Nat
    <3>1. byte \div 16 \in Nat /\ byte % 16 \in Nat
      OBVIOUS
    <3> QED
      BY <3>1, CharacterIs
  <2>2. HexText(byte) = <<Backslash, LetterU, Zero, Zero, c, d>>
    BY DEF HexText
  <2> HIDE DEF c, d
  <2>3. Backslash \in Nat /\ LetterU \in Nat /\ Zero \in Nat
    BY DEF Backslash, LetterU, Zero
  <2>4. HexText(byte) \in Seq(Nat)
    BY <2>1, <2>2, <2>3
  <2>5. <<Backslash, byte>> \in Seq(Nat) /\ <<byte>> \in Seq(Nat)
    BY <2>3
  <2> QED
    BY <2>4, <2>5, QuotedAs
<1>3. seqs \in Seq(Seq(Nat)) /\ Len(seqs) = l /\ \A k \in 1 .. l : seqs[k] = e(k)
  <2>1. seqs = [k \in 1 .. l |-> e(k)]
    BY <1>1
  <2> HIDE DEF seqs, e, l
  <2>2. seqs \in [1 .. l -> Seq(Nat)]
    BY <1>2, <2>1
  <2>3. seqs \in Seq(Seq(Nat)) /\ Len(seqs) = l
    BY <1>1, <2>2
  <2> QED
    BY <2>1, <2>3
<1>4. Quoted(bytes) = FlattenSeq(seqs)
  BY DEF Quoted
<1> HIDE DEF seqs, e
<1>5. PICK F : /\ PutTogether(F, seqs) /\ FlattenSeq(seqs) = F[l]
               /\ \A k \in 0 .. l : F[k] \in Seq(Nat)
  BY <1>3, FlattenIs
<1>6. \A k \in 0 .. l : InFront(F[k], F[l]) /\ Len(F[k]) \in Nat
  BY <1>3, <1>5, PiecesInFront, LenProperties
<1> DEFINE n(k) == Len(F[k])
<1>7. /\ text \in Seq(Nat) /\ Len(text) = n(l) + 1 /\ text[n(l) + 1] = QuotationMark
      /\ \A j \in 1 .. n(l) : text[j] = F[l][j]
  <2>1. QuotationMark \in Nat /\ F[l] \in Seq(Nat)
    BY <1>1, <1>5 DEF QuotationMark
  <2>2. text = Append(F[l], QuotationMark)
    BY <1>4, <1>5, <2>1, AppendIsConcat
  <2> HIDE DEF text
  <2> QED
    BY <2>1, <2>2, AppendProperties
<1> HIDE DEF text, l
<1>8. PICK q : ReadString(text) = q[1] /\ \A i \in 1 .. (Len(text) + 1) : q[i] = ReadAt(text, q, i)
  <2>1. Len(text) \in Nat
    BY <1>7, LenProperties
  <2> QED
    BY <2>1, ReadStringIs
<1>9. \A k \in 0 .. l : n(k) \in Nat /\ n(k) <= n(l) /\ \A j \in 1 .. n(k) : F[l][j] = F[k][j]
  BY <1>6 DEF InFront
<1>10. ASSUME NEW k \in 1 .. l
       PROVE  q[n(k - 1) + 1] = <<bytes[k]>> \o q[n(k) + 1]
  <2> DEFINE a == n(k - 1)
             m == Len(e(k))
  <2>1. k \in 0 .. l /\ k - 1 \in 0 .. l
    BY <1>1
  <2>2. F[k] = F[k - 1] \o e(k)
    BY <1>3, <1>5 DEF PutTogether
  <2>3. n(k) = a + m /\ (\A j \in 1 .. m : F[k][a + j] = e(k)[j]) /\ m \in Nat /\ a \in Nat
    <3>1. F[k - 1] \in Seq(Nat) /\ e(k) \in Seq(Nat)
      BY <1>2, <1>5, <2>1
    <3> QED
      BY <2>2, <3>1, PieceInFront, LenProperties
  <2>4. n(k) \in Nat /\ n(l) \in Nat /\ n(k) <= n(l) /\ \A j \in 1 .. n(k) : text[j] = F[k][j]
    <3>1. l \in 0 .. l
      BY <1>1
    <3>2. n(k) \in Nat /\ n(l) \in Nat /\ n(k) <= n(l) /\ \A j \in 1 .. n(k) : F[l][j] = F[k][j]
      BY <1>9, <2>1, <3>1
    <3>3. \A j \in 1 .. n(k) : j \in 1 .. n(l)
      BY <3>2
    <3> QED
      BY <1>7, <3>2, <3>3
  <2> DEFINE b == n(k)
             c == n(l)
  <2> HIDE DEF a, m, b, c, n
  <2>5. /\ a \in Nat /\ m \in Nat /\ b \in Nat /\ c \in Nat /\ b = a + m /\ b <= c /\ Len(text) = c + 1
        /\ \A j \in 1 .. m : F[k][a + j] = e(k)[j]
        /\ \A j \in 1 .. b : text[j] = F[k][j]
    BY <1>7, <2>3, <2>4 DEF b, c
  <2>6. \A j \in 1 .. m : (a + 1) + j - 1 = a + j /\ a + j \in 1 .. b
    BY <2>5
  <2>7. \A j \in 1 .. m : text[(a + 1) + j - 1] = e(k)[j]
    BY <2>5, <2>6
  <2>8. /\ a + 1 \in Nat /\ a + 1 >= 1 /\ (a + 1) + m <= Len(text) /\ (a + 1) + m = b + 1
        /\ a + 1 \in 1 .. (Len(text) + 1)
    BY <2>5
  <2>9. QuotedHere(text, a + 1, bytes[k])
    BY <2>7, <2>8 DEF QuotedHere, e, m
  <2>10. q[a + 1] = ReadAt(text, q, a + 1)
    BY <1>8, <2>8
  <2>11. ReadAt(text, q, a + 1) = <<bytes[k]>> \o q[(a + 1) + m]
    <3> DEFINE byte == bytes[k]
    <3>1. byte \in 0 .. 255 /\ text \in Seq(Nat) /\ QuotedHere(text, a + 1, byte)
      BY <1>1, <1>7, <2>9, Zenon
    <3>2. m = Len(emit_quoted_byte(byte))
      BY DEF e, m
    <3> HIDE DEF byte
    <3>3. ReadAt(text, q, a + 1) = <<byte>> \o q[(a + 1) + Len(emit_quoted_byte(byte))]
      BY <3>1, ByteReadsBack, ZenonT(30)
    <3> QED
      BY <3>2, <3>3 DEF byte
  <2>12. q[a + 1] = <<bytes[k]>> \o q[b + 1]
    BY <2>8, <2>10, <2>11
  <2> QED
    BY <2>12 DEF a, b
<1>11. q[n(l) + 1] = <<>>
  <2>1. n(l) \in Nat
    BY <1>1, <1>9
  <2> DEFINE c == n(l) + 1
  <2>2. c \in 1 .. (Len(text) + 1) /\ c = Len(text) /\ ~ (c > Len(text)) /\ text[c] = QuotationMark
    BY <1>7, <2>1
  <2> HIDE DEF c
  <2>3. QuotationMark \in 32 .. 127
    BY DEF QuotationMark
  <2>4. ReadAt(text, q, c) = <<>>
    BY <2>2, <2>3 DEF ReadAt
  <2>5. q[c] = ReadAt(text, q, c)
    BY <1>8, <2>2
  <2> QED
    BY <2>4, <2>5 DEF c
<1> DEFINE f == [k \in 0 .. l |-> q[n(k) + 1]]
           g == [k \in 0 .. l |-> Rest(k)]
<1>12. Rest(l) = <<>>
  <2>1. 1 .. (l - l) = {}
    BY <1>1
  <2>2. Rest(l) = [i \in {} |-> bytes[l + i]]
    BY <2>1
  <2> QED
    BY <2>2
<1>13. ASSUME NEW k \in 0 .. (l - 1) PROVE <<bytes[k + 1]>> \o Rest(k + 1) = Rest(k)
  <2> DEFINE s == <<bytes[k + 1]>>
             u == Rest(k + 1)
             v == Rest(k)
             m == l - k
  <2>9. \A j \in 1 .. l : bytes[j] \in Octets
    BY <1>1 DEF Octets
  <2>1. k \in Nat /\ k + 1 \in 1 .. l /\ m \in Nat /\ m >= 1 /\ l - (k + 1) = m - 1
    BY <1>1
  <2>2. s \in Seq(Octets) /\ Len(s) = 1 /\ s[1] = bytes[k + 1]
    BY <2>1, <2>9
  <2>3. u \in Seq(Octets) /\ Len(u) = m - 1 /\ \A i \in 1 .. (m - 1) : u[i] = bytes[(k + 1) + i]
    <3> DEFINE p == m - 1
    <3>1. p \in Nat /\ u = [i \in 1 .. p |-> bytes[(k + 1) + i]] /\ \A i \in 1 .. p : (k + 1) + i \in 1 .. l
      BY <1>1, <2>1
    <3> HIDE DEF u, p
    <3>2. u \in [1 .. p -> Octets] /\ \A i \in 1 .. p : u[i] = bytes[(k + 1) + i]
      BY <2>9, <3>1
    <3>3. u \in Seq(Octets) /\ Len(u) = p
      BY <3>1, <3>2, SeqOfLength
    <3> QED
      BY <3>2, <3>3 DEF p
  <2>4. v \in Seq(Octets) /\ Len(v) = m /\ \A i \in 1 .. m : v[i] = bytes[k + i]
    <3>1. m \in Nat /\ v = [i \in 1 .. m |-> bytes[k + i]] /\ \A i \in 1 .. m : k + i \in 1 .. l
      BY <1>1, <2>1
    <3> HIDE DEF v, m
    <3>2. v \in [1 .. m -> Octets] /\ \A i \in 1 .. m : v[i] = bytes[k + i]
      BY <2>9, <3>1
    <3>3. v \in Seq(Octets) /\ Len(v) = m
      BY <3>1, <3>2, SeqOfLength
    <3> QED
      BY <3>2, <3>3
  <2> DEFINE z == s \o u
  <2> HIDE DEF s, u, v, Rest
  <2>5. /\ z \in Seq(Octets) /\ Len(z) = Len(s) + Len(u) /\ InFront(s, z)
        /\ \A j \in 1 .. Len(u) : z[Len(s) + j] = u[j]
    <3>1. s \in Seq(Octets) /\ u \in Seq(Octets)
      BY <2>2, <2>3
    <3> QED
      BY <3>1, PieceInFront
  <2> HIDE DEF z, m
  <2>6. Len(z) = m /\ z[1] = bytes[k + 1] /\ \A j \in 1 .. (m - 1) : z[1 + j] = bytes[(k + 1) + j]
    <3>1. Len(z) = m
      BY <2>1, <2>2, <2>3, <2>5
    <3>2. 1 \in 1 .. 1
      OBVIOUS
    <3>3. z[1] = bytes[k + 1]
      BY <2>2, <2>5, <3>2 DEF InFront
    <3>4. \A j \in 1 .. (m - 1) : z[1 + j] = u[j]
      BY <2>2, <2>3, <2>5
    <3> QED
      BY <2>3, <3>1, <3>3, <3>4
  <2>7. ASSUME NEW i \in 1 .. m PROVE z[i] = v[i]
    <3>1. CASE i = 1
      BY <2>4, <2>6, <3>1
    <3>2. CASE i # 1
      <4>1. i - 1 \in 1 .. (m - 1) /\ 1 + (i - 1) = i /\ (k + 1) + (i - 1) = k + i
        BY <2>1, <3>2
      <4>2. z[1 + (i - 1)] = bytes[(k + 1) + (i - 1)]
        BY <2>6, <4>1
      <4> QED
        BY <2>4, <4>1, <4>2
    <3> QED
      BY <3>1, <3>2
  <2>8. z = v
    BY <2>4, <2>5, <2>6, <2>7, SeqEqual
  <2> QED
    BY <2>8 DEF z, s, u, v
<1> HIDE DEF n, Rest
<1>14. \A k \in 0 .. l : f[k] = q[n(k) + 1] /\ g[k] = Rest(k)
  OBVIOUS
<1> HIDE DEF f, g
<1>15. Descending(f, g, 0, l)
  <2>1. f[l] = g[l]
    <3>1. l \in 0 .. l
      BY <1>1
    <3> QED
      BY <1>11, <1>12, <1>14, <3>1
  <2>2. ASSUME NEW k \in 0 .. (l - 1), f[k + 1] = g[k + 1] PROVE f[k] = g[k]
    <3>1. k \in 0 .. l /\ k + 1 \in 0 .. l /\ k + 1 \in 1 .. l /\ (k + 1) - 1 = k
      BY <1>1
    <3>2. q[n(k) + 1] = <<bytes[k + 1]>> \o q[n(k + 1) + 1]
      BY <1>10, <3>1
    <3>3. q[n(k + 1) + 1] = Rest(k + 1)
      BY <1>14, <2>2, <3>1
    <3> QED
      BY <1>13, <1>14, <3>1, <3>2, <3>3
  <2> QED
    BY <2>1, <2>2 DEF Descending
<1>16. Alike(f, g, 0, l)
  BY <1>1, <1>15, SameDown
<1>17. f[0] = g[0] /\ 0 \in 0 .. l
  <2>1. 0 \in 0 .. l
    BY <1>1
  <2> QED
    BY <1>16, <2>1 DEF Alike
<1>18. f[0] = q[1]
  <2>1. F[0] = <<>>
    BY <1>5 DEF PutTogether
  <2>2. n(0) = 0
    BY <2>1 DEF n
  <2>3. 0 + 1 = 1
    OBVIOUS
  <2> QED
    BY <1>14, <1>17, <2>2, <2>3
<1>19. g[0] = bytes
  <2>1. l - 0 = l /\ \A i \in 1 .. l : 0 + i = i
    BY <1>1
  <2>2. Rest(0) = [i \in 1 .. l |-> bytes[i]]
    BY <2>1 DEF Rest
  <2>3. bytes = [i \in 1 .. l |-> bytes[i]]
    BY <1>1
  <2> QED
    BY <1>14, <1>17, <2>2, <2>3
<1>20. ReadString(text) = bytes
  BY <1>8, <1>17, <1>18, <1>19
<1> QED
  BY <1>20 DEF text

(* What jems_string and jems_bytes put between quotation marks is one      *)
(* string of JSON whose characters are the bytes, whatever these are and   *)
(* however many.                                                           *)
THEOREM BytesReadBack == Spec => []QuotesReadBack
<1>1. ASSUME CallOk PROVE QuotesReadBack
  <2> SUFFICES ASSUME Of("jems_bytes")
               PROVE  ReadString(Quoted(call.args.bytes) \o <<QuotationMark>>) = call.args.bytes
    BY DEF QuotesReadBack
  <2>1. call.args.bytes \in BoundedSeq(Bytes, MaxString)
    BY <1>1 DEF CallOk, Calls, Of, NoCall
  <2>2. PICK n \in 0 .. MaxString : call.args.bytes \in [1 .. n -> Bytes]
    BY <2>1 DEF BoundedSeq, SeqOf
  <2>3. Bytes \subseteq 0 .. 255
    BY LibKAssumption DEF LibKAssumption
  <2>4. Bytes \subseteq Octets
    BY <2>3 DEF Octets
  <2>5. call.args.bytes \in Seq(Octets)
    BY <2>2, <2>4
  <2> QED
    BY <2>5, QuotedReadsBack
<1> QED
  BY <1>1, CallsAre, PTL
=============================================================================
