------------------------- MODULE BundleLookupProofs -------------------------
(* The safety of BundleLookup.tla for any depot, any directories and listings *)
(* of any length: what the recursive operators return, what is appended to an *)
(* answer, and the invariant of the two handlers.                             *)
EXTENDS BundleLookup, Recursion, SequenceTheorems, FiniteSetTheorems

Byte == 0 .. 255

-----------------------------------------------------------------------------
(* Texts as bytes.                                                            *)

\* A concatenation of pieces of up to three elements.
LEMMA FlattenProperties ==
  ASSUME NEW S, NEW s \in Seq(Seq(S)), \A n \in 1 .. Len(s) : Len(s[n]) <= 3
  PROVE  FlattenSeq(s) \in Seq(S) /\ Len(FlattenSeq(s)) <= 3 * Len(s)
  <1> DEFINE F(u) == u = [n \in 1 .. Len(s) |-> IF n = 1 THEN s[n] ELSE u[n - 1] \o s[n]]
             flatten == CHOOSE u : F(u)
             step == [p \in Nat \X Seq(S) |->
                        IF p[1] + 1 \in 1 .. Len(s) THEN p[2] \o s[p[1] + 1] ELSE p[2]]
  <1>1. Len(s) \in Nat /\ \A n \in 1 .. Len(s) : s[n] \in Seq(S)
    BY ElementOfSeq
  <1>2. CASE Len(s) = 0
    <2>1. s = <<>>
      BY <1>2, EmptySeq
    <2>. QED
      BY <1>2, <2>1, EmptySeq DEF FlattenSeq
  <1>3. CASE Len(s) # 0
    <2>1. PICK N \in Nat : Len(s) = N + 1
      <3>1. Len(s) - 1 \in Nat
        BY <1>1, <1>3
      <3>. QED
        BY <1>1, <3>1
    <2>2. step \in [Nat \X Seq(S) -> Seq(S)]
      <3>1. ASSUME NEW p \in Nat \X Seq(S), p[1] + 1 \in 1 .. Len(s)
            PROVE  p[2] \o s[p[1] + 1] \in Seq(S)
        <4>1. PICK x \in Seq(S), y \in Seq(S) : x = p[2] /\ y = s[p[1] + 1]
          BY <1>1, <3>1
        <4>. QED
          BY <4>1, ConcatProperties
      <3>. QED
        BY <3>1
    <2>3. \A m \in Nat, x \in Seq(S) :
            m + 1 \in 1 .. Len(s) => step[<<m, x>>] = x \o s[m + 1]
      OBVIOUS
    <2>. HIDE DEF step
    <2>4. PICK f \in [0 .. N -> Seq(S)] : Recursive(f, N, s[1], step)
      <3>1. s[1] \in Seq(S)
        BY <1>1, <2>1
      <3>. QED
        BY <2>2, <3>1, RecursionWorks
    <2>5. \E u : F(u)
      <3>1. \A n \in 0 .. N : f[n] = IF n = 0 THEN s[1] ELSE step[<<n, f[n - 1]>>]
        BY <2>4 DEF Recursive
      <3>2. PICK u : u = [n \in 1 .. Len(s) |-> f[n - 1]]
        OBVIOUS
      <3>3. ASSUME NEW n \in 1 .. Len(s)
            PROVE  f[n - 1] = IF n = 1 THEN s[n] ELSE u[n - 1] \o s[n]
        <4>1. CASE n = 1
          <5>1. f[0] = s[1]
            <6>1. 0 \in 0 .. N
              OBVIOUS
            <6>. QED
              BY <3>1, <6>1
          <5>2. n - 1 = 0
            BY <4>1
          <5>. QED
            BY <4>1, <5>1, <5>2
        <4>2. CASE n # 1
          <5>1. PICK m \in 1 .. N : m = n - 1 /\ n = m + 1
            <6>1. n - 1 \in 1 .. N /\ n = (n - 1) + 1
              BY <2>1, <4>2
            <6>. QED
              BY <6>1
          <5>2. PICK k \in 0 .. N : k = m - 1
            BY <5>1
          <5>3. f[m] = step[<<m, f[k]>>]
            BY <3>1, <5>1, <5>2
          <5>4. u[m] = f[k]
            BY <2>1, <3>2, <5>2
          <5>5. PICK x \in Seq(S) : x = f[k]
            OBVIOUS
          <5>6. step[<<m, x>>] = x \o s[m + 1]
            <6>1. m \in Nat /\ m + 1 \in 1 .. Len(s)
              BY <2>1
            <6>. QED
              BY <2>3, <6>1
          <5>. QED
            BY <4>2, <5>1, <5>3, <5>4, <5>5, <5>6
        <4>. QED
          BY <4>1, <4>2
      <3>4. u = [n \in 1 .. Len(s) |-> IF n = 1 THEN s[n] ELSE u[n - 1] \o s[n]]
        BY <3>2, <3>3
      <3>. QED
        BY <3>4
    <2>6. F(flatten)
      <3>. HIDE DEF F
      <3>. QED
        BY <2>5
    <2>7. FlattenSeq(s) = flatten[Len(s)]
      BY <1>3, Zenon DEF FlattenSeq
    <2>8. PICK u : u = flatten /\ F(u)
      BY <2>6
    <2>. HIDE DEF flatten
    <2>9. \A n \in 1 .. Len(s) : u[n] = IF n = 1 THEN s[n] ELSE u[n - 1] \o s[n]
      BY <2>8
    <2> DEFINE T == {n \in Nat : n + 1 <= Len(s) =>
                        u[n + 1] \in Seq(S) /\ Len(u[n + 1]) <= 3 * (n + 1)}
    <2>10. ASSUME NEW n \in Nat, \A k \in 0 .. n - 1 : k \in T PROVE n \in T
      <3>. SUFFICES ASSUME n + 1 <= Len(s)
                    PROVE  u[n + 1] \in Seq(S) /\ Len(u[n + 1]) <= 3 * (n + 1)
        OBVIOUS
      <3>1. PICK i \in 1 .. Len(s) : i = n + 1
        BY <1>1
      <3>2. s[i] \in Seq(S) /\ Len(s[i]) <= 3
        BY <1>1
      <3>3. CASE n = 0
        BY <2>9, <3>1, <3>2, <3>3
      <3>4. CASE n # 0
        <4>1. PICK m \in Nat : n = m + 1 /\ m \in 0 .. n - 1
          <5>1. n - 1 \in Nat /\ n = (n - 1) + 1 /\ n - 1 \in 0 .. n - 1
            BY <3>4
          <5>. QED
            BY <5>1
        <4>2. u[m + 1] \in Seq(S) /\ Len(u[m + 1]) <= 3 * (m + 1)
          <5>1. m \in T
            <6>. HIDE DEF T
            <6>. QED
              BY <2>10, <4>1
          <5>2. m + 1 <= Len(s)
            BY <1>1, <4>1
          <5>. QED
            BY <5>1, <5>2
        <4>3. PICK x \in Seq(S) : x = u[m + 1] /\ Len(x) <= 3 * (m + 1)
          BY <4>2
        <4>4. u[i] = x \o s[i]
          <5>1. i # 1 /\ i - 1 = m + 1
            BY <3>1, <4>1
          <5>. QED
            BY <2>9, <4>3, <5>1
        <4>5. x \o s[i] \in Seq(S) /\ Len(x \o s[i]) = Len(x) + Len(s[i])
          <5>1. PICK y \in Seq(S) : y = s[i]
            BY <3>2
          <5>. QED
            BY <5>1, ConcatProperties
        <4>6. Len(x) \in Nat /\ Len(s[i]) \in Nat
          BY <3>2, LenProperties
        <4>7. Len(u[i]) <= 3 * (n + 1)
          <5>1. PICK a \in Nat, b \in Nat : a = Len(x) /\ b = Len(s[i])
            BY <4>6
          <5>2. a <= 3 * (m + 1) /\ b <= 3 /\ Len(u[i]) = a + b
            BY <3>2, <4>3, <4>4, <4>5, <5>1
          <5>3. a + b <= 3 * (n + 1)
            BY <4>1, <5>2
          <5>. QED
            BY <5>2, <5>3
        <4>. QED
          BY <3>1, <4>4, <4>5, <4>7
      <3>. QED
        BY <3>3, <3>4
    <2>11. \A n \in Nat : n \in T
      <3>. HIDE DEF T
      <3>. QED
        BY <2>10, Induction
    <2>12. N \in T
      <3>. HIDE DEF T
      <3>. QED
        BY <2>11
    <2>13. u[N + 1] \in Seq(S) /\ Len(u[N + 1]) <= 3 * (N + 1)
      BY <2>1, <2>12
    <2>. HIDE DEF T
    <2>. QED
      BY <2>1, <2>7, <2>8, <2>13
  <1>. QED
    BY <1>2, <1>3

Text == {t \in Seq(Unit) : Len(t) <= MaxText}

\* Each unit becomes one to three bytes.
LEMMA BytesProperties ==
  ASSUME NEW u \in Unit
  PROVE  Bytes(u) \in Seq(Byte) /\ Len(Bytes(u)) <= 3
  <1>1. u \in Int /\ 0 <= u /\ u <= 65535
    BY SMT DEF Unit
  <1>2. CASE u < 128
    <2>1. u \in Byte
      BY <1>1, <1>2 DEF Byte
    <2>. QED
      BY <1>2, <2>1 DEF Bytes
  <1>3. CASE u >= 128 /\ u < 2048
    <2>1. 192 + (u \div 64) \in Byte /\ 128 + (u % 64) \in Byte
      BY <1>1, <1>3 DEF Byte
    <2>2. Bytes(u) = <<192 + (u \div 64), 128 + (u % 64)>>
      BY <1>1, <1>3 DEF Bytes
    <2>3. PICK a \in Byte, b \in Byte : Bytes(u) = <<a, b>>
      BY <2>1, <2>2
    <2>. QED
      BY <2>3
  <1>4. CASE u >= 2048
    <2>1. /\ 224 + (u \div 4096) \in Byte /\ 128 + ((u \div 64) % 64) \in Byte
          /\ 128 + (u % 64) \in Byte
      BY <1>1, <1>4 DEF Byte
    <2>2. Bytes(u) = <<224 + (u \div 4096), 128 + ((u \div 64) % 64), 128 + (u % 64)>>
      BY <1>1, <1>4 DEF Bytes
    <2>3. PICK a \in Byte, b \in Byte, c \in Byte : Bytes(u) = <<a, b, c>>
      BY <2>1, <2>2
    <2>. QED
      BY <2>3
  <1>. QED
    BY <1>1, <1>2, <1>3, <1>4

LEMMA WideProperties ==
  ASSUME NEW t \in Seq(Unit)
  PROVE  Wide(t) \in Seq(Byte) /\ Len(Wide(t)) <= 3 * Len(t)
  <1>1. PICK s : s = [n \in DOMAIN t |-> Bytes(t[n])]
    OBVIOUS
  <1>2. Len(t) \in Nat /\ DOMAIN t = 1 .. Len(t)
    OBVIOUS
  <1>3. \A n \in 1 .. Len(t) : s[n] \in Seq(Byte) /\ Len(s[n]) <= 3
    <2>. SUFFICES ASSUME NEW n \in 1 .. Len(t) PROVE s[n] \in Seq(Byte) /\ Len(s[n]) <= 3
      OBVIOUS
    <2>1. PICK u \in Unit : u = t[n]
      BY ElementOfSeq
    <2>. QED
      BY <1>1, <1>2, <2>1, BytesProperties
  <1>4. s \in Seq(Seq(Byte)) /\ Len(s) = Len(t)
    <2>1. s \in [1 .. Len(t) -> Seq(Byte)]
      BY <1>1, <1>2, <1>3
    <2>. QED
      BY <1>2, <2>1
  <1>5. Wide(t) = FlattenSeq(s)
    BY <1>1 DEF Wide
  <1>. QED
    BY <1>3, <1>4, <1>5, FlattenProperties

\* A length that can be read back from its four bytes.
LEMMA U32Properties ==
  ASSUME NEW n \in Nat, n <= 3 * MaxText
  PROVE  /\ U32(n) \in Seq(Byte) /\ Len(U32(n)) = 4
         /\ U32(n)[1] + 256 * U32(n)[2] + 65536 * U32(n)[3] + 16777216 * U32(n)[4] = n
  <1> DEFINE a == n \div 256
             b == n \div 65536
             c == n \div 16777216
  <1>1. a \in Int /\ b \in Int /\ c \in Int
    BY SMT
  <1>2. n = 256 * a + (n % 256) /\ n % 256 \in 0 .. 255
    BY SMT
  <1>3. a = 256 * b + (a % 256) /\ a % 256 \in 0 .. 255
    <2>1. b = a \div 256
      BY SMT
    <2>. QED
      BY SMT, <1>1, <2>1
  <1>4. b = 256 * c + (b % 256) /\ b % 256 \in 0 .. 255
    <2>1. c = b \div 256
      BY SMT
    <2>. QED
      BY SMT, <1>1, <2>1
  <1>5. c \in 0 .. 127 /\ c % 256 = c
    BY SMT DEF MaxText
  <1>6. U32(n) = <<n % 256, a % 256, b % 256, c % 256>>
    BY DEF U32
  <1>. HIDE DEF a, b, c
  <1>7. PICK w \in Byte, x \in Byte, y \in Byte, z \in Byte :
          w = n % 256 /\ x = a % 256 /\ y = b % 256 /\ z = c % 256
    <2>1. n % 256 \in Byte /\ a % 256 \in Byte /\ b % 256 \in Byte /\ c % 256 \in Byte
      BY SMT, <1>2, <1>3, <1>4, <1>5 DEF Byte
    <2>. QED
      BY Zenon, <2>1
  <1>8. U32(n) = <<w, x, y, z>>
    BY <1>6, <1>7
  <1>9. n = w + 256 * x + 65536 * y + 16777216 * z
    BY SMT, <1>1, <1>2, <1>3, <1>4, <1>5, <1>7
  <1>. QED
    BY <1>8, <1>9

-----------------------------------------------------------------------------
(* A client's walk through an answer.                                         *)

\* at is where each string starts, and each is there.
Walk(bytes, first, strings, at) ==
  /\ at \in [0 .. Len(strings) -> Nat \ {0}] /\ at[0] = first
  /\ at[Len(strings)] = Len(bytes) + 1
  /\ \A k \in 1 .. Len(strings) :
       /\ at[k] = at[k - 1] + 4 + Len(strings[k]) /\ at[k] <= Len(bytes) + 1
       /\ Number(bytes, at[k - 1]) = Len(strings[k])
       /\ SubSeq(bytes, at[k - 1] + 4, at[k] - 1) = strings[k]

\* A client that goes by the lengths it reads takes this walk.
LEMMA WalkReads ==
  ASSUME NEW bytes, NEW first, NEW strings \in Seq(Seq(Byte)), NEW at,
         Walk(bytes, first, strings, at)
  PROVE  Reads(bytes, first, strings)
  <1> DEFINE N == Len(strings)
             F(u) == u = [k \in 0 .. N |->
                            IF k = 0 THEN first ELSE u[k - 1] + 4 + Number(bytes, u[k - 1])]
             start == CHOOSE u : F(u)
  <1>1. N \in Nat /\ at \in [0 .. N -> Nat \ {0}] /\ at[0] = first
    BY DEF Walk
  <1>2. \A k \in 1 .. N : at[k] = at[k - 1] + 4 + Number(bytes, at[k - 1])
    BY DEF Walk
  <1>3. \E u : F(u)
    <2>1. at = [k \in 0 .. N |-> at[k]]
      BY <1>1
    <2>2. \A k \in 0 .. N :
            at[k] = IF k = 0 THEN first ELSE at[k - 1] + 4 + Number(bytes, at[k - 1])
      BY <1>1, <1>2
    <2>. QED
      BY <2>1, <2>2
  <1>4. F(start)
    <2>. HIDE DEF F
    <2>. QED
      BY <1>3
  <1>5. PICK u : u = start /\ F(u)
    BY <1>4
  <1>. HIDE DEF start
  <1>6. \A k \in 0 .. N : u[k] = IF k = 0 THEN first ELSE u[k - 1] + 4 + Number(bytes, u[k - 1])
    BY <1>5
  <1> DEFINE T == {k \in Nat : k <= N => u[k] = at[k]}
  <1>7. ASSUME NEW n \in Nat, \A k \in 0 .. n - 1 : k \in T PROVE n \in T
    <2>. SUFFICES ASSUME n <= N PROVE u[n] = at[n]
      OBVIOUS
    <2>1. CASE n = 0
      BY <1>1, <1>6, <2>1
    <2>2. CASE n # 0
      <3>1. PICK m \in Nat : n - 1 = m /\ m \in 0 .. n - 1
        BY <2>2
      <3>2. m \in T
        <4>. HIDE DEF T
        <4>. QED
          BY <1>7, <3>1
      <3>3. u[m] = at[m]
        BY <1>1, <3>1, <3>2
      <3>4. n \in 0 .. N /\ n \in 1 .. N
        BY <1>1, <2>2
      <3>5. u[n] = u[m] + 4 + Number(bytes, u[m])
        BY <1>6, <2>2, <3>1, <3>4
      <3>6. at[n] = at[m] + 4 + Number(bytes, at[m])
        BY <1>2, <3>1, <3>4
      <3>. QED
        BY <3>3, <3>5, <3>6
    <2>. QED
      BY <2>1, <2>2
  <1>8. \A n \in 0 .. N : u[n] = at[n]
    <2>1. \A n \in Nat : n \in T
      <3>. HIDE DEF T
      <3>. QED
        BY <1>7, Induction
    <2>. QED
      BY <1>1, <2>1
  <1>9. /\ at[N] = Len(bytes) + 1
        /\ \A k \in 1 .. N : SubSeq(bytes, at[k - 1] + 4, at[k] - 1) = strings[k]
    BY DEF Walk
  <1>10. /\ u[N] = Len(bytes) + 1
         /\ \A k \in 1 .. N : SubSeq(bytes, u[k - 1] + 4, u[k] - 1) = strings[k]
    <2>1. N \in 0 .. N /\ \A k \in 1 .. N : k \in 0 .. N /\ k - 1 \in 0 .. N
      BY <1>1
    <2>. QED
      BY <1>8, <1>9, <2>1
  <1>11. Reads(bytes, first, strings)
          <=> /\ start[N] = Len(bytes) + 1
              /\ \A k \in 1 .. N : SubSeq(bytes, start[k - 1] + 4, start[k] - 1) = strings[k]
    BY Zenon DEF Reads, start
  <1>. QED
    BY <1>5, <1>10, <1>11
LEMMA WalkStarts ==
  ASSUME NEW bytes \in Seq(Byte)
  PROVE  \E at : Walk(bytes, Len(bytes) + 1, <<>>, at)
  <1>1. Walk(bytes, Len(bytes) + 1, <<>>, [k \in 0 .. 0 |-> Len(bytes) + 1])
    BY DEF Walk
  <1>. QED
    BY <1>1

\* c is a followed by b.
Joined(c, a, b) ==
  /\ c \in Seq(Byte) /\ Len(c) = Len(a) + Len(b)
  /\ \A k \in 1 .. Len(a) : c[k] = a[k]
  /\ \A k \in 1 .. Len(b) : c[Len(a) + k] = b[k]

LEMMA ConcatJoins ==
  ASSUME NEW a \in Seq(Byte), NEW b \in Seq(Byte)
  PROVE  Joined(a \o b, a, b)
  <1>1. PICK m \in Nat, n \in Nat : m = Len(a) /\ n = Len(b)
    OBVIOUS
  <1>2. PICK c : c = a \o b
    OBVIOUS
  <1>3. /\ c \in Seq(Byte) /\ Len(c) = m + n
        /\ \A i \in 1 .. m + n : c[i] = IF i <= m THEN a[i] ELSE b[i - m]
    BY <1>1, <1>2, ConcatProperties
  <1>4. ASSUME NEW k \in 1 .. n PROVE c[m + k] = b[k]
    <2>1. m + k \in 1 .. m + n /\ ~(m + k <= m) /\ (m + k) - m = k
      OBVIOUS
    <2>. QED
      BY <1>3, <2>1
  <1>5. ASSUME NEW k \in 1 .. m PROVE c[k] = a[k]
    <2>1. k \in 1 .. m + n /\ k <= m
      OBVIOUS
    <2>. QED
      BY <1>3, <2>1
  <1>6. Joined(c, a, b)
    BY <1>1, <1>3, <1>4, <1>5 DEF Joined
  <1>. QED
    BY <1>2, <1>6

\* u is the part of c from i to j.
Part(u, c, i, j) ==
  /\ u \in Seq(Byte) /\ Len(u) = IF i <= j THEN j - i + 1 ELSE 0
  /\ \A k \in 1 .. j - i + 1 : u[k] = c[i + k - 1]

LEMMA SubSeqHas ==
  ASSUME NEW c, NEW i \in Int, NEW j \in Int, \A k \in i .. j : c[k] \in Byte
  PROVE  Part(SubSeq(c, i, j), c, i, j)
  BY SubSeqProperties, SMT DEF Part

\* v is what c has from i to j.
LEMMA SubSeqIs ==
  ASSUME NEW c \in Seq(Byte), NEW v \in Seq(Byte), NEW i \in Nat \ {0}, NEW j \in Nat,
         j <= Len(c), Len(v) = IF i <= j THEN j - i + 1 ELSE 0,
         \A k \in 1 .. j - i + 1 : v[k] = c[i + k - 1]
  PROVE  SubSeq(c, i, j) = v
  <1>1. PICK u : u = SubSeq(c, i, j)
    OBVIOUS
  <1>2. \A k \in i .. j : c[k] \in Byte
    <2>1. \A k \in i .. j : k \in 1 .. Len(c)
      OBVIOUS
    <2>. QED
      BY <2>1, ElementOfSeq
  <1>3. /\ u \in Seq(Byte) /\ Len(u) = IF i <= j THEN j - i + 1 ELSE 0
        /\ \A k \in 1 .. j - i + 1 : u[k] = c[i + k - 1]
    <2>1. i \in Int /\ j \in Int
      OBVIOUS
    <2>2. Part(SubSeq(c, i, j), c, i, j)
      BY <1>2, <2>1, SubSeqHas, Zenon
    <2>3. Part(u, c, i, j)
      BY <1>1, <2>2, Zenon
    <2>. QED
      BY <2>3, Zenon DEF Part
  <1>4. Len(u) = Len(v) /\ \A k \in 1 .. Len(u) : u[k] = v[k]
    BY <1>3
  <1>. QED
    BY <1>1, <1>3, <1>4, SeqEqual

\* What is appended changes nothing of what was there.
LEMMA AppendKeeps ==
  ASSUME NEW b \in Seq(Byte), NEW t \in Seq(Byte), NEW c, Joined(c, b, t),
         NEW i \in Nat \ {0}, NEW j \in Nat, j <= Len(b)
  PROVE  /\ i + 3 <= Len(b) => Number(c, i) = Number(b, i)
         /\ SubSeq(c, i, j) = SubSeq(b, i, j)
  <1>1. /\ Len(b) \in Nat /\ Len(t) \in Nat /\ Len(c) \in Nat /\ Len(c) = Len(b) + Len(t)
        /\ c \in Seq(Byte) /\ \A k \in 1 .. Len(b) : c[k] = b[k]
    BY DEF Joined
  <1>2. ASSUME i + 3 <= Len(b) PROVE Number(c, i) = Number(b, i)
    <2>1. ~(i + 3 > Len(b)) /\ ~(i + 3 > Len(c))
      BY <1>1, <1>2
    <2>2. /\ i \in 1 .. Len(b) /\ i + 1 \in 1 .. Len(b) /\ i + 2 \in 1 .. Len(b)
          /\ i + 3 \in 1 .. Len(b)
      BY <1>1, <1>2
    <2>3. c[i] = b[i] /\ c[i + 1] = b[i + 1] /\ c[i + 2] = b[i + 2] /\ c[i + 3] = b[i + 3]
      BY <1>1, <2>2
    <2>. QED
      BY <2>1, <2>3 DEF Number
  <1>3. SubSeq(c, i, j) = SubSeq(b, i, j)
    <2>1. j <= Len(c)
      BY <1>1
    <2>2. \A k \in i .. j : k \in 1 .. Len(b)
      BY <1>1
    <2>3. \A k \in i .. j : b[k] \in Byte
      BY <2>2, ElementOfSeq
    <2>4. PICK v : v = SubSeq(b, i, j)
      OBVIOUS
    <2>5. /\ v \in Seq(Byte) /\ Len(v) = IF i <= j THEN j - i + 1 ELSE 0
          /\ \A k \in 1 .. j - i + 1 : v[k] = b[i + k - 1]
      <3>1. i \in Int /\ j \in Int
        OBVIOUS
      <3>. QED
        BY <2>3, <2>4, <3>1, SubSeqHas, Zenon DEF Part
    <2>6. \A k \in 1 .. j - i + 1 : v[k] = c[i + k - 1]
      <3>1. ASSUME NEW k \in 1 .. j - i + 1 PROVE v[k] = c[i + k - 1]
        <4>1. i + k - 1 \in 1 .. Len(b)
          BY <1>1
        <4>. QED
          BY <1>1, <2>5, <4>1
      <3>. QED
        BY <3>1
    <2>7. SubSeq(c, i, j) = v
      BY <1>1, <2>1, <2>5, <2>6, SubSeqIs
    <2>. QED
      BY <2>4, <2>7
  <1>. QED
    BY <1>2, <1>3

\* What is appended can be read there.
Extended(c, b, s) ==
  /\ Len(c) = Len(b) + 4 + Len(s) /\ Number(c, Len(b) + 1) = Len(s)
  /\ SubSeq(c, Len(b) + 5, Len(b) + 4 + Len(s)) = s

LEMMA AppendedReads ==
  ASSUME NEW b \in Seq(Byte), NEW s \in Seq(Byte), Len(s) <= 3 * MaxText,
         NEW t, Joined(t, U32(Len(s)), s), NEW c, Joined(c, b, t)
  PROVE  Extended(c, b, s)
  <1>1. PICK m \in Nat, l \in Nat : m = Len(b) /\ l = Len(s)
    OBVIOUS
  <1>2. PICK u \in Seq(Byte) :
          /\ u = U32(Len(s)) /\ Len(u) = 4
          /\ u[1] + 256 * u[2] + 65536 * u[3] + 16777216 * u[4] = l
    BY <1>1, U32Properties
  <1>3. /\ t \in Seq(Byte) /\ Len(t) = 4 + l
        /\ \A k \in 1 .. 4 : t[k] = u[k]
        /\ \A k \in 1 .. l : t[4 + k] = s[k]
    BY <1>1, <1>2 DEF Joined
  <1>4. /\ c \in Seq(Byte) /\ Len(c) = m + (4 + l)
        /\ \A k \in 1 .. 4 + l : c[m + k] = t[k]
    BY <1>1, <1>3 DEF Joined
  <1>5. Number(c, m + 1) = l
    <2>1. PICK n \in Nat : n = m + 1
      BY <1>1
    <2>2. ~(n + 3 > Len(c))
      BY <1>4, <2>1
    <2>3. c[n] = u[1] /\ c[n + 1] = u[2] /\ c[n + 2] = u[3] /\ c[n + 3] = u[4]
      <3>1. ASSUME NEW k \in 1 .. 4 PROVE c[m + k] = u[k]
        <4>1. k \in 1 .. 4 + l
          OBVIOUS
        <4>2. c[m + k] = t[k] /\ t[k] = u[k]
          BY <1>3, <1>4, <4>1, Zenon
        <4>. QED
          BY <4>2
      <3>2. n = m + 1 /\ n + 1 = m + 2 /\ n + 2 = m + 3 /\ n + 3 = m + 4
        BY <2>1
      <3>. QED
        BY <3>1, <3>2
    <2>4. Number(c, n) = c[n] + 256 * c[n + 1] + 65536 * c[n + 2] + 16777216 * c[n + 3]
      BY <2>2 DEF Number
    <2>. QED
      BY <1>2, <2>1, <2>3, <2>4
  <1>6. SubSeq(c, m + 5, m + 4 + l) = s
    <2>1. PICK i \in Nat \ {0}, j \in Nat : i = m + 5 /\ j = m + 4 + l
      OBVIOUS
    <2>2. j <= Len(c) /\ (Len(s) = IF i <= j THEN j - i + 1 ELSE 0)
      BY <1>1, <1>4, <2>1
    <2>3. ASSUME NEW k \in 1 .. j - i + 1 PROVE s[k] = c[i + k - 1]
      <3>1. k \in 1 .. l /\ i + k - 1 = m + (4 + k) /\ 4 + k \in 1 .. 4 + l
        BY <2>1
      <3>2. c[m + (4 + k)] = t[4 + k]
        BY <1>4, <3>1
      <3>. QED
        BY <1>3, <3>1, <3>2
    <2>. QED
      BY <1>4, <2>1, <2>2, <2>3, SubSeqIs
  <1>7. m + (4 + l) = m + 4 + l
    OBVIOUS
  <1>. QED
    BY <1>1, <1>4, <1>5, <1>6, <1>7, Zenon DEF Extended

Appended(t, s, e) ==
  /\ Len(t) = Len(s) + 1 /\ t[Len(s) + 1] = e
  /\ \A k \in 1 .. Len(s) : t[k] = s[k]

LEMMA AppendAppends ==
  ASSUME NEW S, NEW s \in Seq(S), NEW e \in S
  PROVE  Append(s, e) \in Seq(S) /\ Appended(Append(s, e), s, e)
  BY AppendProperties DEF Appended

\* One more string makes the walk one longer.
LEMMA WalkGrows ==
  ASSUME NEW b \in Seq(Byte), NEW first, NEW strings \in Seq(Seq(Byte)), NEW at,
         Walk(b, first, strings, at), NEW s \in Seq(Byte), Len(s) <= 3 * MaxText,
         NEW t \in Seq(Byte), Joined(t, U32(Len(s)), s), NEW c, Joined(c, b, t)
  PROVE  \E next : Walk(c, first, Append(strings, s), next)
  <1>1. PICK N \in Nat, m \in Nat, l \in Nat : N = Len(strings) /\ m = Len(b) /\ l = Len(s)
    OBVIOUS
  <1>2. PICK more : /\ more = Append(strings, s) /\ more \in Seq(Seq(Byte)) /\ Len(more) = N + 1
                    /\ more[N + 1] = s /\ \A k \in 1 .. N : more[k] = strings[k]
    <2>1. PICK S : S = Seq(Byte)
      OBVIOUS
    <2>2. strings \in Seq(S) /\ s \in S
      BY <2>1
    <2>3. Append(strings, s) \in Seq(S) /\ Appended(Append(strings, s), strings, s)
      BY <2>2, AppendAppends
    <2>. QED
      BY <1>1, <2>1, <2>3, Zenon DEF Appended
  <1>3. PICK next : next = [k \in 0 .. N + 1 |-> IF k = N + 1 THEN m + 5 + l ELSE at[k]]
    OBVIOUS
  <1>4. /\ at \in [0 .. N -> Nat \ {0}] /\ at[0] = first /\ at[N] = m + 1
        /\ \A k \in 1 .. N :
             /\ at[k] = at[k - 1] + 4 + Len(strings[k]) /\ at[k] <= m + 1
             /\ Number(b, at[k - 1]) = Len(strings[k])
             /\ SubSeq(b, at[k - 1] + 4, at[k] - 1) = strings[k]
    BY <1>1 DEF Walk
  <1>5. /\ next[N + 1] = m + 5 + l /\ next[N] = m + 1 /\ next[0] = first
        /\ \A k \in 0 .. N : next[k] = at[k]
    <2>1. N + 1 \in 0 .. N + 1 /\ N \in 0 .. N + 1 /\ N # N + 1 /\ 0 \in 0 .. N /\ N \in 0 .. N
      OBVIOUS
    <2>2. \A k \in 0 .. N : k \in 0 .. N + 1 /\ k # N + 1
      OBVIOUS
    <2>3. \A k \in 0 .. N : next[k] = at[k]
      BY <1>3, <2>2
    <2>. QED
      BY <1>3, <1>4, <2>1, <2>3
  <1>6. next \in [0 .. N + 1 -> Nat \ {0}]
    <2>1. \A k \in 0 .. N + 1 : k # N + 1 => k \in 0 .. N
      OBVIOUS
    <2>2. m + 5 + l \in Nat \ {0}
      OBVIOUS
    <2>. QED
      BY <1>3, <1>4, <2>1, <2>2
  <1>7. /\ Len(c) = m + 4 + l /\ Number(c, m + 1) = l
        /\ SubSeq(c, m + 5, m + 4 + l) = s
    <2>1. Extended(c, b, s)
      BY AppendedReads
    <2>. QED
      BY <1>1, <2>1, Zenon DEF Extended
  <1>8. ASSUME NEW k \in 1 .. N + 1
        PROVE  /\ next[k] = next[k - 1] + 4 + Len(more[k]) /\ next[k] <= m + 5 + l
               /\ Number(c, next[k - 1]) = Len(more[k])
               /\ SubSeq(c, next[k - 1] + 4, next[k] - 1) = more[k]
    <2>1. CASE k = N + 1
      <3>1. next[k] = m + 5 + l /\ next[k - 1] = m + 1 /\ more[k] = s
        <4>1. k - 1 = N
          BY <2>1
        <4>. QED
          BY <1>2, <1>5, <2>1, <4>1
      <3>2. (m + 1) + 4 = m + 5 /\ (m + 5 + l) - 1 = m + 4 + l /\ m + 5 + l = (m + 1) + 4 + l
        OBVIOUS
      <3>. QED
        BY <1>1, <1>7, <3>1, <3>2
    <2>2. CASE k # N + 1
      <3>1. k \in 1 .. N /\ k \in 0 .. N /\ k - 1 \in 0 .. N
        BY <2>2
      <3>2. next[k] = at[k] /\ next[k - 1] = at[k - 1] /\ more[k] = strings[k]
        BY <1>2, <1>5, <3>1
      <3>3. /\ at[k] = at[k - 1] + 4 + Len(strings[k]) /\ at[k] <= m + 1
            /\ Number(b, at[k - 1]) = Len(strings[k])
            /\ SubSeq(b, at[k - 1] + 4, at[k] - 1) = strings[k]
        BY <1>4, <3>1
      <3>4. PICK i \in Nat \ {0}, j \in Nat \ {0}, z \in Seq(Byte), n \in Nat :
              i = at[k - 1] /\ j = at[k] /\ z = strings[k] /\ n = Len(z)
        <4>1. strings[k] \in Seq(Byte) /\ Len(strings[k]) \in Nat
          <5>1. strings[k] \in Seq(Byte)
            BY <1>1, <3>1, ElementOfSeq
          <5>. QED
            BY <5>1, LenProperties
        <4>2. at[k - 1] \in Nat \ {0} /\ at[k] \in Nat \ {0}
          BY <1>4, <3>1
        <4>. QED
          BY <4>1, <4>2
      <3>5. j = i + 4 + n /\ j <= m + 1 /\ Number(b, i) = n /\ SubSeq(b, i + 4, j - 1) = z
        BY <3>3, <3>4
      <3>6. Number(c, i) = n /\ SubSeq(c, i + 4, j - 1) = z
        <4>1. PICK p \in Nat \ {0}, q \in Nat : p = i + 4 /\ q = j - 1 /\ q <= m /\ i + 3 <= m
          <5>1. i + 4 \in Nat \ {0} /\ j - 1 \in Nat /\ j - 1 <= m /\ i + 3 <= m
            BY <3>5
          <5>. QED
            BY <5>1
        <4>2. i + 3 <= Len(b) /\ q <= Len(b)
          BY <1>1, <4>1
        <4>3. Number(c, i) = Number(b, i)
          BY <4>2, AppendKeeps
        <4>4. SubSeq(c, p, q) = SubSeq(b, p, q)
          BY <4>2, AppendKeeps
        <4>. QED
          BY <3>5, <4>1, <4>3, <4>4, Zenon
      <3>7. j <= m + 5 + l
        BY <3>5
      <3>. QED
        BY <3>2, <3>4, <3>5, <3>6, <3>7
    <2>. QED
      BY <2>1, <2>2
  <1>9. Walk(c, first, more, next)
    <2>1. (m + 4 + l) + 1 = m + 5 + l
      OBVIOUS
    <2>2. Len(c) + 1 = m + 5 + l
      BY <1>7, <2>1
    <2>. QED
      BY <1>2, <1>5, <1>6, <1>8, <2>2 DEF Walk
  <1>. QED
    BY <1>2, <1>9

-----------------------------------------------------------------------------
(* Paths.                                                                     *)

\* What the recursion of DirectoryPath says of d.
Extend(path, d) ==
  (IF Directories[d].parent = None THEN <<>> ELSE path[Directories[d].parent])
  \o Directories[d].name \o Slash

LEMMA ExtendType ==
  ASSUME NEW path, NEW d \in DOMAIN Directories,
         Directories[d].parent = None \/ path[Directories[d].parent] \in Seq(Unit)
  PROVE  Extend(path, d) \in Seq(Unit)
  <1>1. PICK a \in Seq(Unit) :
          a = IF Directories[d].parent = None THEN <<>> ELSE path[Directories[d].parent]
    <2>1. <<>> \in Seq(Unit)
      BY EmptySeq
    <2>. QED
      BY <2>1
  <1>2. PICK b \in Seq(Unit) : b = Directories[d].name
    BY DirectoriesAssumption
  <1>3. a \o b \in Seq(Unit)
    BY ConcatProperties
  <1>4. PICK c \in Seq(Unit) : c = a \o b
    BY <1>3
  <1>5. PICK e \in Seq(Unit) : e = Slash
    BY BundleLookupAssumption
  <1>6. c \o e \in Seq(Unit)
    BY ConcatProperties
  <1>. QED
    BY <1>1, <1>2, <1>4, <1>5, <1>6 DEF Extend

\* The recursion is defined, since no directory is above itself.
LEMMA DirectoryPathType ==
  /\ DirectoryPath = [d \in DOMAIN Directories |-> Extend(DirectoryPath, d)]
  /\ \A d \in DOMAIN Directories : DirectoryPath[d] \in Seq(Unit)
  <1> DEFINE D == DOMAIN Directories
             F(u) == u = [d \in D |-> Extend(u, d)]
             Parent(d) == Directories[d].parent
  <1>1. PICK C \in Nat : C = Cardinality(D)
    BY DirectoriesAssumption, FS_CardinalityType
  <1>2. PICK depth \in [D -> 0 .. C] :
          \A d \in D : Parent(d) = None \/ (Parent(d) \in D /\ depth[Parent(d)] < depth[d])
    BY <1>1, DirectoriesAssumption
  <1> DEFINE T == {n \in Nat : \E g \in [D -> Seq(Unit)] :
                      \A d \in D : depth[d] < n => g[d] = Extend(g, d)}
  <1>3. ASSUME NEW n \in Nat, \A k \in 0 .. n - 1 : k \in T PROVE n \in T
    <2>1. CASE n = 0
      <3>1. PICK g : g = [d \in D |-> <<>>]
        OBVIOUS
      <3>2. g \in [D -> Seq(Unit)]
        BY <3>1, EmptySeq
      <3>3. \A d \in D : ~(depth[d] < n)
        BY <2>1
      <3>. QED
        BY <3>2, <3>3
    <2>2. CASE n # 0
      <3>1. PICK m \in Nat : n = m + 1 /\ m \in 0 .. n - 1
        <4>1. n - 1 \in Nat /\ n = (n - 1) + 1 /\ n - 1 \in 0 .. n - 1
          BY <2>2
        <4>. QED
          BY <4>1
      <3>2. m \in T
        <4>. HIDE DEF T
        <4>. QED
          BY <1>3, <3>1
      <3>3. PICK g \in [D -> Seq(Unit)] : \A d \in D : depth[d] < m => g[d] = Extend(g, d)
        BY <3>2
      <3>4. PICK h : h = [d \in D |-> Extend(g, d)]
        OBVIOUS
      <3>5. h \in [D -> Seq(Unit)]
        <4>1. ASSUME NEW d \in D PROVE Extend(g, d) \in Seq(Unit)
          <5>1. Parent(d) = None \/ g[Parent(d)] \in Seq(Unit)
            BY <1>2
          <5>. QED
            BY <5>1, ExtendType
        <4>. QED
          BY <3>4, <4>1
      <3>6. ASSUME NEW d \in D, depth[d] < n PROVE h[d] = Extend(h, d)
        <4>1. Parent(d) = None \/ h[Parent(d)] = g[Parent(d)]
          <5>. SUFFICES ASSUME Parent(d) # None PROVE h[Parent(d)] = g[Parent(d)]
            OBVIOUS
          <5>1. PICK p \in D : p = Parent(d) /\ depth[p] < depth[d]
            BY <1>2
          <5>2. depth[p] < m
            <6>1. depth[p] \in Int /\ depth[d] \in Int
              BY <1>2
            <6>. QED
              BY <3>1, <3>6, <5>1, <6>1
          <5>. QED
            BY <3>3, <3>4, <5>1, <5>2
        <4>2. Extend(h, d) = Extend(g, d)
          BY <4>1, Zenon DEF Extend
        <4>. QED
          BY <3>4, <4>2
      <3>. QED
        BY <3>5, <3>6
    <2>. QED
      BY <2>1, <2>2
  <1>4. \E u : F(u)
    <2>1. C + 1 \in T
      <3>1. \A n \in Nat : n \in T
        <4>. HIDE DEF T
        <4>. QED
          BY <1>3, Induction
      <3>2. C + 1 \in Nat
        OBVIOUS
      <3>. HIDE DEF T
      <3>. QED
        BY <3>1, <3>2
    <2>2. PICK g \in [D -> Seq(Unit)] : \A d \in D : depth[d] < C + 1 => g[d] = Extend(g, d)
      BY <2>1
    <2>3. \A d \in D : depth[d] < C + 1
      BY <1>2
    <2>. QED
      BY <2>2, <2>3
  <1>5. F(DirectoryPath)
    <2> DEFINE chosen == CHOOSE u : F(u)
    <2>1. F(chosen)
      <3>. HIDE DEF F
      <3>. QED
        BY <1>4
    <2>2. DirectoryPath = chosen
      BY Zenon DEF DirectoryPath, Extend
    <2>. HIDE DEF chosen
    <2>. QED
      BY <2>1, <2>2
  <1>6. PICK u : u = DirectoryPath /\ F(u)
    BY <1>5
  <1> DEFINE T2 == {n \in Nat : \A d \in D : depth[d] = n => u[d] \in Seq(Unit)}
  <1>7. ASSUME NEW n \in Nat, \A k \in 0 .. n - 1 : k \in T2 PROVE n \in T2
    <2>. SUFFICES ASSUME NEW d \in D, depth[d] = n PROVE u[d] \in Seq(Unit)
      OBVIOUS
    <2>1. Parent(d) = None \/ u[Parent(d)] \in Seq(Unit)
      <3>. SUFFICES ASSUME Parent(d) # None PROVE u[Parent(d)] \in Seq(Unit)
        OBVIOUS
      <3>1. PICK p \in D : p = Parent(d) /\ depth[p] < n
        BY <1>2
      <3>2. PICK k \in 0 .. n - 1 : k = depth[p]
        <4>1. depth[p] \in 0 .. C
          BY <1>2
        <4>. QED
          BY <3>1, <4>1
      <3>3. k \in T2
        <4>. HIDE DEF T2
        <4>. QED
          BY <1>7
      <3>. QED
        BY <3>1, <3>2, <3>3
    <2>2. Extend(u, d) \in Seq(Unit)
      BY <2>1, ExtendType
    <2>3. u[d] = Extend(u, d)
      BY <1>6
    <2>. QED
      BY <2>2, <2>3
  <1>8. \A d \in D : u[d] \in Seq(Unit)
    <2>1. \A n \in Nat : n \in T2
      <3>. HIDE DEF T2
      <3>. QED
        BY <1>7, Induction
    <2>2. \A d \in D : depth[d] \in Nat
      BY <1>2
    <2>. QED
      BY <2>1, <2>2
  <1>. QED
    BY <1>5, <1>6, <1>8

LEMMA PathOfType ==
  ASSUME NEW d \in DOMAIN Directories \cup {None}
  PROVE  PathOf(d) \in Text
  <1>1. CASE d = None
    <2>1. <<>> \in Seq(Unit) /\ Len(<<>>) = 0 /\ 0 <= MaxText
      BY EmptySeq DEF MaxText
    <2>. QED
      BY <1>1, <2>1 DEF PathOf, Text
  <1>2. CASE d # None
    BY <1>2, DirectoryPathType, DirectoriesAssumption DEF PathOf, Text
  <1>. QED
    BY <1>1, <1>2

-----------------------------------------------------------------------------
(* What the lookups return.                                                   *)

FilePath(n) ==
  IF bundle_file_find(n) = None THEN NotFound
  ELSE PathOf(bundle_file_find(n).directory) \o bundle_file_find(n).name

BundlePath(n) == IF bundle_file_identify(n) = None THEN NotFound ELSE bundle_file_identify(n)

\* What ends the game at an index: a bundle that is not there, or a text.
Missing(n) ==
  /\ bundle_file_mapping(n) # None /\ bundle_file_identify(n) = None
  /\ manager.locations[bundle_file_mapping(n)] < manager.bundle_count

Throws(n) ==
  \/ /\ bundle_file_find(n) # None
     /\ MayThrow(<<PathOf(bundle_file_find(n).directory), bundle_file_find(n).name>>)
  \/ bundle_file_identify(n) # None /\ MayThrow(<<bundle_file_identify(n)>>)

LEMMA LookupTypes ==
  ASSUME manager \in Managers, NEW n \in Indexes
  PROVE  /\ bundle_file_find(n) = None \/ IsFileObject(bundle_file_find(n))
         /\ bundle_file_identify(n) = None \/ bundle_file_identify(n) \in Text
  <1>1. n \in Nat
    BY BundleLookupAssumption
  <1>2. PICK m \in Managers : m = manager
    OBVIOUS
  <1>3. m.file_count \in Nat /\ m.mapping_count \in Nat /\ m.bundle_count \in Nat
    BY BundleLookupAssumption
  <1>4. bundle_file_find(n) = None \/ IsFileObject(bundle_file_find(n))
    <2>. SUFFICES ASSUME bundle_file_find(n) # None PROVE IsFileObject(bundle_file_find(n))
      OBVIOUS
    <2>1. bundle_file_find(n) = m.files[n] /\ n < m.file_count
      BY <1>2 DEF bundle_file_find
    <2>2. n \in 0 .. m.file_count - 1
      BY <1>1, <1>3, <2>1
    <2>3. m.files[n] = None \/ IsFileObject(m.files[n])
      BY <2>2, BundleLookupAssumption
    <2>. QED
      BY <2>1, <2>3
  <1>5. bundle_file_identify(n) = None \/ bundle_file_identify(n) \in Text
    <2>. SUFFICES ASSUME bundle_file_identify(n) # None PROVE bundle_file_identify(n) \in Text
      OBVIOUS
    <2>1. bundle_file_mapping(n) # None
      BY DEF bundle_file_identify
    <2>2. /\ n < m.mapping_count /\ m.mappings[n] # 0
          /\ bundle_file_mapping(n) = m.mappings[n]
      BY <1>2, <2>1 DEF bundle_file_mapping
    <2>3. n \in 0 .. m.mapping_count - 1
      BY <1>1, <1>3, <2>2
    <2>4. PICK b \in Nat : b = m.locations[m.mappings[n]]
      BY <2>2, <2>3, BundleLookupAssumption
    <2>5. bundle_file_identify(n) = m.bundles[b] /\ b < m.bundle_count
      BY <1>2, <2>1, <2>2, <2>4 DEF bundle_file_identify, BundleOf
    <2>6. b \in 0 .. m.bundle_count - 1
      BY <1>3, <2>5
    <2>7. m.bundles[b] = None \/ IsText(m.bundles[b])
      BY <2>6, BundleLookupAssumption
    <2>. QED
      BY <2>5, <2>7 DEF IsText, Text
  <1>. QED
    BY <1>4, <1>5

LEMMA PathTypes ==
  ASSUME manager \in Managers, NEW n \in Indexes
  PROVE  FilePath(n) \in Text /\ BundlePath(n) \in Text
  <1>1. NotFound \in Text
    BY BundleLookupAssumption DEF IsText, Text
  <1>2. FilePath(n) \in Text
    BY <1>1, LookupTypes DEF FilePath, IsFileObject, IsText, Text
  <1>3. BundlePath(n) \in Text
    BY <1>1, LookupTypes DEF BundlePath
  <1>. QED
    BY <1>2, <1>3

\* A path that does not convert has a part that does not.
LEMMA ThrowingPart ==
  ASSUME NEW a \in Seq(Unit), NEW b \in Seq(Unit), MayThrow(<<a \o b>>)
  PROVE  MayThrow(<<a, b>>)
  <1>1. PICK c : c = a \o b
    OBVIOUS
  <1>2. PICK u : u \in ToSet(c) /\ IsSurrogate(u)
    <2>1. PICK w : w = <<c>>
      OBVIOUS
    <2>2. DOMAIN w = {1} /\ w[1] = c
      BY <2>1
    <2>3. MayThrow(w)
      BY <1>1, <2>1
    <2>. QED
      BY <2>2, <2>3 DEF MayThrow
  <1>3. /\ c \in Seq(Unit) /\ Len(c) = Len(a) + Len(b)
        /\ \A i \in 1 .. Len(a) + Len(b) : c[i] = IF i <= Len(a) THEN a[i] ELSE b[i - Len(a)]
    BY <1>1, ConcatProperties
  <1>4. PICK i \in 1 .. Len(a) + Len(b) : u = c[i]
    BY <1>2, <1>3 DEF ToSet
  <1>5. u \in ToSet(a) \/ u \in ToSet(b)
    <2>1. CASE i <= Len(a)
      <3>1. i \in 1 .. Len(a) /\ u = a[i]
        BY <1>3, <1>4, <2>1
      <3>. QED
        BY <3>1 DEF ToSet
    <2>2. CASE ~(i <= Len(a))
      <3>1. i - Len(a) \in 1 .. Len(b) /\ u = b[i - Len(a)]
        BY <1>3, <1>4, <2>2
      <3>. QED
        BY <3>1 DEF ToSet
    <2>. QED
      BY <2>1, <2>2
  <1>6. PICK s : s = <<a, b>>
    OBVIOUS
  <1>7. DOMAIN s = {1, 2} /\ s[1] = a /\ s[2] = b
    BY <1>6
  <1>8. MayThrow(s)
    BY <1>2, <1>5, <1>7 DEF MayThrow
  <1>. QED
    BY <1>6, <1>8

-----------------------------------------------------------------------------
(* The invariant.                                                             *)

Phases == {"idle", "file", "bundle", "respond", "list", "answered 11", "answered 6", "terminated"}

\* What message 10 has found out so far is what the helpers say.
FoundRight ==
  /\ manager \in Managers /\ asked \in Indexes \cup {None} /\ stored \in BOOLEAN
  /\ file_index \in Indexes /\ phase \in Phases
  /\ phase \in {"idle", "list", "answered 6"} => asked = None
  /\ phase \in {"file", "bundle", "respond", "answered 11"} /\ asked # None => file_index = asked
  /\ phase \in {"idle", "file"} => file_path = NotFound /\ bundle_path = NotFound
  /\ phase = "bundle" => file_path = FilePath(file_index) /\ bundle_path = NotFound
  /\ phase = "respond" =>
       file_path = FilePath(file_index) /\ bundle_path = BundlePath(file_index)
  /\ phase = "answered 11" => texts = <<BundlePath(file_index), FilePath(file_index)>>

\* Message 10 lists nothing, and the game ends for a reason.
EndRight ==
  /\ phase \in {"idle", "file", "bundle", "respond", "answered 11"} => queue = <<>>
  /\ phase = "terminated" =>
       \/ queue = <<>> /\ asked = None /\ ~stored
       \/ queue = <<>> /\ (Missing(file_index) \/ Throws(file_index))
       \/ queue # <<>> /\ Throws(Head(queue))

Wides(ts) == [n \in DOMAIN ts |-> Wide(ts[n])]

\* A client can walk through what has been appended, from its first string on.
Readable(bytes, first, ts) == \E at : Walk(bytes, first, Wides(ts), at)

AnswerRight ==
  /\ response \in Seq(Byte) /\ texts \in Seq(Text)
  /\ queue \in Seq(Indexes) /\ Len(queue) <= MaxListed
  /\ phase \in {"idle", "file", "bundle", "respond"} => texts = <<>>
  /\ phase = "answered 11" => Readable(response, 1, texts)
  /\ phase \in {"list", "answered 6"} =>
       /\ Readable(response, 5, texts) /\ Len(response) >= 4
       /\ Number(response, 1) * 4 = Len(texts) + 4 * Len(queue)
       /\ Len(texts) % 4 = 0
  /\ phase = "answered 6" => queue = <<>>

Inv == FoundRight /\ EndRight /\ AnswerRight

-----------------------------------------------------------------------------
(* What the appending of a string does.                                       *)

LEMMA StringType ==
  ASSUME NEW t \in Text
  PROVE  /\ Wide(t) \in Seq(Byte) /\ Len(Wide(t)) <= 3 * MaxText
         /\ String(t) \in Seq(Byte) /\ Joined(String(t), U32(Len(Wide(t))), Wide(t))
  <1>1. t \in Seq(Unit) /\ Len(t) \in Nat /\ Len(t) <= MaxText
    BY DEF Text
  <1>2. Wide(t) \in Seq(Byte) /\ Len(Wide(t)) <= 3 * Len(t)
    BY <1>1, WideProperties
  <1>3. PICK w \in Seq(Byte) : w = Wide(t) /\ Len(w) \in Nat /\ Len(w) <= 3 * MaxText
    <2>1. Len(Wide(t)) \in Nat
      BY <1>2, LenProperties
    <2>2. Len(Wide(t)) <= 3 * MaxText
      BY <1>1, <1>2, <2>1 DEF MaxText
    <2>. QED
      BY <1>2, <2>1, <2>2
  <1>4. PICK u \in Seq(Byte) : u = U32(Len(w))
    BY <1>3, U32Properties
  <1>5. Joined(u \o w, u, w)
    BY ConcatJoins
  <1>6. u \o w \in Seq(Byte)
    BY <1>5 DEF Joined
  <1>7. String(t) = u \o w
    BY <1>3, <1>4 DEF String
  <1>. QED
    BY <1>3, <1>4, <1>5, <1>6, <1>7

LEMMA WidesAppend ==
  ASSUME NEW ts \in Seq(Text), NEW t \in Text
  PROVE  /\ Wides(ts) \in Seq(Seq(Byte)) /\ Wides(Append(ts, t)) = Append(Wides(ts), Wide(t))
         /\ Append(ts, t) \in Seq(Text) /\ Len(Append(ts, t)) = Len(ts) + 1
  <1>1. PICK n \in Nat : n = Len(ts) /\ DOMAIN ts = 1 .. n
    BY LenProperties
  <1>2. PICK w : w = Wides(ts)
    OBVIOUS
  <1>3. \A k \in 1 .. n : w[k] = Wide(ts[k]) /\ w[k] \in Seq(Byte)
    <2>1. \A k \in 1 .. n : ts[k] \in Text
      BY <1>1, ElementOfSeq
    <2>. QED
      BY <1>1, <1>2, <2>1, StringType DEF Wides
  <1>4. w \in [1 .. n -> Seq(Byte)]
    BY <1>1, <1>2, <1>3 DEF Wides
  <1>5. w \in Seq(Seq(Byte)) /\ Len(w) = n
    BY <1>4
  <1>6. PICK more : /\ more = Append(ts, t) /\ more \in Seq(Text) /\ Len(more) = n + 1
                    /\ DOMAIN more = 1 .. n + 1
                    /\ more[n + 1] = t /\ \A k \in 1 .. n : more[k] = ts[k]
    <2>1. Append(ts, t) \in Seq(Text) /\ Appended(Append(ts, t), ts, t)
      BY AppendAppends
    <2>. QED
      BY <1>1, <2>1, LenProperties DEF Appended
  <1>7. PICK u \in Seq(Byte) : u = Wide(t)
    BY StringType
  <1>8. PICK l : /\ l = Append(w, u) /\ l \in Seq(Seq(Byte)) /\ Len(l) = n + 1
                 /\ l[n + 1] = u /\ \A k \in 1 .. n : l[k] = w[k]
    <2>1. Append(w, u) \in Seq(Seq(Byte)) /\ Appended(Append(w, u), w, u)
      BY <1>5, AppendAppends
    <2>. QED
      BY <1>5, <2>1 DEF Appended
  <1>9. PICK r : r = Wides(more)
    OBVIOUS
  <1>10. r = [k \in 1 .. n + 1 |-> Wide(more[k])]
    BY <1>6, <1>9 DEF Wides
  <1>11. \A k \in 1 .. n + 1 : Wide(more[k]) = l[k]
    <2>1. ASSUME NEW k \in 1 .. n + 1 PROVE Wide(more[k]) = l[k]
      <3>1. CASE k = n + 1
        BY <1>6, <1>7, <1>8, <3>1
      <3>2. CASE k # n + 1
        <4>1. k \in 1 .. n
          BY <3>2
        <4>. QED
          BY <1>3, <1>6, <1>8, <4>1
      <3>. QED
        BY <3>1, <3>2
    <2>. QED
      BY <2>1
  <1>12. l = [k \in 1 .. n + 1 |-> l[k]]
    <2>1. DOMAIN l = 1 .. n + 1
      BY <1>8, LenProperties
    <2>2. l \in [1 .. n + 1 -> Seq(Byte)]
      BY <1>8, LenProperties
    <2>. QED
      BY <2>2
  <1>13. r = l
    BY <1>10, <1>11, <1>12
  <1>. QED
    BY <1>1, <1>2, <1>5, <1>6, <1>7, <1>8, <1>9, <1>13

\* A readable answer stays readable with one more string.
LEMMA ReadableGrows ==
  ASSUME NEW b \in Seq(Byte), NEW first, NEW ts \in Seq(Text), Readable(b, first, ts),
         NEW t \in Text
  PROVE  /\ b \o String(t) \in Seq(Byte) /\ Readable(b \o String(t), first, Append(ts, t))
         /\ Len(b \o String(t)) >= Len(b)
         /\ Len(b) >= 4 => Number(b \o String(t), 1) = Number(b, 1)
         /\ Append(ts, t) \in Seq(Text) /\ Len(Append(ts, t)) = Len(ts) + 1
  <1>1. PICK s \in Seq(Byte), m \in Seq(Byte) :
          /\ s = Wide(t) /\ Len(s) <= 3 * MaxText /\ m = String(t) /\ Joined(m, U32(Len(s)), s)
    BY StringType
  <1>2. PICK c : c = b \o m /\ Joined(c, b, m)
    BY ConcatJoins
  <1>3. PICK w \in Seq(Seq(Byte)) : w = Wides(ts)
    BY WidesAppend
  <1>4. PICK at : Walk(b, first, w, at)
    BY <1>3 DEF Readable
  <1>5. \E next : Walk(c, first, Append(w, s), next)
    BY <1>1, <1>2, <1>4, WalkGrows
  <1>6. Append(w, s) = Wides(Append(ts, t))
    BY <1>1, <1>3, WidesAppend
  <1>7. Readable(c, first, Append(ts, t))
    BY <1>5, <1>6 DEF Readable
  <1>8. c \in Seq(Byte) /\ Len(c) >= Len(b)
    <2>1. c \in Seq(Byte) /\ Len(c) = Len(b) + Len(m)
      BY <1>2 DEF Joined
    <2>2. Len(b) \in Nat /\ Len(m) \in Nat
      BY LenProperties
    <2>. QED
      BY <2>1, <2>2
  <1>9. ASSUME Len(b) >= 4 PROVE Number(c, 1) = Number(b, 1)
    <2>1. PICK i \in Nat \ {0}, j \in Nat : i = 1 /\ j = 0
      OBVIOUS
    <2>2. i + 3 <= Len(b) /\ j <= Len(b)
      BY <1>9, <2>1, LenProperties
    <2>3. Number(c, i) = Number(b, i)
      BY <1>2, <2>2, AppendKeeps
    <2>. QED
      BY <2>1, <2>3
  <1>10. Append(ts, t) \in Seq(Text) /\ Len(Append(ts, t)) = Len(ts) + 1
    BY WidesAppend
  <1>. QED
    BY <1>1, <1>2, <1>7, <1>8, <1>9, <1>10
\* Nothing is appended yet.
LEMMA ReadableStarts ==
  ASSUME NEW b \in Seq(Byte), NEW first, first = Len(b) + 1
  PROVE  Readable(b, first, <<>>)
  <1>1. PICK e : e = <<>> /\ e \in Seq(Text) /\ Len(e) = 0
    BY EmptySeq
  <1>2. Wides(e) = <<>>
    <2>1. DOMAIN e = {}
      BY <1>1
    <2>2. Wides(e) = [k \in {} |-> Wide(e[k])]
      BY <2>1 DEF Wides
    <2>3. PICK w : w = Wides(e)
      OBVIOUS
    <2>4. w \in [1 .. 0 -> Text]
      BY <2>2, <2>3
    <2>5. w \in Seq(Text) /\ Len(w) = 0
      BY <2>4
    <2>. QED
      BY <2>3, <2>5, EmptySeq
  <1>. QED
    BY <1>1, <1>2, WalkStarts DEF Readable

LEMMA ConcatAppends ==
  ASSUME NEW S, NEW s \in Seq(S), NEW t \in Seq(S), NEW e \in S
  PROVE  s \o Append(t, e) = Append(s \o t, e)
  <1>1. PICK u \in Seq(S) : u = <<e>>
    <2>1. <<e>> \in Seq(S)
      OBVIOUS
    <2>. QED
      BY <2>1
  <1>2. PICK v \in Seq(S) : v = s \o t
    BY ConcatProperties
  <1>3. Append(t, e) = t \o u /\ Append(v, e) = v \o u
    BY <1>1, AppendIsConcat
  <1>4. (s \o t) \o u = s \o (t \o u)
    BY ConcatAssociative
  <1>. QED
    BY <1>2, <1>3, <1>4

LEMMA Tuples ==
  ASSUME NEW S, NEW w \in S, NEW x \in S, NEW y \in S, NEW z \in S
  PROVE  /\ <<w, x>> \in Seq(S) /\ <<w, x, y>> \in Seq(S)
         /\ <<w, x>> = Append(<<w>>, x) /\ <<w, x, y>> = Append(<<w, x>>, y)
         /\ <<w, x, y, z>> = Append(<<w, x, y>>, z)
  <1>1. <<w, x>> \in Seq(S)
    OBVIOUS
  <1>2. <<w, x, y>> \in Seq(S)
    OBVIOUS
  <1>3. <<w, x>> = Append(<<w>>, x)
    OBVIOUS
  <1>4. <<w, x, y>> = Append(<<w, x>>, y)
    OBVIOUS
  <1>5. <<w, x, y, z>> = Append(<<w, x, y>>, z)
    OBVIOUS
  <1>. QED
    BY <1>1, <1>2, <1>3, <1>4, <1>5

\* One string more, in an answer that starts with a number.
OneMore(c, u, b, ts, t, first) ==
  /\ c = b \o String(t) /\ u = Append(ts, t) /\ Len(u) = Len(ts) + 1 /\ Len(c) >= 4
  /\ Readable(c, first, u) /\ Number(c, 1) = Number(b, 1)

LEMMA OneMoreGrows ==
  ASSUME NEW b \in Seq(Byte), Len(b) >= 4, NEW first, NEW ts \in Seq(Text),
         Readable(b, first, ts), NEW t \in Text
  PROVE  \E c \in Seq(Byte), u \in Seq(Text) : OneMore(c, u, b, ts, t, first)
  <1>1. PICK c, u : c = b \o String(t) /\ u = Append(ts, t)
    OBVIOUS
  <1>2. /\ c \in Seq(Byte) /\ Readable(c, first, u) /\ Len(c) >= Len(b)
        /\ Number(c, 1) = Number(b, 1)
        /\ u \in Seq(Text) /\ Len(u) = Len(ts) + 1
    BY <1>1, ReadableGrows, Zenon
  <1>3. Len(c) >= 4
    BY <1>2, LenProperties
  <1>. QED
    BY <1>1, <1>2, <1>3, Zenon DEF OneMore

\* An entry of a listing is four strings.
FourMore(c, u, b, ts, w, x, y, z, first) ==
  /\ c = b \o String(w) \o String(x) \o String(y) \o String(z)
  /\ u = ts \o <<w, x, y, z>> /\ Len(u) = Len(ts) + 4 /\ Len(c) >= 4
  /\ Readable(c, first, u) /\ Number(c, 1) = Number(b, 1)

LEMMA EntryGrows ==
  ASSUME NEW b \in Seq(Byte), Len(b) >= 4, NEW first, NEW ts \in Seq(Text),
         Readable(b, first, ts),
         NEW w \in Text, NEW x \in Text, NEW y \in Text, NEW z \in Text
  PROVE  \E c \in Seq(Byte), u \in Seq(Text) : FourMore(c, u, b, ts, w, x, y, z, first)
  <1>1. /\ <<w, x>> \in Seq(Text) /\ <<w, x, y>> \in Seq(Text)
        /\ <<w, x>> = Append(<<w>>, x) /\ <<w, x, y>> = Append(<<w, x>>, y)
        /\ <<w, x, y, z>> = Append(<<w, x, y>>, z)
    BY Tuples
  <1>2. \A s \in Seq(Text), e \in Text : ts \o Append(s, e) = Append(ts \o s, e)
    BY ConcatAppends
  <1>3. PICK b1 \in Seq(Byte), t1 \in Seq(Text) : OneMore(b1, t1, b, ts, w, first)
    BY OneMoreGrows, Zenon
  <1>4. Readable(b1, first, t1) /\ Len(b1) >= 4
    BY <1>3 DEF OneMore
  <1>5. PICK b2 \in Seq(Byte), t2 \in Seq(Text) : OneMore(b2, t2, b1, t1, x, first)
    BY <1>4, OneMoreGrows, Zenon
  <1>6. Readable(b2, first, t2) /\ Len(b2) >= 4
    BY <1>5 DEF OneMore
  <1>7. PICK b3 \in Seq(Byte), t3 \in Seq(Text) : OneMore(b3, t3, b2, t2, y, first)
    BY <1>6, OneMoreGrows, Zenon
  <1>8. Readable(b3, first, t3) /\ Len(b3) >= 4
    BY <1>7 DEF OneMore
  <1>9. PICK b4 \in Seq(Byte), t4 \in Seq(Text) : OneMore(b4, t4, b3, t3, z, first)
    BY <1>8, OneMoreGrows, Zenon
  <1>10. t4 = ts \o <<w, x, y, z>>
    <2>1. PICK u1 \in Seq(Text) : u1 = <<w>>
      <3>1. <<w>> \in Seq(Text)
        OBVIOUS
      <3>. QED
        BY <3>1
    <2>2. PICK u2 \in Seq(Text) : u2 = <<w, x>> /\ u2 = Append(u1, x)
      BY <1>1, <2>1, Zenon
    <2>3. PICK u3 \in Seq(Text) : u3 = <<w, x, y>> /\ u3 = Append(u2, y)
      BY <1>1, <2>2, Zenon
    <2>4. <<w, x, y, z>> = Append(<<w, x, y>>, z)
      BY <1>1, Zenon
    <2>5. t1 = Append(ts, w) /\ t2 = Append(t1, x) /\ t3 = Append(t2, y) /\ t4 = Append(t3, z)
      BY <1>3, <1>5, <1>7, <1>9, Zenon DEF OneMore
    <2>6. Append(ts, w) = ts \o u1
      BY <2>1, AppendIsConcat, Zenon
    <2>7. t2 = ts \o u2
      <3>1. ts \o Append(u1, x) = Append(ts \o u1, x)
        BY <1>2, Zenon
      <3>. QED
        BY <2>2, <2>5, <2>6, <3>1, Zenon
    <2>8. t3 = ts \o u3
      <3>1. ts \o Append(u2, y) = Append(ts \o u2, y)
        BY <1>2, Zenon
      <3>. QED
        BY <2>3, <2>5, <2>7, <3>1, Zenon
    <2>9. t4 = ts \o Append(u3, z)
      <3>1. ts \o Append(u3, z) = Append(ts \o u3, z)
        BY <1>2, Zenon
      <3>. QED
        BY <2>5, <2>8, <3>1, Zenon
    <2>. QED
      BY <2>3, <2>4, <2>9, Zenon
  <1>11. Len(t4) = Len(ts) + 4
    <2>1. PICK n \in Nat : n = Len(ts)
      BY LenProperties
    <2>2. /\ Len(t1) = Len(ts) + 1 /\ Len(t2) = Len(t1) + 1
          /\ Len(t3) = Len(t2) + 1 /\ Len(t4) = Len(t3) + 1
      BY <1>3, <1>5, <1>7, <1>9, Zenon DEF OneMore
    <2>. QED
      BY <2>1, <2>2
  <1>12. /\ b4 = b \o String(w) \o String(x) \o String(y) \o String(z)
         /\ Number(b4, 1) = Number(b, 1) /\ Len(b4) >= 4 /\ Readable(b4, first, t4)
    BY <1>3, <1>5, <1>7, <1>9, Zenon DEF OneMore
  <1>. QED
    BY <1>10, <1>11, <1>12, Zenon DEF FourMore

\* The answers' beginnings: a number, and what message 10 puts into its own.
LEMMA NumberReads ==
  ASSUME NEW n \in Nat, n <= MaxText
  PROVE  /\ U32(n) \in Seq(Byte) /\ Len(U32(n)) = 4 /\ Number(U32(n), 1) = n
         /\ Readable(U32(n), 5, <<>>)
  <1>1. n <= 3 * MaxText
    BY DEF MaxText
  <1>2. PICK u \in Seq(Byte) :
          /\ u = U32(n) /\ Len(u) = 4
          /\ u[1] + 256 * u[2] + 65536 * u[3] + 16777216 * u[4] = n
    BY <1>1, U32Properties
  <1>3. Number(u, 1) = n
    BY <1>2 DEF Number
  <1>4. Readable(u, 5, <<>>)
    <2>1. PICK first : first = 5 /\ first = Len(u) + 1
      BY <1>2
    <2>2. Readable(u, first, <<>>)
      BY <2>1, ReadableStarts, Zenon
    <2>. QED
      BY <2>1, <2>2, Zenon
  <1>. QED
    BY <1>2, <1>3, <1>4

LEMMA PairReads ==
  ASSUME NEW a \in Text, NEW f \in Text
  PROVE  /\ String(a) \o String(f) \in Seq(Byte) /\ <<a, f>> \in Seq(Text)
         /\ Readable(String(a) \o String(f), 1, <<a, f>>)
  <1>1. PICK e : e = <<>> /\ e \in Seq(Byte) /\ Len(e) = 0
    BY EmptySeq
  <1>2. PICK z \in Seq(Text) : z = <<>>
    BY EmptySeq
  <1>3. Readable(e, 1, z)
    <2>1. PICK first : first = 1 /\ first = Len(e) + 1
      BY <1>1
    <2>2. Readable(e, first, <<>>)
      BY <1>1, <2>1, ReadableStarts, Zenon
    <2>. QED
      BY <1>2, <2>1, <2>2, Zenon
  <1>4. PICK b \in Seq(Byte), s \in Seq(Text) :
          b = e \o String(a) /\ s = Append(z, a) /\ Readable(b, 1, s)
    <2>1. /\ e \o String(a) \in Seq(Byte) /\ Append(z, a) \in Seq(Text)
          /\ Readable(e \o String(a), 1, Append(z, a))
      BY <1>1, <1>3, ReadableGrows, Zenon
    <2>. QED
      BY <2>1, Zenon
  <1>5. PICK c \in Seq(Byte), t \in Seq(Text) :
          c = b \o String(f) /\ t = Append(s, f) /\ Readable(c, 1, t)
    <2>1. /\ b \o String(f) \in Seq(Byte) /\ Append(s, f) \in Seq(Text)
          /\ Readable(b \o String(f), 1, Append(s, f))
      BY <1>4, ReadableGrows, Zenon
    <2>. QED
      BY <2>1, Zenon
  <1>6. b = String(a)
    BY <1>1, <1>4, StringType, ConcatEmptySeq, Zenon
  <1>7. s = <<a>>
    BY <1>2, <1>4
  <1>8. <<a, f>> = Append(<<a>>, f)
    BY Tuples
  <1>. QED
    BY <1>5, <1>6, <1>7, <1>8, Zenon

LEMMA DigitIsUnit == ASSUME NEW i \in Int PROVE i % 256 \in Unit
  BY SMT DEF Unit

LEMMA NumberIsText ==
  ASSUME NEW n \in Nat
  PROVE  U32(n) \in Text
  <1>1. n \in Int /\ \A i \in Int : i % 256 \in Unit
    BY DigitIsUnit
  <1>2. PICK p \in Int, q \in Int, r \in Int :
          p = n \div 256 /\ q = n \div 65536 /\ r = n \div 16777216
    BY SMT
  <1>3. PICK a \in Unit, b \in Unit, c \in Unit, d \in Unit :
          a = n % 256 /\ b = p % 256 /\ c = q % 256 /\ d = r % 256
    <2>1. n % 256 \in Unit /\ p % 256 \in Unit /\ q % 256 \in Unit /\ r % 256 \in Unit
      BY <1>1, Zenon
    <2>. QED
      BY Zenon, <2>1
  <1>4. U32(n) = <<a, b, c, d>>
    BY <1>2, <1>3 DEF U32
  <1>5. <<a, b, c, d>> \in Seq(Unit) /\ Len(<<a, b, c, d>>) = 4
    OBVIOUS
  <1>6. 4 <= MaxText
    BY DEF MaxText
  <1>. QED
    BY <1>4, <1>5, <1>6 DEF Text

LEMMA FourTogether ==
  ASSUME NEW S, NEW w \in S, NEW x \in S, NEW y \in S, NEW z \in S
  PROVE  <<w>> \o <<x, y>> \o <<z>> = <<w, x, y, z>>
  <1>1. <<w, x, y, z>> = Append(<<w, x, y>>, z)
    OBVIOUS
  <1>2. PICK a \in Seq(S), b \in Seq(S), c \in Seq(S) : a = <<w>> /\ b = <<x, y>> /\ c = <<w, x, y>>
    <2>1. <<w>> \in Seq(S)
      OBVIOUS
    <2>2. <<x, y>> \in Seq(S)
      OBVIOUS
    <2>3. <<w, x, y>> \in Seq(S)
      OBVIOUS
    <2>. QED
      BY <2>1, <2>2, <2>3, Zenon
  <1>3. a \o b = c
    <2>1. PICK t \in Seq(S) : t = a \o b
      BY ConcatProperties
    <2>2. Len(t) = 3 /\ t[1] = w /\ t[2] = x /\ t[3] = y
      <3>1. Len(a) = 1 /\ Len(b) = 2 /\ a[1] = w /\ b[1] = x /\ b[2] = y
        BY <1>2
      <3>2. /\ Len(t) = Len(a) + Len(b)
            /\ \A i \in 1 .. Len(a) + Len(b) : t[i] = IF i <= Len(a) THEN a[i] ELSE b[i - Len(a)]
        BY <2>1, ConcatProperties
      <3>. QED
        BY <3>1, <3>2
    <2>3. Len(c) = 3 /\ c[1] = w /\ c[2] = x /\ c[3] = y
      BY <1>2
    <2>4. \A i \in 1 .. Len(t) : t[i] = c[i]
      BY <2>2, <2>3
    <2>5. Len(t) = Len(c)
      BY <2>2, <2>3
    <2>6. t = c
      BY <2>4, <2>5, SeqEqual
    <2>. QED
      BY <2>1, <2>6
  <1>4. c \o <<z>> = Append(c, z)
    BY AppendIsConcat
  <1>. QED
    BY <1>1, <1>2, <1>3, <1>4, Zenon

-----------------------------------------------------------------------------
(* The steps.                                                                 *)

LEMMA InitRight == Init => Inv
  <1>. SUFFICES ASSUME Init PROVE Inv
    OBVIOUS
  <1>1. FoundRight
    BY BundleLookupAssumption DEF Init, FoundRight, Phases
  <1>2. AnswerRight
    <2>1. Len(<<>>) = 0 /\ 0 <= MaxListed
      BY BundleLookupAssumption
    <2>2. response \in Seq(Byte) /\ texts \in Seq(Text) /\ queue \in Seq(Indexes)
      BY EmptySeq DEF Init
    <2>. QED
      BY <2>1, <2>2 DEF Init, AnswerRight
  <1>3. EndRight
    BY DEF Init, EndRight
  <1>. QED
    BY <1>1, <1>2, <1>3 DEF Inv

\* The engine changes nothing that the lookups read.
LEMMA LookupsStable ==
  ASSUME manager' = manager, NEW n
  PROVE  /\ FilePath(n)' = FilePath(n) /\ BundlePath(n)' = BundlePath(n)
         /\ Missing(n)' <=> Missing(n)
         /\ Throws(n)' <=> Throws(n)
  <1>1. /\ bundle_file_find(n)' = bundle_file_find(n)
        /\ bundle_file_mapping(n)' = bundle_file_mapping(n)
        /\ bundle_file_identify(n)' = bundle_file_identify(n)
    BY DEF bundle_file_find, bundle_file_mapping, bundle_file_identify, BundleOf
  <1>. QED
    BY <1>1 DEF FilePath, BundlePath, Missing, Throws

LEMMA AskFileKeeps ==
  ASSUME Inv, AskFile
  PROVE  Inv'
  <1>1. asked' \in Indexes \cup {None} /\ stored' \in BOOLEAN /\ file_index' \in Indexes
    BY DEF AskFile, Inv, FoundRight
  <1>2. FoundRight'
    BY <1>1 DEF AskFile, Inv, FoundRight, Phases
  <1>3. AnswerRight'
    BY DEF AskFile, Inv, AnswerRight
  <1>4. EndRight'
    BY DEF AskFile, Inv, EndRight
  <1>. QED
    BY <1>2, <1>3, <1>4 DEF Inv

LEMMA FindFileKeeps ==
  ASSUME Inv, FindFile
  PROVE  Inv'
  <1>1. PICK n \in Indexes : n = file_index /\ (asked # None => asked = n)
    BY DEF Inv, FoundRight, FindFile
  <1>2. /\ manager \in Managers /\ manager' = manager /\ asked' = asked /\ stored' = stored
        /\ file_index' = n
    BY <1>1 DEF Inv, FoundRight, FindFile, Keep
  <1>3. bundle_file_find(n) = IF IsFile(n) THEN manager.files[n] ELSE None
    BY DEF bundle_file_find, IsFile
  <1>4. phase = "file" /\ bundle_path = NotFound /\ bundle_path' = bundle_path
    BY DEF Inv, FoundRight, FindFile
  <1>5. CASE phase' = "bundle"
    <2>1. file_path' = FilePath(n)
      BY <1>1, <1>3, <1>4, <1>5 DEF FindFile, FilePath, Inv, FoundRight
    <2>2. file_path' = FilePath(n)'
      BY <1>2, <2>1, LookupsStable
    <2>3. EndRight'
      BY <1>4, <1>5 DEF Inv, EndRight, FindFile
    <2>. QED
      BY <1>1, <1>2, <1>4, <1>5, <2>2, <2>3 DEF Inv, FoundRight, AnswerRight, Phases, FindFile
  <1>6. CASE phase' = "terminated"
    <2>1. PICK file : file = bundle_file_find(n) /\ file # None
                      /\ MayThrow(<<PathOf(file.directory) \o file.name>>)
      BY <1>1, <1>3, <1>6 DEF FindFile
    <2>2. IsFileObject(file)
      BY <1>2, <2>1, LookupTypes
    <2>3. PICK a \in Seq(Unit), b \in Seq(Unit) : a = PathOf(file.directory) /\ b = file.name
      BY <2>2, PathOfType DEF IsFileObject, IsText, Text
    <2>4. MayThrow(<<a, b>>)
      BY <2>1, <2>3, ThrowingPart
    <2>5. Throws(n)
      BY <2>1, <2>3, <2>4 DEF Throws
    <2>6. Throws(n)'
      BY <1>2, <2>5, LookupsStable
    <2>7. queue' = <<>>
      BY <1>4 DEF Inv, EndRight, FindFile
    <2>8. EndRight'
      BY <1>2, <1>6, <2>6, <2>7 DEF EndRight
    <2>. QED
      BY <1>1, <1>2, <1>4, <1>6, <2>8 DEF Inv, FoundRight, AnswerRight, Phases, FindFile
  <1>. QED
    BY <1>5, <1>6 DEF FindFile

LEMMA FindBundleKeeps ==
  ASSUME Inv, FindBundle
  PROVE  Inv'
  <1>1. PICK n \in Indexes : n = file_index /\ (asked # None => asked = n)
    BY DEF Inv, FoundRight, FindBundle
  <1>2. /\ manager \in Managers /\ manager' = manager /\ asked' = asked /\ stored' = stored
        /\ file_index' = n
    BY <1>1 DEF Inv, FoundRight, FindBundle, Keep
  <1>3. /\ phase = "bundle" /\ bundle_path = NotFound /\ file_path = FilePath(n)
        /\ file_path' = file_path
    BY <1>1 DEF Inv, FoundRight, FindBundle
  <1> DEFINE mapped == n < manager.mapping_count /\ manager.mappings[n] # 0
             b == manager.locations[manager.mappings[n]]
  <1>4. mapped => manager.mappings[n] # None
    <2>1. PICK m \in Managers : m = manager
      BY <1>2
    <2>2. n \in Nat /\ m.mapping_count \in Nat
      BY BundleLookupAssumption
    <2>3. n < m.mapping_count => n \in 0 .. m.mapping_count - 1
      BY <2>2
    <2>. QED
      BY <2>1, <2>3, BundleLookupAssumption
  <1>5. bundle_file_mapping(n) = IF mapped THEN manager.mappings[n] ELSE None
    BY DEF bundle_file_mapping
  <1>6. bundle_file_identify(n)
          = IF mapped /\ b < manager.bundle_count THEN manager.bundles[b] ELSE None
    BY <1>4, <1>5 DEF bundle_file_identify, BundleOf
  <1>7. CASE phase' = "respond"
    <2>1. bundle_path' = BundlePath(n)
      <3>1. CASE mapped
        <4>1. PICK k \in Nat, l \in Nat : k = b /\ l = manager.bundle_count
          <5>1. n \in Nat /\ n \in 0 .. manager.mapping_count - 1
            BY <1>2, <3>1, BundleLookupAssumption
          <5>2. b \in Nat /\ manager.bundle_count \in Nat
            BY <1>2, <3>1, <5>1, BundleLookupAssumption
          <5>. QED
            BY <5>2
        <4>2. IsBundle(b) <=> k < l
          BY <4>1 DEF IsBundle
        <4>3. CASE k < l
          <5>1. bundle_path' = manager.bundles[b] /\ manager.bundles[b] # None
            BY <1>1, <1>7, <3>1, <4>1, <4>2, <4>3, Zenon DEF FindBundle
          <5>. QED
            BY <1>6, <3>1, <4>1, <4>3, <5>1, Zenon DEF BundlePath
        <4>4. CASE ~(k < l)
          <5>1. bundle_path' = NotFound
            BY <1>1, <1>3, <1>7, <3>1, <4>2, <4>4 DEF FindBundle
          <5>. QED
            BY <1>6, <3>1, <4>1, <4>4, <5>1, Zenon DEF BundlePath
        <4>. QED
          BY <4>3, <4>4
      <3>2. CASE ~mapped
        <4>1. bundle_path' = NotFound
          BY <1>1, <1>3, <1>7, <3>2 DEF FindBundle
        <4>. QED
          BY <1>6, <3>2, <4>1, Zenon DEF BundlePath
      <3>. QED
        BY <3>1, <3>2
    <2>2. bundle_path' = BundlePath(n)' /\ file_path' = FilePath(n)'
      BY <1>2, <1>3, <2>1, LookupsStable
    <2>3. EndRight'
      BY <1>3, <1>7 DEF Inv, EndRight, FindBundle
    <2>. QED
      BY <1>1, <1>2, <1>3, <1>7, <2>2, <2>3 DEF Inv, FoundRight, AnswerRight, Phases, FindBundle
  <1>8. CASE phase' = "terminated"
    <2>1. /\ mapped /\ b < manager.bundle_count
          /\ manager.bundles[b] = None \/ MayThrow(<<manager.bundles[b]>>)
      BY <1>1, <1>8 DEF FindBundle, IsBundle
    <2>2. Missing(n) \/ Throws(n)
      BY <1>4, <1>5, <1>6, <2>1 DEF Missing, Throws
    <2>3. Missing(n)' \/ Throws(n)'
      BY <1>2, <2>2, LookupsStable
    <2>4. queue' = <<>>
      BY <1>3 DEF Inv, EndRight, FindBundle
    <2>5. EndRight'
      BY <1>2, <1>8, <2>3, <2>4 DEF EndRight
    <2>. QED
      BY <1>1, <1>2, <1>3, <1>8, <2>5 DEF Inv, FoundRight, AnswerRight, Phases, FindBundle
  <1>. QED
    BY <1>7, <1>8 DEF FindBundle

\* The texts of an entry of a listing.
Entry(n, w, x, y, z) ==
  /\ w = U32(n)
  /\ bundle_file_find(n) = None => x = Unknown /\ y = Unknown
  /\ bundle_file_find(n) # None =>
       x = PathOf(bundle_file_find(n).directory) /\ y = bundle_file_find(n).name
  /\ z = IF bundle_file_identify(n) = None THEN Unknown ELSE bundle_file_identify(n)

LEMMA ListedTexts ==
  ASSUME manager \in Managers, NEW n \in Indexes
  PROVE  \E w \in Text, x \in Text, y \in Text, z \in Text :
           Listed(n) = <<w, x, y, z>> /\ Entry(n, w, x, y, z)
  <1>1. PICK w \in Text : w = U32(n)
    <2>1. n \in Nat
      BY BundleLookupAssumption
    <2>. QED
      BY <2>1, NumberIsText
  <1>2. Unknown \in Text
    BY BundleLookupAssumption DEF IsText, Text
  <1>3. PICK z \in Text :
          z = IF bundle_file_identify(n) = None THEN Unknown ELSE bundle_file_identify(n)
    BY <1>2, LookupTypes
  <1> DEFINE file == bundle_file_find(n)
  <1>4. PICK x \in Text, y \in Text :
          /\ file = None => x = Unknown /\ y = Unknown
          /\ file # None => x = PathOf(file.directory) /\ y = file.name
    <2>1. CASE file = None
      BY <1>2, <2>1
    <2>2. CASE file # None
      <3>1. IsFileObject(file)
        BY <2>2, LookupTypes
      <3>2. PICK x \in Text, y \in Text : x = PathOf(file.directory) /\ y = file.name
        BY <3>1, PathOfType DEF IsFileObject, IsText, Text
      <3>. QED
        BY <2>2, <3>2
    <2>. QED
      BY <2>1, <2>2
  <1>5. <<x, y>> = IF file = None THEN <<Unknown, Unknown>>
                   ELSE <<PathOf(file.directory), file.name>>
    BY <1>4
  <1>6. Listed(n) = <<w>> \o <<x, y>> \o <<z>>
    BY <1>1, <1>3, <1>5, Zenon DEF Listed
  <1>7. Listed(n) = <<w, x, y, z>>
    BY <1>6, FourTogether
  <1>8. Entry(n, w, x, y, z)
    BY <1>1, <1>3, <1>4, Zenon DEF Entry
  <1>. QED
    BY <1>7, <1>8

HasSurrogate(t) == \E u \in ToSet(t) : IsSurrogate(u)

LEMMA OneThrows ==
  ASSUME NEW t \in Text
  PROVE  MayThrow(<<t>>) <=> HasSurrogate(t)
  <1>1. PICK s : s = <<t>>
    OBVIOUS
  <1>2. DOMAIN s = {1} /\ s[1] = t
    BY <1>1
  <1>3. MayThrow(s) <=> HasSurrogate(t)
    BY <1>2, Zenon DEF MayThrow, HasSurrogate
  <1>. QED
    BY <1>1, <1>3

LEMMA TwoThrow ==
  ASSUME NEW x \in Text, NEW y \in Text, HasSurrogate(x) \/ HasSurrogate(y)
  PROVE  MayThrow(<<x, y>>)
  <1>1. PICK s : s = <<x, y>>
    OBVIOUS
  <1>2. DOMAIN s = {1, 2} /\ s[1] = x /\ s[2] = y
    BY <1>1
  <1>3. 1 \in DOMAIN s /\ 2 \in DOMAIN s
    BY <1>2
  <1>4. MayThrow(s)
    BY <1>2, <1>3, Zenon DEF MayThrow, HasSurrogate
  <1>. QED
    BY <1>1, <1>4

LEMMA FourThrow ==
  ASSUME NEW w \in Text, NEW x \in Text, NEW y \in Text, NEW z \in Text,
         MayThrow(<<w, x, y, z>>)
  PROVE  HasSurrogate(w) \/ HasSurrogate(x) \/ HasSurrogate(y) \/ HasSurrogate(z)
  <1>1. PICK s : s = <<w, x, y, z>>
    OBVIOUS
  <1>2. DOMAIN s = 1 .. 4 /\ s[1] = w /\ s[2] = x /\ s[3] = y /\ s[4] = z
    BY <1>1
  <1>3. MayThrow(s)
    BY <1>1
  <1>4. PICK k \in 1 .. 4 : HasSurrogate(s[k])
    BY <1>2, <1>3, Zenon DEF MayThrow, HasSurrogate
  <1>5. k = 1 \/ k = 2 \/ k = 3 \/ k = 4
    OBVIOUS
  <1>. QED
    BY <1>2, <1>4, <1>5, Zenon

LEMMA ByteConverts == ASSUME NEW v \in Byte PROVE ~IsSurrogate(v)
  <1>1. v \in Int /\ v < 55296
    BY DEF Byte
  <1>. QED
    BY <1>1 DEF IsSurrogate

\* The digits of a number convert.
LEMMA NumberConverts ==
  ASSUME NEW n \in Nat
  PROVE  ~HasSurrogate(U32(n))
  <1>1. PICK p \in Int, q \in Int, r \in Int :
          p = n \div 256 /\ q = n \div 65536 /\ r = n \div 16777216
    BY SMT
  <1>2. PICK a \in Byte, b \in Byte, c \in Byte, d \in Byte :
          a = n % 256 /\ b = p % 256 /\ c = q % 256 /\ d = r % 256
    <2>1. n % 256 \in Byte /\ p % 256 \in Byte /\ q % 256 \in Byte /\ r % 256 \in Byte
      BY SMT DEF Byte
    <2>. QED
      BY Zenon, <2>1
  <1>3. PICK t : t = <<a, b, c, d>>
    OBVIOUS
  <1>4. DOMAIN t = 1 .. 4 /\ \A k \in 1 .. 4 : t[k] \in Byte
    BY <1>3
  <1>5. \A u \in ToSet(t) : u \in Byte
    BY <1>4, Zenon DEF ToSet
  <1>6. ~HasSurrogate(t)
    <2>. SUFFICES ASSUME NEW u \in ToSet(t), IsSurrogate(u) PROVE FALSE
      BY Zenon DEF HasSurrogate
    <2>. QED
      BY <1>5, ByteConverts, Zenon
  <1>7. U32(n) = t
    BY <1>1, <1>2, <1>3 DEF U32
  <1>. QED
    BY <1>6, <1>7

\* An entry that does not convert has a text of the engine's that does not.
LEMMA ThrowingEntry ==
  ASSUME manager \in Managers, NEW n \in Indexes, MayThrow(Listed(n))
  PROVE  Throws(n)
  <1>1. PICK w \in Text, x \in Text, y \in Text, z \in Text :
          Listed(n) = <<w, x, y, z>> /\ Entry(n, w, x, y, z)
    BY ListedTexts
  <1>2. HasSurrogate(w) \/ HasSurrogate(x) \/ HasSurrogate(y) \/ HasSurrogate(z)
    <2>1. MayThrow(<<w, x, y, z>>)
      BY <1>1
    <2>. QED
      BY <2>1, FourThrow
  <1>3. ~HasSurrogate(w)
    <2>1. n \in Nat
      BY BundleLookupAssumption
    <2>. QED
      BY <1>1, <2>1, NumberConverts DEF Entry
  <1>4. ~HasSurrogate(Unknown)
    <2>1. Unknown \in Text /\ ~MayThrow(<<Unknown>>)
      BY BundleLookupAssumption DEF IsText, Text
    <2>. QED
      BY <2>1, OneThrows
  <1>5. CASE HasSurrogate(x) \/ HasSurrogate(y)
    <2>1. MayThrow(<<x, y>>)
      BY <1>5, TwoThrow
    <2>2. bundle_file_find(n) # None
      BY <1>1, <1>4, <1>5, Zenon DEF Entry
    <2>. QED
      BY <1>1, <2>1, <2>2, Zenon DEF Entry, Throws
  <1>6. CASE HasSurrogate(z)
    <2>1. MayThrow(<<z>>)
      BY <1>6, OneThrows
    <2>2. bundle_file_identify(n) # None /\ z = bundle_file_identify(n)
      BY <1>1, <1>4, <1>6, Zenon DEF Entry
    <2>. QED
      BY <2>1, <2>2, Zenon DEF Throws
  <1>. QED
    BY <1>2, <1>3, <1>5, <1>6

LEMMA RespondKeeps ==
  ASSUME Inv, Respond
  PROVE  Inv'
  <1>1. PICK n \in Indexes : n = file_index /\ (asked # None => asked = n)
    BY DEF Inv, FoundRight, Respond
  <1>2. /\ manager \in Managers /\ manager' = manager /\ asked' = asked /\ stored' = stored
        /\ file_index' = n
    BY <1>1 DEF Inv, FoundRight, Respond, Keep
  <1>3. PICK a \in Text, f \in Text : a = BundlePath(n) /\ f = FilePath(n)
    BY <1>2, PathTypes
  <1>4. bundle_path = a /\ file_path = f
    BY <1>1, <1>3 DEF Inv, FoundRight, Respond
  <1>5. PICK c \in Seq(Byte), t \in Seq(Text) :
          c = String(a) \o String(f) /\ t = <<a, f>> /\ Readable(c, 1, t)
    BY PairReads
  <1>6. response' = c /\ texts' = t
    BY <1>4, <1>5, Zenon DEF Respond
  <1>7. phase = "respond" /\ phase' = "answered 11" /\ queue' = queue
    BY DEF Respond
  <1>8. FoundRight'
    <2>1. a = BundlePath(n)' /\ f = FilePath(n)'
      BY <1>2, <1>3, LookupsStable
    <2>. QED
      BY <1>1, <1>2, <1>5, <1>6, <1>7, <2>1 DEF FoundRight, Phases, Inv
  <1>9. AnswerRight'
    BY <1>5, <1>6, <1>7 DEF Inv, AnswerRight
  <1>10. EndRight'
    BY <1>7 DEF Inv, EndRight
  <1>. QED
    BY <1>8, <1>9, <1>10 DEF Inv

LEMMA AskListKeeps ==
  ASSUME Inv, AskList
  PROVE  Inv'
  <1>1. phase = "idle" /\ phase' = "list" /\ asked = None /\ texts = <<>> /\ texts' = texts
    BY DEF Inv, FoundRight, AnswerRight, AskList
  <1>2. PICK n \in 0 .. MaxListed, q \in Seq(Indexes) : queue' = q /\ Len(q) = n
    <2>1. PICK n \in 0 .. MaxListed : queue' \in [1 .. n -> Indexes]
      BY DEF AskList
    <2>2. PICK q \in [1 .. n -> Indexes] : q = queue'
      BY <2>1
    <2>3. n \in Nat
      BY BundleLookupAssumption
    <2>. QED
      BY <2>2, <2>3
  <1>3. n \in Nat /\ n <= MaxText /\ n <= MaxListed
    <2>1. MaxListed \in 0 .. MaxText
      BY BundleLookupAssumption
    <2>2. MaxText \in Int
      BY DEF MaxText
    <2>. QED
      BY <2>1, <2>2
  <1>4. PICK u \in Seq(Byte) :
          u = U32(n) /\ Len(u) = 4 /\ Number(u, 1) = n /\ Readable(u, 5, <<>>)
    BY <1>3, NumberReads
  <1>5. response' = u
    BY <1>2, <1>4 DEF AskList
  <1>6. FoundRight'
    BY <1>1 DEF Inv, FoundRight, Phases, AskList, Keep
  <1>7. AnswerRight'
    <2>1. PICK e \in Seq(Text) : e = <<>> /\ Len(e) = 0
      BY EmptySeq
    <2>2. texts' = e
      BY <1>1, <2>1
    <2>3. n * 4 = Len(e) + 4 * Len(q) /\ Len(e) % 4 = 0 /\ Len(u) >= 4
      BY <1>2, <1>3, <1>4, <2>1
    <2>. QED
      BY <1>1, <1>2, <1>3, <1>4, <1>5, <2>1, <2>2, <2>3 DEF AnswerRight
  <1>8. EndRight'
    BY <1>1 DEF EndRight
  <1>. QED
    BY <1>6, <1>7, <1>8 DEF Inv

\* An entry that does not convert ends the game.
LEMMA ListEntryKeeps ==
  ASSUME Inv, ListEntry
  PROVE  Inv'
  <1>1. /\ phase = "list" /\ asked = None /\ asked' = asked /\ stored' = stored
        /\ manager' = manager
    BY DEF Inv, FoundRight, ListEntry, Keep
  <1>2. PICK q \in Seq(Indexes) : q = queue /\ q # <<>>
    BY DEF Inv, AnswerRight, ListEntry
  <1>3. PICK n \in Indexes : n = Head(q)
    BY <1>2, HeadTailProperties
  <1>4. CASE /\ texts' = texts \o Listed(n)
             /\ LET l == Listed(n)
                IN  response' = response \o String(l[1]) \o String(l[2]) \o String(l[3])
                                         \o String(l[4])
             /\ queue' = Tail(queue) /\ file_index' = n /\ phase' = phase
    <2>1. PICK b \in Seq(Byte), ts \in Seq(Text) :
            /\ b = response /\ ts = texts /\ Readable(b, 5, ts) /\ Len(b) >= 4
            /\ Number(b, 1) * 4 = Len(ts) + 4 * Len(q) /\ Len(ts) % 4 = 0
            /\ Len(q) <= MaxListed
      BY <1>1, <1>2 DEF Inv, AnswerRight
    <2>2. PICK w \in Text, x \in Text, y \in Text, z \in Text : Listed(n) = <<w, x, y, z>>
      BY ListedTexts DEF Inv, FoundRight
    <2>3. PICK c \in Seq(Byte), t \in Seq(Text) :
            /\ c = b \o String(w) \o String(x) \o String(y) \o String(z)
            /\ t = ts \o <<w, x, y, z>>
            /\ Len(c) >= 4 /\ Readable(c, 5, t) /\ Number(c, 1) = Number(b, 1)
            /\ Len(t) = Len(ts) + 4
      <3>1. PICK c \in Seq(Byte), t \in Seq(Text) : FourMore(c, t, b, ts, w, x, y, z, 5)
        BY <2>1, EntryGrows
      <3>. QED
        BY <3>1, Zenon DEF FourMore
    <2>4. PICK l : l = Listed(n)
      OBVIOUS
    <2>5. l[1] = w /\ l[2] = x /\ l[3] = y /\ l[4] = z
      BY <2>2, <2>4
    <2>6. response' = c /\ texts' = t
      <3>1. response' = response \o String(l[1]) \o String(l[2]) \o String(l[3]) \o String(l[4])
        BY <1>4, <2>4, Zenon
      <3>2. texts' = texts \o Listed(n)
        BY <1>4, Zenon
      <3>. QED
        BY <2>1, <2>2, <2>3, <2>5, <3>1, <3>2, Zenon
    <2>7. PICK r \in Seq(Indexes) : r = queue' /\ Len(r) = Len(q) - 1
      BY <1>2, <1>4, HeadTailProperties
    <2>8. /\ Number(c, 1) * 4 = Len(t) + 4 * Len(r) /\ Len(t) % 4 = 0
          /\ Len(r) <= MaxListed
      <3>1. PICK i \in Nat, j \in Nat : i = Len(ts) /\ j = Len(q)
        BY LenProperties
      <3>2. Number(b, 1) * 4 = i + 4 * j /\ i % 4 = 0 /\ j <= MaxListed
        BY <2>1, <3>1
      <3>3. Number(c, 1) = Number(b, 1) /\ Len(t) = i + 4 /\ Len(r) = j - 1
        BY <2>3, <2>7, <3>1
      <3>4. i + 4 * j = (i + 4) + 4 * (j - 1) /\ (i + 4) % 4 = 0
        BY <3>2
      <3>5. MaxListed \in Int
        BY BundleLookupAssumption
      <3>6. j - 1 <= MaxListed
        BY <3>2, <3>5
      <3>. QED
        BY <3>2, <3>3, <3>4, <3>6
    <2>9. AnswerRight'
      BY <1>1, <1>4, <2>3, <2>6, <2>7, <2>8 DEF AnswerRight
    <2>10. FoundRight'
      BY <1>1, <1>4 DEF Inv, FoundRight, Phases
    <2>11. EndRight'
      BY <1>1, <1>4 DEF EndRight
    <2>. QED
      BY <2>9, <2>10, <2>11 DEF Inv
  <1>5. CASE /\ MayThrow(Listed(n)) /\ phase' = "terminated"
             /\ UNCHANGED <<texts, response, queue, file_index>>
    <2>1. FoundRight'
      BY <1>1, <1>5 DEF Inv, FoundRight, Phases
    <2>2. AnswerRight'
      BY <1>1, <1>5 DEF Inv, AnswerRight
    <2>3. Throws(n)'
      <3>1. Throws(n)
        BY <1>5, ThrowingEntry DEF Inv, FoundRight
      <3>. QED
        BY <1>1, <3>1, LookupsStable
    <2>4. queue' = q /\ q # <<>> /\ n = Head(q) /\ phase' = "terminated"
      BY <1>2, <1>3, <1>5
    <2>5. EndRight'
      BY <2>3, <2>4 DEF EndRight
    <2>. QED
      BY <2>1, <2>2, <2>5 DEF Inv
  <1>. QED
    BY <1>2, <1>3, <1>4, <1>5, Zenon DEF ListEntry

LEMMA ListDoneKeeps ==
  ASSUME Inv, ListDone
  PROVE  Inv'
  <1>1. FoundRight'
    BY DEF Inv, FoundRight, Phases, ListDone, Keep
  <1>2. AnswerRight'
    BY DEF Inv, AnswerRight, ListDone, Keep
  <1>3. EndRight'
    BY DEF EndRight, ListDone
  <1>. QED
    BY <1>1, <1>2, <1>3 DEF Inv

LEMMA StutterKeeps ==
  ASSUME Inv, UNCHANGED vars
  PROVE  Inv'
  <1>1. FoundRight'
    <2>1. file_index' = file_index /\ manager' = manager
      BY DEF vars
    <2>2. PICK n \in Indexes : n = file_index
      BY DEF Inv, FoundRight
    <2>3. /\ FilePath(n)' = FilePath(n) /\ BundlePath(n)' = BundlePath(n)
      BY <2>1, LookupsStable
    <2>. QED
      BY <2>1, <2>2, <2>3 DEF Inv, FoundRight, vars
  <1>2. AnswerRight'
    BY DEF Inv, AnswerRight, vars
  <1>3. EndRight'
    <2>1. PICK n, h : n = file_index /\ h = Head(queue)
      OBVIOUS
    <2>2. n = file_index' /\ h = Head(queue') /\ manager' = manager
      BY <2>1 DEF vars
    <2>3. (Missing(n)' <=> Missing(n)) /\ (Throws(n)' <=> Throws(n))
      BY <2>2, LookupsStable
    <2>4. Throws(h)' <=> Throws(h)
      BY <2>2, LookupsStable
    <2>. QED
      BY <2>1, <2>2, <2>3, <2>4 DEF Inv, EndRight, vars
  <1>. QED
    BY <1>1, <1>2, <1>3 DEF Inv

LEMMA Invariance == Spec => []Inv
  <1>1. Inv /\ [Next]_vars => Inv'
    BY AskFileKeeps, FindFileKeeps, FindBundleKeeps, RespondKeeps, AskListKeeps,
       ListEntryKeeps, ListDoneKeeps, StutterKeeps, Zenon DEF Next
  <1>. QED
    BY <1>1, InitRight, PTL DEF Spec

-----------------------------------------------------------------------------
(* What the runs check, for every depot.                                      *)

\* Every byte of an answer is one, and a listing has four strings for each
\* emitter, whatever message is handled.
THEOREM TypeCorrect == Spec => []TypeOK
  <1>1. Inv => TypeOK
    <2>. SUFFICES ASSUME Inv PROVE TypeOK
      OBVIOUS
    <2>1. PICK b \in Seq(Byte) : b = response
      BY DEF Inv, AnswerRight
    <2>2. \A n \in DOMAIN b : b[n] \in 0 .. 255
      <3>1. \A n \in DOMAIN b : b[n] \in Byte
        BY LenProperties, ElementOfSeq
      <3>. QED
        BY <3>1 DEF Byte
    <2>. QED
      BY <2>1, <2>2 DEF Inv, FoundRight, AnswerRight, TypeOK, Phases
  <1>. QED
    BY <1>1, Invariance, PTL

\* The handler of message 10 answers what the helpers behind the listing find,
\* for the index of the message where that is long enough to have one.
THEOREM LookupsAlwaysAgree == Spec => []LookupsAgree
  <1>1. Inv => LookupsAgree
    <2>. SUFFICES ASSUME Inv, phase = "answered 11"
                  PROVE  /\ asked # None => file_index = asked
                         /\ texts = <<BundlePath(file_index), FilePath(file_index)>>
      BY Zenon DEF LookupsAgree, BundlePath, FilePath
    <2>. QED
      BY DEF Inv, FoundRight
  <1>. QED
    BY <1>1, Invariance, PTL

\* Whatever the depot holds and whatever is asked, a handler of message 5 or 10
\* that ends the game was stopped by what EndsExplained names.
THEOREM EndsAreExplained == Spec => []EndsExplained
  <1>1. Inv => EndsExplained
    <2>. SUFFICES ASSUME Inv, phase = "terminated",
                         NEW n, n = IF queue = <<>> THEN file_index ELSE Head(queue)
                  PROVE  \/ queue = <<>> /\ asked = None /\ ~stored
                         \/ queue = <<>> /\ Missing(n)
                         \/ Throws(n)
      BY Zenon DEF EndsExplained, Missing, Throws
    <2>1. CASE queue = <<>>
      BY <2>1, Zenon DEF Inv, EndRight
    <2>2. CASE queue # <<>>
      BY <2>2, Zenon DEF Inv, EndRight
    <2>. QED
      BY <2>1, <2>2
  <1>. QED
    BY <1>1, Invariance, PTL

\* A client that goes by the lengths it reads finds in the answers 11 and 6 the
\* strings that message_append_string put there, and the end where it expects it.
THEOREM AnswersReadBack == Spec => []AnswersParse
  <1>1. Inv => AnswersParse
    <2>. SUFFICES ASSUME Inv PROVE AnswersParse
      OBVIOUS
    <2>1. PICK b \in Seq(Byte), ts \in Seq(Text) : b = response /\ ts = texts
      BY DEF Inv, AnswerRight
    <2>2. PICK strings \in Seq(Seq(Byte)) : strings = Wides(ts)
      <3>1. NotFound \in Text
        BY BundleLookupAssumption DEF IsText, Text
      <3>. QED
        BY <3>1, WidesAppend
    <2>3. ASSUME NEW first, Readable(b, first, ts) PROVE Reads(b, first, strings)
      BY <2>2, <2>3, WalkReads DEF Readable
    <2>4. phase = "answered 11" => Reads(b, 1, strings)
      BY <2>1, <2>3 DEF Inv, AnswerRight
    <2>5. phase = "answered 6" => Reads(b, 5, strings)
      BY <2>1, <2>3 DEF Inv, AnswerRight
    <2>6. phase = "answered 6" => Number(b, 1) * 4 = Len(ts)
      <3>1. ASSUME phase = "answered 6" PROVE Number(b, 1) * 4 = Len(ts)
        <4>1. PICK q \in Seq(Indexes) : q = queue /\ q = <<>>
          BY <3>1 DEF Inv, AnswerRight
        <4>2. Len(q) = 0 /\ Len(ts) \in Nat
          BY <4>1, EmptySeq, LenProperties
        <4>3. Number(b, 1) * 4 = Len(ts) + 4 * Len(q)
          BY <2>1, <3>1, <4>1 DEF Inv, AnswerRight
        <4>. QED
          BY <4>2, <4>3
      <3>. QED
        BY <3>1
    <2>. QED
      BY <2>1, <2>2, <2>4, <2>5, <2>6, Zenon DEF AnswersParse, Wides
  <1>. QED
    BY <1>1, Invariance, PTL
===============================================================================
