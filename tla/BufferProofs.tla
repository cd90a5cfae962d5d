---------------------------- MODULE BufferProofs ----------------------------
(***************************************************************************)
(* Buffer implements ByteQueue for every number of byte values, every set  *)
(* of strings and numbers written and every choice of its size constants.  *)
(***************************************************************************)
EXTENDS Buffer, SequenceTheorems, WellFoundedInduction, TLAPS

\* The inductive invariant, as a predicate of one buffer: the type and the index
\* order together.
Valid(b) ==
  /\ b \in [data : Seq(Byte), r : Nat, w : Nat]
  /\ b.r <= b.w /\ b.w <= Len(b.data)
  /\ kCheapPrepend <= Len(b.data)

-----------------------------------------------------------------------------
(* The integers.                                                           *)

LEMMA RadixIs == Radix \in Nat /\ Radix > 1
BY BufferAssumption, Zenon

\* Every induction below is on a least counterexample.
LEMMA NatMin ==
  ASSUME NEW S, S \subseteq Nat, S # {}
  PROVE  \E m \in S : \A k \in S : m <= k
<1>1. PICK m \in S : \A k \in S : ~(<<k, m>> \in OpToRel(<, Nat))
  BY WFMin, NatLessThanWellFounded, ZenonT(30)
<1>2. \A k \in S : ~ (k < m)
  BY <1>1 DEF OpToRel
<1> QED
  BY <1>2

\* f is Power up to n.
Powers(f, n) ==
  /\ f \in [0 .. n -> Nat] /\ f[0] = 1
  /\ \A i \in 1 .. n : f[i] = Radix * f[i - 1]

LEMMA PowersExist == \A n \in Nat : \E f : Powers(f, n)
<1> DEFINE Bad == {n \in Nat : ~ \E f : Powers(f, n)}
<1> SUFFICES ASSUME Bad # {} PROVE FALSE
  BY Zenon
<1>1. PICK m \in Bad : \A k \in Bad : m <= k
  BY NatMin, Zenon
<1>2. m # 0
  <2>1. Powers([i \in 0 .. 0 |-> 1], 0)
    BY DEF Powers
  <2> QED BY <2>1, Zenon
<1>3. m - 1 \in Nat /\ m - 1 \notin Bad
  BY <1>1, <1>2
<1>4. PICK f : Powers(f, m - 1)
  BY <1>3, Zenon
<1> DEFINE g == [i \in 0 .. m |-> IF i = m THEN Radix * f[m - 1] ELSE f[i]]
<1>5. Powers(g, m)
  <2>1. m \in Nat /\ f \in [0 .. m - 1 -> Nat] /\ f[0] = 1
        /\ \A i \in 1 .. m - 1 : f[i] = Radix * f[i - 1]
    BY <1>4, Zenon DEF Powers
  <2>2. g \in [0 .. m -> Nat]
    <3>1. Radix * f[m - 1] \in Nat BY <1>3, <2>1, RadixIs
    <3> QED BY <2>1, <3>1
  <2>3. g[0] = 1 BY <1>2, <2>1
  <2>4. ASSUME NEW i \in 1 .. m PROVE g[i] = Radix * g[i - 1]
    BY <1>2, <2>1
  <2> QED BY <2>2, <2>3, <2>4 DEF Powers
<1> QED BY <1>5, Zenon

LEMMA PowersAgree ==
  ASSUME NEW n \in Nat, NEW f, Powers(f, n), NEW g, Powers(g, n + 1)
  PROVE  \A i \in 0 .. n : f[i] = g[i]
<1> DEFINE Bad == {i \in 0 .. n : f[i] # g[i]}
<1> SUFFICES ASSUME Bad # {} PROVE FALSE
  BY Zenon
<1>1. PICK m \in Bad : \A k \in Bad : m <= k
  <2>1. Bad \subseteq Nat OBVIOUS
  <2> QED BY <2>1, NatMin, Zenon
<1>2. m # 0 BY Zenon DEF Powers
<1>3. m - 1 \in 0 .. n /\ m - 1 \notin Bad BY <1>1, <1>2
<1> QED BY <1>2, <1>3 DEF Powers

\* The recursive definition of Power has a solution, and so Power is it.
LEMMA PowerIs ==
  /\ Power[0] = 1
  /\ \A n \in Nat : Power[n] \in Nat /\ Power[n] > 0 /\ Power[n + 1] = Radix * Power[n]
<1> DEFINE F == [n \in Nat |-> CHOOSE f : Powers(f, n)]
           P == [n \in Nat |-> F[n][n]]
<1>1. \A n \in Nat : Powers(F[n], n)
  BY PowersExist, Zenon
<1>2. P[0] = 1 BY <1>1 DEF Powers
<1>3. ASSUME NEW n \in Nat PROVE P[n] \in Nat /\ P[n + 1] = Radix * P[n]
  <2> HIDE DEF F
  <2>1. Powers(F[n], n) /\ Powers(F[n + 1], n + 1) BY <1>1
  <2>2. F[n][n] = F[n + 1][n] BY <2>1, PowersAgree
  <2>3. n \in 0 .. n /\ n + 1 \in 1 .. n + 1 /\ (n + 1) - 1 = n OBVIOUS
  <2>4. F[n + 1][n + 1] = Radix * F[n + 1][n] BY <2>1, <2>3, Zenon DEF Powers
  <2>5. F[n][n] \in Nat BY <2>1, <2>3, Zenon DEF Powers
  <2> QED BY <2>2, <2>4, <2>5
<1> HIDE DEF P
<1>4. P = [n \in Nat |-> IF n = 0 THEN 1 ELSE Radix * P[n - 1]]
  <2>1. ASSUME NEW n \in Nat PROVE P[n] = IF n = 0 THEN 1 ELSE Radix * P[n - 1]
    <3>1. CASE n # 0
      <4>1. n - 1 \in Nat /\ (n - 1) + 1 = n BY <3>1
      <4> QED BY <1>3, <4>1, <3>1, Zenon
    <3> QED BY <1>2, <3>1, Zenon
  <2>2. P = [n \in Nat |-> P[n]] BY DEF P
  <2> QED BY <2>1, <2>2, Zenon
<1>5. Power = [n \in Nat |-> IF n = 0 THEN 1 ELSE Radix * Power[n - 1]]
  BY <1>4, Zenon DEF Power
<1> HIDE DEF Power
<1>6. Power[0] = 1 BY <1>5, Zenon
<1>7. \A n \in Nat : Power[n + 1] = Radix * Power[n]
  <2> SUFFICES ASSUME NEW n \in Nat PROVE Power[n + 1] = Radix * Power[n] BY Zenon
  <2>1. n + 1 \in Nat /\ n + 1 # 0 /\ (n + 1) - 1 = n OBVIOUS
  <2> QED BY <1>5, <2>1, Zenon
<1>8. \A n \in Nat : Power[n] \in Nat /\ Power[n] > 0
  <2> DEFINE Bad == {n \in Nat : ~(Power[n] \in Nat /\ Power[n] > 0)}
  <2> SUFFICES ASSUME Bad # {} PROVE FALSE BY Zenon
  <2>1. PICK m \in Bad : \A k \in Bad : m <= k BY NatMin, Zenon
  <2>2. m # 0 BY <1>6
  <2>3. m - 1 \in Nat /\ m - 1 \notin Bad /\ (m - 1) + 1 = m BY <2>1, <2>2
  <2>4. Power[m] = Radix * Power[m - 1] BY <1>7, <2>3, Zenon
  <2>5. Power[m - 1] \in Nat /\ Power[m - 1] > 0 BY <2>3, Zenon
  <2> QED BY <2>4, <2>5, RadixIs
<1> QED BY <1>6, <1>7, <1>8, Zenon

\* \div rounds down, of negative numbers too: as the casts of the code do it with
\* the bits of two's complement.
LEMMA Quotient ==
  ASSUME NEW v \in Int, NEW r \in Nat, r > 0, NEW q \in Int, NEW m \in 0 .. r - 1, v = r * q + m
  PROVE  v \div r = q
OBVIOUS

LEMMA Remainder ==
  ASSUME NEW v \in Int, NEW r \in Nat, r > 0
  PROVE  /\ v \div r \in Int /\ v % r \in 0 .. r - 1
         /\ v = r * (v \div r) + (v % r)
OBVIOUS

\* Shifting a byte out after p of them is shifting p and one out.
LEMMA DivideTwice ==
  ASSUME NEW v \in Int, NEW p \in Nat, p > 0
  PROVE  v \div (Radix * p) = (v \div p) \div Radix
<1> DEFINE q == v \div p
           a == v % p
           b == q % Radix
           s == q \div Radix
<1>1. q \in Int /\ a \in Nat /\ a < p /\ v = p * q + a BY Remainder
<1>2. s \in Int /\ b \in Nat /\ b < Radix /\ q = Radix * s + b BY <1>1, Remainder, RadixIs
<1> HIDE DEF q, a, b, s
<1> DEFINE m == p * b + a
<1>3. v = (Radix * p) * s + m BY <1>1, <1>2, RadixIs
<1>4. m \in 0 .. Radix * p - 1
  <2>1. p * b \in Nat /\ p * b <= p * (Radix - 1) BY <1>2, RadixIs
  <2>2. p * (Radix - 1) = Radix * p - p BY RadixIs
  <2> QED BY <1>1, <2>1, <2>2, RadixIs
<1>5. Radix * p \in Nat /\ Radix * p > 0 BY RadixIs
<1> HIDE DEF m
<1>6. v \div (Radix * p) = s BY <1>2, <1>3, <1>4, <1>5, Quotient
<1> QED BY <1>6, Zenon DEF s, q

\* An integer of n bytes is stored as n bytes.
LEMMA EncodeType ==
  ASSUME NEW v \in Int, NEW n \in Nat
  PROVE  Encode(v, n) \in Seq(Byte) /\ Len(Encode(v, n)) = n
<1>1. ASSUME NEW i \in 1 .. n PROVE (v \div Power[n - i]) % Radix \in Byte
  <2>1. n - i \in Nat OBVIOUS
  <2>2. v \div Power[n - i] \in Int BY <2>1, PowerIs, Remainder, Zenon
  <2> QED BY <2>2, Remainder, RadixIs DEF Byte
<1> QED BY <1>1 DEF Encode

\* be64toh and the cast undo htobe64, of every number of bytes and every value of the
\* type. After i bytes the partial result is f[i]: with D[k] what is left of v without
\* its last k bytes, D[n] is the sign, and f[i] is D[n - i] less the sign in front.
LEMMA EncodeDecode ==
  ASSUME NEW n \in Nat, NEW v \in Ints(n)
  PROVE  Decode(Encode(v, n)) = v
<1> DEFINE d == Encode(v, n)
           D == [k \in 0 .. n |-> v \div Power[k]]
           f == [i \in 0 .. n |-> D[n - i] - Power[i] * D[n]]
<1>0. v \in Int /\ Power[n] \in Nat /\ Power[n] > 0
  BY PowerIs DEF Ints
<1>1. /\ D[0] = v
      /\ \A k \in 0 .. n : D[k] \in Int
      /\ \A k \in 0 .. n - 1 : D[k] % Radix = D[k] - Radix * D[k + 1]
  <2>1. D[0] = v BY <1>0, PowerIs, Quotient
  <2>2. ASSUME NEW k \in 0 .. n PROVE D[k] \in Int BY <1>0, PowerIs, Remainder
  <2>3. ASSUME NEW k \in 0 .. n - 1 PROVE D[k] % Radix = D[k] - Radix * D[k + 1]
    <3>1. k \in Nat /\ k + 1 \in 0 .. n /\ k \in 0 .. n OBVIOUS
    <3>2. D[k + 1] = D[k] \div Radix
      <4>1. Power[k] \in Nat /\ Power[k] > 0 /\ Power[k + 1] = Radix * Power[k]
        BY <3>1, PowerIs, Zenon
      <4>2. v \div (Radix * Power[k]) = (v \div Power[k]) \div Radix
        BY <1>0, <4>1, DivideTwice, Zenon
      <4>3. D[k] = v \div Power[k] /\ D[k + 1] = v \div Power[k + 1]
        BY <3>1, Zenon
      <4> QED BY <4>1, <4>2, <4>3, Zenon
    <3>3. D[k] \in Int /\ D[k + 1] \in Int BY <2>2, <3>1, Zenon
    <3> HIDE DEF D
    <3>4. D[k] = Radix * D[k + 1] + (D[k] % Radix) /\ D[k] % Radix \in 0 .. Radix - 1
      BY <3>2, <3>3, Remainder, RadixIs
    <3> QED BY <3>3, <3>4, RadixIs
  <2> QED BY <2>1, <2>2, <2>3
<1>2. \A i \in 1 .. n : d[i] = D[n - i] % Radix
  BY DEF Encode
<1>3. d \in Seq(Byte) /\ Len(d) = n BY <1>0, EncodeType, Zenon
<1> HIDE DEF D, d
<1>4. \A i \in 0 .. n : f[i] \in Int /\ f[i] = IF i = 0 THEN 0 ELSE f[i - 1] * Radix + d[i]
  <2> SUFFICES ASSUME NEW i \in 0 .. n
               PROVE  f[i] \in Int /\ f[i] = IF i = 0 THEN 0 ELSE f[i - 1] * Radix + d[i]
    BY Zenon
  <2>0. D[n - i] \in Int /\ D[n] \in Int /\ Power[i] \in Nat BY <1>1, PowerIs
  <2>1. f[i] \in Int BY <2>0
  <2>2. CASE i = 0
    BY <1>1, <2>2, PowerIs
  <2>3. CASE i # 0
    <3> DEFINE k == n - i
    <3>1. k \in 0 .. n - 1 /\ i - 1 \in 0 .. n /\ n - (i - 1) = k + 1 /\ i \in 1 .. n BY <2>3
    <3>2. d[i] = D[k] - Radix * D[k + 1] BY <1>1, <1>2, <3>1, Zenon
    <3>3. Power[i] = Radix * Power[i - 1] /\ Power[i - 1] \in Nat
      <4>1. i - 1 \in Nat /\ (i - 1) + 1 = i BY <2>3
      <4> QED BY <4>1, PowerIs, Zenon
    <3>4. D[k] \in Int /\ D[k + 1] \in Int BY <1>1, <3>1
    <3>5. f[i] = D[k] - Power[i] * D[n] BY Zenon
    <3>6. f[i - 1] = D[k + 1] - Power[i - 1] * D[n] BY <3>1, Zenon
    <3> HIDE DEF f, k
    <3>7. f[i] = D[k] - (Radix * Power[i - 1]) * D[n] BY <3>3, <3>5, Zenon
    <3>8. (D[k + 1] - Power[i - 1] * D[n]) * Radix
            = Radix * D[k + 1] - (Radix * Power[i - 1]) * D[n]
      BY <2>0, <3>3, <3>4, RadixIs
    <3> QED BY <2>0, <2>1, <2>3, <3>2, <3>3, <3>4, <3>6, <3>7, <3>8, RadixIs, SMTT(30)
  <2> QED BY <2>1, <2>2, <2>3, Zenon
<1> DEFINE Step(g) == [i \in 0 .. Len(d) |-> IF i = 0 THEN 0 ELSE g[i - 1] * Radix + d[i]]
           u == CHOOSE g : g = Step(g)
<1>5. f = Step(f) BY <1>3, <1>4
<1>6. u = Step(u) BY <1>5, Zenon
<1>7. \A i \in 0 .. n : u[i] = f[i]
  <2> HIDE DEF u, f
  <2> DEFINE Bad == {i \in 0 .. n : u[i] # f[i]}
  <2> SUFFICES ASSUME Bad # {} PROVE FALSE BY Zenon
  <2>1. PICK m \in Bad : \A k \in Bad : m <= k
    <3>1. Bad \subseteq Nat OBVIOUS
    <3> QED BY <3>1, NatMin, Zenon
  <2>2. \A i \in 0 .. n : u[i] = IF i = 0 THEN 0 ELSE u[i - 1] * Radix + d[i]
    BY <1>3, <1>6
  <2>3. m # 0 BY <1>4, <2>2, Zenon
  <2>4. m - 1 \in 0 .. n /\ m - 1 \notin Bad BY <2>1, <2>3
  <2>5. u[m - 1] = f[m - 1] BY <2>4, Zenon
  <2> QED BY <1>4, <2>2, <2>3, <2>5, Zenon
<1>8. Decode(d) = IF 2 * u[n] < Power[n] THEN u[n] ELSE u[n] - Power[n]
  <2>1. Decode(d) = IF 2 * u[Len(d)] < Power[Len(d)] THEN u[Len(d)]
                    ELSE u[Len(d)] - Power[Len(d)]
    BY Zenon DEF Decode
  <2> QED BY <1>3, <2>1, Zenon
<1>9. u[n] = v - Power[n] * D[n]
  <2>1. f[n] = D[n - n] - Power[n] * D[n] OBVIOUS
  <2>2. u[n] = f[n]
    <3>1. n \in 0 .. n OBVIOUS
    <3> QED BY <1>7, <3>1, Zenon
  <2>3. n - n = 0 OBVIOUS
  <2> QED BY <1>1, <2>1, <2>2, <2>3, Zenon
<1> HIDE DEF u, f
<1>10. - Power[n] <= 2 * v /\ 2 * v < Power[n]
  BY <1>0, Remainder DEF Ints
<1>11. CASE v >= 0
  <2>1. D[n] = 0 BY <1>0, <1>10, <1>11, Quotient DEF D
  <2> QED BY <1>0, <1>8, <1>9, <1>10, <2>1 DEF d
<1>12. CASE v < 0
  <2>1. D[n] = -1 BY <1>0, <1>10, <1>12, Quotient DEF D
  <2> QED BY <1>0, <1>8, <1>9, <1>10, <2>1 DEF d
<1> QED BY <1>0, <1>11, <1>12

-----------------------------------------------------------------------------
(* Sequences given by their elements.                                      *)

LEMMA CopyToType ==
  ASSUME NEW data \in Seq(Byte), NEW d \in Seq(Byte), NEW at \in Nat
  PROVE  /\ CopyTo(data, at, d) \in Seq(Byte)
         /\ Len(CopyTo(data, at, d)) = Len(data)
         /\ \A i \in 1 .. Len(data) :
              CopyTo(data, at, d)[i] =
                IF at < i /\ i <= at + Len(d) THEN d[i - at] ELSE data[i]
BY DEF CopyTo

LEMMA ResizeType ==
  ASSUME NEW data \in Seq(Byte), NEW n \in Nat
  PROVE  /\ Resize(data, n) \in Seq(Byte)
         /\ Len(Resize(data, n)) = n
         /\ \A i \in 1 .. n : Resize(data, n)[i] = IF i <= Len(data) THEN data[i] ELSE 0
BY BufferAssumption DEF Resize, Byte

LEMMA ContentType ==
  ASSUME NEW b, Valid(b)
  PROVE  /\ Content(b) \in Seq(Byte)
         /\ Len(Content(b)) = b.w - b.r
         /\ \A i \in 1 .. b.w - b.r : Content(b)[i] = b.data[b.r + i]
<1>1. /\ b.data \in Seq(Byte) /\ b.r \in Nat /\ b.w \in Nat /\ b.r <= b.w
      /\ b.w <= Len(b.data)
  BY Zenon DEF Valid
<1> DEFINE n == b.w - b.r
<1>2. n \in Nat BY <1>1
<1>3. Content(b) = [i \in 1 .. n |-> b.data[b.r + i]]
  BY Zenon DEF Content, ReadableBytes
<1>4. ASSUME NEW i \in 1 .. n PROVE b.data[b.r + i] \in Byte
  <2>1. b.r + i \in 1 .. Len(b.data) BY <1>1
  <2>2. QED BY <1>1, <2>1
<1> HIDE DEF n
<1>5. Content(b) \in [1 .. n -> Byte] BY <1>3, <1>4, Zenon
<1>6. Content(b) \in Seq(Byte) /\ Len(Content(b)) = n BY <1>2, <1>5
<1>7. QED BY <1>3, <1>6 DEF n

LEMMA FirstType ==
  ASSUME NEW d \in Seq(Byte), NEW n \in 0 .. Len(d)
  PROVE  /\ First(d, n) \in Seq(Byte) /\ Len(First(d, n)) = n
         /\ \A i \in 1 .. n : First(d, n)[i] = d[i]
BY DEF First

LEMMA DropFirstType ==
  ASSUME NEW d \in Seq(Byte), NEW n \in 0 .. Len(d)
  PROVE  /\ DropFirst(d, n) \in Seq(Byte) /\ Len(DropFirst(d, n)) = Len(d) - n
         /\ \A i \in 1 .. Len(d) - n : DropFirst(d, n)[i] = d[n + i]
BY DEF DropFirst

\* Two sequences of bytes are equal when they agree element by element.
LEMMA SameBytes ==
  ASSUME NEW s \in Seq(Byte), NEW t \in Seq(Byte), Len(s) = Len(t),
         \A i \in 1 .. Len(s) : s[i] = t[i]
  PROVE  s = t
BY SeqEqual, Zenon

-----------------------------------------------------------------------------
(* make_space.                                                             *)

\* Moving the content inside the vector moves it towards the front: std::copy
\* never writes ahead of where it reads.
LEMMA InsideMovesForward ==
  ASSUME NEW b, Valid(b), NEW len \in Nat, len > WritableBytes(b), RoomInside(b, len)
  PROVE  kCheapPrepend < b.r
BY BufferAssumption DEF Valid, WritableBytes, PrependableBytes, RoomInside

\* EnsureWriteableBytes makes the room it is asked for and keeps the content.
LEMMA EnsureKeeps ==
  ASSUME NEW b, Valid(b), NEW len \in Nat
  PROVE  LET e == EnsureWriteableBytes(b, len)
         IN  Valid(e) /\ len <= WritableBytes(e) /\ Content(e) = Content(b)
<1> DEFINE e == EnsureWriteableBytes(b, len)
<1> SUFFICES Valid(e) /\ len <= WritableBytes(e) /\ Content(e) = Content(b)
  BY Zenon
<1>a. /\ b.data \in Seq(Byte) /\ b.r \in Nat /\ b.w \in Nat /\ b.r <= b.w
      /\ b.w <= Len(b.data) /\ kCheapPrepend <= Len(b.data) /\ Len(b.data) \in Nat
      /\ b = [data |-> b.data, r |-> b.r, w |-> b.w]
  BY DEF Valid
<1>1. CASE len <= WritableBytes(b)
  <2>1. e = b BY <1>1, <1>a DEF EnsureWriteableBytes, WritableBytes
  <2>2. QED BY <1>1, <2>1, Zenon
<1>2. CASE len > WritableBytes(b) /\ ~RoomInside(b, len)
  <2> DEFINE more == Resize(b.data, b.w + len)
  <2>1. e = [data |-> more, r |-> b.r, w |-> b.w]
    BY <1>2, <1>a, Zenon DEF EnsureWriteableBytes, make_space
  <2>2. /\ more \in Seq(Byte) /\ Len(more) = b.w + len
        /\ \A i \in 1 .. b.w + len : more[i] = IF i <= Len(b.data) THEN b.data[i] ELSE 0
    <3>1. b.w + len \in Nat BY <1>a
    <3>2. QED BY <1>a, <3>1, ResizeType, ZenonT(30)
  <2>3. Len(b.data) < b.w + len BY <1>2, <1>a DEF WritableBytes
  <2> HIDE DEF more, e
  <2>4. Valid(e) BY <2>1, <2>2, <2>3, <1>a, BufferAssumption DEF Valid
  <2>5. len <= WritableBytes(e) BY <2>1, <2>2, <1>a, SMTT(30) DEF WritableBytes
  <2>6. Content(e) = Content(b)
    <3>1. ASSUME NEW i \in 1 .. b.w - b.r PROVE Content(e)[i] = Content(b)[i]
      <4>1. Content(e)[i] = more[b.r + i] /\ Content(b)[i] = b.data[b.r + i]
        BY <2>1, <2>4, <1>a, ContentType, Zenon
      <4>2. b.r + i \in 1 .. b.w + len /\ b.r + i <= Len(b.data)
        BY <1>a
      <4>3. QED BY <4>1, <4>2, <2>2, Zenon
    <3>2. Len(Content(e)) = b.w - b.r
      BY <2>1, <2>4, <1>a, ContentType
    <3>3. QED BY <3>1, <3>2, <2>4, ContentType, SameBytes, Zenon
  <2>7. QED BY <2>4, <2>5, <2>6, Zenon
<1>3. CASE len > WritableBytes(b) /\ RoomInside(b, len)
  <2> DEFINE moved == CopyTo(b.data, kCheapPrepend, Content(b))
  <2>1. e = [data |-> moved, r |-> kCheapPrepend, w |-> kCheapPrepend + (b.w - b.r)]
    BY <1>3, <1>a, Zenon DEF EnsureWriteableBytes, make_space, ReadableBytes
  <2>2. kCheapPrepend < b.r BY <1>3, InsideMovesForward, Zenon
  <2>3. /\ moved \in Seq(Byte) /\ Len(moved) = Len(b.data)
        /\ \A i \in 1 .. Len(b.data) :
             moved[i] = IF kCheapPrepend < i /\ i <= kCheapPrepend + (b.w - b.r)
                        THEN Content(b)[i - kCheapPrepend] ELSE b.data[i]
    <3>1. /\ Content(b) \in Seq(Byte) /\ kCheapPrepend \in Nat
          /\ Len(Content(b)) = b.w - b.r
      BY ContentType, BufferAssumption, Zenon
    <3> HIDE DEF moved
    <3>2. /\ moved \in Seq(Byte) /\ Len(moved) = Len(b.data)
          /\ \A i \in 1 .. Len(b.data) :
               moved[i] = IF kCheapPrepend < i /\ i <= kCheapPrepend + Len(Content(b))
                          THEN Content(b)[i - kCheapPrepend] ELSE b.data[i]
      BY <1>a, <3>1, CopyToType, ZenonT(30) DEF moved
    <3>3. QED BY <3>1, <3>2, Zenon
  <2> HIDE DEF moved, e
  <2>4. Valid(e) BY <2>1, <2>2, <2>3, <1>a, BufferAssumption DEF Valid
  <2>5. len <= WritableBytes(e)
    <3>1. Len(e.data) = Len(b.data) /\ e.w = kCheapPrepend + (b.w - b.r)
      BY <2>1, <2>3, Zenon
    <3>2. /\ Len(b.data) \in Nat /\ b.r \in Nat /\ b.w \in Nat /\ kCheapPrepend \in Nat
          /\ len \in Nat
      BY <1>a, BufferAssumption, Zenon
    <3>3. (Len(b.data) - b.w) + b.r >= len + kCheapPrepend
      BY <1>3, Zenon DEF WritableBytes, RoomInside, PrependableBytes
    <3>4. len <= Len(b.data) - (kCheapPrepend + (b.w - b.r))
      BY <3>2, <3>3, SMTT(30)
    <3>5. QED BY <3>1, <3>4, Zenon DEF WritableBytes
  <2>6. Content(e) = Content(b)
    <3>a. /\ e.data = moved /\ e.r = kCheapPrepend
          /\ e.w = kCheapPrepend + (b.w - b.r)
      BY <2>1, Zenon
    <3>b. e.w - e.r = b.w - b.r
      BY <3>a, <1>a, BufferAssumption, SMTT(30)
    <3>c. /\ Content(e) \in Seq(Byte) /\ Len(Content(e)) = e.w - e.r
          /\ \A i \in 1 .. e.w - e.r : Content(e)[i] = e.data[e.r + i]
      BY <2>4, ContentType, ZenonT(30)
    <3>1. ASSUME NEW i \in 1 .. b.w - b.r PROVE Content(e)[i] = Content(b)[i]
      <4>1. Content(e)[i] = moved[kCheapPrepend + i]
        BY <3>a, <3>b, <3>c, ZenonT(30)
      <4>2. kCheapPrepend + i \in 1 .. Len(b.data) /\ (kCheapPrepend + i) - kCheapPrepend = i
        BY <2>2, <1>a, BufferAssumption, SMTT(30)
      <4>3. kCheapPrepend < kCheapPrepend + i
            /\ kCheapPrepend + i <= kCheapPrepend + (b.w - b.r)
        BY <1>a, BufferAssumption, SMTT(30)
      <4>4. moved[kCheapPrepend + i] = Content(b)[(kCheapPrepend + i) - kCheapPrepend]
        BY <4>2, <4>3, <2>3, Zenon
      <4>5. QED BY <4>1, <4>2, <4>4, Zenon
    <3>2. Len(Content(e)) = b.w - b.r
      BY <3>b, <3>c, Zenon
    <3>3. QED BY <3>1, <3>2, <3>c, ContentType, SameBytes, Zenon
  <2>7. QED BY <2>4, <2>5, <2>6
<1>4. QED BY <1>1, <1>2, <1>3, <1>a DEF WritableBytes

-----------------------------------------------------------------------------
(* Writing behind and in front of the content.                             *)

\* Two strings side by side in a vector.
LEMMA SideBySide ==
  ASSUME NEW c \in Seq(Byte), NEW d \in Seq(Byte), NEW s \in Seq(Byte),
         Len(s) = Len(c) + Len(d),
         \A i \in 1 .. Len(c) : s[i] = c[i],
         \A i \in 1 .. Len(d) : s[Len(c) + i] = d[i]
  PROVE  s = c \o d
<1>1. c \o d \in Seq(Byte) /\ Len(c \o d) = Len(s)
  OBVIOUS
<1>2. ASSUME NEW i \in 1 .. Len(s) PROVE s[i] = (c \o d)[i]
  <2>1. CASE i <= Len(c) BY <2>1
  <2>2. CASE i > Len(c)
    <3>1. i - Len(c) \in 1 .. Len(d) /\ Len(c) + (i - Len(c)) = i BY <2>2
    <3>2. s[i] = d[i - Len(c)] BY <3>1, Zenon
    <3>3. (c \o d)[i] = d[i - Len(c)] BY <2>2, <3>1
    <3>4. QED BY <3>2, <3>3, Zenon
  <2>3. QED BY <2>1, <2>2
<1>3. QED BY <1>1, <1>2, SameBytes, Zenon

\* Bytes copied to begin_write() extend the content.
LEMMA WriteBehind ==
  ASSUME NEW b, Valid(b), NEW d \in Seq(Byte), Len(d) <= WritableBytes(b),
         NEW f, f = [b EXCEPT !.data = CopyTo(@, b.w, d), !.w = @ + Len(d)]
  PROVE  Valid(f) /\ Content(f) = Content(b) \o d
<1> DEFINE new == CopyTo(b.data, b.w, d)
<1>1. /\ b.data \in Seq(Byte) /\ b.r \in Nat /\ b.w \in Nat /\ b.r <= b.w
      /\ kCheapPrepend <= Len(b.data) /\ Len(b.data) \in Nat /\ Len(d) \in Nat
      /\ b.w + Len(d) <= Len(b.data)
  BY DEF Valid, WritableBytes
<1>2. f = [data |-> new, r |-> b.r, w |-> b.w + Len(d)]
  BY DEF Valid
<1>3. /\ new \in Seq(Byte) /\ Len(new) = Len(b.data)
      /\ \A i \in 1 .. Len(b.data) :
           new[i] = IF b.w < i /\ i <= b.w + Len(d) THEN d[i - b.w] ELSE b.data[i]
  BY <1>1, CopyToType, ZenonT(30)
<1>f. f.data = new /\ f.r = b.r /\ f.w = b.w + Len(d)
  BY Zenon DEF Valid
<1> HIDE DEF new
<1>4. Valid(f)
  <2>1. b.w + Len(d) \in Nat /\ b.r <= b.w + Len(d) BY <1>1
  <2>2. f \in [data : Seq(Byte), r : Nat, w : Nat] BY <1>1, <1>2, <1>3, <2>1
  <2>3. QED BY <1>1, <1>3, <1>f, <2>1, <2>2, Zenon DEF Valid
<1>5. /\ Content(b) \in Seq(Byte) /\ Len(Content(b)) = b.w - b.r
      /\ \A i \in 1 .. b.w - b.r : Content(b)[i] = b.data[b.r + i]
  BY ContentType, Zenon
<1>6. /\ Content(f) \in Seq(Byte) /\ Len(Content(f)) = f.w - f.r
      /\ \A i \in 1 .. f.w - f.r : Content(f)[i] = f.data[f.r + i]
  BY <1>4, ContentType, ZenonT(30)
<1>7. Len(Content(f)) = Len(Content(b)) + Len(d)
  BY <1>1, <1>5, <1>6, <1>f, SMTT(30)
<1>8. ASSUME NEW i \in 1 .. Len(Content(b)) PROVE Content(f)[i] = Content(b)[i]
  <2>1. i \in 1 .. b.w - b.r /\ i \in 1 .. f.w - f.r BY <1>1, <1>5, <1>f, SMTT(30)
  <2>2. b.r + i \in 1 .. Len(b.data) /\ ~(b.w < b.r + i) BY <2>1, <1>1, SMTT(30)
  <2>3. new[b.r + i] = b.data[b.r + i] BY <1>3, <2>2, ZenonT(30)
  <2>4. QED BY <1>5, <1>6, <1>f, <2>1, <2>3, Zenon
<1>9. ASSUME NEW i \in 1 .. Len(d) PROVE Content(f)[Len(Content(b)) + i] = d[i]
  <2> DEFINE k == Len(Content(b)) + i
             p == f.r + k
  <2>1. /\ k \in 1 .. f.w - f.r /\ p \in 1 .. Len(b.data)
        /\ b.w < p /\ p <= b.w + Len(d) /\ p - b.w = i
    <3>1. k = (b.w - b.r) + i BY <1>5, Zenon
    <3>2. p = b.r + k /\ f.w - f.r = (b.w + Len(d)) - b.r BY <1>f, Zenon
    <3> HIDE DEF k, p
    <3>3. /\ b.r \in Nat /\ b.w \in Nat /\ b.r <= b.w /\ Len(d) \in Nat /\ i \in 1 .. Len(d)
          /\ Len(b.data) \in Nat /\ b.w + Len(d) <= Len(b.data)
      BY <1>1, Zenon
    <3>4. QED BY <3>1, <3>2, <3>3, SMTT(30)
  <2>2. Content(f)[k] = f.data[p] BY <1>6, <2>1, ZenonT(30)
  <2> HIDE DEF k, p
  <2>3. new[p] = d[p - b.w] BY <1>3, <2>1, ZenonT(30)
  <2>4. Content(f)[k] = d[i] BY <1>f, <2>1, <2>2, <2>3, Zenon
  <2>5. QED BY <2>4, Zenon DEF k
<1>10. Content(f) = Content(b) \o d
  BY <1>5, <1>6, <1>7, <1>8, <1>9, SideBySide, ZenonT(30)
<1>11. QED BY <1>4, <1>10, Zenon

LEMMA AppendedCorrect ==
  ASSUME NEW b, Valid(b), NEW d \in Seq(Byte)
  PROVE  Valid(Appended(b, d)) /\ Content(Appended(b, d)) = Content(b) \o d
<1> DEFINE e == EnsureWriteableBytes(b, Len(d))
<1>1. Valid(e) /\ Len(d) <= WritableBytes(e) /\ Content(e) = Content(b)
  BY EnsureKeeps
<1>2. Appended(b, d) = [e EXCEPT !.data = CopyTo(@, e.w, d), !.w = @ + Len(d)]
  BY Zenon DEF Appended
<1> HIDE DEF e
<1>3. QED BY <1>1, <1>2, WriteBehind

LEMMA ConcatThree ==
  ASSUME NEW c \in Seq(Byte), NEW d \in Seq(Byte), NEW e \in Seq(Byte)
  PROVE  (c \o d) \o e = c \o (d \o e)
BY ConcatAssociative, SMTT(30)

LEMMA FirstAndRest ==
  ASSUME NEW d \in Seq(Byte), NEW n \in 0 .. Len(d)
  PROVE  First(d, n) \o DropFirst(d, n) = d
<1>1. /\ First(d, n) \in Seq(Byte) /\ Len(First(d, n)) = n
      /\ \A i \in 1 .. n : First(d, n)[i] = d[i]
      /\ DropFirst(d, n) \in Seq(Byte) /\ Len(DropFirst(d, n)) = Len(d) - n
      /\ \A i \in 1 .. Len(d) - n : DropFirst(d, n)[i] = d[n + i]
  BY FirstType, DropFirstType
<1>2. /\ Len(d) = Len(First(d, n)) + Len(DropFirst(d, n))
      /\ \A i \in 1 .. Len(First(d, n)) : d[i] = First(d, n)[i]
      /\ \A i \in 1 .. Len(DropFirst(d, n)) : d[Len(First(d, n)) + i] = DropFirst(d, n)[i]
  BY <1>1
<1>3. QED BY <1>1, <1>2, SideBySide, ZenonT(30)

\* ReadFd keeps the order of the bytes although readv scatters them over the
\* vector and extra_buf, and appending the second part may move the first.
LEMMA ReadFromCorrect ==
  ASSUME NEW b, Valid(b), NEW d \in Seq(Byte)
  PROVE  Valid(ReadFrom(b, d)) /\ Content(ReadFrom(b, d)) = Content(b) \o d
<1> DEFINE n  == IF Len(d) <= WritableBytes(b) THEN Len(d) ELSE WritableBytes(b)
           in == [b EXCEPT !.data = CopyTo(@, b.w, First(d, n)), !.w = @ + n]
<1>1. n \in 0 .. Len(d) /\ n <= WritableBytes(b)
  BY DEF Valid, WritableBytes
<1> HIDE DEF n
<1>2. First(d, n) \in Seq(Byte) /\ Len(First(d, n)) = n /\ DropFirst(d, n) \in Seq(Byte)
  BY <1>1, FirstType, DropFirstType
<1>3. Valid(in) /\ Content(in) = Content(b) \o First(d, n)
  <2>1. in = [b EXCEPT !.data = CopyTo(@, b.w, First(d, n)), !.w = @ + Len(First(d, n))]
    BY <1>2, Zenon
  <2>2. Len(First(d, n)) <= WritableBytes(b) BY <1>1, <1>2, Zenon
  <2>3. QED BY <1>2, <2>1, <2>2, WriteBehind
<1> HIDE DEF in
<1>4. CASE Len(d) <= WritableBytes(b)
  <2>1. n = Len(d) BY <1>4, Zenon DEF n
  <2>2. ReadFrom(b, d) = in BY <1>4, Zenon DEF ReadFrom, in, n
  <2>3. First(d, n) = d
    <3>1. \A i \in 1 .. Len(First(d, n)) : First(d, n)[i] = d[i]
      BY <1>1, <1>2, FirstType, Zenon
    <3>2. QED BY <1>2, <2>1, <3>1, SameBytes, Zenon
  <2>4. QED BY <1>3, <2>2, <2>3, Zenon
<1>5. CASE ~(Len(d) <= WritableBytes(b))
  <2>1. ReadFrom(b, d) = Appended(in, DropFirst(d, n)) BY <1>5, Zenon DEF ReadFrom, in, n
  <2>2. /\ Valid(Appended(in, DropFirst(d, n)))
        /\ Content(Appended(in, DropFirst(d, n))) = Content(in) \o DropFirst(d, n)
    BY <1>2, <1>3, AppendedCorrect
  <2>3. (Content(b) \o First(d, n)) \o DropFirst(d, n)
          = Content(b) \o (First(d, n) \o DropFirst(d, n))
    <3>1. Content(b) \in Seq(Byte) BY ContentType, Zenon
    <3>2. QED BY <1>2, <3>1, ConcatThree, ZenonT(30)
  <2>4. First(d, n) \o DropFirst(d, n) = d BY <1>1, FirstAndRest, Zenon
  <2>5. QED BY <2>1, <2>2, <2>3, <2>4, <1>3, Zenon
<1>6. QED BY <1>4, <1>5, Zenon

\* Bytes copied in front of begin_read() extend the content at the front.
LEMMA PrependedCorrect ==
  ASSUME NEW b, Valid(b), NEW d \in Seq(Byte), Len(d) <= PrependableBytes(b)
  PROVE  Valid(Prepended(b, d)) /\ Content(Prepended(b, d)) = d \o Content(b)
<1> DEFINE f   == Prepended(b, d)
           at  == b.r - Len(d)
           new == CopyTo(b.data, at, d)
<1>1. /\ b.data \in Seq(Byte) /\ b.r \in Nat /\ b.w \in Nat /\ b.r <= b.w
      /\ kCheapPrepend <= Len(b.data) /\ Len(b.data) \in Nat /\ Len(d) \in Nat
      /\ b.w <= Len(b.data) /\ Len(d) <= b.r /\ at \in Nat /\ at + Len(d) = b.r
  BY DEF Valid, PrependableBytes
<1>2. /\ f = [data |-> new, r |-> at, w |-> b.w]
      /\ f.data = new /\ f.r = at /\ f.w = b.w
  <2>1. f = [b EXCEPT !.data = new, !.r = at] BY Zenon DEF Prepended
  <2> HIDE DEF f, at, new
  <2>2. f = [data |-> new, r |-> at, w |-> b.w] BY <2>1 DEF Valid
  <2>3. f.data = new /\ f.r = at /\ f.w = b.w BY <2>1, Zenon DEF Valid
  <2>4. QED BY <2>2, <2>3, Zenon
<1> HIDE DEF f, at
<1>3. /\ new \in Seq(Byte) /\ Len(new) = Len(b.data)
      /\ \A i \in 1 .. Len(b.data) :
           new[i] = IF at < i /\ i <= at + Len(d) THEN d[i - at] ELSE b.data[i]
  BY <1>1, CopyToType, ZenonT(30)
<1> HIDE DEF new
<1>4. Valid(f)
  <2>1. f \in [data : Seq(Byte), r : Nat, w : Nat] BY <1>1, <1>2, <1>3, Zenon
  <2>2. QED BY <1>1, <1>2, <1>3, <2>1 DEF Valid
<1>5. /\ Content(b) \in Seq(Byte) /\ Len(Content(b)) = b.w - b.r
      /\ \A i \in 1 .. b.w - b.r : Content(b)[i] = b.data[b.r + i]
  BY ContentType, Zenon
<1>6. /\ Content(f) \in Seq(Byte) /\ Len(Content(f)) = f.w - f.r
      /\ \A i \in 1 .. f.w - f.r : Content(f)[i] = f.data[f.r + i]
  BY <1>4, ContentType, ZenonT(30)
<1>7. Len(Content(f)) = Len(d) + Len(Content(b))
  BY <1>1, <1>2, <1>5, <1>6, SMTT(30)
<1>8. ASSUME NEW i \in 1 .. Len(d) PROVE Content(f)[i] = d[i]
  <2>1. /\ i \in 1 .. f.w - f.r /\ at + i \in 1 .. Len(b.data)
        /\ at < at + i /\ at + i <= at + Len(d) /\ (at + i) - at = i
    BY <1>1, <1>2
  <2>2. Content(f)[i] = f.data[f.r + i] BY <1>6, <2>1, ZenonT(30)
  <2>3. new[at + i] = d[(at + i) - at] BY <1>3, <2>1, ZenonT(30)
  <2>4. QED BY <1>2, <2>1, <2>2, <2>3, Zenon
<1>9. ASSUME NEW i \in 1 .. Len(Content(b)) PROVE Content(f)[Len(d) + i] = Content(b)[i]
  <2>1. i \in 1 .. b.w - b.r BY <1>5, Zenon
  <2>2. /\ Len(d) + i \in 1 .. f.w - f.r /\ at + (Len(d) + i) = b.r + i
        /\ b.r + i \in 1 .. Len(b.data) /\ ~(b.r + i <= at + Len(d))
    <3>1. f.w - f.r = b.w - at BY <1>2, Zenon
    <3>2. at = b.r - Len(d) BY Zenon DEF at
    <3>a. Len(d) \in Nat /\ b.r \in Nat /\ b.w \in Nat BY <1>1, Zenon
    <3>3. Len(d) + i \in 1 .. b.w - at BY <3>a, <2>1, <3>2, SMTT(30)
    <3>4. at + (Len(d) + i) = b.r + i BY <3>a, <3>2, SMTT(30)
    <3>b. Len(b.data) \in Nat /\ b.w <= Len(b.data) BY <1>1, Zenon
    <3>5. b.r + i \in 1 .. Len(b.data) BY <3>a, <3>b, <2>1, SMTT(30)
    <3>6. ~(b.r + i <= at + Len(d)) BY <3>a, <3>2, <2>1, SMTT(30)
    <3>7. QED BY <3>1, <3>3, <3>4, <3>5, <3>6, Zenon
  <2>3. Content(f)[Len(d) + i] = f.data[f.r + (Len(d) + i)] BY <1>6, <2>2, ZenonT(30)
  <2>4. new[b.r + i] = b.data[b.r + i] BY <1>3, <2>2, ZenonT(30)
  <2>5. QED BY <1>2, <1>5, <2>1, <2>2, <2>3, <2>4, Zenon
<1>10. Content(f) = d \o Content(b)
  BY <1>5, <1>6, <1>7, <1>8, <1>9, SideBySide, ZenonT(30)
<1>11. QED BY <1>4, <1>10, Zenon DEF f

\* Advancing the read position consumes from the front of the content.
LEMMA RetrievedCorrect ==
  ASSUME NEW b, Valid(b), NEW n \in 0 .. ReadableBytes(b),
         NEW f, f = [b EXCEPT !.r = @ + n]
  PROVE  Valid(f) /\ Content(f) = DropFirst(Content(b), n)
<1>1. /\ b.data \in Seq(Byte) /\ b.r \in Nat /\ b.w \in Nat /\ b.r <= b.w
      /\ b.w <= Len(b.data) /\ n \in 0 .. b.w - b.r
  BY Zenon DEF Valid, ReadableBytes
<1>2. /\ f.data = b.data /\ f.r = b.r + n /\ f.w = b.w /\ Valid(f)
  BY DEF Valid, ReadableBytes
<1>3. /\ Content(b) \in Seq(Byte) /\ Len(Content(b)) = b.w - b.r
      /\ \A i \in 1 .. b.w - b.r : Content(b)[i] = b.data[b.r + i]
  BY ContentType, Zenon
<1>4. /\ Content(f) \in Seq(Byte) /\ Len(Content(f)) = f.w - f.r
      /\ \A i \in 1 .. f.w - f.r : Content(f)[i] = f.data[f.r + i]
  BY <1>2, ContentType, ZenonT(30)
<1> DEFINE c == Content(b)
           g == Content(f)
<1>5. n \in 0 .. Len(c) BY <1>1, <1>3, Zenon
<1>6. /\ DropFirst(c, n) \in Seq(Byte) /\ Len(DropFirst(c, n)) = Len(c) - n
      /\ \A i \in 1 .. Len(c) - n : DropFirst(c, n)[i] = c[n + i]
  BY <1>3, <1>5, DropFirstType, Zenon
<1>7. Len(g) = Len(DropFirst(c, n)) BY <1>1, <1>2, <1>3, <1>4, <1>6, SMTT(30)
<1>8. ASSUME NEW i \in 1 .. Len(g) PROVE g[i] = DropFirst(c, n)[i]
  <2>1. /\ i \in 1 .. f.w - f.r /\ i \in 1 .. Len(c) - n /\ n + i \in 1 .. b.w - b.r
        /\ f.r + i = b.r + (n + i)
    <3>1. f.w - f.r = (b.w - b.r) - n BY <1>1, <1>2
    <3>2. i \in 1 .. (b.w - b.r) - n BY <1>4, <3>1, Zenon
    <3>3. f.r + i = b.r + (n + i) BY <1>1, <1>2, <3>2
    <3>4. n + i \in 1 .. b.w - b.r
      <4>1. n \in Nat /\ b.w - b.r \in Int BY <1>1
      <4>2. QED BY <4>1, <3>2
    <3>5. QED BY <1>3, <3>1, <3>2, <3>3, <3>4, Zenon
  <2>2. g[i] = f.data[f.r + i] BY <1>4, <2>1, ZenonT(30)
  <2>3. DropFirst(c, n)[i] = c[n + i] BY <1>6, <2>1, ZenonT(30)
  <2>4. c[n + i] = b.data[b.r + (n + i)] BY <1>3, <2>1, ZenonT(30)
  <2>5. QED BY <1>2, <2>1, <2>2, <2>3, <2>4, ZenonT(30)
<1>9. QED BY <1>2, <1>4, <1>6, <1>7, <1>8, SameBytes, ZenonT(30)

-----------------------------------------------------------------------------
(* The specification.                                                      *)

IInv == Valid(buffer)

LEMMA InitValid ==
  ASSUME Init
  PROVE  IInv /\ Content(buffer) = <<>>
<1> DEFINE data == [i \in 1 .. kCheapPrepend + kInitialSize |-> 0]
<1>1. /\ kCheapPrepend + kInitialSize \in Nat /\ kCheapPrepend \in Nat /\ kInitialSize \in Nat
      /\ kCheapPrepend <= kCheapPrepend + kInitialSize
  BY BufferAssumption
<1>2. data \in Seq(Byte) /\ Len(data) = kCheapPrepend + kInitialSize
  BY <1>1, BufferAssumption DEF Byte
<1>3. buffer = [data |-> data, r |-> kCheapPrepend, w |-> kCheapPrepend] /\ result = <<>>
  BY Zenon DEF Init
<1> HIDE DEF data
<1>4. Valid(buffer) BY <1>1, <1>2, <1>3 DEF Valid
<1>5. Content(buffer) \in Seq(Byte) /\ Len(Content(buffer)) = 0
  <2>1. buffer.w - buffer.r = 0 BY <1>1, <1>3
  <2>2. QED BY <1>4, <2>1, ContentType, Zenon
<1>6. Content(buffer) = <<>> BY <1>5
<1>7. QED BY <1>3, <1>4, <1>6, Zenon DEF IInv

LEMMA NextValid ==
  ASSUME IInv, [Next]_vars
  PROVE  IInv' /\ [Queue!Next]_(Queue!vars)
<1> DEFINE c == Content(buffer)
<1>a. /\ Valid(buffer) /\ c \in Seq(Byte)
      /\ Len(c) = ReadableBytes(buffer) /\ ReadableBytes(buffer) \in Nat
  <2>1. Valid(buffer) BY Zenon DEF IInv
  <2>2. c \in Seq(Byte) /\ Len(c) = buffer.w - buffer.r BY <2>1, ContentType, Zenon
  <2>3. QED BY <2>1, <2>2 DEF ReadableBytes, Valid
<1> DEFINE Strings == Data \cup {Encode(v, n) : v \in Numbers, n \in Widths}
<1>b. \A d \in Strings : d \in Seq(Byte)
  <2>1. \A d \in Data : d \in Seq(Byte) BY BufferAssumption, Zenon
  <2>2. ASSUME NEW v \in Numbers, NEW n \in Widths PROVE Encode(v, n) \in Seq(Byte)
    <3>1. v \in Int /\ n \in Nat BY BufferAssumption, Zenon
    <3>2. QED BY <3>1, EncodeType, Zenon
  <2>3. QED BY <2>1, <2>2
<1> HIDE DEF Strings
<1>1. ASSUME NEW d \in Strings, Append_(d) \/ ReadFd(d)
      PROVE  IInv' /\ Queue!Write(d)
  <2>1. result' = result /\ buffer' \in {Appended(buffer, d), ReadFrom(buffer, d)}
    BY <1>1, Zenon DEF Append_, ReadFd
  <2>2. Valid(buffer') /\ Content(buffer') = Content(buffer) \o d
    BY <1>a, <1>b, <2>1, AppendedCorrect, ReadFromCorrect, ZenonT(40)
  <2>3. QED BY <1>a, <2>1, <2>2 DEF IInv, Valid, Content, ReadableBytes, Queue!Write
<1>2. ASSUME NEW d \in Strings, Prepend(d)
      PROVE  IInv' /\ Queue!Prepend(d)
  <2>1. result' = result /\ buffer' = Prepended(buffer, d) /\ Len(d) <= PrependableBytes(buffer)
    BY <1>2, Zenon DEF Prepend
  <2>2. Valid(buffer') /\ Content(buffer') = d \o Content(buffer)
    BY <1>a, <1>b, <2>1, PrependedCorrect, Zenon
  <2>3. QED BY <1>a, <2>1, <2>2 DEF IInv, Valid, Content, ReadableBytes, Queue!Prepend
<1>3. ASSUME NEW n \in 0 .. ReadableBytes(buffer), Retrieve(n) \/ RetrieveAsString(n)
      PROVE  IInv' /\ Queue!Consume(n)
  <2>1. buffer' = [buffer EXCEPT !.r = @ + n] /\ result' \in {result, First(c, n)}
    BY <1>3, Zenon DEF Retrieve, RetrieveAsString
  <2>2. Valid(buffer') /\ Content(buffer') = DropFirst(Content(buffer), n)
    BY <1>a, <2>1, RetrievedCorrect, Zenon
  <2>4. IInv' BY <2>2, Zenon DEF IInv, Valid
  <2>5. Content(buffer)' = Queue!DropFirst(Content(buffer), n)
    <3>1. Content(buffer)' = Content(buffer') BY Zenon DEF Content, ReadableBytes
    <3>2. DropFirst(Content(buffer), n) = Queue!DropFirst(Content(buffer), n)
      BY Zenon DEF DropFirst, Queue!DropFirst
    <3>3. QED BY <2>2, <3>1, <3>2, Zenon
  <2>6. result' \in {result, Queue!First(Content(buffer), n)}
    BY <2>1, Zenon DEF First, Queue!First
  <2>7. QED BY <2>4, <2>5, <2>6, Zenon DEF Queue!Consume
<1>3i. ASSUME NEW n \in Widths, RetrieveAsInt(n)
      PROVE  IInv' /\ n <= Len(c) /\ Queue!ConsumeInt(n)
  <2>1. /\ n \in 0 .. ReadableBytes(buffer) /\ buffer' = [buffer EXCEPT !.r = @ + n]
        /\ result' = <<Decode(First(c, n))>>
    BY <1>3i, <1>a, BufferAssumption DEF RetrieveAsInt, PeekInt
  <2>2. Valid(buffer') /\ Content(buffer') = DropFirst(c, n)
    BY <1>a, <2>1, RetrievedCorrect, Zenon
  <2>3. Content(buffer)' = Queue!DropFirst(c, n)
    <3>1. Content(buffer)' = Content(buffer') BY Zenon DEF Content, ReadableBytes
    <3>2. QED BY <2>2, <3>1, Zenon DEF DropFirst, Queue!DropFirst
  <2>4. result' = <<Queue!Decode(Queue!First(c, n))>>
    BY <2>1, Zenon DEF First, Queue!First, Decode, Queue!Decode, Power, Queue!Power
  <2>5. IInv' BY <2>2, Zenon DEF IInv, Valid
  <2>6. QED BY <1>a, <2>1, <2>3, <2>4, <2>5 DEF Queue!ConsumeInt
<1>4. ASSUME RetrieveAll
      PROVE  IInv' /\ Queue!Consume(Len(c))
  <2>1. buffer' = [buffer EXCEPT !.r = kCheapPrepend, !.w = kCheapPrepend] /\ result' = result
    BY <1>4, Zenon DEF RetrieveAll
  <2>2. Valid(buffer') /\ buffer'.r = kCheapPrepend /\ buffer'.w = kCheapPrepend
    <3>1. kCheapPrepend \in Nat BY BufferAssumption, Zenon
    <3>2. /\ buffer' \in [data : Seq(Byte), r : Nat, w : Nat] /\ buffer'.data = buffer.data
          /\ buffer'.r = kCheapPrepend /\ buffer'.w = kCheapPrepend
      BY <1>a, <2>1, <3>1 DEF Valid
    <3>3. QED BY <1>a, <3>1, <3>2 DEF Valid
  <2>3. Content(buffer') = <<>>
    <3>1. Content(buffer') \in Seq(Byte) /\ Len(Content(buffer')) = buffer'.w - buffer'.r
      BY <2>2, ContentType, Zenon
    <3>2. Len(Content(buffer')) = 0 BY <2>2, <3>1, BufferAssumption
    <3>3. QED BY <3>1, <3>2
  <2>4. DropFirst(c, Len(c)) = <<>>
    <3>1. Len(c) \in 0 .. Len(c) BY <1>a
    <3>2. DropFirst(c, Len(c)) \in Seq(Byte) /\ Len(DropFirst(c, Len(c))) = Len(c) - Len(c)
      BY <1>a, <3>1, DropFirstType, ZenonT(30)
    <3>3. QED BY <1>a, <3>2
  <2>5. QED
    BY <1>a, <2>1, <2>2, <2>3, <2>4, Zenon DEF IInv, Valid, Content, ReadableBytes, DropFirst,
                                        Queue!Consume, Queue!DropFirst
<1>5. ASSUME UNCHANGED vars PROVE IInv' /\ UNCHANGED Queue!vars
  BY <1>5, <1>a, Zenon DEF vars, IInv, Valid, Content, ReadableBytes, Queue!vars
<1>6. ASSUME NEW start, NEW end, RetrieveUntil(end),
             end \in FindCRLF(buffer, start) \cup FindEOL(buffer, start),
             start \in buffer.r .. buffer.w
      PROVE  \E n \in 0 .. ReadableBytes(buffer) : Retrieve(n)
  <2>1. end \in Int /\ buffer.r \in Nat /\ buffer.w \in Nat
    BY <1>6, <1>a, BufferAssumption DEF FindCRLF, FindEOL, Find, Valid
  <2>2. /\ end - buffer.r \in 0 .. ReadableBytes(buffer)
        /\ Retrieve(end - buffer.r)
    BY <1>6, <2>1 DEF RetrieveUntil, ReadableBytes
  <2>3. QED BY <2>2, Zenon
<1>7. Queue!Next <=> \/ \E d \in Strings : Queue!Write(d) \/ Queue!Prepend(d)
                     \/ \E n \in Widths : n <= Len(c) /\ Queue!ConsumeInt(n)
                     \/ \E n \in 0 .. Len(c) : Queue!Consume(n)
  <2>1. Queue!Power = Power BY Zenon DEF Power, Queue!Power
  <2> QED BY <2>1 DEF Queue!Next, Strings, Queue!Encode, Encode
<1> HIDE DEF c
<1>8. ASSUME NEW n \in Widths, NEW v \in Numbers
      PROVE  Encode(v, n) \in Strings
  BY DEF Strings
<1>9. CASE Next
  <2>1. CASE \E d \in Data : Append_(d) \/ ReadFd(d) \/ Prepend(d)
    <3>1. \A d \in Data : d \in Strings BY DEF Strings
    <3>2. QED BY <2>1, <3>1, <1>1, <1>2, <1>7, Zenon
  <2>2. CASE \E n \in Widths : RetrieveAsInt(n)
    BY <2>2, <1>3i, <1>7, Zenon
  <2>3. CASE \E n \in Widths : \E v \in Numbers : AppendInt(v, n) \/ PrependInt(v, n)
    BY <2>3, <1>1, <1>2, <1>7, <1>8, Zenon DEF AppendInt, PrependInt
  <2>4. CASE \E n \in 0 .. ReadableBytes(buffer) : Retrieve(n) \/ RetrieveAsString(n)
    BY <2>4, <1>a, <1>3, <1>7, Zenon
  <2>5. CASE \E start \in buffer.r .. buffer.w :
               \E end \in FindCRLF(buffer, start) \cup FindEOL(buffer, start) : RetrieveUntil(end)
    BY <2>5, <1>a, <1>3, <1>6, <1>7, Zenon
  <2>6. CASE RetrieveAll
    <3>1. Len(c) \in 0 .. Len(c) BY <1>a
    <3>2. QED BY <2>6, <3>1, <1>4, <1>7, Zenon
  <2>7. QED BY <1>9, <2>1, <2>2, <2>3, <2>4, <2>5, <2>6, Zenon DEF Next
<1>10. QED BY <1>5, <1>9, Zenon

\* The indices stay in the order the class documents, whatever is written,
\* prepended, read from a file descriptor and retrieved.
THEOREM IndexCorrect == Spec => []IndexOrder
<1>1. Init => IInv BY InitValid, Zenon
<1>2. IInv /\ [Next]_vars => IInv' BY NextValid, Zenon
<1>3. IInv => IndexOrder BY DEF IInv, Valid, IndexOrder
<1>4. QED BY <1>1, <1>2, <1>3, PTL DEF Spec

\* make_space never copies the content onto itself in the wrong direction.
THEOREM MoveCorrect == Spec => []MovesForward
<1>1. Init => IInv BY InitValid
<1>2. IInv /\ [Next]_vars => IInv' BY NextValid
<1>3. ASSUME IInv PROVE MovesForward
  <2>1. SUFFICES ASSUME NEW d \in Data, Len(d) > WritableBytes(buffer),
                        RoomInside(buffer, Len(d))
                 PROVE  kCheapPrepend < buffer.r
    BY Zenon DEF MovesForward
  <2>2. Valid(buffer) /\ Len(d) \in Nat BY <1>3, BufferAssumption DEF IInv
  <2>3. QED BY <2>1, <2>2, InsideMovesForward, Zenon
<1>4. QED BY <1>1, <1>2, <1>3, PTL DEF Spec

\* Buffer implements ByteQueue: Append and ReadFd add at the back, Prepend at the
\* front, the Retrieve family consumes at the front, and neither make_space nor
\* resize loses, repeats or reorders a byte.
THEOREM BufferImplementsQueue == Spec => ImplementsQueue
<1>1. Init => IInv /\ Queue!Init BY InitValid, Zenon DEF Init, Queue!Init
<1>2. IInv /\ [Next]_vars => IInv' /\ [Queue!Next]_(Queue!vars) BY NextValid, Zenon
<1>3. QED BY <1>1, <1>2, PTL DEF Spec, ImplementsQueue, Queue!Spec

\* The pointer FindCRLF returned is good for RetrieveUntil, and what that takes from
\* start on has no CRLF in it: memmem finds the first one before begin_write().
THEOREM LinesCorrect == Spec => []LinesWhole
<1>1. Init => IInv BY InitValid, Zenon
<1>2. IInv /\ [Next]_vars => IInv' BY NextValid, Zenon
<1>3. ASSUME IInv PROVE LinesWhole
  <2> DEFINE b == buffer
             c == Content(buffer)
  <2>1. SUFFICES ASSUME NEW start \in b.r .. b.w, NEW end \in FindCRLF(b, start)
                 PROVE  LET n == end - b.r
                        IN /\ start <= end /\ end + 2 <= b.w
                           /\ First(DropFirst(c, n), 2) = kCRLF
                           /\ \A i \in 1 + start - b.r .. n : <<c[i], c[i + 1]>> # kCRLF
    BY Zenon DEF LinesWhole
  <2> DEFINE n == end - b.r
  <2>2. Valid(b) /\ b.r \in Nat /\ b.w \in Nat BY <1>3, Zenon DEF IInv, Valid
  <2>3. kCRLF \in Seq(Byte) /\ Len(kCRLF) = 2 BY BufferAssumption, Zenon
  <2>4. /\ c \in Seq(Byte) /\ Len(c) = b.w - b.r
        /\ \A i \in 1 .. b.w - b.r : c[i] = b.data[b.r + i]
    BY <2>2, ContentType, Zenon
  <2> DEFINE At(p) == \A i \in 1 .. Len(kCRLF) : b.data[p + i] = kCRLF[i]
             hits == {p \in start .. b.w - Len(kCRLF) : At(p)}
  <2>5. end \in {p \in hits : \A q \in hits : p <= q} BY <2>1, Zenon DEF FindCRLF, Find
  <2>6. end \in start .. b.w - 2 /\ At(end) /\ \A q \in hits : end <= q BY <2>3, <2>5, Zenon
  <2>a. end \in start .. b.w - 2 BY <2>6, Zenon
  <2>b. Len(c) = b.w - b.r BY <2>4, Zenon
  <2>c. b.r \in Nat /\ b.w \in Nat /\ start \in b.r .. b.w BY <2>1, <2>2, Zenon
  <2> HIDE DEF c, b, At, hits
  <2>7. /\ n \in 0 .. Len(c) /\ n + 2 <= Len(c) /\ start \in Int /\ end \in Int
        /\ b.r + n = end
    <3>1. /\ start \in Int /\ end \in Int /\ b.r <= start /\ start <= end
          /\ end + 2 <= b.w
      BY <2>a, <2>c
    <3> QED BY <2>b, <2>c, <3>1, SMTT(30)
  <2> HIDE DEF n
  <2>8. First(DropFirst(c, n), 2) = kCRLF
    <3> DEFINE d == DropFirst(c, n)
    <3>1. /\ d \in Seq(Byte) /\ Len(d) = Len(c) - n
          /\ \A i \in 1 .. Len(c) - n : d[i] = c[n + i]
      BY <2>4, <2>7, DropFirstType, Zenon
    <3> HIDE DEF d
    <3>2. 2 \in 0 .. Len(d)
      <4>1. Len(d) = Len(c) - n BY <3>1, Zenon
      <4> QED BY <2>2, <2>7, <2>b, <4>1
    <3>3. /\ First(d, 2) \in Seq(Byte) /\ Len(First(d, 2)) = 2
          /\ \A i \in 1 .. 2 : First(d, 2)[i] = d[i]
      BY <3>1, <3>2, FirstType, Zenon
    <3>4. ASSUME NEW i \in 1 .. 2 PROVE First(d, 2)[i] = kCRLF[i]
      <4>1. /\ i \in 1 .. Len(c) - n /\ n + i \in 1 .. b.w - b.r /\ b.r + (n + i) = end + i
            /\ i \in 1 .. Len(kCRLF)
        BY <2>2, <2>3, <2>b, <2>7, SMTT(30)
      <4>2. d[i] = c[n + i] /\ c[n + i] = b.data[end + i] BY <2>4, <3>1, <4>1, Zenon
      <4>3. b.data[end + i] = kCRLF[i] BY <2>6, <4>1, Zenon DEF At
      <4> QED BY <3>3, <4>2, <4>3, Zenon
    <3> QED BY <2>3, <3>3, <3>4, SameBytes, Zenon DEF d
  <2>9. ASSUME NEW i \in 1 + start - b.r .. n, <<c[i], c[i + 1]>> = kCRLF
        PROVE  FALSE
    <3> DEFINE p == b.r + i - 1
    <3>0. i \in Int /\ 1 + start - b.r <= i /\ i <= n /\ b.r <= start BY <2>1, <2>2, <2>7
    <3>1. /\ p \in start .. b.w - Len(kCRLF) /\ p < end
          /\ i \in 1 .. b.w - b.r /\ i + 1 \in 1 .. b.w - b.r
          /\ b.r + i = p + 1 /\ b.r + (i + 1) = p + 2
      <4>1. n \in Int /\ n + 2 <= b.w - b.r /\ start \in Int /\ end = b.r + n
        BY <2>2, <2>b, <2>7
      <4>2. Len(kCRLF) = 2 BY <2>3, Zenon
      <4> QED BY <2>2, <3>0, <4>1, <4>2
    <3> HIDE DEF p
    <3>2. b.data[p + 1] = c[i] /\ b.data[p + 2] = c[i + 1] BY <2>4, <3>1, Zenon
    <3>3. kCRLF[1] = c[i] /\ kCRLF[2] = c[i + 1] BY <2>9, Zenon
    <3>4. ASSUME NEW j \in 1 .. Len(kCRLF) PROVE b.data[p + j] = kCRLF[j]
      <4>1. j = 1 \/ j = 2 BY <2>3
      <4> QED BY <3>2, <3>3, <4>1, Zenon
    <3>5. p \in hits BY <3>1, <3>4, Zenon DEF hits, At
    <3>6. end <= p BY <2>6, <3>5, Zenon
    <3> QED BY <2>7, <3>1, <3>6
  <2>10. start <= end /\ end + 2 <= b.w BY <2>1, <2>2, <2>a
  <2> QED BY <2>8, <2>9, <2>10, Zenon DEF b, c, n
<1>4. QED BY <1>1, <1>2, <1>3, PTL DEF Spec

\* The front of two sequences.
LEMMA FrontOf ==
  ASSUME NEW e \in Seq(Byte), NEW c \in Seq(Byte)
  PROVE  First(e \o c, Len(e)) = e
<1>1. /\ e \o c \in Seq(Byte) /\ Len(e) \in 0 .. Len(e \o c)
      /\ \A i \in 1 .. Len(e) : (e \o c)[i] = e[i]
  OBVIOUS
<1>2. /\ First(e \o c, Len(e)) \in Seq(Byte) /\ Len(First(e \o c, Len(e))) = Len(e)
      /\ \A i \in 1 .. Len(e) : First(e \o c, Len(e))[i] = (e \o c)[i]
  BY <1>1, FirstType, Zenon
<1> QED BY <1>1, <1>2, SameBytes, Zenon

\* PrependInt and AppendInt write what PeekInt reads back, for every number of bytes
\* and values of a byte, wherever the content lies in the vector.
THEOREM IntCorrect == Spec => []IntRoundTrip
<1>1. Init => IInv BY InitValid, Zenon
<1>2. IInv /\ [Next]_vars => IInv' BY NextValid, Zenon
<1>3. ASSUME IInv PROVE IntRoundTrip
  <2> DEFINE c == Content(buffer)
  <2>1. SUFFICES ASSUME NEW n \in Widths, NEW v \in Numbers \cap Ints(n)
                 PROVE  LET e == Encode(v, n) IN
                        /\ n <= PrependableBytes(buffer) => PeekInt(Prepended(buffer, e), n) = v
                        /\ ReadableBytes(buffer) = 0 => PeekInt(Appended(buffer, e), n) = v
    BY Zenon DEF IntRoundTrip
  <2> DEFINE e == Encode(v, n)
  <2>2. n \in Nat /\ v \in Int BY BufferAssumption, Zenon
  <2>3. e \in Seq(Byte) /\ Len(e) = n /\ Decode(e) = v BY <2>2, EncodeType, EncodeDecode, Zenon
  <2>4. /\ Valid(buffer) /\ c \in Seq(Byte) /\ Len(c) = buffer.w - buffer.r
    BY <1>3, ContentType, Zenon DEF IInv
  <2> HIDE DEF e, c
  <2>5. ASSUME NEW b, NEW d \in Seq(Byte), Content(b) = e \o d PROVE PeekInt(b, n) = v
    BY <2>3, <2>5, FrontOf, Zenon DEF PeekInt
  <2>6. ASSUME n <= PrependableBytes(buffer) PROVE PeekInt(Prepended(buffer, e), n) = v
    <3>1. Content(Prepended(buffer, e)) = e \o c
      BY <2>3, <2>4, <2>6, PrependedCorrect, Zenon DEF c
    <3> QED BY <2>4, <2>5, <3>1, Zenon
  <2>7. ASSUME ReadableBytes(buffer) = 0 PROVE PeekInt(Appended(buffer, e), n) = v
    <3>1. Content(Appended(buffer, e)) = c \o e
      BY <2>3, <2>4, AppendedCorrect, Zenon DEF c
    <3>2. c = <<>>
      <4>1. Len(c) = 0 BY <2>4, <2>7, Zenon DEF ReadableBytes
      <4> QED BY <2>4, <4>1, EmptySeq, Zenon
    <3>3. c \o e = e \o c BY <2>3, <3>2
    <3> QED BY <2>4, <2>5, <3>1, <3>3, Zenon
  <2> QED BY <2>6, <2>7, Zenon DEF e
<1>4. QED BY <1>1, <1>2, <1>3, PTL DEF Spec
=============================================================================
