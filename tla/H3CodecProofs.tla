--------------------------- MODULE H3CodecProofs ---------------------------
(***************************************************************************)
(* TLAPS proofs about the HTTP/3 codec: what the decoder of variable-      *)
(* length integers and of units reads is what the encoder wrote, and does  *)
(* not change when more bytes arrive; what the loops over a buffer find;   *)
(* and the mapping of error codes, which loses nothing.                    *)
(***************************************************************************)
EXTENDS H3Codec, ErrorCodes, SequenceTheorems, WellFoundedInduction, TLAPS

Octet == 0 .. 255

\* The first byte announces one, two, four or eight bytes.
LEMMA VarintBytesType ==
  ASSUME NEW first \in Octet
  PROVE  /\ VarintBytes(first) \in {1, 2, 4, 8}
         /\ first < 64 => VarintBytes(first) = 1
         /\ first \in 64 .. 127 => VarintBytes(first) = 2
         /\ first \in 128 .. 191 => VarintBytes(first) = 4
<1>1. /\ first \div 64 \in {0, 1, 2, 3}
      /\ first < 64 => first \div 64 = 0
      /\ first \in 64 .. 127 => first \div 64 = 1
      /\ first \in 128 .. 191 => first \div 64 = 2
  BY DEF Octet
<1>2. 2 ^ 0 = 1 /\ 2 ^ 1 = 2 /\ 2 ^ 2 = 4 /\ 2 ^ 3 = 8
  OBVIOUS
<1> DEFINE k == first \div 64
<1>3. /\ VarintBytes(first) = 2 ^ k
      /\ k \in {0, 1, 2, 3}
      /\ first < 64 => k = 0
      /\ first \in 64 .. 127 => k = 1
      /\ first \in 128 .. 191 => k = 2
  BY <1>1 DEF VarintBytes
<1> HIDE DEF k
<1> QED
  BY <1>2, <1>3, Zenon

\* An octet is a number, with or without its two length bits.
LEMMA OctetNumber ==
  ASSUME NEW x \in Octet
  PROVE  x \in Nat /\ x % 64 \in Nat /\ x % 64 < 64
  BY DEF Octet

\* A turn of the loop of read_varint makes a number of a number and an octet.
LEMMA TurnType ==
  ASSUME NEW v \in Nat, NEW x \in Octet
  PROVE  v * 256 + x \in Nat
  BY OctetNumber

\* The loop of read_varint, for the lengths it runs with.
LEMMA VarintValueIs ==
  ASSUME NEW buf \in Seq(Octet)
  PROVE  /\ Len(buf) >= 1 => VarintValue(buf, 1) = buf[1] % 64
         /\ Len(buf) >= 2 => VarintValue(buf, 2) = (buf[1] % 64) * 256 + buf[2]
         /\ Len(buf) >= 4 =>
              VarintValue(buf, 4) = (((buf[1] % 64) * 256 + buf[2]) * 256 + buf[3]) * 256 + buf[4]
         /\ Len(buf) >= 8 => VarintValue(buf, 8) \in Nat
<1> DEFINE Step(f, i) == IF i = 1 THEN buf[1] % 64 ELSE f[i - 1] * 256 + buf[i]
           w1 == buf[1] % 64
           w2 == w1 * 256 + buf[2]
           w3 == w2 * 256 + buf[3]
           w4 == w3 * 256 + buf[4]
           w5 == w4 * 256 + buf[5]
           w6 == w5 * 256 + buf[6]
           w7 == w6 * 256 + buf[7]
           w8 == w7 * 256 + buf[8]
           w == [i \in 1 .. 8 |-> CASE i = 1 -> w1 [] i = 2 -> w2 [] i = 3 -> w3 [] i = 4 -> w4
                                    [] i = 5 -> w5 [] i = 6 -> w6 [] i = 7 -> w7 [] i = 8 -> w8]
<1>1. /\ w[1] = buf[1] % 64 /\ w[2] = w[1] * 256 + buf[2] /\ w[3] = w[2] * 256 + buf[3]
      /\ w[4] = w[3] * 256 + buf[4] /\ w[5] = w[4] * 256 + buf[5] /\ w[6] = w[5] * 256 + buf[6]
      /\ w[7] = w[6] * 256 + buf[7] /\ w[8] = w[7] * 256 + buf[8]
  OBVIOUS
<1> HIDE DEF w
<1>a. \A i \in 2 .. 8 : w[i] = w[i - 1] * 256 + buf[i]
  <2>1. \A i \in 2 .. 8 : i \in {2, 3, 4, 5, 6, 7, 8}
    OBVIOUS
  <2> SUFFICES ASSUME NEW i \in 2 .. 8 PROVE w[i] = w[i - 1] * 256 + buf[i]
    OBVIOUS
  <2>2. CASE i \in {2, 3, 4}
    BY <1>1, <2>2
  <2>3. CASE i \in {5, 6, 7, 8}
    BY <1>1, <2>3, SMTT(20)
  <2> QED
    BY <2>1, <2>2, <2>3
<1>2. ASSUME NEW n \in {1, 2, 4, 8} PROVE VarintValue(buf, n) = w[n]
  <2> DEFINE f == [i \in 1 .. n |-> w[i]]
  <2>1. f = [i \in 1 .. n |-> Step(f, i)]
    <3>1. ASSUME NEW i \in 1 .. n PROVE w[i] = Step(f, i)
      <4>1. i # 1 => i \in 2 .. 8 /\ f[i - 1] = w[i - 1]
        OBVIOUS
      <4>2. CASE i = 1
        BY <1>1, <4>2
      <4>3. CASE i # 1
        BY <1>a, <4>1, <4>3, Zenon
      <4> QED
        BY <4>2, <4>3
    <3>2. f = [i \in 1 .. n |-> f[i]] /\ \A i \in 1 .. n : f[i] = w[i]
      OBVIOUS
    <3>3. \A i \in 1 .. n : f[i] = Step(f, i)
      BY <3>1, <3>2
    <3> HIDE DEF f, Step
    <3> QED
      BY <3>2, <3>3, Zenon
  <2>2. PICK v : v = [i \in 1 .. n |-> Step(v, i)] /\ VarintValue(buf, n) = v[n]
    BY <2>1 DEF VarintValue
  <2>3. \A i \in 1 .. n : v[i] = Step(v, i)
    BY <2>2
  <2> HIDE DEF f
  <2>4. v[1] = w[1]
    BY <1>1, <2>3
  <2>5. n >= 2 => v[2] = w[2]
    BY <1>1, <2>3, <2>4
  <2>6. n >= 4 => v[4] = w[4]
    BY <1>1, <2>3, <2>5
  <2>7. n >= 8 => v[8] = w[8]
    BY <1>1, <2>3, <2>6
  <2> QED
    BY <2>2, <2>4, <2>5, <2>6, <2>7
<1>3. VarintValue(buf, 1) = w[1] /\ VarintValue(buf, 2) = w[2] /\ VarintValue(buf, 4) = w[4]
      /\ VarintValue(buf, 8) = w[8]
  BY <1>2
<1>4. ASSUME Len(buf) >= 8 PROVE w[8] \in Nat
  <2>1. \A i \in 1 .. Len(buf) : buf[i] \in Octet
    OBVIOUS
  <2>2. /\ buf[1] \in Octet /\ buf[2] \in Octet /\ buf[3] \in Octet /\ buf[4] \in Octet
        /\ buf[5] \in Octet /\ buf[6] \in Octet /\ buf[7] \in Octet /\ buf[8] \in Octet
    BY <1>4, <2>1
  <2> HIDE DEF w1, w2, w3, w4, w5, w6, w7, w8
  <2>4. w[1] \in Nat /\ w[2] \in Nat /\ w[3] \in Nat /\ w[4] \in Nat
    <3>0. buf[1] % 64 \in Nat
      BY <2>2, OctetNumber
    <3>1. w[1] \in Nat
      BY <1>1, <3>0, Zenon
    <3>2. w[2] \in Nat
      BY <1>1, <2>2, <3>1, TurnType
    <3>3. w[3] \in Nat
      BY <1>1, <2>2, <3>2, TurnType
    <3>4. w[4] \in Nat
      BY <1>1, <2>2, <3>3, TurnType
    <3> QED
      BY <3>1, <3>2, <3>3, <3>4
  <2>3. w[5] \in Nat /\ w[6] \in Nat /\ w[7] \in Nat /\ w[8] \in Nat
    <3>0. w[4] * 256 + buf[5] \in Nat
      BY <2>2, <2>4, TurnType
    <3>1. w[5] \in Nat
      BY <1>1, <3>0, Zenon
    <3>2. w[6] \in Nat
      BY <1>1, <2>2, <3>1, TurnType
    <3>3. w[7] \in Nat
      BY <1>1, <2>2, <3>2, TurnType
    <3>4. w[8] \in Nat
      BY <1>1, <2>2, <3>3, TurnType
    <3> QED
      BY <3>1, <3>2, <3>3, <3>4
  <2> QED
    BY <2>3
<1> QED
  BY <1>1, <1>3, <1>4

\* What read_varint returns is a number and a length that the buffer has.
LEMMA ReadVarintType ==
  ASSUME NEW buf \in Seq(Octet)
  PROVE  /\ ReadVarint(buf) \in [val : Nat, len : {0, 1, 2, 4, 8}]
         /\ ReadVarint(buf).len <= Len(buf)
<1>1. CASE buf = <<>> \/ Len(buf) < VarintBytes(buf[1])
  BY <1>1 DEF ReadVarint
<1>2. CASE ~(buf = <<>> \/ Len(buf) < VarintBytes(buf[1]))
  <2> DEFINE n == VarintBytes(buf[1])
  <2>1. Len(buf) \in Nat /\ Len(buf) > 0
    BY <1>2
  <2>5. buf[1] \in Octet /\ \A i \in 1 .. Len(buf) : buf[i] \in Octet
    BY <2>1
  <2>6. n \in {1, 2, 4, 8}
    BY <2>5, VarintBytesType
  <2>7. Len(buf) >= n
    BY <1>2, <2>1, <2>6
  <2>2. ReadVarint(buf) = [val |-> VarintValue(buf, n), len |-> n]
    BY <1>2 DEF ReadVarint
  <2> HIDE DEF n
  <2>3. \A i \in 1 .. n : buf[i] \in Nat
    BY <2>5, <2>6, <2>7, OctetNumber
  <2>8. buf[1] % 64 \in Nat
    BY <2>5, OctetNumber
  <2>4. VarintValue(buf, n) \in Nat
    <3>1. CASE n = 1
      BY <2>7, <2>8, <3>1, VarintValueIs
    <3>2. CASE n = 2
      BY <2>3, <2>7, <2>8, <3>2, VarintValueIs
    <3>3. CASE n = 4
      <4>1. VarintValue(buf, 4) = (((buf[1] % 64) * 256 + buf[2]) * 256 + buf[3]) * 256 + buf[4]
        BY <2>1, <2>7, <3>3, VarintValueIs
      <4>2. buf[2] \in Nat /\ buf[3] \in Nat /\ buf[4] \in Nat
        BY <2>3, <3>3
      <4> DEFINE first == buf[1] % 64
      <4>3. first \in Nat
        BY <2>8
      <4> HIDE DEF first
      <4>4. ((first * 256 + buf[2]) * 256 + buf[3]) * 256 + buf[4] \in Nat
        <5> DEFINE pair == first * 256 + buf[2]
        <5>1. pair \in Nat
          BY <4>2, <4>3
        <5> HIDE DEF pair
        <5>2. (pair * 256 + buf[3]) * 256 + buf[4] \in Nat
          BY <4>2, <5>1, SMTT(20)
        <5> QED
          BY <5>2 DEF pair
      <4> QED
        BY <3>3, <4>1, <4>4 DEF first
    <3>4. CASE n = 8
      <4>1. Len(buf) >= 8
        BY <2>7, <3>4
      <4>2. VarintValue(buf, 8) \in Nat
        BY <2>1, <4>1, VarintValueIs
      <4> QED
        BY <3>4, <4>2, Zenon
    <3> QED
      BY <2>6, <3>1, <3>2, <3>3, <3>4
  <2> QED
    BY <2>2, <2>4, <2>6, <2>7
<1> QED
  BY <1>1, <1>2

\* The value depends on the bytes that were read only.
LEMMA VarintValueAgrees ==
  ASSUME NEW buf, NEW other, NEW n \in {1, 2, 4, 8}, \A i \in 1 .. n : other[i] = buf[i]
  PROVE  VarintValue(other, n) = VarintValue(buf, n)
<1> DEFINE Loop(b, v) == [i \in 1 .. n |-> IF i = 1 THEN b[1] % 64 ELSE v[i - 1] * 256 + b[i]]
<1>1. \A v : Loop(buf, v) = Loop(other, v)
  OBVIOUS
<1>2. VarintValue(buf, n) = (CHOOSE v : v = Loop(buf, v))[n]
  BY DEF VarintValue
<1>3. VarintValue(other, n) = (CHOOSE v : v = Loop(other, v))[n]
  BY DEF VarintValue
<1> HIDE DEF Loop
<1>4. (CHOOSE v : v = Loop(buf, v)) = (CHOOSE v : v = Loop(other, v))
  BY <1>1
<1> QED
  BY <1>2, <1>3, <1>4

\* An integer that was read is read again however many bytes follow.
LEMMA ReadVarintStable ==
  ASSUME NEW buf \in Seq(Octet), NEW more \in Seq(Octet), ReadVarint(buf).len > 0
  PROVE  ReadVarint(buf \o more) = ReadVarint(buf)
<1> DEFINE n == VarintBytes(buf[1])
           all == buf \o more
<1>1. ~(buf = <<>> \/ Len(buf) < n)
  BY DEF ReadVarint
<1>2. Len(buf) \in Nat /\ Len(buf) > 0 /\ buf[1] \in Octet
  BY <1>1
<1>3. n \in {1, 2, 4, 8}
  BY <1>2, VarintBytesType
<1>4. Len(buf) >= n
  BY <1>1, <1>2, <1>3
<1>5. all \in Seq(Octet) /\ Len(all) >= Len(buf) /\ \A i \in 1 .. Len(buf) : all[i] = buf[i]
  OBVIOUS
<1>6. all # <<>> /\ all[1] = buf[1] /\ Len(all) >= n
  BY <1>2, <1>3, <1>4, <1>5
<1>7. VarintValue(all, n) = VarintValue(buf, n)
  <2>1. \A i \in 1 .. n : all[i] = buf[i]
    BY <1>3, <1>4, <1>5
  <2> HIDE DEF n, all
  <2> QED
    BY <1>3, <2>1, VarintValueAgrees
<1>8. ReadVarint(buf) = [val |-> VarintValue(buf, n), len |-> n]
  BY <1>1 DEF ReadVarint
<1>9. ~(all = <<>> \/ Len(all) < n) /\ VarintBytes(all[1]) = n
  BY <1>3, <1>5, <1>6
<1>10. ReadVarint(all) = [val |-> VarintValue(all, n), len |-> n]
  BY <1>9 DEF ReadVarint
<1> QED
  BY <1>7, <1>8, <1>10

\* The byte that completes an integer is its last: nothing of what follows it was
\* read with it.
LEMMA LastByteCompletes ==
  ASSUME NEW buf \in Seq(Octet), NEW more \in Seq(Octet), Len(more) <= 1,
         ReadVarint(buf).len = 0, ReadVarint(buf \o more).len > 0
  PROVE  ReadVarint(buf \o more).len = Len(buf \o more)
<1> DEFINE all == buf \o more
           n == VarintBytes(all[1])
<1>1. all \in Seq(Octet) /\ Len(all) = Len(buf) + Len(more) /\ Len(buf) \in Nat /\ Len(more) \in Nat
  OBVIOUS
<1>2. all # <<>> /\ ~(Len(all) < n) /\ ReadVarint(all).len = n
  BY DEF ReadVarint
<1>3. Len(all) > 0 /\ all[1] \in Octet
  BY <1>1, <1>2
<1>4. n \in {1, 2, 4, 8}
  BY <1>3, VarintBytesType
<1>5. CASE buf = <<>>
  BY <1>1, <1>2, <1>4, <1>5
<1>6. CASE buf # <<>>
  <2>1. buf[1] = all[1] /\ Len(buf) > 0
    BY <1>6
  <2>2. buf[1] \in Octet
    BY <2>1
  <2>3. Len(buf) < n
    <3>1. VarintBytes(buf[1]) = n
      BY <2>1
    <3>2. ~(buf = <<>> \/ Len(buf) < n) => ReadVarint(buf).len = n
      BY <3>1 DEF ReadVarint
    <3> QED
      BY <1>4, <1>6, <3>2
  <2> HIDE DEF all, n
  <2>4. ReadVarint(all).len = Len(all)
    BY <1>1, <1>2, <1>4, <2>3
  <2> QED
    BY <2>4 DEF all
<1> QED
  BY <1>5, <1>6

\* The numbers put_varint writes in at most four bytes.
Encodable == 0 .. 2 ^ 30 - 1

\* What the octets of a number in two, and in four bytes, add up to.
LEMMA Digits ==
  ASSUME NEW v \in Nat
  PROVE  /\ v < 16384 =>
              /\ v \div 256 \in 0 .. 63 /\ v % 256 \in Octet
              /\ (v \div 256) * 256 + (v % 256) = v
         /\ v < 1073741824 =>
              /\ v \div 16777216 \in 0 .. 63 /\ (v \div 65536) % 256 \in Octet
              /\ (v \div 256) % 256 \in Octet /\ v % 256 \in Octet
              /\ (((v \div 16777216) * 256 + ((v \div 65536) % 256)) * 256 + ((v \div 256) % 256)) * 256 + (v % 256) = v
<1>1. v < 16384 =>
        /\ v \div 256 \in 0 .. 63 /\ v % 256 \in Octet
        /\ (v \div 256) * 256 + (v % 256) = v
  BY SMT DEF Octet
<1>2. v < 1073741824 =>
        /\ v \div 16777216 \in 0 .. 63 /\ (v \div 65536) % 256 \in Octet
        /\ (v \div 256) % 256 \in Octet /\ v % 256 \in Octet
  BY SMT DEF Octet
<1>3. v \div 65536 = (v \div 16777216) * 256 + ((v \div 65536) % 256)
  BY SMT
<1>4. v \div 256 = (v \div 65536) * 256 + ((v \div 256) % 256)
  BY SMT
<1>5. v = (v \div 256) * 256 + (v % 256)
  BY SMT
<1> QED
  BY <1>1, <1>2, <1>3, <1>4, <1>5, SMT

\* put_varint writes one, two or four octets, whose first announces them.
LEMMA PutVarintIs ==
  ASSUME NEW v \in Encodable
  PROVE  /\ v < 64 => VarintLen(v) = 1 /\ PutVarint(v) = <<v>>
         /\ v >= 64 /\ v < 16384 =>
              VarintLen(v) = 2 /\ PutVarint(v) = <<64 + v \div 256, v % 256>>
         /\ v >= 16384 =>
              /\ VarintLen(v) = 4
              /\ PutVarint(v) = <<128 + v \div 16777216, (v \div 65536) % 256,
                                  (v \div 256) % 256, v % 256>>
<1>1. /\ 2 ^ 6 = 64 /\ 2 ^ 14 = 16384 /\ 2 ^ 30 = 1073741824
      /\ 256 ^ 0 = 1 /\ 256 ^ 1 = 256 /\ 256 ^ 2 = 65536 /\ 256 ^ 3 = 16777216
  BY SMT
<1>2. v \in Nat /\ v < 1073741824
  BY <1>1, SMT DEF Encodable
<1>3. ASSUME v < 64 PROVE VarintLen(v) = 1 /\ PutVarint(v) = <<v>>
  <2>1. VarintLen(v) = 1
    BY <1>1, <1>2, <1>3, SMT DEF VarintLen
  <2>2. PutVarint(v) = [i \in 1 .. 1 |-> ((v \div 256 ^ (1 - i)) % 256) + (IF i = 1 THEN 0 ELSE 0)]
    BY <2>1, SMT DEF PutVarint
  <2>3. (v \div 1) % 256 = v
    BY <1>2, <1>3, SMT
  <2> QED
    BY <1>1, <1>2, <1>3, <2>1, <2>2, <2>3, SMT
<1>4. ASSUME v >= 64, v < 16384
      PROVE  VarintLen(v) = 2 /\ PutVarint(v) = <<64 + v \div 256, v % 256>>
  <2>1. VarintLen(v) = 2
    BY <1>1, <1>2, <1>4, SMT DEF VarintLen
  <2>2. PutVarint(v) = [i \in 1 .. 2 |-> ((v \div 256 ^ (2 - i)) % 256) + (IF i = 1 THEN 64 ELSE 0)]
    BY <2>1, SMT DEF PutVarint
  <2>3. (v \div 256) % 256 = v \div 256 /\ v \div 1 = v
    BY <1>2, <1>4, SMT
  <2> QED
    BY <1>1, <1>2, <2>1, <2>2, <2>3, SMT
<1>5. ASSUME v >= 16384
      PROVE  /\ VarintLen(v) = 4
             /\ PutVarint(v) = <<128 + v \div 16777216, (v \div 65536) % 256,
                                 (v \div 256) % 256, v % 256>>
  <2>1. VarintLen(v) = 4
    BY <1>1, <1>2, <1>5, SMT DEF VarintLen
  <2>2. PutVarint(v) = [i \in 1 .. 4 |-> ((v \div 256 ^ (4 - i)) % 256) + (IF i = 1 THEN 128 ELSE 0)]
    BY <2>1, SMT DEF PutVarint
  <2>3. (v \div 16777216) % 256 = v \div 16777216 /\ v \div 1 = v
    BY <1>2, SMT
  <2> QED
    BY <1>1, <1>2, <2>1, <2>2, <2>3, SMT
<1> QED
  BY <1>2, <1>3, <1>4, <1>5, SMT

\* Decoding an encoded number alone.
LEMMA DecodePut ==
  ASSUME NEW v \in Encodable
  PROVE  /\ PutVarint(v) \in Seq(Octet) /\ Len(PutVarint(v)) = VarintLen(v) /\ VarintLen(v) \in Nat \ {0}
         /\ ReadVarint(PutVarint(v)) = [val |-> v, len |-> VarintLen(v)]
<1> DEFINE e == PutVarint(v)
           n == VarintLen(v)
<1>0. v \in Nat /\ v < 1073741824
  <2>1. 2 ^ 30 = 1073741824
    BY SMT
  <2> QED
    BY <2>1, SMT DEF Encodable
<1>1. ASSUME e \in Seq(Octet), Len(e) = n, n \in {1, 2, 4}, VarintBytes(e[1]) = n,
             VarintValue(e, n) = v
      PROVE  /\ e \in Seq(Octet) /\ Len(e) = n /\ n \in Nat \ {0}
             /\ ReadVarint(e) = [val |-> v, len |-> n]
  <2> HIDE DEF e, n
  <2>1. ~(e = <<>> \/ Len(e) < VarintBytes(e[1]))
    BY <1>1, SMT
  <2> QED
    BY <1>1, <2>1, SMT DEF ReadVarint
<1>2. CASE v < 64
  <2>1. e = <<v>> /\ n = 1
    BY <1>2, PutVarintIs, SMT
  <2>2. e \in Seq(Octet) /\ Len(e) = 1 /\ e[1] = v /\ v \in Octet /\ v % 64 = v
    <3>1. v \in Octet /\ v % 64 = v
      BY <1>0, <1>2, SMT DEF Octet
    <3> QED
      BY <2>1, <3>1, SMT
  <2> HIDE DEF e, n
  <2>3. VarintBytes(v) = 1
    BY <1>2, <2>2, VarintBytesType, SMT
  <2>4. VarintValue(e, 1) = e[1] % 64
    BY <2>2, VarintValueIs, SMT
  <2> QED
    BY <1>1, <2>1, <2>2, <2>3, <2>4, SMT DEF e, n
<1>3. CASE v >= 64 /\ v < 16384
  <2> DEFINE hi == v \div 256
             first == 64 + hi
             lo == v % 256
  <2>1. e = <<first, lo>> /\ n = 2
    BY <1>3, PutVarintIs, SMT
  <2>2. hi \in 0 .. 63 /\ lo \in Octet /\ hi * 256 + lo = v
    BY <1>0, <1>3, Digits, SMT
  <2> HIDE DEF hi, lo
  <2>3. first \in Octet /\ first \in 64 .. 127 /\ first % 64 = hi
    BY <2>2, SMT DEF Octet
  <2> HIDE DEF first
  <2>4. e \in Seq(Octet) /\ Len(e) = 2 /\ e[1] = first /\ e[2] = lo
    BY <2>1, <2>2, <2>3, SMT
  <2> HIDE DEF e, n
  <2>5. VarintBytes(first) = 2
    BY <2>3, VarintBytesType, SMT
  <2>6. VarintValue(e, 2) = (e[1] % 64) * 256 + e[2]
    BY <2>4, VarintValueIs, SMT
  <2>7. VarintValue(e, 2) = v
    BY <2>2, <2>3, <2>4, <2>6, SMT
  <2> QED
    BY <1>1, <2>1, <2>4, <2>5, <2>7, SMT DEF e, n
<1>4. CASE v >= 16384
  <2> DEFINE hi == v \div 16777216
             first == 128 + hi
             b2 == (v \div 65536) % 256
             b3 == (v \div 256) % 256
             b4 == v % 256
  <2>1. e = <<first, b2, b3, b4>> /\ n = 4
    BY <1>4, PutVarintIs, SMT
  <2>2. /\ hi \in 0 .. 63 /\ b2 \in Octet /\ b3 \in Octet /\ b4 \in Octet
        /\ ((hi * 256 + b2) * 256 + b3) * 256 + b4 = v
    BY <1>0, <1>4, Digits, SMT
  <2> HIDE DEF hi, b2, b3, b4
  <2>3. first \in Octet /\ first \in 128 .. 191 /\ first % 64 = hi
    BY <2>2, SMT DEF Octet
  <2> HIDE DEF first
  <2>4. e \in Seq(Octet) /\ Len(e) = 4 /\ e[1] = first /\ e[2] = b2 /\ e[3] = b3 /\ e[4] = b4
    BY <2>1, <2>2, <2>3, SMT
  <2> HIDE DEF e, n
  <2>5. VarintBytes(first) = 4
    BY <2>3, VarintBytesType, SMT
  <2>6. VarintValue(e, 4) = (((e[1] % 64) * 256 + e[2]) * 256 + e[3]) * 256 + e[4]
    <3>1. e \in Seq(Octet) /\ Len(e) >= 4
      BY <2>4, SMT
    <3> QED
      BY <3>1, VarintValueIs
  <2>7. VarintValue(e, 4) = v
    BY <2>2, <2>3, <2>4, <2>6, SMT
  <2> QED
    BY <1>1, <2>1, <2>4, <2>5, <2>7, SMT DEF e, n
<1> QED
  BY <1>0, <1>2, <1>3, <1>4, SMT

\* read_varint inverts put_varint, whatever follows the number: the value and the
\* number of bytes it took come back.
THEOREM VarintRoundTrip ==
  ASSUME NEW v \in Encodable, NEW rest \in Seq(Octet)
  PROVE  ReadVarint(PutVarint(v) \o rest) = [val |-> v, len |-> VarintLen(v)]
<1>1. /\ PutVarint(v) \in Seq(Octet) /\ VarintLen(v) \in Nat \ {0}
      /\ ReadVarint(PutVarint(v)) = [val |-> v, len |-> VarintLen(v)]
  BY DecodePut
<1>2. ReadVarint(PutVarint(v)).len > 0
  BY <1>1
<1>3. ReadVarint(PutVarint(v) \o rest) = ReadVarint(PutVarint(v))
  BY <1>1, <1>2, ReadVarintStable
<1> QED
  BY <1>1, <1>3, Zenon

\* Joining octets: the order in which pieces are joined does not matter.
LEMMA JoinAssociates ==
  ASSUME NEW a \in Seq(Octet), NEW b \in Seq(Octet), NEW c \in Seq(Octet)
  PROVE  (a \o b) \o c = a \o (b \o c)
  BY ConcatAssociative

\* What two joined pieces consist of.
LEMMA JoinElements ==
  ASSUME NEW a \in Seq(Octet), NEW b \in Seq(Octet)
  PROVE  /\ a \o b \in Seq(Octet) /\ Len(a \o b) = Len(a) + Len(b)
         /\ \A i \in 1 .. Len(a) + Len(b) :
              (a \o b)[i] = IF i <= Len(a) THEN a[i] ELSE b[i - Len(a)]
  BY ConcatProperties

\* What follows a prefix.
LEMMA SuffixOfConcat ==
  ASSUME NEW S, NEW a \in Seq(S), NEW b \in Seq(S)
  PROVE  Suffix(a \o b, Len(a)) = b
  BY DEF Suffix

\* A suffix is a sequence of what is left.
LEMMA SuffixType ==
  ASSUME NEW S, NEW a \in Seq(S), NEW n \in Nat, n <= Len(a)
  PROVE  Suffix(a, n) \in Seq(S) /\ Len(Suffix(a, n)) = Len(a) - n
  BY DEF Suffix

\* Appending to a buffer appends to each of its suffixes.
LEMMA SuffixOfExtended ==
  ASSUME NEW S, NEW a \in Seq(S), NEW b \in Seq(S), NEW n \in Nat, n <= Len(a)
  PROVE  Suffix(a \o b, n) = Suffix(a, n) \o b
<1> DEFINE x == Suffix(a \o b, n)
           y == Suffix(a, n) \o b
<1>1. a \o b \in Seq(S) /\ Len(a \o b) = Len(a) + Len(b) /\ Len(a) \in Nat /\ Len(b) \in Nat
  OBVIOUS
<1>2. x \in Seq(S) /\ Len(x) = Len(a) + Len(b) - n
  <2> DEFINE c == a \o b
  <2>1. c \in Seq(S) /\ Len(c) = Len(a) + Len(b) /\ n <= Len(c)
    BY <1>1
  <2> HIDE DEF c
  <2>2. Suffix(c, n) \in Seq(S) /\ Len(Suffix(c, n)) = Len(c) - n
    BY <2>1, SuffixType
  <2> QED
    BY <2>1, <2>2 DEF c
<1>3. y \in Seq(S) /\ Len(y) = Len(a) + Len(b) - n
  <2>1. Suffix(a, n) \in Seq(S) /\ Len(Suffix(a, n)) = Len(a) - n
    BY SuffixType
  <2> QED
    BY <1>1, <2>1
<1>4. ASSUME NEW i \in 1 .. Len(a) + Len(b) - n PROVE x[i] = y[i]
  <2> DEFINE c == a \o b
  <2>a. /\ c \in Seq(S) /\ Len(c) \in Nat /\ n \in Nat /\ i \in 1 .. Len(c) - n
        /\ x = SubSeq(c, n + 1, Len(c))
    BY <1>1, <1>4 DEF Suffix
  <2>1. x[i] = (a \o b)[i + n]
    <3> HIDE DEF c, x
    <3>1. x[i] = c[i + n]
      BY <2>a
    <3> QED
      BY <3>1 DEF c
  <2> HIDE DEF c
  <2>2. CASE i <= Len(a) - n
    <3>1. y[i] = Suffix(a, n)[i]
      BY <1>1, <2>2, SuffixType
    <3>2. Suffix(a, n)[i] = a[i + n]
      BY <1>1, <2>2 DEF Suffix
    <3>3. (a \o b)[i + n] = a[i + n]
      BY <1>1, <2>2
    <3> QED
      BY <2>1, <3>1, <3>2, <3>3
  <2>3. CASE i > Len(a) - n
    <3>1. y[i] = b[i - (Len(a) - n)]
      <4> DEFINE d == Suffix(a, n)
      <4>1. d \in Seq(S) /\ Len(d) = Len(a) - n /\ Len(d) \in Nat /\ Len(b) \in Nat
        BY <1>1, SuffixType
      <4>2. i \in Len(d) + 1 .. Len(d) + Len(b)
        BY <1>1, <2>3, <4>1
      <4> HIDE DEF d
      <4>3. (d \o b)[i] = b[i - Len(d)]
        BY <4>1, <4>2
      <4> QED
        BY <4>1, <4>3 DEF d
    <3>2. (a \o b)[i + n] = b[i + n - Len(a)]
      BY <1>1, <2>3
    <3>3. i + n - Len(a) = i - (Len(a) - n)
      BY <1>1
    <3> QED
      BY <2>1, <3>1, <3>2, <3>3
  <2> HIDE DEF x, y
  <2>4. i \in Int /\ Len(a) - n \in Int
    BY <1>1
  <2> QED
    BY <2>2, <2>3, <2>4
<1> HIDE DEF x, y
<1>5. x = y
  BY <1>2, <1>3, <1>4, SeqEqual
<1> QED
  BY <1>5 DEF x, y

\* What the front of a buffer is read as.
LEMMA ReadUnitType ==
  ASSUME NEW buf \in Seq(Octet)
  PROVE  /\ ReadUnit(buf) \in [known : BOOLEAN, ty : Nat, start : Nat, len : Nat]
         /\ ReadUnit(buf).start <= Len(buf)
<1> DEFINE t == ReadVarint(buf)
           r == Suffix(buf, t.len)
           l == ReadVarint(r)
<1>1. t \in [val : Nat, len : {0, 1, 2, 4, 8}] /\ t.len <= Len(buf)
  BY ReadVarintType
<1>2. r \in Seq(Octet) /\ Len(r) = Len(buf) - t.len
  <2> DEFINE k == t.len
  <2>1. k \in Nat /\ k <= Len(buf)
    BY <1>1
  <2> HIDE DEF k
  <2>2. Suffix(buf, k) \in Seq(Octet) /\ Len(Suffix(buf, k)) = Len(buf) - k
    BY <2>1, SuffixType
  <2> QED
    BY <2>2 DEF k
<1> HIDE DEF r
<1>3. l \in [val : Nat, len : {0, 1, 2, 4, 8}] /\ l.len <= Len(r)
  BY <1>2, ReadVarintType
<1>4. ReadUnit(buf) = [known |-> t.len > 0 /\ l.len > 0, ty |-> t.val, start |-> t.len + l.len, len |-> l.val]
  BY DEF ReadUnit, r
<1> HIDE DEF t, l
<1> DEFINE start == t.len + l.len
<1>5. start \in Nat /\ start <= Len(buf) /\ t.val \in Nat /\ l.val \in Nat
  BY <1>1, <1>2, <1>3, SMTT(20)
<1> HIDE DEF start
<1>6. ReadUnit(buf) = [known |-> t.len > 0 /\ l.len > 0, ty |-> t.val, start |-> start, len |-> l.val]
  BY <1>4 DEF start
<1> QED
  BY <1>5, <1>6

\* A unit's type and length, once both are read, are the same however many bytes
\* follow: frames and capsules may arrive in chunks of any size.
THEOREM UnitStable ==
  ASSUME NEW buf \in Seq(Octet), NEW more \in Seq(Octet), ReadUnit(buf).known
  PROVE  ReadUnit(buf \o more) = ReadUnit(buf)
<1> DEFINE t == ReadVarint(buf)
           r == Suffix(buf, t.len)
           l == ReadVarint(r)
<1>1. t \in [val : Nat, len : {0, 1, 2, 4, 8}] /\ t.len <= Len(buf)
  BY ReadVarintType
<1>2. r \in Seq(Octet)
  BY <1>1, SuffixType
<1>3. t.len > 0 /\ l.len > 0
  BY DEF ReadUnit
<1>4. ReadVarint(buf \o more) = t
  BY <1>3, ReadVarintStable
<1>5. Suffix(buf \o more, t.len) = r \o more
  <2> DEFINE k == t.len
  <2>1. k \in Nat /\ k <= Len(buf)
    BY <1>1
  <2> HIDE DEF k
  <2>2. Suffix(buf \o more, k) = Suffix(buf, k) \o more
    BY <2>1, SuffixOfExtended
  <2> QED
    BY <2>2 DEF k
<1> HIDE DEF r
<1>6. ReadVarint(r \o more) = l
  BY <1>2, <1>3, ReadVarintStable
<1> HIDE DEF t, l
<1> QED
  BY <1>4, <1>5, <1>6 DEF ReadUnit, t, r, l

\* A frame or capsule is read as what was written, and its value is cut out of the
\* buffer whole, whatever follows it.
THEOREM UnitRoundTrip ==
  ASSUME NEW ty \in Encodable, NEW payload \in Seq(Octet), Len(payload) \in Encodable,
         NEW rest \in Seq(Octet)
  PROVE  LET buf == Frame(ty, payload) \o rest
             u == ReadUnit(buf)
         IN  /\ u.known /\ u.ty = ty /\ u.len = Len(payload)
             /\ u.start + u.len = Len(Frame(ty, payload))
             /\ UnitValue(buf, u) = payload
<1> DEFINE a == PutVarint(ty)
           n == Len(payload)
           b == PutVarint(n)
           frame == Frame(ty, payload)
           buf == frame \o rest
           u == ReadUnit(buf)
<1>1. /\ a \in Seq(Octet) /\ Len(a) = VarintLen(ty) /\ VarintLen(ty) \in Nat \ {0}
      /\ b \in Seq(Octet) /\ Len(b) = VarintLen(n) /\ VarintLen(n) \in Nat \ {0}
  BY DecodePut
<1>2. frame = a \o b \o payload
  BY DEF Frame
<1> HIDE DEF a, b, frame
<1> DEFINE tail == payload \o rest
           head == a \o b
<1>3. tail \in Seq(Octet) /\ Len(tail) = n + Len(rest) /\ \A i \in 1 .. n : tail[i] = payload[i]
  OBVIOUS
<1>12. head \in Seq(Octet) /\ Len(head) = Len(a) + Len(b)
  BY <1>1, ConcatProperties
<1>13. frame = head \o payload /\ Len(frame) = Len(head) + n
  BY <1>2, <1>12
<1>14. buf = head \o tail
  <2>1. (head \o payload) \o rest = head \o (payload \o rest)
    <3> HIDE DEF head
    <3> QED
      BY <1>12, JoinAssociates, Zenon
  <2> QED
    BY <1>13, <2>1
<1> HIDE DEF tail
<1>15. buf = a \o (b \o tail)
  <2>1. (a \o b) \o tail = a \o (b \o tail)
    <3>1. a \in Seq(Octet)
      BY <1>1
    <3>2. b \in Seq(Octet)
      BY <1>1
    <3>3. tail \in Seq(Octet)
      BY <1>3
    <3> QED
      BY <3>1, <3>2, <3>3, JoinAssociates, ZenonT(60)
  <2> QED
    BY <1>14, <2>1
<1> HIDE DEF head
<1>4. b \o tail \in Seq(Octet)
  BY <1>1, <1>3
<1>5. ReadVarint(buf) = [val |-> ty, len |-> Len(a)]
  <2>1. ReadVarint(PutVarint(ty) \o (b \o tail)) = [val |-> ty, len |-> VarintLen(ty)]
    BY <1>4, VarintRoundTrip
  <2> QED
    BY <1>1, <1>15, <2>1 DEF a
<1>6. Suffix(buf, Len(a)) = b \o tail
  BY <1>1, <1>15, <1>4, SuffixOfConcat
<1>7. ReadVarint(b \o tail) = [val |-> n, len |-> Len(b)]
  <2>1. ReadVarint(PutVarint(n) \o tail) = [val |-> n, len |-> VarintLen(n)]
    BY <1>3, VarintRoundTrip
  <2> QED
    BY <1>1, <2>1 DEF b
<1> HIDE DEF buf
<1>8. u = [known |-> TRUE, ty |-> ty, start |-> Len(a) + Len(b), len |-> n]
  <2> DEFINE t == ReadVarint(buf)
             l == ReadVarint(Suffix(buf, t.len))
  <2>1. t.len = Len(a) /\ t.val = ty
    BY <1>5
  <2>2. l = [val |-> n, len |-> Len(b)]
    BY <1>6, <1>7, <2>1
  <2>3. l.len = Len(b) /\ l.val = n
    BY <2>2
  <2>4. u = [known |-> t.len > 0 /\ l.len > 0, ty |-> t.val, start |-> t.len + l.len, len |-> l.val]
    BY DEF ReadUnit
  <2> HIDE DEF t, l, u
  <2>5. t.len > 0 /\ l.len > 0
    BY <1>1, <2>1, <2>3
  <2> QED
    BY <2>1, <2>3, <2>4, <2>5
<1> HIDE DEF u
<1>10. SubSeq(buf, Len(a) + Len(b) + 1, Len(a) + Len(b) + n) = payload
  <2> DEFINE x == SubSeq(buf, Len(head) + 1, Len(head) + n)
  <2>1. n \in Nat /\ Len(rest) \in Nat /\ Len(head) \in Nat
    BY <1>12
  <2>2. /\ buf \in Seq(Octet) /\ Len(buf) = Len(head) + Len(tail)
        /\ \A i \in 1 .. n : buf[Len(head) + i] = tail[i]
    <3>1. /\ buf \in Seq(Octet) /\ Len(buf) = Len(head) + Len(tail)
          /\ \A i \in 1 .. Len(head) + Len(tail) :
               buf[i] = IF i <= Len(head) THEN head[i] ELSE tail[i - Len(head)]
      BY <1>3, <1>12, <1>14, JoinElements, Zenon
    <3>2. ASSUME NEW i \in 1 .. n PROVE buf[Len(head) + i] = tail[i]
      <4>1. Len(head) + i \in 1 .. Len(head) + Len(tail) /\ ~(Len(head) + i <= Len(head))
            /\ Len(head) + i - Len(head) = i
        BY <1>3, <2>1
      <4> QED
        BY <3>1, <4>1
    <3> QED
      BY <3>1, <3>2
  <2>3. x \in Seq(Octet) /\ Len(x) = n /\ \A i \in 1 .. n : x[i] = buf[Len(head) + i]
    BY <1>3, <2>1, <2>2
  <2> HIDE DEF x
  <2>4. x = payload
    BY <1>3, <2>2, <2>3, SeqEqual
  <2> QED
    BY <1>12, <2>4 DEF x
<1>11. UnitValue(buf, u) = payload
  BY <1>8, <1>10 DEF UnitValue
<1> QED
  BY <1>1, <1>8, <1>11, <1>12, <1>13 DEF buf, u, frame
-----------------------------------------------------------------------------
(* Recursion from the end of a sequence *)

\* Induction over the naturals, for a set rather than a predicate.
LEMMA NaturalsIn ==
  ASSUME NEW S, 0 \in S, \A n \in Nat : n \in S => n + 1 \in S
  PROVE  Nat \subseteq S
<1> DEFINE R == OpToRel(<, Nat)
           T == Nat \ S
<1>1. ASSUME T # {} PROVE FALSE
  <2>1. IsWellFoundedOn(R, Nat) /\ T \subseteq Nat
    BY NatLessThanWellFounded
  <2> HIDE DEF R, T
  <2>2. PICK x \in T : \A y \in T : ~ (<<y, x>> \in R)
    BY <1>1, <2>1, WFMin
  <2>3. x \in Nat /\ x # 0 /\ x - 1 \in Nat
    BY DEF T
  <2>4. <<x - 1, x>> \in R
    BY <2>3 DEF R, OpToRel
  <2>5. x - 1 \in S
    BY <2>2, <2>3, <2>4 DEF T
  <2> QED
    BY <2>3, <2>5 DEF T
<1> QED
  BY <1>1

\* What a loop from position i makes of a sequence of length n: nothing where no item is
\* whole, and otherwise an item and what a loop from behind it makes.
Loop(f, n, P, item, next, stop) ==
  f = [i \in 0 .. n |-> IF i \in P THEN <<item[i]>> \o f[next[i]] ELSE stop[i]]

\* Such a function exists.
LEMMA LoopExists ==
  ASSUME NEW n \in Nat, NEW P, NEW item, NEW next, NEW stop,
         \A i \in P : i \in 0 .. n /\ next[i] \in i + 1 .. n
  PROVE  \E f : Loop(f, n, P, item, next, stop)
<1> DEFINE At(g, i) == g[i] = IF i \in P THEN <<item[i]>> \o g[next[i]] ELSE stop[i]
           Done(g, k) == /\ g = [i \in 0 .. n |-> g[i]]
                         /\ \A i \in 0 .. n : i >= n - k => At(g, i)
           S == {k \in Nat : k <= n => \E g : Done(g, k)}
<1>1. 0 \in S
  <2> DEFINE g == [i \in 0 .. n |-> stop[i]]
  <2>1. g = [i \in 0 .. n |-> g[i]]
    OBVIOUS
  <2>2. \A i \in 0 .. n : i >= n - 0 => i \notin P /\ g[i] = stop[i]
    OBVIOUS
  <2> HIDE DEF g
  <2>3. Done(g, 0)
    BY <2>1, <2>2
  <2> QED
    BY <2>3
<1>2. ASSUME NEW k \in Nat, k \in S PROVE k + 1 \in S
  <2> HIDE DEF Done
  <2> SUFFICES ASSUME k + 1 <= n PROVE \E g : Done(g, k + 1)
    OBVIOUS
  <2> USE DEF Done
  <2>1. PICK g : Done(g, k)
    <3>1. k <= n
      OBVIOUS
    <3> HIDE DEF Done
    <3> QED
      BY <1>2, <3>1
  <2> DEFINE m == n - (k + 1)
             v == IF m \in P THEN <<item[m]>> \o g[next[m]] ELSE stop[m]
             h == [i \in 0 .. n |-> IF i = m THEN v ELSE g[i]]
  <2>2. m \in 0 .. n
    OBVIOUS
  <2>3. h = [i \in 0 .. n |-> h[i]] /\ h[m] = v /\ \A i \in 0 .. n : i # m => h[i] = g[i]
    BY <2>2
  <2> HIDE DEF h
  <2>4. ASSUME NEW i \in 0 .. n, i >= m PROVE At(h, i)
    <3>1. i \in P => next[i] \in 0 .. n /\ next[i] # m
      BY <2>4
    <3>2. i \in P => h[next[i]] = g[next[i]]
      BY <2>3, <3>1
    <3>3. CASE i = m
      BY <2>3, <3>2, <3>3
    <3>4. CASE i # m
      <4>1. i >= n - k
        BY <2>4, <3>4
      <4>2. At(g, i)
        BY <2>1, <4>1
      <4> QED
        BY <2>3, <3>2, <3>4, <4>2
    <3> QED
      BY <3>3, <3>4
  <2>5. Done(h, k + 1)
    BY <2>3, <2>4
  <2> HIDE DEF Done
  <2> QED
    BY <2>5
<1>3. n \in S
  <2> HIDE DEF S
  <2> QED
    BY <1>1, <1>2, NaturalsIn
<1>4. PICK g : Done(g, n)
  <2>1. n <= n
    OBVIOUS
  <2> HIDE DEF Done
  <2> QED
    BY <1>3, <2>1
<1>5. \A i \in 0 .. n : At(g, i)
  <2>1. \A i \in 0 .. n : i >= n - n
    OBVIOUS
  <2> HIDE DEF At
  <2> QED
    BY <1>4, <2>1
<1>6. Loop(g, n, P, item, next, stop)
  BY <1>4, <1>5 DEF Loop
<1> QED
  BY <1>6

\* Two loops, the second over what is left of the first's sequence behind position k.
LoopsMatch(f, n, P, item, next, stop, k, g, Q, item2, next2, stop2) ==
  /\ n \in Nat /\ k \in 0 .. n
  /\ \A i \in P : i \in 0 .. n /\ next[i] \in i + 1 .. n
  /\ Loop(f, n, P, item, next, stop)
  /\ Loop(g, n - k, Q, item2, next2, stop2)
  /\ \A i \in 0 .. n - k :
       /\ i \in Q <=> i + k \in P
       /\ i \in Q => item2[i] = item[i + k] /\ next2[i] = next[i + k] - k
       /\ i \notin Q => stop2[i] = stop[i + k]

\* They make the same of it.
LEMMA LoopUnique ==
  ASSUME NEW f, NEW n, NEW P, NEW item, NEW next, NEW stop, NEW k, NEW g, NEW Q, NEW item2,
         NEW next2, NEW stop2,
         LoopsMatch(f, n, P, item, next, stop, k, g, Q, item2, next2, stop2)
  PROVE  \A i \in 0 .. n - k : g[i] = f[i + k]
<1> USE DEF LoopsMatch
<1>0. n \in Nat /\ k \in 0 .. n /\ \A i \in P : i \in 0 .. n /\ next[i] \in i + 1 .. n
  OBVIOUS
<1> DEFINE S == {d \in Nat : \A i \in 0 .. n - k : i >= n - k - d => g[i] = f[i + k]}
<1>1. ASSUME NEW i \in 0 .. n PROVE f[i] = IF i \in P THEN <<item[i]>> \o f[next[i]] ELSE stop[i]
  BY DEF Loop
<1>2. ASSUME NEW i \in 0 .. n - k
      PROVE  g[i] = IF i \in Q THEN <<item2[i]>> \o g[next2[i]] ELSE stop2[i]
  BY DEF Loop
<1>m. \A i \in 0 .. n - k :
        /\ i \in Q <=> i + k \in P
        /\ i \in Q => item2[i] = item[i + k] /\ next2[i] = next[i + k] - k
        /\ i \notin Q => stop2[i] = stop[i + k]
  OBVIOUS
<1> HIDE DEF LoopsMatch
<1>3. ASSUME NEW i \in 0 .. n - k,
             \A j \in 0 .. n - k : j > i => g[j] = f[j + k]
      PROVE  g[i] = f[i + k]
  <2>1. i + k \in 0 .. n
    BY <1>0
  <2>2. CASE i \in Q
    <3>1. i + k \in P /\ item2[i] = item[i + k] /\ next2[i] = next[i + k] - k
      BY <1>m, <2>2
    <3>2. next[i + k] \in i + k + 1 .. n
      BY <1>0, <3>1
    <3>3. next2[i] \in 0 .. n - k /\ next2[i] > i /\ next2[i] + k = next[i + k]
      BY <1>0, <3>1, <3>2
    <3>4. g[next2[i]] = f[next[i + k]]
      BY <1>3, <3>3
    <3> QED
      BY <1>1, <1>2, <2>1, <2>2, <3>1, <3>4
  <2>3. CASE i \notin Q
    BY <1>1, <1>2, <1>m, <2>1, <2>3
  <2> QED
    BY <2>2, <2>3
<1>4. 0 \in S
  <2> SUFFICES ASSUME NEW i \in 0 .. n - k, i >= n - k - 0 PROVE g[i] = f[i + k]
    OBVIOUS
  <2>1. \A j \in 0 .. n - k : ~(j > i)
    BY <1>0
  <2> QED
    BY <1>3, <2>1
<1>5. ASSUME NEW d \in Nat, d \in S PROVE d + 1 \in S
  <2> SUFFICES ASSUME NEW i \in 0 .. n - k, i >= n - k - (d + 1) PROVE g[i] = f[i + k]
    OBVIOUS
  <2>1. \A j \in 0 .. n - k : j > i => j >= n - k - d
    BY <1>0
  <2> QED
    BY <1>3, <1>5, <2>1
<1>6. n - k \in S
  <2> HIDE DEF S
  <2> QED
    <3>1. n - k \in Nat
      BY <1>0
    <3> QED
      BY <1>4, <1>5, <3>1, NaturalsIn
<1>7. n - k \in Nat
  BY <1>0
<1> QED
  BY <1>0, <1>6, <1>7

\* It makes a sequence, if the items and what is made at the end have their types.
LEMMA LoopType ==
  ASSUME NEW n \in Nat, NEW P, NEW item, NEW next, NEW stop,
         \A i \in P : i \in 0 .. n /\ next[i] \in i + 1 .. n,
         NEW f, Loop(f, n, P, item, next, stop),
         NEW X, \A i \in P : item[i] \in X, \A i \in (0 .. n) \ P : stop[i] \in Seq(X)
  PROVE  \A i \in 0 .. n : f[i] \in Seq(X)
<1> DEFINE S == {d \in Nat : \A i \in 0 .. n : i >= n - d => f[i] \in Seq(X)}
<1>1. ASSUME NEW i \in 0 .. n PROVE f[i] = IF i \in P THEN <<item[i]>> \o f[next[i]] ELSE stop[i]
  BY DEF Loop
<1>2. ASSUME NEW i \in 0 .. n, \A j \in 0 .. n : j > i => f[j] \in Seq(X)
      PROVE  f[i] \in Seq(X)
  <2>1. CASE i \in P
    <3> DEFINE r == f[next[i]]
    <3>1. r \in Seq(X) /\ item[i] \in X
      BY <1>2, <2>1
    <3> HIDE DEF r
    <3>2. <<item[i]>> \o r \in Seq(X)
      BY <3>1
    <3> QED
      BY <1>1, <2>1, <3>2 DEF r
  <2>2. CASE i \notin P
    BY <1>1, <2>2
  <2> QED
    BY <2>1, <2>2
<1>3. 0 \in S
  <2> SUFFICES ASSUME NEW i \in 0 .. n, i >= n - 0 PROVE f[i] \in Seq(X)
    OBVIOUS
  <2>1. \A j \in 0 .. n : ~(j > i)
    OBVIOUS
  <2> QED
    BY <1>2, <2>1
<1>4. ASSUME NEW d \in Nat, d \in S PROVE d + 1 \in S
  <2> SUFFICES ASSUME NEW i \in 0 .. n, i >= n - (d + 1) PROVE f[i] \in Seq(X)
    OBVIOUS
  <2>1. \A j \in 0 .. n : j > i => j >= n - d
    OBVIOUS
  <2> QED
    BY <1>2, <1>4, <2>1
<1>5. n \in S
  <2> HIDE DEF S
  <2> QED
    BY <1>3, <1>4, NaturalsIn
<1> QED
  BY <1>5

\* What is left of a sequence behind a part of it.
LEMMA SuffixOfSuffix ==
  ASSUME NEW S, NEW a \in Seq(S), NEW k \in 0 .. Len(a), NEW i \in 0 .. Len(a) - k
  PROVE  Suffix(Suffix(a, k), i) = Suffix(a, i + k)
<1> DEFINE b == Suffix(a, k)
           x == Suffix(b, i)
           y == Suffix(a, i + k)
<1>1. Len(a) \in Nat /\ k \in Nat /\ i \in Nat /\ k <= Len(a) /\ i + k <= Len(a) /\ i + k \in Nat
  OBVIOUS
<1>2. b \in Seq(S) /\ Len(b) = Len(a) - k /\ \A j \in 1 .. Len(a) - k : b[j] = a[j + k]
  <2>1. b \in Seq(S) /\ Len(b) = Len(a) - k
    BY <1>1, SuffixType
  <2>2. \A j \in 1 .. Len(a) - k : b[j] = a[j + k]
    BY <1>1 DEF Suffix
  <2> QED
    BY <2>1, <2>2
<1>3. y \in Seq(S) /\ Len(y) = Len(a) - (i + k) /\ \A j \in 1 .. Len(a) - (i + k) : y[j] = a[j + (i + k)]
  <2> DEFINE m == i + k
  <2>1. m \in Nat /\ m <= Len(a)
    BY <1>1
  <2> HIDE DEF m
  <2>2. Suffix(a, m) \in Seq(S) /\ Len(Suffix(a, m)) = Len(a) - m
    BY <2>1, SuffixType
  <2>3. \A j \in 1 .. Len(a) - m : Suffix(a, m)[j] = a[j + m]
    BY <1>1, <2>1 DEF Suffix
  <2> QED
    BY <2>2, <2>3 DEF m
<1> HIDE DEF b
<1>4. x \in Seq(S) /\ Len(x) = Len(b) - i /\ \A j \in 1 .. Len(b) - i : x[j] = b[j + i]
  <2>1. i <= Len(b)
    BY <1>1, <1>2
  <2>2. x \in Seq(S) /\ Len(x) = Len(b) - i
    BY <1>1, <1>2, <2>1, SuffixType
  <2>3. \A j \in 1 .. Len(b) - i : x[j] = b[j + i]
    BY <1>1, <1>2, <2>1 DEF Suffix
  <2> QED
    BY <2>2, <2>3
<1> HIDE DEF x, y
<1>5. Len(x) = Len(y)
  BY <1>1, <1>2, <1>3, <1>4
<1>6. ASSUME NEW j \in 1 .. Len(x) PROVE x[j] = y[j]
  <2>1. j \in 1 .. Len(b) - i /\ j + i \in 1 .. Len(a) - k /\ j \in 1 .. Len(a) - (i + k)
    BY <1>1, <1>2, <1>4
  <2>2. (j + i) + k = j + (i + k)
    BY <1>1
  <2> QED
    BY <1>2, <1>3, <1>4, <2>1, <2>2
<1>7. x = y
  BY <1>3, <1>4, <1>5, <1>6, SeqEqual
<1> QED
  BY <1>7 DEF x, y, b

\* The SETTINGS of a payload are identifiers and values.
LEMMA SettingsPairsType ==
  ASSUME NEW payload \in Seq(Octet)
  PROVE  SettingsPairs(payload) \in Seq([id : Int, val : Nat])
<1> DEFINE n == Len(payload)
           id(i) == ReadVarint(Suffix(payload, i))
           val(i) == ReadVarint(Suffix(payload, i + id(i).len))
           Body(f, i) == IF i = n THEN <<>>
                         ELSE IF id(i).len = 0 \/ val(i).len = 0 THEN <<[id |-> -1, val |-> 0]>>
                         ELSE <<[id |-> id(i).val, val |-> val(i).val]>> \o f[i + id(i).len + val(i).len]
           P == {i \in 0 .. n : i # n /\ ~(id(i).len = 0 \/ val(i).len = 0)}
           X == [id : Int, val : Nat]
           item == [i \in P |-> [id |-> id(i).val, val |-> val(i).val]]
           next == [i \in P |-> i + id(i).len + val(i).len]
           stop == [i \in 0 .. n |-> IF i = n THEN <<>> ELSE <<[id |-> -1, val |-> 0]>>]
           Turn(f, i) == IF i \in P THEN <<item[i]>> \o f[next[i]] ELSE stop[i]
<1>1. n \in Nat
  OBVIOUS
<1>2. ASSUME NEW i \in 0 .. n
      PROVE  /\ id(i) \in [val : Nat, len : {0, 1, 2, 4, 8}]
             /\ val(i) \in [val : Nat, len : {0, 1, 2, 4, 8}]
             /\ i + id(i).len + val(i).len <= n
  <2> DEFINE a == Suffix(payload, i)
             k == id(i).len
             m == i + k
             b == Suffix(payload, m)
  <2>1. a \in Seq(Octet) /\ Len(a) = n - i
    BY SuffixType
  <2> HIDE DEF a
  <2>2. id(i) \in [val : Nat, len : {0, 1, 2, 4, 8}] /\ k <= n - i
    BY <2>1, ReadVarintType DEF a
  <2>3. m \in Nat /\ m <= n
    BY <1>1, <2>2
  <2> HIDE DEF k, m
  <2>4. b \in Seq(Octet) /\ Len(b) = n - m
    BY <2>3, SuffixType
  <2>5. val(i) = ReadVarint(b)
    BY DEF m, k
  <2> HIDE DEF b
  <2>6. val(i) \in [val : Nat, len : {0, 1, 2, 4, 8}] /\ val(i).len <= n - m
    BY <2>4, <2>5, ReadVarintType
  <2> DEFINE l == val(i).len
  <2>7. l \in Nat /\ l <= n - m
    BY <2>6
  <2> HIDE DEF l
  <2>8. m + l <= n
    BY <1>1, <2>3, <2>7
  <2> QED
    BY <2>2, <2>6, <2>8 DEF m, k, l
<1> HIDE DEF id, val, n
<1>3. ASSUME NEW i \in P
      PROVE  i \in 0 .. n /\ item[i] \in X /\ next[i] \in i + 1 .. n
  <2>1. /\ id(i) \in [val : Nat, len : {0, 1, 2, 4, 8}] /\ val(i) \in [val : Nat, len : {0, 1, 2, 4, 8}]
        /\ i + id(i).len + val(i).len <= n /\ id(i).len # 0 /\ i \in 0 .. n
    BY <1>2
  <2> DEFINE k == id(i).len
             l == val(i).len
  <2>2. k \in Nat \ {0} /\ l \in Nat /\ i + k + l <= n /\ id(i).val \in Nat /\ val(i).val \in Nat
    BY <2>1
  <2>3. next[i] = i + k + l /\ item[i] = [id |-> id(i).val, val |-> val(i).val]
    OBVIOUS
  <2> HIDE DEF k, l, next, item
  <2>4. i + k + l \in i + 1 .. n
    BY <1>1, <2>1, <2>2
  <2> QED
    BY <2>1, <2>2, <2>3, <2>4
<1>4. ASSUME NEW f, NEW i \in 0 .. n PROVE Turn(f, i) = Body(f, i)
  <2>1. CASE i \in P
    BY <2>1
  <2>2. CASE i \notin P
    BY <2>2
  <2> QED
    BY <2>1, <2>2
<1>5. ASSUME NEW i \in (0 .. n) \ P PROVE stop[i] \in Seq(X)
  <2> DEFINE cut == [id |-> -1, val |-> 0]
  <2>1. stop[i] = <<>> \/ stop[i] = <<cut>>
    OBVIOUS
  <2>2. cut \in X
    OBVIOUS
  <2> HIDE DEF stop, X, cut
  <2>3. <<>> \in Seq(X) /\ <<cut>> \in Seq(X)
    BY <2>2
  <2> QED
    BY <2>1, <2>3
<1> HIDE DEF P, item, next, stop, X
<1>6. PICK f : Loop(f, n, P, item, next, stop)
  BY <1>1, <1>3, LoopExists
<1>7. f = [i \in 0 .. n |-> Body(f, i)]
  <2>1. f = [i \in 0 .. n |-> Turn(f, i)]
    BY <1>6 DEF Loop
  <2> HIDE DEF Turn, Body
  <2> QED
    BY <1>4, <2>1
<1>8. PICK v : v = [i \in 0 .. n |-> Body(v, i)] /\ SettingsPairs(payload) = v[0]
  BY <1>7 DEF SettingsPairs, n, id, val
<1>9. Loop(v, n, P, item, next, stop)
  <2>1. v = [i \in 0 .. n |-> Turn(v, i)]
    <3> HIDE DEF Turn, Body
    <3> QED
      BY <1>4, <1>8
  <2> QED
    BY <2>1 DEF Loop
<1>10. \A i \in 0 .. n : v[i] \in Seq(X)
  BY <1>1, <1>3, <1>5, <1>9, LoopType
<1>11. 0 \in 0 .. n
  BY <1>1
<1> QED
  BY <1>8, <1>10, <1>11 DEF X

-----------------------------------------------------------------------------
(* The mapping of error codes *)

\* Division with remainder, for the two divisors the mapping uses.
LEMMA DivMod ==
  ASSUME NEW n \in Nat
  PROVE  /\ n \div 30 \in Nat /\ n % 30 \in 0 .. 29 /\ n = 30 * (n \div 30) + (n % 30)
         /\ n \div 31 \in Nat /\ n % 31 \in 0 .. 30 /\ n = 31 * (n \div 31) + (n % 31)
  OBVIOUS

\* Quotient and remainder are unique.
LEMMA DivUnique ==
  ASSUME NEW q \in Nat, NEW r \in 0 .. 30
  PROVE  (31 * q + r) \div 31 = q /\ (31 * q + r) % 31 = r
  OBVIOUS

\* The mapping is monotone, so codes up to MaxCode stay in the range.
LEMMA ToHttpRange ==
  ASSUME NEW n \in 0 .. MaxCode
  PROVE  ToHttp(n) \in First .. LastCode
<1>1. n \div 30 \in Nat /\ MaxCode \div 30 \in Nat /\ n \div 30 <= MaxCode \div 30
  BY CodeAssumption
<1> QED
  BY <1>1, CodeAssumption DEF ToHttp, LastCode

\* Where First lies among the GREASE code points.
LEMMA FirstOffset == \E k \in Nat : First = 33 + 31 * k + 1
<1>1. First - 33 \in Nat
  BY CodeAssumption
<1>2. First - 33 = 31 * ((First - 33) \div 31) + ((First - 33) % 31) /\ (First - 33) \div 31 \in Nat
  BY <1>1, DivMod
<1> DEFINE k == (First - 33) \div 31
<1>3. First = 33 + 31 * k + 1
  BY <1>1, <1>2, CodeAssumption
<1> QED
  BY <1>2, <1>3

\* A mapped code is never one of the code points HTTP/3 reserves: the peer that
\* receives it cannot mistake it for GREASE.
THEOREM NeverGrease == \A n \in 0 .. MaxCode : ~Grease(ToHttp(n))
<1> SUFFICES ASSUME NEW n \in 0 .. MaxCode PROVE ~Grease(ToHttp(n))
  OBVIOUS
<1>1. PICK k \in Nat : First = 33 + 31 * k + 1
  BY FirstOffset
<1> DEFINE q == n \div 30
           r == n % 30
<1>2. q \in Nat /\ r \in 0 .. 29 /\ n = 30 * q + r
  BY CodeAssumption, DivMod
<1>3. ToHttp(n) = First + n + q
  BY DEF ToHttp
<1> HIDE DEF q, r
<1>4. ToHttp(n) - 33 = 31 * (k + q) + (r + 1) /\ k + q \in Nat /\ r + 1 \in 1 .. 30
  BY <1>1, <1>2, <1>3
<1>5. (31 * (k + q) + (r + 1)) % 31 = r + 1
  BY <1>4, DivUnique
<1> QED
  BY <1>4, <1>5 DEF Grease

\* Mapping a code and mapping it back is the identity: the code a stream is reset
\* with is the code the peer's application sees.
THEOREM RoundTrip == \A n \in 0 .. MaxCode : FromHttp(ToHttp(n)) = n
<1> SUFFICES ASSUME NEW n \in 0 .. MaxCode PROVE FromHttp(ToHttp(n)) = n
  OBVIOUS
<1> DEFINE q == n \div 30
           r == n % 30
<1>1. q \in Nat /\ r \in 0 .. 29 /\ n = 30 * q + r
  BY CodeAssumption, DivMod
<1>2. ToHttp(n) = First + n + q
  BY DEF ToHttp
<1> HIDE DEF q, r
<1>3. ToHttp(n) - First = 31 * q + r
  BY <1>1, <1>2, CodeAssumption
<1>4. (31 * q + r) \div 31 = q
  BY <1>1, DivUnique
<1>5. FromHttp(ToHttp(n)) = (ToHttp(n) - First) - (ToHttp(n) - First) \div 31
  BY ToHttpRange, NeverGrease DEF FromHttp
<1> QED
  BY <1>1, <1>3, <1>4, <1>5

\* The inverse is exact: a code it accepts is the image of the code it returns, so
\* two different codes on the wire never become the same application code.
THEOREM CodesInvert ==
  \A h \in First .. LastCode : FromHttp(h) # None => FromHttp(h) \in Nat /\ ToHttp(FromHttp(h)) = h
<1> SUFFICES ASSUME NEW h \in First .. LastCode, FromHttp(h) # None
             PROVE  FromHttp(h) \in Nat /\ ToHttp(FromHttp(h)) = h
  OBVIOUS
<1>1. PICK k \in Nat : First = 33 + 31 * k + 1
  BY FirstOffset
<1> DEFINE d == h - First
           q == d \div 31
           r == d % 31
<1>2. LastCode \in Int /\ d \in Nat
  BY CodeAssumption DEF LastCode, ToHttp
<1>3. q \in Nat /\ r \in 0 .. 30 /\ d = 31 * q + r
  BY <1>2, DivMod
<1>4. ~Grease(h) /\ FromHttp(h) = d - q
  BY DEF FromHttp
<1>5. h = First + d
  BY CodeAssumption, <1>2
<1> HIDE DEF d, q, r
<1>6. r # 30
  <2> SUFFICES ASSUME r = 30 PROVE FALSE
    OBVIOUS
  <2>1. h - 33 = 31 * (k + q + 1) + 0 /\ k + q + 1 \in Nat
    BY <1>1, <1>3, <1>5
  <2>2. (31 * (k + q + 1) + 0) % 31 = 0
    BY <2>1, DivUnique
  <2> QED
    BY <1>4, <2>1, <2>2 DEF Grease
<1>7. d - q = 30 * q + r /\ d - q \in Nat /\ r \in 0 .. 29
  BY <1>3, <1>6
<1>8. (30 * q + r) \div 30 = q
  BY <1>3, <1>7
<1>9. ToHttp(d - q) = First + (d - q) + q
  BY <1>7, <1>8 DEF ToHttp
<1> QED
  BY <1>2, <1>3, <1>4, <1>5, <1>7, <1>9, CodeAssumption
=============================================================================
