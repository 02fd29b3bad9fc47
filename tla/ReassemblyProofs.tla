-------------------------- MODULE ReassemblyProofs --------------------------
(***************************************************************************)
(* TLAPS proofs about what the receive parsers hand on: their types, and   *)
(* that an open session between two chunks has handed on the frames, the   *)
(* capsules and the stream data that the bytes received so far hold, all   *)
(* of them, in order and unchanged; for all bytes the peer may send, every *)
(* way QUIC may cut them, and every budget.                                *)
(*                                                                         *)
(* A parse of a buffer is compared with a parse of all the bytes at once   *)
(* by Leaves(sent, us, rest): whatever comes after, the units of `sent`    *)
(* are the units us and then those of `rest`.  The invariant ParsersInv    *)
(* says so of every stream of frames, with what is on the stack and in the *)
(* copies; a turn reads, cuts or handles one unit, and Leaves goes on.     *)
(***************************************************************************)
EXTENDS RecvParsersProofs

-----------------------------------------------------------------------------
(* The units at the front of a sequence of bytes *)

\* The front of some bytes is a whole unit; the unit it is; what is left behind it.
Heads(b) ==
  LET u == ReadUnit(b) IN u.known /\ u.len <= MaxFrame /\ Total(u) <= Len(b)
FrontUnit(b) == [ty |-> ReadUnit(b).ty, val |-> UnitValue(b, ReadUnit(b))]
FrontLen(b) == Total(ReadUnit(b))
Behind1(b) == Suffix(b, FrontLen(b))

\* A whole unit is not empty, and the bytes hold it.
LEMMA FrontType ==
  ASSUME NEW b \in Seq(Byte), Heads(b)
  PROVE  /\ FrontLen(b) \in 1 .. Len(b) /\ FrontUnit(b) \in UnitRecord /\ Behind1(b) \in Seq(Byte)
         /\ Len(Behind1(b)) = Len(b) - FrontLen(b)
<1> DEFINE u == ReadUnit(b)
           t == ReadVarint(b)
           r == Suffix(b, t.len)
           l == ReadVarint(r)
<1>0. b \in Seq(Octet) /\ Len(b) \in Nat
  BY ByteIsOctet
<1>1. u \in [known : BOOLEAN, ty : Nat, start : Nat, len : Nat]
  BY <1>0, ReadUnitType
<1>2. t \in [val : Nat, len : {0, 1, 2, 4, 8}] /\ t.len <= Len(b)
  BY <1>0, ReadVarintType
<1>3. r \in Seq(Octet)
  <2> DEFINE k == t.len
  <2>1. k \in Nat /\ k <= Len(b)
    BY <1>2
  <2> HIDE DEF k
  <2>2. Suffix(b, k) \in Seq(Octet)
    BY <1>0, <2>1, SuffixType
  <2> QED
    BY <2>2 DEF k
<1> HIDE DEF r
<1>4. l \in [val : Nat, len : {0, 1, 2, 4, 8}]
  BY <1>3, ReadVarintType
<1>5. u.known = (t.len > 0 /\ l.len > 0) /\ u.start = t.len + l.len
  BY DEF ReadUnit, r
<1> HIDE DEF u, t, l
<1>6. u.start \in Nat /\ u.start > 0 /\ u.len \in Nat
  <2>1. u.known
    BY DEF Heads, u
  <2> DEFINE i == t.len
             j == l.len
  <2>a. i \in Nat /\ j \in Nat
    BY <1>2, <1>4
  <2>b. t.len > 0 /\ u.start = i + j
    BY <1>5, <2>1
  <2>2. i \in Nat /\ j \in Nat /\ i > 0 /\ u.start = i + j
    BY <2>a, <2>b
  <2> HIDE DEF i, j
  <2>3. i + j > 0
    BY <2>2
  <2> QED
    BY <1>1, <2>2, <2>3
<1> DEFINE start == u.start
           len == u.len
<1>7. start \in Nat /\ start > 0 /\ len \in Nat /\ start + len <= Len(b)
  BY <1>6 DEF Heads, Total, u
<1>8. FrontLen(b) = start + len
  BY DEF FrontLen, Total, u
<1> HIDE DEF start, len
<1>9. start + len \in 1 .. Len(b)
  BY <1>0, <1>7
<1>10. SubSeq(b, start + 1, start + len) \in Seq(Byte)
  <2>1. \A i \in start + 1 .. start + len : b[i] \in Byte
    BY <1>7
  <2> QED
    BY <1>7, <2>1, SubSeqProperties
<1>11. FrontUnit(b) \in UnitRecord
  BY <1>1, <1>10 DEF FrontUnit, UnitRecord, UnitValue, u, start, len
<1> DEFINE n == FrontLen(b)
<1>12. n \in Nat /\ n <= Len(b)
  BY <1>0, <1>8, <1>9
<1> HIDE DEF n
<1>13. Suffix(b, n) \in Seq(Byte) /\ Len(Suffix(b, n)) = Len(b) - n
  BY <1>12, SuffixType
<1> QED
  BY <1>8, <1>9, <1>11, <1>13 DEF Behind1, n

\* Units as a loop over positions.
WholeAt(b) == {i \in 0 .. Len(b) : Heads(Suffix(b, i))}
UnitAt(b) == [i \in WholeAt(b) |-> FrontUnit(Suffix(b, i))]
NextAt(b) == [i \in WholeAt(b) |-> i + FrontLen(Suffix(b, i))]
NoneAt(b) == [i \in 0 .. Len(b) |-> <<>>]

\* From each position a later one follows.
LEMMA LaterFollows ==
  ASSUME NEW b \in Seq(Byte), NEW i \in WholeAt(b)
  PROVE  i \in 0 .. Len(b) /\ NextAt(b)[i] \in i + 1 .. Len(b) /\ UnitAt(b)[i] \in UnitRecord
<1> DEFINE r == Suffix(b, i)
           n == FrontLen(r)
<1>1. i \in 0 .. Len(b) /\ Heads(r) /\ NextAt(b)[i] = i + n /\ UnitAt(b)[i] = FrontUnit(r)
  BY DEF WholeAt, NextAt, UnitAt
<1>2. r \in Seq(Byte) /\ Len(r) = Len(b) - i
  BY <1>1, SuffixType
<1> HIDE DEF r
<1>3. n \in 1 .. Len(r) /\ FrontUnit(r) \in UnitRecord
  BY <1>1, <1>2, FrontType
<1> HIDE DEF n
<1>4. i + n \in i + 1 .. Len(b)
  BY <1>1, <1>2, <1>3
<1> QED
  BY <1>1, <1>3, <1>4

\* What Units computes.
LEMMA UnitsLoop ==
  ASSUME NEW b \in Seq(Byte)
  PROVE  \E v : Loop(v, Len(b), WholeAt(b), UnitAt(b), NextAt(b), NoneAt(b)) /\ Units(b) = v[0]
<1> DEFINE n == Len(b)
           Body(f, i) ==
             LET rest == Suffix(b, i)
                 u == ReadUnit(rest)
             IN  IF u.known /\ u.len <= MaxFrame /\ Total(u) <= Len(rest)
                 THEN <<[ty |-> u.ty, val |-> UnitValue(rest, u)]>> \o f[i + Total(u)]
                 ELSE <<>>
           Turn(f, i) == IF i \in WholeAt(b) THEN <<UnitAt(b)[i]>> \o f[NextAt(b)[i]] ELSE NoneAt(b)[i]
<1>1. n \in Nat
  OBVIOUS
<1>2. ASSUME NEW f, NEW i \in 0 .. n PROVE Turn(f, i) = Body(f, i)
  <2>1. CASE i \in WholeAt(b)
    <3>1. /\ UnitAt(b)[i] = FrontUnit(Suffix(b, i)) /\ NextAt(b)[i] = i + FrontLen(Suffix(b, i))
          /\ Heads(Suffix(b, i))
      BY <2>1 DEF WholeAt, UnitAt, NextAt
    <3> QED
      BY <2>1, <3>1 DEF Heads, FrontUnit, FrontLen
  <2>2. CASE i \notin WholeAt(b)
    <3>1. NoneAt(b)[i] = <<>> /\ ~Heads(Suffix(b, i))
      BY <2>2 DEF WholeAt, NoneAt
    <3> QED
      BY <2>2, <3>1 DEF Heads
  <2> QED
    BY <2>1, <2>2
<1>3. PICK f : Loop(f, n, WholeAt(b), UnitAt(b), NextAt(b), NoneAt(b))
  BY <1>1, LaterFollows, LoopExists
<1>4. f = [i \in 0 .. n |-> Body(f, i)]
  <2>1. f = [i \in 0 .. n |-> Turn(f, i)]
    BY <1>3 DEF Loop
  <2> HIDE DEF Turn, Body
  <2> QED
    BY <1>2, <2>1
<1>5. PICK v : v = [i \in 0 .. n |-> Body(v, i)] /\ Units(b) = v[0]
  BY <1>4 DEF Units
<1>6. Loop(v, n, WholeAt(b), UnitAt(b), NextAt(b), NoneAt(b))
  <2>1. v = [i \in 0 .. n |-> Turn(v, i)]
    <3> HIDE DEF Turn, Body
    <3> QED
      BY <1>2, <1>5
  <2> QED
    BY <2>1 DEF Loop
<1> QED
  BY <1>5, <1>6

\* What is found in bytes is well typed.
LEMMA UnitsType ==
  ASSUME NEW b \in Seq(Byte)
  PROVE  Units(b) \in Seq(UnitRecord)
<1>1. PICK v : Loop(v, Len(b), WholeAt(b), UnitAt(b), NextAt(b), NoneAt(b)) /\ Units(b) = v[0]
  BY UnitsLoop
<1>2. ASSUME NEW i \in (0 .. Len(b)) \ WholeAt(b) PROVE NoneAt(b)[i] \in Seq(UnitRecord)
  BY DEF NoneAt
<1>5. Len(b) \in Nat
  OBVIOUS
<1>6. /\ \A i \in WholeAt(b) : i \in 0 .. Len(b) /\ NextAt(b)[i] \in i + 1 .. Len(b)
      /\ \A i \in WholeAt(b) : UnitAt(b)[i] \in UnitRecord
  BY LaterFollows
<1> DEFINE n == Len(b)
           P == WholeAt(b)
           item == UnitAt(b)
           next == NextAt(b)
           stop == NoneAt(b)
           X == UnitRecord
<1>7. /\ n \in Nat /\ \A i \in P : i \in 0 .. n /\ next[i] \in i + 1 .. n
      /\ \A i \in P : item[i] \in X
      /\ \A i \in (0 .. n) \ P : stop[i] \in Seq(X)
      /\ Loop(v, n, P, item, next, stop)
  BY <1>1, <1>2, <1>5, <1>6
<1> HIDE DEF n, P, item, next, stop, X
<1>8. \A i \in 0 .. n : v[i] \in Seq(X)
  BY <1>7, LoopType
<1>3. \A i \in 0 .. Len(b) : v[i] \in Seq(UnitRecord)
  BY <1>8 DEF n, X
<1>4. 0 \in 0 .. Len(b)
  OBVIOUS
<1> QED
  BY <1>1, <1>3, <1>4

\* The first unit, and those behind it; or there is none.
LEMMA UnitsFront ==
  ASSUME NEW b \in Seq(Byte)
  PROVE  /\ Heads(b) => Units(b) = <<FrontUnit(b)>> \o Units(Behind1(b))
         /\ ~Heads(b) => Units(b) = <<>>
<1>1. PICK v : Loop(v, Len(b), WholeAt(b), UnitAt(b), NextAt(b), NoneAt(b)) /\ Units(b) = v[0]
  BY UnitsLoop
<1>2. 0 \in 0 .. Len(b) /\ Suffix(b, 0) = b
  BY SubSeqFull DEF Suffix
<1>3. v[0] = IF 0 \in WholeAt(b) THEN <<UnitAt(b)[0]>> \o v[NextAt(b)[0]] ELSE NoneAt(b)[0]
  BY <1>1, <1>2 DEF Loop
<1>4. CASE Heads(b)
  <2> DEFINE k == FrontLen(b)
             c == Behind1(b)
  <2>1. k \in 0 .. Len(b) /\ c \in Seq(Byte) /\ Len(c) = Len(b) - k /\ k \in 1 .. Len(b)
    BY <1>4, FrontType
  <2>2. 0 \in WholeAt(b) /\ UnitAt(b)[0] = FrontUnit(b) /\ NextAt(b)[0] = k
    BY <1>2, <1>4, <2>1 DEF WholeAt, UnitAt, NextAt
  <2>3. PICK w : Loop(w, Len(c), WholeAt(c), UnitAt(c), NextAt(c), NoneAt(c)) /\ Units(c) = w[0]
    BY <2>1, UnitsLoop
  <2>4. ASSUME NEW i \in 0 .. Len(b) - k
        PROVE  /\ i \in WholeAt(c) <=> i + k \in WholeAt(b)
               /\ i \in WholeAt(c) => UnitAt(c)[i] = UnitAt(b)[i + k] /\ NextAt(c)[i] = NextAt(b)[i + k] - k
               /\ i \notin WholeAt(c) => NoneAt(c)[i] = NoneAt(b)[i + k]
    <3>1. Suffix(c, i) = Suffix(b, i + k)
      BY <2>1, SuffixOfSuffix DEF Behind1
    <3>2. i \in 0 .. Len(c) /\ i + k \in 0 .. Len(b)
      BY <2>1
    <3>3. i \in WholeAt(c) <=> i + k \in WholeAt(b)
      BY <3>1, <3>2 DEF WholeAt
    <3>4. NoneAt(c)[i] = NoneAt(b)[i + k]
      BY <3>2 DEF NoneAt
    <3>5. ASSUME i \in WholeAt(c)
          PROVE  UnitAt(c)[i] = UnitAt(b)[i + k] /\ NextAt(c)[i] = NextAt(b)[i + k] - k
      <4> DEFINE r == Suffix(c, i)
                 m == FrontLen(r)
      <4>1. UnitAt(c)[i] = FrontUnit(r) /\ NextAt(c)[i] = i + m
        BY <3>5 DEF UnitAt, NextAt
      <4>2. UnitAt(b)[i + k] = FrontUnit(r) /\ NextAt(b)[i + k] = (i + k) + m
        BY <3>1, <3>3, <3>5 DEF UnitAt, NextAt
      <4>3. Heads(r) /\ r \in Seq(Byte)
        BY <2>1, <3>2, <3>5, SuffixType DEF WholeAt
      <4> HIDE DEF r
      <4>4. m \in Nat
        BY <4>3, FrontType
      <4> HIDE DEF m
      <4>5. i + m = ((i + k) + m) - k
        BY <2>1, <4>4
      <4> QED
        BY <4>1, <4>2, <4>5
    <3> QED
      BY <3>3, <3>4, <3>5
  <2>5. Loop(w, Len(b) - k, WholeAt(c), UnitAt(c), NextAt(c), NoneAt(c))
    BY <2>1, <2>3
  <2>6. Len(b) \in Nat
    OBVIOUS
  <2> HIDE DEF k, c
  <2> DEFINE n == Len(b)
             P == WholeAt(b)
             item == UnitAt(b)
             next == NextAt(b)
             stop == NoneAt(b)
             Q == WholeAt(c)
             item2 == UnitAt(c)
             next2 == NextAt(c)
             stop2 == NoneAt(c)
  <2>9. /\ n \in Nat /\ \A i \in P : i \in 0 .. n /\ next[i] \in i + 1 .. n
        /\ Loop(v, n, P, item, next, stop) /\ k \in 0 .. n
        /\ Loop(w, n - k, Q, item2, next2, stop2)
    BY <1>1, <2>1, <2>5, <2>6, LaterFollows
  <2>10. \A i \in 0 .. n - k :
           /\ i \in Q <=> i + k \in P
           /\ i \in Q => item2[i] = item[i + k] /\ next2[i] = next[i + k] - k
           /\ i \notin Q => stop2[i] = stop[i + k]
    BY <2>4
  <2>12. LoopsMatch(v, n, P, item, next, stop, k, w, Q, item2, next2, stop2)
    <3> HIDE DEF n, P, item, next, stop, Q, item2, next2, stop2
    <3> QED
      BY <2>9, <2>10 DEF LoopsMatch
  <2> HIDE DEF n, P, item, next, stop, Q, item2, next2, stop2
  <2>11. \A i \in 0 .. n - k : w[i] = v[i + k]
    BY <2>12, LoopUnique
  <2>7. \A i \in 0 .. Len(b) - k : w[i] = v[i + k]
    BY <2>11 DEF n
  <2>8. w[0] = v[k]
    <3>1. 0 \in 0 .. Len(b) - k /\ 0 + k = k
      BY <2>1, <2>6
    <3> QED
      BY <2>7, <3>1
  <2> QED
    BY <1>1, <1>3, <1>4, <2>2, <2>3, <2>8 DEF c
<1>5. CASE ~Heads(b)
  <2>1. 0 \notin WholeAt(b) /\ NoneAt(b)[0] = <<>>
    BY <1>2, <1>5 DEF WholeAt, NoneAt
  <2> QED
    BY <1>1, <1>3, <1>5, <2>1
<1> QED
  BY <1>4, <1>5

\* A parse of the bytes that were sent makes the units us first, and then what it makes of the
\* rest; and this stays so whatever else follows.
Leaves(sent, us, rest) ==
  \A more \in Seq(Byte) : Units(sent \o more) = us \o Units(rest \o more)

\* The units us come first, whatever else follows.
Behind(sent, us) == \A more \in Seq(Byte) : IsPrefix(us, Units(sent \o more))

\* Joining bytes.
LEMMA BytesJoin ==
  ASSUME NEW a \in Seq(Byte), NEW b \in Seq(Byte), NEW c \in Seq(Byte)
  PROVE  /\ a \o b \in Seq(Byte) /\ Len(a \o b) = Len(a) + Len(b)
         /\ (a \o b) \o c = a \o (b \o c)
         /\ a \o <<>> = a /\ <<>> \o a = a
<1>1. a \o b \in Seq(Byte) /\ Len(a \o b) = Len(a) + Len(b)
  BY ConcatProperties
<1>2. (a \o b) \o c = a \o (b \o c)
  BY ConcatAssociative
<1>3. a \o <<>> = a /\ <<>> \o a = a
  BY ConcatEmptySeq
<1> QED
  BY <1>1, <1>2, <1>3

\* Joining units.
LEMMA UnitsJoin ==
  ASSUME NEW a \in Seq(UnitRecord), NEW b \in Seq(UnitRecord), NEW c \in Seq(UnitRecord)
  PROVE  /\ a \o b \in Seq(UnitRecord) /\ Len(a \o b) = Len(a) + Len(b)
         /\ (a \o b) \o c = a \o (b \o c)
         /\ a \o <<>> = a /\ <<>> \o a = a
<1>1. a \o b \in Seq(UnitRecord) /\ Len(a \o b) = Len(a) + Len(b)
  BY ConcatProperties
<1>2. (a \o b) \o c = a \o (b \o c)
  BY ConcatAssociative
<1>3. a \o <<>> = a /\ <<>> \o a = a
  BY ConcatEmptySeq
<1> QED
  BY <1>1, <1>2, <1>3

\* A unit that is whole stays the front, and what follows is appended behind it.
LEMMA FrontStable ==
  ASSUME NEW b \in Seq(Byte), NEW more \in Seq(Byte), Heads(b)
  PROVE  Heads(b \o more) /\ FrontUnit(b \o more) = FrontUnit(b) /\ Behind1(b \o more) = Behind1(b) \o more
<1> DEFINE u == ReadUnit(b)
           w == b \o more
           n == FrontLen(b)
<1>1. w \in Seq(Byte) /\ Len(w) = Len(b) + Len(more) /\ Len(b) \in Nat /\ Len(more) \in Nat
  BY BytesJoin
<1>2. ReadUnit(w) = u
  BY ByteIsOctet, UnitStable DEF Heads
<1>3. n \in 1 .. Len(b) /\ n = Total(u)
  BY FrontType DEF FrontLen
<1>4. u \in [known : BOOLEAN, ty : Nat, start : Nat, len : Nat]
  BY ByteIsOctet, ReadUnitType
<1>5. Suffix(w, n) = Suffix(b, n) \o more
  <2> HIDE DEF n
  <2> QED
    BY <1>3, SuffixOfExtended
<1>6. Heads(w)
  <2>1. u.known /\ u.len <= MaxFrame
    BY DEF Heads
  <2>2. Total(u) <= Len(w)
    <3> HIDE DEF n, w, u
    <3> QED
      BY <1>1, <1>3
  <2> HIDE DEF w, u
  <2> QED
    BY <1>2, <2>1, <2>2 DEF Heads
<1>7. UnitValue(w, u) = UnitValue(b, u)
  <2> DEFINE i == u.start
             j == u.len
  <2>1. i \in Nat /\ j \in Nat /\ i + j <= Len(b)
    BY <1>3, <1>4 DEF Total
  <2> HIDE DEF i, j
  <2>2. SubSeq(w, i + 1, i + j) = SubSeq(b, i + 1, i + j)
    <3>1. \A m \in i + 1 .. i + j : w[m] = b[m]
      BY <2>1
    <3> DEFINE x == SubSeq(w, i + 1, i + j)
               y == SubSeq(b, i + 1, i + j)
    <3>2. \A m \in i + 1 .. i + j : b[m] \in Byte /\ w[m] \in Byte
      BY <1>1, <2>1, <3>1
    <3>3. /\ x \in Seq(Byte) /\ Len(x) = j /\ \A m \in 1 .. j : x[m] = w[i + m]
          /\ y \in Seq(Byte) /\ Len(y) = j /\ \A m \in 1 .. j : y[m] = b[i + m]
      <4> DEFINE k == i + 1
                 l == i + j
      <4>1. k \in Nat \ {0} /\ l \in Nat /\ l <= Len(b) /\ l <= Len(w)
            /\ (IF k <= l THEN l - k + 1 ELSE 0) = j /\ \A m \in 1 .. j : k + m - 1 = i + m
        BY <1>1, <2>1
      <4> HIDE DEF k, l, w
      <4>2. SubSeq(b, k, l) = [m \in 1 .. j |-> b[k + m - 1]]
        BY <2>1, <4>1
      <4>3. SubSeq(w, k, l) = [m \in 1 .. j |-> w[k + m - 1]]
        BY <2>1, <4>1
      <4>4. \A m \in 1 .. j : i + m \in i + 1 .. i + j
        BY <2>1
      <4> QED
        BY <2>1, <3>2, <4>1, <4>2, <4>3, <4>4 DEF k, l
    <3> HIDE DEF x, y, w
    <3>4. x = y
      <4>1. \A m \in 1 .. j : i + m \in i + 1 .. i + j
        BY <2>1
      <4>2. \A m \in 1 .. j : x[m] = y[m]
        BY <3>1, <3>3, <4>1
      <4> QED
        BY <3>3, <4>2, SeqEqual
    <3> QED
      BY <3>4 DEF x, y
  <2> QED
    BY <2>2 DEF UnitValue, i, j
<1>8. FrontUnit(w) = FrontUnit(b)
  BY <1>2, <1>7 DEF FrontUnit
<1>9. Behind1(w) = Behind1(b) \o more
  BY <1>2, <1>5 DEF Behind1, FrontLen
<1> QED
  BY <1>6, <1>8, <1>9

\* Before anything is parsed.
LEMMA LeavesStart ==
  ASSUME NEW b \in Seq(Byte)
  PROVE  Leaves(b, <<>>, b)
<1> SUFFICES ASSUME NEW more \in Seq(Byte) PROVE Units(b \o more) = <<>> \o Units(b \o more)
  BY DEF Leaves
<1> DEFINE us == Units(b \o more)
<1>1. us \in Seq(UnitRecord)
  BY BytesJoin, UnitsType
<1> HIDE DEF us
<1> QED
  BY <1>1, UnitsJoin DEF us

\* More is read.
LEMMA LeavesRead ==
  ASSUME NEW sent \in Seq(Byte), NEW us, NEW rest \in Seq(Byte), NEW x \in Seq(Byte),
         Leaves(sent, us, rest)
  PROVE  Leaves(sent \o x, us, rest \o x)
<1> SUFFICES ASSUME NEW more \in Seq(Byte)
             PROVE  Units((sent \o x) \o more) = us \o Units((rest \o x) \o more)
  BY DEF Leaves
<1>1. x \o more \in Seq(Byte)
  BY BytesJoin
<1>2. (sent \o x) \o more = sent \o (x \o more)
  BY BytesJoin
<1>4. (rest \o x) \o more = rest \o (x \o more)
  BY ConcatAssociative, SMTT(30)
<1> DEFINE y == x \o more
<1>3. Units(sent \o y) = us \o Units(rest \o y)
  <2> HIDE DEF y
  <2> QED
    BY <1>1 DEF Leaves, y
<1> QED
  BY <1>2, <1>3, <1>4

\* The unit at the front of the rest is taken.
LEMMA LeavesCut ==
  ASSUME NEW sent \in Seq(Byte), NEW us \in Seq(UnitRecord), NEW rest \in Seq(Byte),
         Leaves(sent, us, rest), Heads(rest)
  PROVE  Leaves(sent, us \o <<FrontUnit(rest)>>, Behind1(rest))
<1> SUFFICES ASSUME NEW more \in Seq(Byte)
             PROVE  Units(sent \o more) = (us \o <<FrontUnit(rest)>>) \o Units(Behind1(rest) \o more)
  BY DEF Leaves
<1> DEFINE w == rest \o more
           x == FrontUnit(rest)
           c == Behind1(rest) \o more
<1>1. w \in Seq(Byte)
  BY BytesJoin
<1>2. Heads(w) /\ FrontUnit(w) = x /\ Behind1(w) = c
  BY FrontStable
<1>3. x \in UnitRecord /\ c \in Seq(Byte)
  BY FrontType, BytesJoin
<1>4. Units(sent \o more) = us \o Units(w)
  BY DEF Leaves
<1> HIDE DEF w, x, c
<1>5. Units(w) = <<x>> \o Units(c)
  BY <1>1, <1>2, UnitsFront
<1>6. Units(c) \in Seq(UnitRecord) /\ <<x>> \in Seq(UnitRecord)
  BY <1>3, UnitsType
<1>7. us \o (<<x>> \o Units(c)) = (us \o <<x>>) \o Units(c)
  BY <1>6, UnitsJoin, SMTT(30)
<1> QED
  BY <1>4, <1>5, <1>7 DEF w, x, c

\* Nothing whole is left: the units are all there is.
LEMMA LeavesDone ==
  ASSUME NEW sent \in Seq(Byte), NEW us \in Seq(UnitRecord), NEW rest \in Seq(Byte),
         Leaves(sent, us, rest), ~Heads(rest)
  PROVE  Units(sent) = us
<1>1. <<>> \in Seq(Byte) /\ sent \o <<>> = sent /\ rest \o <<>> = rest
  BY BytesJoin
<1>2. Units(sent) = us \o Units(rest)
  BY <1>1 DEF Leaves
<1>3. Units(rest) = <<>>
  BY UnitsFront
<1>4. us \o <<>> = us
  BY UnitsJoin
<1> QED
  BY <1>2, <1>3, <1>4

\* A part of the units is a prefix of what will be found.
LEMMA PrefixOfJoin ==
  ASSUME NEW a \in Seq(UnitRecord), NEW b \in Seq(UnitRecord)
  PROVE  IsPrefix(a, a \o b)
<1> DEFINE w == a \o b
<1>1. w \in Seq(UnitRecord) /\ Len(w) = Len(a) + Len(b) /\ Len(a) \in Nat /\ Len(b) \in Nat
      /\ \A i \in 1 .. Len(a) : w[i] = a[i]
  BY ConcatProperties
<1> HIDE DEF w
<1>2. Len(a) <= Len(w)
  BY <1>1
<1> DEFINE x == SubSeq(a, 1, Len(a))
           y == SubSeq(w, 1, Len(a))
<1>3. x \in Seq(UnitRecord) /\ y \in Seq(UnitRecord) /\ Len(x) = Len(a) /\ Len(y) = Len(a)
      /\ \A i \in 1 .. Len(a) : x[i] = a[i] /\ y[i] = w[i]
  <2>1. \A i \in 1 .. Len(a) : a[i] \in UnitRecord /\ w[i] \in UnitRecord
    BY <1>1
  <2> QED
    BY <1>1, <1>2, <2>1, SubSeqProperties
<1> HIDE DEF x, y
<1>4. x = y
  <2>1. \A i \in 1 .. Len(x) : x[i] = y[i]
    BY <1>1, <1>3
  <2> QED
    BY <1>3, <2>1, SeqEqual
<1> QED
  BY <1>2, <1>4 DEF IsPrefix, x, y, w

\* Units that leave something behind come first.
LEMMA LeavesBehind ==
  ASSUME NEW sent \in Seq(Byte), NEW us \in Seq(UnitRecord), NEW h \in Seq(UnitRecord),
         NEW rest \in Seq(Byte), Leaves(sent, us \o h, rest)
  PROVE  Behind(sent, us)
<1> SUFFICES ASSUME NEW more \in Seq(Byte) PROVE IsPrefix(us, Units(sent \o more))
  BY DEF Behind
<1> DEFINE r == Units(rest \o more)
<1>1. r \in Seq(UnitRecord)
  BY BytesJoin, UnitsType
<1>2. Units(sent \o more) = (us \o h) \o r
  BY DEF Leaves
<1> HIDE DEF r
<1>3. (us \o h) \o r = us \o (h \o r) /\ h \o r \in Seq(UnitRecord)
  BY <1>1, UnitsJoin, SMTT(30)
<1> DEFINE t == h \o r
<1>4. t \in Seq(UnitRecord) /\ Units(sent \o more) = us \o t
  BY <1>2, <1>3
<1> HIDE DEF t
<1> QED
  BY <1>4, PrefixOfJoin

\* More is read of a stream whose parse has failed.
LEMMA BehindRead ==
  ASSUME NEW sent \in Seq(Byte), NEW us, NEW x \in Seq(Byte), Behind(sent, us)
  PROVE  Behind(sent \o x, us)
<1> SUFFICES ASSUME NEW more \in Seq(Byte) PROVE IsPrefix(us, Units((sent \o x) \o more))
  BY DEF Behind
<1> DEFINE y == x \o more
<1>1. y \in Seq(Byte) /\ (sent \o x) \o more = sent \o y
  BY BytesJoin, SMTT(30)
<1> HIDE DEF y
<1>2. IsPrefix(us, Units(sent \o y))
  BY <1>1 DEF Behind
<1> QED
  BY <1>1, <1>2

\* Units that come first do so in what is there already.
LEMMA BehindNow ==
  ASSUME NEW sent \in Seq(Byte), NEW us, Behind(sent, us)
  PROVE  IsPrefix(us, Units(sent))
<1>1. <<>> \in Seq(Byte) /\ sent \o <<>> = sent
  BY BytesJoin
<1>2. IsPrefix(us, Units(sent \o <<>>))
  BY <1>1 DEF Behind
<1> QED
  BY <1>1, <1>2

\* What follows a varint that is complete.
LEMMA AfterVarintGrows ==
  ASSUME NEW b \in Seq(Byte), NEW x \in Seq(Byte)
  PROVE  /\ ReadVarint(b) \in [val : Nat, len : {0, 1, 2, 4, 8}] /\ ReadVarint(b).len <= Len(b)
         /\ AfterVarint(b) \in Seq(Byte) /\ Len(AfterVarint(b)) = Len(b) - ReadVarint(b).len
         /\ ReadVarint(b).len > 0 =>
              ReadVarint(b \o x) = ReadVarint(b) /\ AfterVarint(b \o x) = AfterVarint(b) \o x
<1> DEFINE v == ReadVarint(b)
           n == v.len
<1>1. b \in Seq(Octet) /\ x \in Seq(Octet)
  BY ByteIsOctet
<1>2. v \in [val : Nat, len : {0, 1, 2, 4, 8}] /\ n <= Len(b)
  BY <1>1, ReadVarintType
<1>3. n \in Nat
  BY <1>2
<1>4. n > 0 => ReadVarint(b \o x) = v
  BY <1>1, ReadVarintStable
<1> HIDE DEF n
<1>5. Suffix(b, n) \in Seq(Byte) /\ Len(Suffix(b, n)) = Len(b) - n /\ Suffix(b \o x, n) = Suffix(b, n) \o x
  BY <1>2, <1>3, SuffixType, SuffixOfExtended
<1> QED
  BY <1>2, <1>4, <1>5 DEF AfterVarint, n

-----------------------------------------------------------------------------
(* The payload of the DATA frames *)

\* The recursive function FlattenSeq is defined with exists.
LEMMA FlattenUnfolds ==
  ASSUME NEW ss, Len(ss) \in Nat \ {0}
  PROVE  \E f : /\ f = [i \in 1 .. Len(ss) |-> IF i = 1 THEN ss[i] ELSE f[i - 1] \o ss[i]]
                /\ FlattenSeq(ss) = f[Len(ss)]
<1> DEFINE Is(g, n) == g = [i \in 1 .. n |-> IF i = 1 THEN ss[i] ELSE g[i - 1] \o ss[i]]
           S == {n \in Nat : \E g : Is(g, n)}
<1>1. 0 \in S
  <2> DEFINE g == [i \in 1 .. 0 |-> 0]
  <2>1. Is(g, 0)
    OBVIOUS
  <2> QED
    BY <2>1
<1>2. ASSUME NEW n \in Nat, n \in S PROVE n + 1 \in S
  <2>1. PICK g : Is(g, n)
    BY <1>2
  <2> DEFINE h == [i \in 1 .. n + 1 |-> IF i <= n THEN g[i] ELSE IF i = 1 THEN ss[i] ELSE g[n] \o ss[i]]
  <2>2. ASSUME NEW i \in 1 .. n + 1
        PROVE  h[i] = IF i = 1 THEN ss[i] ELSE h[i - 1] \o ss[i]
    <3>1. CASE i <= n
      <4> DEFINE e(m) == IF m = 1 THEN ss[m] ELSE g[m - 1] \o ss[m]
      <4>a. i \in 1 .. n
        BY <3>1
      <4>0. g = [m \in 1 .. n |-> e(m)]
        BY <2>1
      <4>1. g[i] = IF i = 1 THEN ss[i] ELSE g[i - 1] \o ss[i]
        <5>1. g[i] = e(i)
          <6> HIDE DEF e
          <6> QED
            BY <4>a, <4>0
        <5> QED
          BY <5>1
      <4>2. i = 1 \/ (i - 1 \in 1 .. n + 1 /\ i - 1 <= n)
        OBVIOUS
      <4> QED
        BY <3>1, <4>1, <4>2
    <3>2. CASE i = n + 1
      <4>1. i = 1 \/ (i - 1 \in 1 .. n + 1 /\ i - 1 = n /\ n <= n)
        BY <3>2
      <4> QED
        BY <3>2, <4>1
    <3> QED
      BY <3>1, <3>2
  <2>3. h = [i \in 1 .. n + 1 |-> h[i]]
    OBVIOUS
  <2>4. Is(h, n + 1)
    <3> HIDE DEF h
    <3> QED
      BY <2>2, <2>3
  <2> HIDE DEF h, Is
  <2> QED
    BY <2>4
<1>3. Len(ss) \in S
  <2> HIDE DEF S
  <2> QED
    BY <1>1, <1>2, NaturalsIn
<1>4. \E f : Is(f, Len(ss))
  BY <1>3
<1> DEFINE F == CHOOSE f : Is(f, Len(ss))
<1>5. Is(F, Len(ss))
  BY <1>4
<1>6. FlattenSeq(ss) = F[Len(ss)]
  BY DEF FlattenSeq
<1> HIDE DEF F
<1> QED
  BY <1>5, <1>6


\* FlattenSeq of sequences of S is a sequence of S, and one more is appended.
LEMMA FlattenAppends ==
  ASSUME NEW S, NEW ss \in Seq(Seq(S)), NEW x \in Seq(S)
  PROVE  /\ FlattenSeq(ss) \in Seq(S)
         /\ FlattenSeq(Append(ss, x)) = FlattenSeq(ss) \o x
<1> DEFINE n == Len(ss)
           tt == Append(ss, x)
<1>1. n \in Nat /\ tt \in Seq(Seq(S)) /\ Len(tt) = n + 1 /\ tt[n + 1] = x
      /\ \A i \in 1 .. n : tt[i] = ss[i] /\ ss[i] \in Seq(S)
  OBVIOUS
<1>2. CASE n = 0
  <2>1. ss = <<>> /\ FlattenSeq(ss) = <<>>
    BY <1>2 DEF FlattenSeq
  <2>0. Len(tt) \in Nat \ {0}
    BY <1>1
  <2> HIDE DEF tt
  <2>2. PICK g : g = [i \in 1 .. Len(tt) |-> IF i = 1 THEN tt[i] ELSE g[i - 1] \o tt[i]]
                 /\ FlattenSeq(tt) = g[Len(tt)]
    BY <2>0, FlattenUnfolds
  <2>3. Len(tt) = 1 /\ 1 \in 1 .. Len(tt) /\ tt[1] = x
    BY <1>1, <1>2
  <2>4. g[1] = tt[1]
    <3> DEFINE e(i) == IF i = 1 THEN tt[i] ELSE g[i - 1] \o tt[i]
    <3>1. g = [i \in 1 .. Len(tt) |-> e(i)] /\ e(1) = tt[1]
      BY <2>2
    <3> HIDE DEF e
    <3> QED
      BY <2>3, <3>1
  <2>5. <<>> \o x = x /\ <<>> \in Seq(S)
    BY ConcatEmptySeq
  <2> QED
    BY <2>1, <2>2, <2>3, <2>4, <2>5 DEF tt
<1>3. CASE n # 0
  <2>0. n \in Nat \ {0} /\ Len(tt) \in Nat \ {0}
    BY <1>1, <1>3
  <2> HIDE DEF tt
  <2>1. PICK f : f = [i \in 1 .. n |-> IF i = 1 THEN ss[i] ELSE f[i - 1] \o ss[i]]
                 /\ FlattenSeq(ss) = f[n]
    BY <2>0, FlattenUnfolds
  <2>2. PICK g : g = [i \in 1 .. Len(tt) |-> IF i = 1 THEN tt[i] ELSE g[i - 1] \o tt[i]]
                 /\ FlattenSeq(tt) = g[Len(tt)]
    BY <2>0, FlattenUnfolds
  <2>3. ASSUME NEW i \in 1 .. n PROVE f[i] = IF i = 1 THEN ss[i] ELSE f[i - 1] \o ss[i]
    <3> DEFINE e(m) == IF m = 1 THEN ss[m] ELSE f[m - 1] \o ss[m]
    <3>1. f = [m \in 1 .. n |-> e(m)]
      BY <2>1
    <3>2. f[i] = e(i)
      <4> HIDE DEF e
      <4> QED
        BY <3>1
    <3> QED
      BY <3>2
  <2>4. ASSUME NEW i \in 1 .. n + 1 PROVE g[i] = IF i = 1 THEN tt[i] ELSE g[i - 1] \o tt[i]
    <3> DEFINE e(m) == IF m = 1 THEN tt[m] ELSE g[m - 1] \o tt[m]
    <3>1. g = [m \in 1 .. n + 1 |-> e(m)]
      BY <1>1, <2>2
    <3>2. g[i] = e(i)
      <4> HIDE DEF e
      <4> QED
        BY <3>1
    <3> QED
      BY <3>2
  <2> DEFINE N == {m \in Nat : m + 1 \in 1 .. n => f[m + 1] \in Seq(S) /\ g[m + 1] = f[m + 1]}
  <2>5. 0 \in N
    <3>1. 1 \in 1 .. n /\ 1 \in 1 .. n + 1
      BY <2>0
    <3>2. f[1] = ss[1] /\ g[1] = tt[1] /\ tt[1] = ss[1] /\ ss[1] \in Seq(S)
      BY <1>1, <2>3, <2>4, <3>1
    <3>3. 0 + 1 = 1
      OBVIOUS
    <3> QED
      BY <3>2, <3>3
  <2>6. ASSUME NEW m \in Nat, m \in N PROVE m + 1 \in N
    <3> SUFFICES ASSUME (m + 1) + 1 \in 1 .. n
                 PROVE  f[(m + 1) + 1] \in Seq(S) /\ g[(m + 1) + 1] = f[(m + 1) + 1]
      OBVIOUS
    <3> DEFINE k == m + 1
               j == k + 1
    <3>1. k \in 1 .. n /\ j \in 1 .. n /\ j \in 1 .. n + 1 /\ j # 1 /\ j - 1 = k
      BY <2>0
    <3>2. f[k] \in Seq(S) /\ g[k] = f[k]
      BY <2>6, <3>1
    <3> HIDE DEF k, j
    <3>3. f[j] = f[k] \o ss[j] /\ g[j] = g[k] \o tt[j] /\ tt[j] = ss[j] /\ ss[j] \in Seq(S)
      BY <1>1, <2>3, <2>4, <3>1
    <3>4. f[k] \o ss[j] \in Seq(S)
      <4> DEFINE p == f[k]
                 q == ss[j]
      <4>1. p \in Seq(S) /\ q \in Seq(S)
        BY <3>2, <3>3
      <4> HIDE DEF p, q
      <4>2. p \o q \in Seq(S)
        BY <4>1, ConcatProperties
      <4> QED
        BY <4>2 DEF p, q
    <3>5. g[j] = f[j] /\ f[j] \in Seq(S)
      <4> DEFINE r == f[k] \o ss[j]
      <4>1. f[j] = r /\ g[j] = r /\ r \in Seq(S)
        BY <3>2, <3>3, <3>4
      <4> HIDE DEF r
      <4> QED
        BY <4>1
    <3> QED
      BY <3>5 DEF j, k
  <2>7. n - 1 \in N
    <3> HIDE DEF N
    <3>1. n - 1 \in Nat
      BY <2>0
    <3> QED
      BY <2>5, <2>6, <3>1, NaturalsIn
  <2>8. f[n] \in Seq(S) /\ g[n] = f[n]
    <3>1. (n - 1) + 1 = n /\ n \in 1 .. n
      BY <2>0
    <3> QED
      BY <2>7, <3>1
  <2>9. g[n + 1] = g[n] \o tt[n + 1]
    <3>1. n + 1 \in 1 .. n + 1 /\ n + 1 # 1 /\ (n + 1) - 1 = n
      BY <2>0
    <3> DEFINE k == n + 1
    <3> HIDE DEF k
    <3>2. k \in 1 .. n + 1 /\ k # 1 /\ k - 1 = n
      BY <3>1 DEF k
    <3>3. g[k] = g[n] \o tt[k]
      BY <2>4, <3>2
    <3> QED
      BY <3>3 DEF k
  <2>10. FlattenSeq(tt) = g[n + 1] /\ FlattenSeq(ss) = f[n]
    BY <1>1, <2>1, <2>2
  <2> QED
    BY <1>1, <2>8, <2>9, <2>10 DEF tt
<1> QED
  BY <1>2, <1>3

\* One more frame adds its payload if it is a DATA frame.
LEMMA DataOfAppend ==
  ASSUME NEW frames \in Seq(UnitRecord), NEW u \in UnitRecord
  PROVE  /\ DataOf(frames) \in Seq(Byte) /\ DataOf(<<>>) = <<>>
         /\ DataOf(Append(frames, u)) = IF u.ty = FrameData THEN DataOf(frames) \o u.val ELSE DataOf(frames)
<1> DEFINE Bytes(x) == IF x.ty = FrameData THEN x.val ELSE <<>>
           Map(fs) == [i \in DOMAIN fs |-> Bytes(fs[i])]
           ss == Map(frames)
           more == Append(frames, u)
           x == Bytes(u)
<1>1. ASSUME NEW f \in UnitRecord PROVE Bytes(f) \in Seq(Byte)
  <2>1. f.val \in Seq(Byte) /\ <<>> \in Seq(Byte)
    BY DEF UnitRecord
  <2> QED
    BY <2>1
<1>2. \A fs : DataOf(fs) = FlattenSeq(Map(fs))
  BY DEF DataOf
<1> HIDE DEF Bytes
<1>3. ss \in Seq(Seq(Byte)) /\ Len(ss) = Len(frames) /\ x \in Seq(Byte)
  <2>1. x \in Seq(Byte)
    BY <1>1
  <2>2. \A i \in 1 .. Len(frames) : Bytes(frames[i]) \in Seq(Byte)
    BY <1>1
  <2>3. ss = [i \in 1 .. Len(frames) |-> Bytes(frames[i])] /\ Len(frames) \in Nat
    OBVIOUS
  <2> DEFINE X == Seq(Byte)
  <2> HIDE DEF ss, X
  <2>4. ss \in Seq(X) /\ Len(ss) = Len(frames)
    BY <2>2, <2>3 DEF X
  <2> QED
    BY <2>1, <2>4 DEF X
<1>4. Map(more) = Append(ss, x)
  <2>1. Len(frames) \in Nat /\ DOMAIN frames = 1 .. Len(frames) /\ DOMAIN more = 1 .. Len(frames) + 1
        /\ \A i \in 1 .. Len(frames) + 1 : more[i] = IF i <= Len(frames) THEN frames[i] ELSE u
    OBVIOUS
  <2>2. Append(ss, x) = [i \in 1 .. Len(frames) + 1 |-> IF i <= Len(frames) THEN ss[i] ELSE x]
    BY <1>3, <2>1
  <2>3. \A i \in 1 .. Len(frames) + 1 : Bytes(more[i]) = IF i <= Len(frames) THEN ss[i] ELSE x
    BY <2>1
  <2> HIDE DEF more
  <2> QED
    BY <2>1, <2>2, <2>3
<1> HIDE DEF ss, x, Map, more
<1>5. FlattenSeq(ss) \in Seq(Byte) /\ FlattenSeq(Append(ss, x)) = FlattenSeq(ss) \o x
  BY <1>3, FlattenAppends
<1>6. DataOf(frames) \in Seq(Byte) /\ DataOf(more) = DataOf(frames) \o x
  BY <1>2, <1>4, <1>5 DEF ss
<1>7. DataOf(<<>>) = <<>>
  BY DEF DataOf, FlattenSeq
<1>8. u.ty # FrameData => DataOf(frames) \o x = DataOf(frames)
  <2> SUFFICES ASSUME u.ty # FrameData PROVE DataOf(frames) \o x = DataOf(frames)
    OBVIOUS
  <2>1. x = <<>>
    BY DEF x, Bytes
  <2> QED
    BY <1>6, <2>1, ConcatEmptySeq
<1>9. u.ty = FrameData => x = u.val
  BY DEF x, Bytes
<1> QED
  BY <1>6, <1>7, <1>8, <1>9 DEF more

-----------------------------------------------------------------------------
\* The chunk of stream s that is about to be handled, the frame and the capsule that were cut out
\* of the buffers and not handed on yet.
Reading(s) == Doing("recv") /\ Top.id = s
In(s) == IF Reading(s) THEN Top.bytes ELSE <<>>
InHand(s) ==
  IF Doing("frame") /\ Top.id = s THEN <<[ty |-> Top.ty, val |-> Payload(s)]>> ELSE <<>>
CapsuleInHand == IF Doing("capsule") THEN <<[ty |-> Top.ty, val |-> data[ValueBuf]]>> ELSE <<>>

\* The stack holds a turn of the kind op for stream s.
Awaits(op, s) == \E i \in 1 .. Len(task) : task[i].op = op /\ task[i].id = s

\* The session is open and no push has been refused.
Live == ~Closed /\ ~Doing("limit")

\* Where frames are expected, and the bytes they are expected in.
Framed(s) == s = Connect \/ ses.role[s] = "control"
Sent(s) == IF s = Connect THEN Received(s) ELSE AfterVarint(Received(s))

\* What was handed on, is in hand and is buffered is what the peer sent.
Follows(s) ==
  IF s \in ses.bad THEN Behind(Sent(s), seen.frames[s])
  ELSE Leaves(Sent(s), seen.frames[s] \o InHand(s), data[FramesBuf(s)] \o In(s))

\* A stream that is not classified has handed on nothing and buffered no frame.
Blank(s) ==
  data[FramesBuf(s)] = <<>> /\ seen.frames[s] = <<>> /\ s \notin ses.bad /\ ~seen.app[s].known

\* The code that a reset is reported with.
Reported(code) == IF FromHttp(code) = None THEN code ELSE FromHttp(code)

\* What the application has, and what it is about to get, of a data stream.
Given(s) ==
  LET app == seen.app[s]
  IN  /\ ReadVarint(Received(s)).len > 0 /\ ReadVarint(AfterVarint(Received(s))).len > 0
      /\ AfterVarint(AfterVarint(Received(s))) = app.data \o In(s)
      /\ IF Reading(s) THEN app.end = "open"
         ELSE app.end = peer[s].end /\ (app.end = "reset" => app.code = Reported(peer[s].code))

Followed(s) == Framed(s) => Follows(s)
Headed(s) == ses.role[s] = "control" => ReadVarint(Received(s)).len > 0
Fresh(s) ==
  s # Connect /\ ses.role[s] = "none" /\ s \notin ses.dead /\ peer[s].end = "open"
    => Blank(s) /\ data[ClassBuf(s)] = <<>> /\ peer[s].pos = 0
Pending(s) ==
  ses.role[s] \in {"pending_uni", "pending_bidi"}
    => Blank(s) /\ Received(s) = data[ClassBuf(s)] \o In(s)
Unopened(s) == s = Connect /\ ses.role[s] = "none" => data[FramesBuf(s)] = <<>>
Parsed(s) ==
  Framed(s) /\ Whole(FramesBuf(s)) /\ s \notin ses.bad /\ ~Waits(s) => Awaits("parse", s)
Doomed(s) == ses.role[s] = "control" /\ s \in ses.bad => Awaits("after", s)
Delivered(s) == seen.app[s].known => Given(s)

Kept(s) ==
  /\ Followed(s) /\ Headed(s) /\ Fresh(s) /\ Pending(s) /\ Unopened(s) /\ Parsed(s) /\ Doomed(s)
  /\ Delivered(s)

\* The capsules, likewise.
Capsules ==
  /\ Leaves(DataOf(seen.frames[Connect]), seen.capsules \o CapsuleInHand, data[CapsuleBuf])
  /\ Whole(CapsuleBuf) => \E i \in 1 .. Len(task) : task[i].op = "scan"

\* The copy is of the unit at the front of the buffer.
Copied ==
  /\ Doing("taken") =>
       /\ Whole(FramesBuf(Top.id)) /\ Top.id \notin ses.bad /\ ~Waits(Top.id)
       /\ Payload(Top.id) = UnitValue(data[FramesBuf(Top.id)], NextUnit(FramesBuf(Top.id)))
  /\ Doing("frame") => Top.id \notin ses.bad
  /\ Doing("cut") => /\ Whole(CapsuleBuf)
                     /\ data[ValueBuf] = UnitValue(data[CapsuleBuf], NextUnit(CapsuleBuf))

\* How the items on the stack fit together.
Stacked ==
  /\ Doing("recv") \/ Doing("resolve") => Len(task) = 1
  /\ \A i, j \in 1 .. Len(task) : i < j /\ task[i].id # Connect => task[j].id = task[i].id
  /\ \A i, j \in 1 .. Len(task) :
       i < j /\ task[i].op = "parse" /\ task[j].op = "drop" => task[i].id # task[j].id

\* What waits below: the checks at the end of the chunk come last, and follow every turn of
\* the control stream's frame loop.
Trailed ==
  /\ \A i \in 1 .. Len(task) : task[i].op = "after" => i = Len(task)
  /\ \A i \in 1 .. Len(task) :
       task[i].op \in {"parse", "taken", "frame"} /\ task[i].id # Connect => Awaits("after", task[i].id)

\* What is done for a stream fits the role it has.
RoleFits(op, r) ==
  /\ op \in {"parse", "taken", "frame", "drop", "after"} => r \in {"control", "connect"}
  /\ op = "recv" => r # "none"
  /\ op = "resolve" => r \in {"pending_uni", "pending_bidi"}

Conforms == Live => (\A s \in Stream : Kept(s)) /\ Capsules /\ Copied

-----------------------------------------------------------------------------
(* The stack after a turn *)

\* What is on top after the top item was replaced.
LEMMA TopAfter ==
  ASSUME Typed, Releasing, task # <<>>, NEW items \in Seq(TaskItem), Then(items)
  PROVE  /\ items # <<>> => task' # <<>> /\ Top' = items[1]
         /\ items = <<>> /\ task' # <<>> => (Top.op)' \in Rest
<1>1. /\ task' \in Seq(TaskItem) /\ Len(task') = Len(items) + Len(task) - 1
      /\ Len(task) \in Nat /\ Len(task) > 0 /\ Len(items) \in Nat /\ Top = task[1]
      /\ \A i \in 1 .. Len(items) : task'[i] = items[i]
      /\ \A i \in Len(items) + 1 .. Len(task') : task'[i] = task[i - Len(items) + 1]
  BY ThenStack DEF Typed
<1>2. ASSUME items # <<>> PROVE task' # <<>> /\ Top' = items[1]
  <2>1. Len(items) > 0
    BY <1>2
  <2>2. Len(task') > 0 /\ task'[1] = items[1]
    BY <1>1, <2>1
  <2> QED
    BY <1>1, <2>2 DEF Top
<1>3. ASSUME items = <<>>, task' # <<>> PROVE (Top.op)' \in Rest
  <2>1. Len(items) = 0 /\ Len(task') > 0
    BY <1>1, <1>3
  <2>2. 1 \in Len(items) + 1 .. Len(task') /\ 1 - Len(items) + 1 = 2 /\ 2 \in 2 .. Len(task)
    BY <1>1, <2>1
  <2>3. task'[1] = task[2] /\ task[2].op \in Rest
    BY <1>1, <2>2 DEF Releasing
  <2>4. Top' = task'[1]
    BY <1>1, <1>3 DEF Top
  <2> QED
    BY <2>3, <2>4
<1> QED
  BY <1>2, <1>3

\* What waits after the top item was replaced: the new items, and those that were below it.
LEMMA WaitsAfter ==
  ASSUME Typed, task # <<>>, NEW items \in Seq(TaskItem), Then(items)
  PROVE  /\ \A i \in 1 .. Len(items) : \E j \in 1 .. Len(task') : task'[j] = items[i]
         /\ \A i \in 2 .. Len(task) : \E j \in 1 .. Len(task') : task'[j] = task[i]
         /\ Top = task[1] /\ Len(task) \in Nat
<1>1. /\ Len(task') = Len(items) + Len(task) - 1
      /\ Len(task) \in Nat /\ Len(task) > 0 /\ Len(items) \in Nat /\ Top = task[1]
      /\ \A i \in 1 .. Len(items) : task'[i] = items[i]
      /\ \A i \in Len(items) + 1 .. Len(task') : task'[i] = task[i - Len(items) + 1]
  BY ThenStack DEF Typed
<1>2. ASSUME NEW i \in 1 .. Len(items) PROVE \E j \in 1 .. Len(task') : task'[j] = items[i]
  BY <1>1
<1>3. ASSUME NEW i \in 2 .. Len(task) PROVE \E j \in 1 .. Len(task') : task'[j] = task[i]
  <2> DEFINE j == i + Len(items) - 1
  <2>1. j \in Len(items) + 1 .. Len(task') /\ j - Len(items) + 1 = i /\ j \in 1 .. Len(task')
    BY <1>1
  <2> QED
    BY <1>1, <2>1
<1> QED
  BY <1>1, <1>2, <1>3

\* Items that fit on the stack in place of the top item.
Fit(items) ==
  /\ \A i \in 1 .. Len(items) : items[i].id = Top.id \/ (items[i].id = Connect /\ i = 1)
  /\ items # <<>> /\ items[1].op \in {"recv", "resolve"} => Len(items) = 1 /\ Len(task) = 1
  /\ \A i, j \in 1 .. Len(items) :
       i < j /\ items[i].op = "parse" /\ items[j].op = "drop" => items[i].id # items[j].id
  /\ \A i \in 1 .. Len(items) :
       items[i].op = "parse" => \/ Top.op = "parse" /\ items[i].id = Top.id
                                \/ Len(task) = 1
                                \/ Top.id # Connect /\ items[i].id # Top.id
  /\ \A i \in 1 .. Len(items) : RoleFits(items[i].op, ses'.role[items[i].id])
  /\ \/ Len(task) = 1
     \/ \A t \in Stream : \/ ses'.role[t] = ses.role[t]
                          \/ ses.role[t] = "none" /\ ses'.role[t] = "connect"

\* A turn whose items fit keeps the stack in order.
LEMMA TurnStacked ==
  ASSUME Typed, Releasing, Stacked, \A i \in 1 .. Len(task) : RoleFits(task[i].op, ses.role[task[i].id]),
         task # <<>>, NEW items \in Seq(TaskItem), Then(items), Fit(items)
  PROVE  /\ Stacked'
         /\ \A i \in 1 .. Len(task') : RoleFits(task'[i].op, ses'.role[task'[i].id])
<1> DEFINE n == Len(items)
           m == Len(task)
<1>1. /\ task' \in Seq(TaskItem) /\ Len(task') = n + m - 1 /\ m \in Nat /\ m > 0 /\ n \in Nat
      /\ Top = task[1]
      /\ \A i \in 1 .. n : task'[i] = items[i]
      /\ \A i \in n + 1 .. Len(task') : task'[i] = task[i - n + 1] /\ i - n + 1 \in 2 .. m
  BY ThenStack DEF Typed
<1>2. ASSUME (Doing("recv") \/ Doing("resolve"))' PROVE Len(task') = 1
  <2>1. task' # <<>> /\ (Top.op)' \in {"recv", "resolve"}
    BY <1>2 DEF Doing
  <2>2. items # <<>> /\ Top' = items[1]
    BY <2>1, TopAfter DEF Rest
  <2>3. items[1].op \in {"recv", "resolve"}
    BY <2>1, <2>2
  <2>4. n = 1 /\ m = 1
    BY <2>2, <2>3 DEF Fit
  <2> QED
    BY <1>1, <2>4
<1>3. /\ \A i \in 1 .. n : items[i].id = Top.id \/ (items[i].id = Connect /\ i = 1)
      /\ \A i \in 1 .. n :
           items[i].op = "parse" => \/ Top.op = "parse" /\ items[i].id = Top.id
                                    \/ m = 1
                                    \/ Top.id # Connect /\ items[i].id # Top.id
  BY DEF Fit
<1>4. /\ \A i, j \in 1 .. m : i < j /\ task[i].id # Connect => task[j].id = task[i].id
      /\ \A i, j \in 1 .. m :
           i < j /\ task[i].op = "parse" /\ task[j].op = "drop" => task[i].id # task[j].id
  BY DEF Stacked
<1>5. ASSUME NEW i \in 1 .. Len(task'), NEW j \in 1 .. Len(task'), i < j
      PROVE  /\ task'[i].id # Connect => task'[j].id = task'[i].id
             /\ task'[i].op = "parse" /\ task'[j].op = "drop" => task'[i].id # task'[j].id
  <2>1. CASE j \in 1 .. n
    <3>1. i \in 1 .. n /\ task'[i] = items[i] /\ task'[j] = items[j] /\ j # 1
      BY <1>1, <1>5, <2>1
    <3>2. items[i].op = "parse" /\ items[j].op = "drop" => items[i].id # items[j].id
      BY <1>5, <2>1, <3>1 DEF Fit
    <3> QED
      BY <1>3, <2>1, <3>1, <3>2
  <2>2. CASE j \in n + 1 .. Len(task') /\ i \in 1 .. n
    <3> DEFINE k == j - n + 1
    <3>1. task'[i] = items[i] /\ task'[j] = task[k] /\ k \in 2 .. m
      BY <1>1, <2>2
    <3>a. m \in Nat
      BY <1>1
    <3> HIDE DEF k
    <3>2. 1 \in 1 .. m /\ k \in 1 .. m /\ 1 < k /\ m # 1
      BY <3>1, <3>a
    <3>3. items[i].id # Connect => items[i].id = Top.id
      BY <1>3, <2>2
    <3>4. Top.id # Connect => task[k].id = Top.id
      BY <1>1, <1>4, <3>2
    <3>5. Top.op = "parse" /\ task[k].op = "drop" => Top.id # task[k].id
      BY <1>1, <1>4, <3>2
    <3>6. items[i].op = "parse" => \/ Top.op = "parse" /\ items[i].id = Top.id
                                   \/ Top.id # Connect /\ items[i].id # Top.id
      BY <1>3, <2>2, <3>2
    <3> QED
      BY <3>1, <3>3, <3>4, <3>5, <3>6
  <2>3. CASE j \in n + 1 .. Len(task') /\ i \in n + 1 .. Len(task')
    <3> DEFINE k == j - n + 1
               l == i - n + 1
    <3>1. task'[i] = task[l] /\ task'[j] = task[k] /\ k \in 1 .. m /\ l \in 1 .. m /\ l < k
      BY <1>1, <1>5, <2>3
    <3> HIDE DEF k, l
    <3> QED
      BY <1>4, <3>1
  <2>4. /\ j \in 1 .. n \/ j \in n + 1 .. Len(task')
        /\ i \in 1 .. n \/ i \in n + 1 .. Len(task')
    BY <1>1
  <2> QED
    BY <2>1, <2>2, <2>3, <2>4
<1>6. ASSUME NEW i \in 1 .. Len(task') PROVE RoleFits(task'[i].op, ses'.role[task'[i].id])
  <2>1. CASE i \in 1 .. n
    BY <1>1, <2>1 DEF Fit
  <2>2. CASE i \in n + 1 .. Len(task')
    <3> DEFINE k == i - n + 1
               x == task[k]
    <3>1. task'[i] = x /\ k \in 2 .. m /\ k \in 1 .. m /\ m # 1
      BY <1>1, <2>2
    <3>2. RoleFits(x.op, ses.role[x.id])
      BY <3>1
    <3>3. x.id \in Stream
      BY <3>1 DEF Typed, TaskItem
    <3> HIDE DEF x, k
    <3>4. \/ ses'.role[x.id] = ses.role[x.id]
          \/ ses.role[x.id] = "none" /\ ses'.role[x.id] = "connect"
      BY <3>1, <3>3 DEF Fit
    <3> QED
      BY <3>1, <3>2, <3>4 DEF RoleFits
  <2> QED
    BY <1>1, <2>1, <2>2
<1>7. Stacked'
  BY <1>2, <1>5 DEF Stacked
<1> QED
  BY <1>6, <1>7

\* No new item, one, and two.
LEMMA FitNone ==
  ASSUME ses' \in SessionRecord,
         \/ Len(task) = 1
         \/ \A t \in Stream : \/ ses'.role[t] = ses.role[t]
                              \/ ses.role[t] = "none" /\ ses'.role[t] = "connect"
  PROVE  Fit(<<>>)
<1> DEFINE items == <<>>
<1>1. items = <<>> /\ \A i \in 1 .. Len(items) : FALSE
  OBVIOUS
<1> HIDE DEF items
<1>2. Fit(items)
  BY <1>1 DEF Fit
<1> QED
  BY <1>2 DEF items

\* One item fits in place of the top item if it goes on with its stream or works on CONNECT.
LEMMA FitOne ==
  ASSUME NEW x \in TaskItem,
         x.id = Top.id \/ x.id = Connect,
         x.op \in {"recv", "resolve"} => Len(task) = 1,
         x.op = "parse" => \/ Top.op = "parse" /\ x.id = Top.id
                           \/ Len(task) = 1
                           \/ Top.id # Connect /\ x.id # Top.id,
         RoleFits(x.op, ses'.role[x.id]),
         \/ Len(task) = 1
         \/ \A t \in Stream : \/ ses'.role[t] = ses.role[t]
                              \/ ses.role[t] = "none" /\ ses'.role[t] = "connect"
  PROVE  Fit(<<x>>)
<1> DEFINE items == <<x>>
<1>1. Len(items) = 1 /\ items[1] = x /\ items # <<>> /\ 1 .. Len(items) = {1}
  OBVIOUS
<1> HIDE DEF items
<1>2. Fit(items)
  BY <1>1 DEF Fit
<1> QED
  BY <1>2 DEF items

\* Two items fit in place of the top item under the same conditions.
LEMMA FitTwo ==
  ASSUME NEW x \in TaskItem, NEW y \in TaskItem,
         x.id = Top.id \/ x.id = Connect, y.id = Top.id,
         x.op \notin {"recv", "resolve"},
         x.op = "parse" => y.op # "drop" \/ x.id # y.id,
         x.op = "parse" => \/ Top.op = "parse" /\ x.id = Top.id
                           \/ Len(task) = 1
                           \/ Top.id # Connect /\ x.id # Top.id,
         y.op = "parse" => Top.op = "parse" \/ Len(task) = 1,
         RoleFits(x.op, ses'.role[x.id]), RoleFits(y.op, ses'.role[y.id]),
         \/ Len(task) = 1
         \/ \A t \in Stream : \/ ses'.role[t] = ses.role[t]
                              \/ ses.role[t] = "none" /\ ses'.role[t] = "connect"
  PROVE  Fit(<<x, y>>)
<1> DEFINE items == <<x, y>>
<1>1. Len(items) = 2 /\ items[1] = x /\ items[2] = y /\ items # <<>> /\ 1 .. Len(items) = {1, 2}
  OBVIOUS
<1> HIDE DEF items
<1>2. /\ \A i \in 1 .. Len(items) : items[i].id = Top.id \/ (items[i].id = Connect /\ i = 1)
      /\ \A i \in 1 .. Len(items) : RoleFits(items[i].op, ses'.role[items[i].id])
  BY <1>1
<1>3. \A i, j \in 1 .. Len(items) :
        i < j /\ items[i].op = "parse" /\ items[j].op = "drop" => items[i].id # items[j].id
  <2>1. \A i, j \in {1, 2} : i < j => i = 1 /\ j = 2
    OBVIOUS
  <2> QED
    BY <1>1, <2>1
<1>4. \A i \in 1 .. Len(items) :
        items[i].op = "parse" => \/ Top.op = "parse" /\ items[i].id = Top.id
                                 \/ Len(task) = 1
                                 \/ Top.id # Connect /\ items[i].id # Top.id
  BY <1>1
<1>5. Fit(items)
  BY <1>1, <1>2, <1>3, <1>4 DEF Fit
<1> QED
  BY <1>5 DEF items

-----------------------------------------------------------------------------
(* Roles, and what the application has *)

\* What a step may do to the role of a stream, and to what the application has of it.
RoleStep(t) ==
  \/ ses'.role[t] = ses.role[t]
  \/ t = Connect /\ ses.role[t] = "none" /\ ses'.role[t] = "connect"
  \/ /\ t # Connect /\ ses.role[t] = "none" /\ t \notin ses.dead
     /\ ses'.role[t] \in {"pending_uni", "pending_bidi"}
  \/ /\ t # Connect /\ ses.role[t] \in {"pending_uni", "pending_bidi"}
     /\ \/ ses'.role[t] \in {"none", "qpack_encoder", "qpack_decoder", "ignored"}
        \/ ses'.role[t] = "control" /\ t \in Unis
        \/ ses'.role[t] = "data" /\ seen'.app[t].known
  \/ t # Connect /\ t \in ses.dead /\ ses'.role[t] = "none"

AppStep(t) ==
  \/ seen'.app[t] = seen.app[t]
  \/ seen'.app[t].known /\ ses'.role[t] = "data"

Settled ==
  /\ \A t \in Stream : RoleStep(t) /\ AppStep(t)
  /\ ses.dead \subseteq ses'.dead

\* A stream has a role of its kind.
Roles1 ==
  /\ ses.role[Connect] \in {"none", "connect"}
  /\ \A s \in Unis \cup Bidis : ses.role[s] # "connect"
  /\ \A s \in Bidis : ses.role[s] # "control"

Apps ==
  \A s \in Stream :
    /\ seen.app[s].known => /\ s # Connect /\ ses.role[s] \in {"data", "none"}
                            /\ ses.role[s] = "none" => s \in ses.dead
    /\ ~seen.app[s].known => seen.app[s].data = <<>> /\ seen.app[s].end = "open"
    /\ ses.role[s] = "data" => seen.app[s].known

\* Steps that settle roles keep them, and what the application has, in order.
LEMMA SettledKeeps ==
  ASSUME Roles1, Apps, Settled
  PROVE  Roles1' /\ Apps'
<1>1. Connect \in Stream /\ Connect \notin Unis \cup Bidis /\ Unis \cap Bidis = {}
      /\ Stream = {Connect} \cup Unis \cup Bidis
  BY PeerAssumption DEF Stream
<1>2. Roles1'
  <2>1. (ses.role[Connect])' \in {"none", "connect"}
    BY <1>1 DEF Roles1, Settled, RoleStep
  <2>2. ASSUME NEW s \in Unis \cup Bidis PROVE (ses.role[s])' # "connect"
    BY <1>1 DEF Roles1, Settled, RoleStep
  <2>3. ASSUME NEW s \in Bidis PROVE (ses.role[s])' # "control"
    BY <1>1 DEF Roles1, Settled, RoleStep
  <2> QED
    BY <2>1, <2>2, <2>3 DEF Roles1
<1>3. ASSUME NEW s \in Stream
      PROVE  /\ seen'.app[s].known => /\ s # Connect /\ ses'.role[s] \in {"data", "none"}
                                      /\ ses'.role[s] = "none" => s \in ses'.dead
             /\ ~seen'.app[s].known => seen'.app[s].data = <<>> /\ seen'.app[s].end = "open"
             /\ ses'.role[s] = "data" => seen'.app[s].known
  <2>1. RoleStep(s) /\ AppStep(s) /\ (s \in ses.dead => s \in ses'.dead)
    BY DEF Settled
  <2>2. s = Connect => ses'.role[s] \in {"none", "connect"}
    BY <1>2 DEF Roles1
  <2>3. CASE seen'.app[s] = seen.app[s]
    <3>1. seen.app[s].known => /\ s # Connect /\ ses'.role[s] \in {"data", "none"}
                               /\ ses'.role[s] = "none" => s \in ses'.dead
      BY <2>1, <2>3 DEF Apps, RoleStep
    <3>2. ses'.role[s] = "data" => seen'.app[s].known
      BY <2>1, <2>3 DEF Apps, RoleStep
    <3> QED
      BY <2>3, <3>1, <3>2 DEF Apps
  <2>4. CASE seen'.app[s].known /\ ses'.role[s] = "data"
    BY <2>2, <2>4
  <2> QED
    BY <2>1, <2>3, <2>4 DEF AppStep
<1> QED
  BY <1>2, <1>3 DEF Apps

\* Steps that leave all of it alone.
LEMMA SettledSame ==
  ASSUME ses'.role = ses.role, seen'.app = seen.app, ses.dead \subseteq ses'.dead
  PROVE  Settled
  BY DEF Settled, RoleStep, AppStep

\* A turn: new items that fit, and roles that settle.
Turns == Settled /\ \E items \in Seq(TaskItem) : Then(items) /\ Fit(items)

RolesFit == \A i \in 1 .. Len(task) : RoleFits(task[i].op, ses.role[task[i].id])

\* The stack and the roles.
Structured == Typed /\ Releasing /\ seen \in SeenRecord /\ Stacked /\ RolesFit /\ Roles1 /\ Apps

\* The role of the stream that is being processed.
LEMMA TopRole ==
  ASSUME Structured, task # <<>>
  PROVE  /\ Top \in TaskItem /\ Top.id \in Stream /\ RoleFits(Top.op, ses.role[Top.id])
         /\ Top.op \in {"recv", "resolve"} => Len(task) = 1
         /\ ses \in SessionRecord /\ MemInv /\ seen \in SeenRecord /\ ses.role \in [Stream -> RoleName]
         /\ Top.op \notin Rest => ~Closed
<1>1. task \in Seq(TaskItem) /\ ses \in SessionRecord /\ MemInv /\ seen \in SeenRecord
  BY DEF Structured, Typed
<1>2. 1 \in 1 .. Len(task) /\ Top = task[1]
  BY <1>1 DEF Top
<1>3. Top \in TaskItem /\ Top.id \in Stream
  BY <1>1, TopTyped
<1>4. RoleFits(Top.op, ses.role[Top.id])
  BY <1>2 DEF Structured, RolesFit
<1>5. Top.op \in {"recv", "resolve"} => Len(task) = 1
  BY DEF Structured, Stacked, Doing
<1>6. Top.op \notin Rest => ~Closed
  BY TopReleases DEF Structured
<1>7. ses.role \in [Stream -> RoleName]
  BY <1>1 DEF SessionRecord
<1> QED
  BY <1>1, <1>3, <1>4, <1>5, <1>6, <1>7

\* A turn that leaves the roles alone, or is the only one left.
LEMMA NoneTurn ==
  ASSUME Structured, task # <<>>, Then(<<>>), Settled, ses' \in SessionRecord,
         \/ Len(task) = 1
         \/ ses'.role = ses.role
         \/ \A t \in Stream : \/ ses'.role[t] = ses.role[t]
                              \/ ses.role[t] = "none" /\ ses'.role[t] = "connect"
  PROVE  Turns
<1>1. Fit(<<>>)
  BY FitNone
<1>2. <<>> \in Seq(TaskItem)
  OBVIOUS
<1> DEFINE none == <<>>
<1>3. none \in Seq(TaskItem) /\ Then(none) /\ Fit(none)
  BY <1>1, <1>2
<1> HIDE DEF none
<1> QED
  BY <1>3 DEF Turns

\* A turn that replaces the top item by one.
LEMMA OneTurn ==
  ASSUME Structured, task # <<>>, NEW x \in TaskItem, Then(<<x>>), Settled,
         x.id = Top.id,
         x.op \in {"recv", "resolve"} => Len(task) = 1,
         x.op = "parse" => Top.op = "parse" \/ Len(task) = 1,
         RoleFits(x.op, ses'.role[x.id]),
         Len(task) = 1 \/ ses'.role = ses.role
  PROVE  Turns
<1>1. Fit(<<x>>)
  BY FitOne
<1> DEFINE one == <<x>>
<1>2. one \in Seq(TaskItem) /\ Then(one) /\ Fit(one)
  BY <1>1
<1> HIDE DEF one
<1> QED
  BY <1>2 DEF Turns

\* A turn that replaces the top item by two.
LEMMA TwoTurn ==
  ASSUME Structured, task # <<>>, NEW x \in TaskItem, NEW y \in TaskItem, Then(<<x, y>>), Settled,
         x.id = Top.id \/ x.id = Connect, y.id = Top.id,
         x.op \notin {"recv", "resolve"},
         x.op = "parse" => y.op # "drop" \/ x.id # y.id,
         x.op = "parse" => \/ Top.op = "parse" /\ x.id = Top.id
                           \/ Len(task) = 1
                           \/ Top.id # Connect /\ x.id # Top.id,
         y.op = "parse" => Top.op = "parse" \/ Len(task) = 1,
         RoleFits(x.op, ses'.role[x.id]), RoleFits(y.op, ses'.role[y.id]),
         Len(task) = 1 \/ ses'.role = ses.role
  PROVE  Turns
<1>1. Fit(<<x, y>>)
  BY FitTwo
<1> DEFINE two == <<x, y>>
<1>2. two \in Seq(TaskItem) /\ Then(two) /\ Fit(two)
  BY <1>1
<1> HIDE DEF two
<1> QED
  BY <1>2 DEF Turns

\* Closing leaves the roles alone and marks every stream.
LEMMA ClosingSettles ==
  ASSUME MemInv, NEW r \in SessionRecord, NEW cause \in Causes \ {"none"},
         NEW locals \in SUBSET Buffer, MarkClosed(r, cause, locals)
  PROVE  ses'.role = r.role /\ r.dead \subseteq ses'.dead /\ Closed' /\ ses' \in SessionRecord
<1>1. ses' \in SessionRecord /\ ses'.cause = cause /\ ses'.role = r.role
  BY MarkClosedTyped
<1>2. r.dead \subseteq ses'.dead
  BY DEF MarkClosed, SessionRecord
<1> QED
  BY <1>1, <1>2 DEF Closed

\* A turn that closes.
LEMMA CloseTurn ==
  ASSUME Structured, task # <<>>, Then(<<>>), NEW r \in SessionRecord, r.role = ses.role,
         ses.dead \subseteq r.dead, NEW cause \in Causes \ {"none"},
         NEW locals \in SUBSET Buffer, MarkClosed(r, cause, locals), seen'.app = seen.app
  PROVE  Turns /\ Closed'
<1>1. MemInv
  BY DEF Structured, Typed
<1>2. ses'.role = ses.role /\ ses.dead \subseteq ses'.dead /\ Closed' /\ ses' \in SessionRecord
  BY <1>1, ClosingSettles
<1> QED
  BY <1>2, SettledSame, NoneTurn

-----------------------------------------------------------------------------
(* Turns *)

\* Ending a stream leaves the roles alone.
LEMMA DeadFields ==
  ASSUME ses \in SessionRecord, NEW s \in Stream, NEW fin \in BOOLEAN,
         ses' = [ses EXCEPT !.dead = IF fin THEN @ \cup {s} ELSE @]
  PROVE  /\ ses' \in SessionRecord /\ ses'.role = ses.role /\ ses.dead \subseteq ses'.dead
         /\ ses'.bad = ses.bad /\ ses'.settings = ses.settings /\ ses'.cause = ses.cause
<1>1. (IF fin THEN ses.dead \cup {s} ELSE ses.dead) \in SUBSET Stream
  BY DEF SessionRecord
<1> QED
  BY <1>1 DEF SessionRecord

\* A stream that failed leaves the roles alone.
LEMMA BadFields ==
  ASSUME ses \in SessionRecord, NEW s \in Stream, ses' = [ses EXCEPT !.bad = @ \cup {s}]
  PROVE  /\ ses' \in SessionRecord /\ ses'.role = ses.role /\ ses'.dead = ses.dead
         /\ ses'.bad = ses.bad \cup {s} /\ ses'.settings = ses.settings /\ ses'.cause = ses.cause
  BY DEF SessionRecord

\* A turn that leaves the roles and the application alone settles them.
LEMMA SameRoles ==
  ASSUME ses' = ses, seen'.app = seen.app
  PROVE  Settled
  BY SettledSame

\* RecvFrames keeps the stack and the roles in order.
LEMMA RecvFramesTurns ==
  ASSUME Structured, RecvFrames PROVE Turns
<1> DEFINE s == Top.id
           x == Item("parse", s)
           y == [op |-> "after", id |-> s, fin |-> Top.fin]
<1>1. task # <<>> /\ Top.op = "recv" /\ ses.role[s] \in {"control", "connect"} /\ seen' = seen
  BY DEF RecvFrames, Doing
<1>2. s \in Stream /\ Len(task) = 1 /\ ses \in SessionRecord /\ Top.fin \in BOOLEAN
  BY <1>1, TopRole, TopTyped DEF Structured, Typed
<1>3. ses' = ses \/ ses' = [ses EXCEPT !.bad = @ \cup {s}]
  BY DEF RecvFrames
<1>4. ses' \in SessionRecord /\ ses'.role = ses.role /\ ses.dead \subseteq ses'.dead
  BY <1>2, <1>3, BadFields
<1>5. Settled
  BY <1>1, <1>4, SettledSame
<1>6. x \in TaskItem /\ y \in TaskItem /\ Then(<<x, y>>)
  BY <1>2, ItemsTyped DEF RecvFrames
<1>7. x.id = s /\ x.op = "parse" /\ y.id = s /\ y.op = "after"
  BY DEF Item
<1>8. RoleFits(x.op, ses'.role[x.id]) /\ RoleFits(y.op, ses'.role[y.id])
  BY <1>1, <1>4, <1>7 DEF RoleFits
<1> HIDE DEF x, y
<1> QED
  BY <1>1, <1>2, <1>5, <1>6, <1>7, <1>8, TwoTurn

\* RecvDiscarded keeps the stack and the roles in order.
LEMMA RecvDiscardedTurns ==
  ASSUME Structured, RecvDiscarded PROVE Turns
<1> DEFINE s == Top.id
<1>1. task # <<>> /\ Top.op = "recv" /\ seen' = seen /\ Then(<<>>)
  BY DEF RecvDiscarded, Doing
<1>2. s \in Stream /\ ses \in SessionRecord /\ Top.fin \in BOOLEAN
  BY <1>1, TopRole, TopTyped DEF Structured, Typed
<1>3. CASE MarkClosed(ses, "protocol", {})
  BY <1>1, <1>2, <1>3, CloseTurn DEF Causes
<1>4. CASE ses' = ses
  BY <1>1, <1>2, <1>4, SameRoles, NoneTurn
<1>5. CASE ses' = [ses EXCEPT !.dead = IF Top.fin THEN @ \cup {s} ELSE @]
  BY <1>1, <1>2, <1>5, DeadFields, SettledSame, NoneTurn
<1> QED
  BY <1>3, <1>4, <1>5 DEF RecvDiscarded

\* RecvData keeps the stack and the roles in order.
LEMMA RecvDataTurns ==
  ASSUME Structured, RecvData PROVE Turns
<1> DEFINE s == Top.id
<1>1. /\ task # <<>> /\ Top.op = "recv" /\ Then(<<>>) /\ ses.role[s] = "data"
      /\ ses' = [ses EXCEPT !.dead = IF Top.fin THEN @ \cup {s} ELSE @]
      /\ Deliver(s, Top.bytes, Top.fin)
  BY DEF RecvData, Doing
<1>2. s \in Stream /\ ses \in SessionRecord /\ Top.fin \in BOOLEAN /\ seen \in SeenRecord
  BY <1>1, TopRole, TopTyped DEF Structured, Typed
<1>3. ses' \in SessionRecord /\ ses'.role = ses.role /\ ses.dead \subseteq ses'.dead
  BY <1>1, <1>2, DeadFields
<1>4. ASSUME NEW t \in Stream PROVE AppStep(t)
  <2>1. CASE t = s
    <3>1. seen'.app[s].known = TRUE
      BY <1>1, <1>2 DEF Deliver, SeenRecord, AppRecord
    <3> QED
      BY <1>1, <1>3, <2>1, <3>1 DEF AppStep
  <2>2. CASE t # s
    <3>1. seen'.app[t] = seen.app[t]
      BY <1>1, <1>2, <2>2 DEF Deliver, SeenRecord
    <3> QED
      BY <3>1 DEF AppStep
  <2> QED
    BY <2>1, <2>2
<1>5. Settled
  BY <1>3, <1>4 DEF Settled, RoleStep
<1> QED
  BY <1>1, <1>3, <1>5, NoneTurn

\* RecvPending keeps the stack and the roles in order.
LEMMA RecvPendingTurns ==
  ASSUME Structured, RecvPending PROVE Turns
<1> DEFINE s == Top.id
           x == [op |-> "resolve", id |-> s, fin |-> Top.fin]
           y == Item("limit", s)
<1>1. /\ task # <<>> /\ Top.op = "recv" /\ ses.role[s] \in {"pending_uni", "pending_bidi"}
      /\ seen' = seen /\ ses' = ses /\ (Then(<<x>>) \/ Then(<<y>>))
  BY DEF RecvPending, Doing
<1>2. s \in Stream /\ Len(task) = 1 /\ ses \in SessionRecord /\ Top.fin \in BOOLEAN
  BY <1>1, TopRole, TopTyped DEF Structured, Typed
<1>3. Settled
  BY <1>1, SameRoles
<1>4. x \in TaskItem /\ y \in TaskItem
  BY <1>2, ItemsTyped
<1>5. x.id = s /\ x.op = "resolve" /\ y.id = s /\ y.op = "limit"
  BY DEF Item
<1>6. RoleFits(x.op, ses'.role[x.id]) /\ RoleFits(y.op, ses'.role[y.id])
  BY <1>1, <1>5 DEF RoleFits
<1> HIDE DEF x, y
<1> QED
  BY <1>1, <1>2, <1>3, <1>4, <1>5, <1>6, OneTurn

\* A role is found out.
LEMMA RoleFields ==
  ASSUME ses \in SessionRecord, NEW s \in Stream, NEW role \in RoleName
  PROVE  LET r == [ses EXCEPT !.role[s] = role]
         IN  /\ r \in SessionRecord /\ r.role[s] = role /\ \A t \in Stream \ {s} : r.role[t] = ses.role[t]
             /\ r.dead = ses.dead /\ r.bad = ses.bad /\ r.settings = ses.settings /\ r.cause = ses.cause
  BY DEF SessionRecord

\* A pending stream is classified.
LEMMA ClassifiedSettles ==
  ASSUME Structured, NEW s \in Unis \cup Bidis, ses.role[s] \in {"pending_uni", "pending_bidi"},
         \A t \in Stream \ {s} : ses'.role[t] = ses.role[t],
         ses.dead \subseteq ses'.dead, seen'.app = seen.app,
         \/ ses'.role[s] \in {"pending_uni", "pending_bidi", "none", "qpack_encoder", "qpack_decoder",
                              "ignored"} /\ (ses'.role[s] \in {"pending_uni", "pending_bidi"} => ses'.role[s] = ses.role[s])
         \/ ses'.role[s] = "control" /\ s \in Unis
  PROVE  Settled
<1>1. s # Connect
  BY PeerAssumption
<1>2. ASSUME NEW t \in Stream PROVE RoleStep(t) /\ AppStep(t)
  BY <1>1 DEF RoleStep, AppStep
<1> QED
  BY <1>2 DEF Settled

\* The stream that is being classified.
LEMMA ResolvingTop ==
  ASSUME Structured, NEW s \in Unis \cup Bidis, Resolving(s)
  PROVE  /\ task # <<>> /\ Top.op = "resolve" /\ Top.id = s /\ s \in Stream /\ Len(task) = 1
         /\ ses.role[s] \in {"pending_uni", "pending_bidi"} /\ Top.fin \in BOOLEAN
         /\ ses \in SessionRecord /\ MemInv /\ ~Closed /\ seen \in SeenRecord
<1>1. task # <<>> /\ Top.op = "resolve" /\ Top.id = s
  BY DEF Resolving, Doing
<1>2. RoleFits(Top.op, ses.role[Top.id]) /\ Top.id \in Stream /\ Len(task) = 1 /\ ses \in SessionRecord
      /\ MemInv /\ ~Closed /\ seen \in SeenRecord
  BY <1>1, TopRole DEF Rest
<1>3. Top.fin \in BOOLEAN
  BY <1>1, TopTyped DEF Structured, Typed
<1> QED
  BY <1>1, <1>2, <1>3 DEF RoleFits

\* ResolveLater keeps the stack and the roles in order.
LEMMA ResolveLaterTurns ==
  ASSUME Structured, NEW s \in Unis \cup Bidis, ResolveLater(s) PROVE Turns
<1>1. /\ task # <<>> /\ s \in Stream /\ Len(task) = 1 /\ ses \in SessionRecord
      /\ ses.role[s] \in {"pending_uni", "pending_bidi"}
  BY ResolvingTop DEF ResolveLater
<1>2. Then(<<>>) /\ seen' = seen /\ (ses' = ses \/ ses' = [ses EXCEPT !.role[s] = "none"])
  BY DEF ResolveLater
<1>3. CASE ses' = ses
  BY <1>1, <1>2, <1>3, SameRoles, NoneTurn
<1>4. CASE ses' = [ses EXCEPT !.role[s] = "none"]
  <2>1. ses' \in SessionRecord /\ ses'.role[s] = "none" /\ ses'.dead = ses.dead
        /\ \A t \in Stream \ {s} : ses'.role[t] = ses.role[t]
    <3> DEFINE none == "none"
    <3>1. none \in RoleName
      BY DEF RoleName
    <3> HIDE DEF none
    <3>2. ses' = [ses EXCEPT !.role[s] = none]
      BY <1>4 DEF none
    <3> QED
      BY <1>1, <3>1, <3>2, RoleFields DEF none
  <2>2. Settled
    BY <1>1, <1>2, <2>1, ClassifiedSettles
  <2> QED
    BY <1>1, <1>2, <2>1, <2>2, NoneTurn
<1> QED
  BY <1>2, <1>3, <1>4

\* ResolveIgnored keeps the stack and the roles in order.
LEMMA ResolveIgnoredTurns ==
  ASSUME Structured, NEW s \in Unis \cup Bidis, ResolveIgnored(s) PROVE Turns
<1>1. /\ task # <<>> /\ s \in Stream /\ Len(task) = 1 /\ ses \in SessionRecord
      /\ ses.role[s] \in {"pending_uni", "pending_bidi"}
  BY ResolvingTop DEF ResolveIgnored
<1> DEFINE shut == IF s \in Bidis \/ IsWebTransport(s) THEN ses.shut \cup {s} ELSE ses.shut
<1>2. /\ Then(<<>>) /\ seen' = seen
      /\ ses' = [ses EXCEPT !.role[s] = "ignored", !.shut = shut]
  BY DEF ResolveIgnored
<1>3. shut \in SUBSET Stream
  BY <1>1 DEF SessionRecord
<1> HIDE DEF shut
<1>4. ses' \in SessionRecord /\ ses'.role[s] = "ignored" /\ ses'.dead = ses.dead
      /\ \A t \in Stream \ {s} : ses'.role[t] = ses.role[t]
  BY <1>1, <1>2, <1>3 DEF SessionRecord, RoleName
<1>5. Settled
  BY <1>1, <1>2, <1>4, ClassifiedSettles
<1> QED
  BY <1>1, <1>2, <1>4, <1>5, NoneTurn

\* ResolveData keeps the stack and the roles in order.
LEMMA ResolveDataTurns ==
  ASSUME Structured, NEW s \in Unis \cup Bidis, ResolveData(s) PROVE Turns
<1>1. /\ task # <<>> /\ s \in Stream /\ Len(task) = 1 /\ ses \in SessionRecord /\ seen \in SeenRecord
      /\ ses.role[s] \in {"pending_uni", "pending_bidi"} /\ s # Connect /\ Top.fin \in BOOLEAN
  BY ResolvingTop, PeerAssumption DEF ResolveData
<1> DEFINE bytes == Suffix(data[ClassBuf(s)], HeaderLen(s))
           dead == IF Top.fin THEN ses.dead \cup {s} ELSE ses.dead
<1>2. /\ Then(<<>>) /\ Deliver(s, bytes, Top.fin)
      /\ ses' = [ses EXCEPT !.role[s] = "data", !.dead = dead]
  BY DEF ResolveData
<1>3. dead \in SUBSET Stream /\ ses.dead \subseteq dead
  BY <1>1 DEF SessionRecord
<1> HIDE DEF bytes, dead
<1>4. ses' \in SessionRecord /\ ses'.role[s] = "data" /\ ses'.dead = dead
      /\ \A t \in Stream \ {s} : ses'.role[t] = ses.role[t]
  BY <1>1, <1>2, <1>3 DEF SessionRecord, RoleName
<1>5. seen'.app[s].known = TRUE /\ \A t \in Stream \ {s} : seen'.app[t] = seen.app[t]
  BY <1>1, <1>2 DEF Deliver, SeenRecord, AppRecord
<1>6. ASSUME NEW t \in Stream PROVE RoleStep(t) /\ AppStep(t)
  BY <1>1, <1>4, <1>5 DEF RoleStep, AppStep
<1>7. Settled
  BY <1>3, <1>4, <1>6 DEF Settled
<1> QED
  BY <1>1, <1>2, <1>4, <1>7, NoneTurn

\* ResolveCritical keeps the stack and the roles in order.
LEMMA ResolveCriticalTurns ==
  ASSUME Structured, NEW s \in Unis \cup Bidis, ResolveCritical(s) PROVE Turns
<1> DEFINE new == CriticalRole(TypeOf(s).val)
           known == [ses EXCEPT !.role[s] = new]
           rest == Suffix(data[ClassBuf(s)], TypeOf(s).len)
           x == [op |-> "recv", id |-> s, fin |-> Top.fin, bytes |-> rest]
<1>1. /\ task # <<>> /\ s \in Stream /\ Len(task) = 1 /\ ses \in SessionRecord /\ MemInv
      /\ ses.role[s] \in {"pending_uni", "pending_bidi"} /\ Top.fin \in BOOLEAN /\ Top.id = s
  BY ResolvingTop DEF ResolveCritical
<1>2. seen' = seen /\ s \in Unis
  BY DEF ResolveCritical, IsCritical
<1>3. new \in {"control", "qpack_encoder", "qpack_decoder"}
  BY DEF ResolveCritical, IsCritical, CriticalRole, H3Control, QpackEncoder, QpackDecoder
<1>4. known \in SessionRecord /\ known.role[s] = new /\ known.dead = ses.dead
      /\ \A t \in Stream \ {s} : known.role[t] = ses.role[t]
  <2>1. new \in RoleName
    BY <1>3 DEF RoleName
  <2> HIDE DEF new
  <2> QED
    BY <1>1, <2>1, RoleFields
<1>5. rest \in Seq(Byte)
  BY <1>1, TypeOfTyped
<1>6. x \in TaskItem /\ x.id = s /\ x.op = "recv"
  BY <1>1, <1>5, ItemsTyped
<1>7. \/ MarkClosed(ses, "protocol", {}) /\ Then(<<>>)
      \/ ses' = known /\ Then(<<x>>)
      \/ ses' = known /\ Then(<<>>)
      \/ MarkClosed(known, "protocol", {}) /\ Then(<<>>)
  BY DEF ResolveCritical
<1> HIDE DEF new, known, rest, x
<1>8. ASSUME ses'.role = known.role, ses.dead \subseteq ses'.dead PROVE Settled
  <2>1. ses'.role[s] = new /\ \A t \in Stream \ {s} : ses'.role[t] = ses.role[t]
    BY <1>4, <1>8
  <2> QED
    BY <1>1, <1>2, <1>3, <1>8, <2>1, ClassifiedSettles
<1>9. CASE MarkClosed(ses, "protocol", {}) /\ Then(<<>>)
  BY <1>1, <1>2, <1>9, CloseTurn DEF Causes
<1>10. CASE ses' = known /\ Then(<<x>>)
  <2>1. Settled
    BY <1>4, <1>8, <1>10
  <2>2. RoleFits(x.op, ses'.role[x.id])
    BY <1>3, <1>4, <1>6, <1>10 DEF RoleFits
  <2> QED
    BY <1>1, <1>6, <1>10, <2>1, <2>2, OneTurn
<1>11. CASE ses' = known /\ Then(<<>>)
  <2>1. Settled
    BY <1>4, <1>8, <1>11
  <2> QED
    BY <1>1, <1>4, <1>11, <2>1, NoneTurn
<1>12. CASE MarkClosed(known, "protocol", {}) /\ Then(<<>>)
  <2>1. ses'.role = known.role /\ ses.dead \subseteq ses'.dead /\ ses' \in SessionRecord
    <3>1. "protocol" \in Causes \ {"none"} /\ {} \in SUBSET Buffer
      BY DEF Causes
    <3>2. ses'.role = known.role /\ known.dead \subseteq ses'.dead /\ ses' \in SessionRecord
      BY <1>1, <1>4, <1>12, <3>1, ClosingSettles
    <3> QED
      BY <1>4, <3>2
  <2>2. Settled
    BY <1>8, <2>1
  <2> QED
    BY <1>1, <1>12, <2>1, <2>2, NoneTurn
<1> QED
  BY <1>7, <1>9, <1>10, <1>11, <1>12

\* What is left of the session when a field that is no role changes.
LEMMA OtherFields ==
  ASSUME NEW r \in SessionRecord
  PROVE  /\ \A limit \in KnownLimit : LET q == [r EXCEPT !.limit = limit]
                                      IN  q \in SessionRecord /\ q.role = r.role /\ q.dead = r.dead
                                          /\ q.bad = r.bad /\ q.settings = r.settings /\ q.cause = r.cause
         /\ \A s \in Stream : LET q == [r EXCEPT !.headersDone = @ \cup {s}]
                              IN  q \in SessionRecord /\ q.role = r.role /\ q.dead = r.dead
                                  /\ q.bad = r.bad /\ q.settings = r.settings /\ q.cause = r.cause
         /\ \A s \in Stream : LET q == [r EXCEPT !.shut = @ \cup {s}]
                              IN  q \in SessionRecord /\ q.role = r.role /\ q.dead = r.dead
                                  /\ q.bad = r.bad /\ q.settings = r.settings /\ q.cause = r.cause
  BY DEF SessionRecord

\* Setting a flag of the session leaves its other fields alone.
LEMMA FlagFields ==
  ASSUME NEW r \in SessionRecord, NEW flag \in BOOLEAN
  PROVE  /\ LET q == [r EXCEPT !.ready = flag]
            IN  q \in SessionRecord /\ q.role = r.role /\ q.dead = r.dead
                /\ q.bad = r.bad /\ q.settings = r.settings /\ q.cause = r.cause
         /\ LET q == [r EXCEPT !.draining = flag]
            IN  q \in SessionRecord /\ q.role = r.role /\ q.dead = r.dead
                /\ q.bad = r.bad /\ q.settings = r.settings /\ q.cause = r.cause
  BY DEF SessionRecord

\* Storing SETTINGS leaves the roles alone.
LEMMA SettingsFields ==
  ASSUME ses \in SessionRecord, NEW s \in Stream, NEW pairs \in KnownSettings
  PROVE  LET q == [ses EXCEPT !.headersDone = @ \cup {s}, !.settings = pairs,
                              !.limit = Setting(pairs, SettingsInitialMaxData)]
         IN  q \in SessionRecord /\ q.role = ses.role /\ q.dead = ses.dead
             /\ q.bad = ses.bad /\ q.settings = pairs /\ q.cause = ses.cause
<1> DEFINE limit == Setting(pairs, SettingsInitialMaxData)
<1>1. limit \in KnownLimit
  BY DEF KnownLimit
<1> HIDE DEF limit
<1>2. LET q == [ses EXCEPT !.headersDone = @ \cup {s}, !.settings = pairs, !.limit = limit]
      IN  q \in SessionRecord /\ q.role = ses.role /\ q.dead = ses.dead
          /\ q.bad = ses.bad /\ q.settings = pairs /\ q.cause = ses.cause
  BY <1>1 DEF SessionRecord
<1> QED
  BY <1>2 DEF limit

\* Two items, one after the other.
LEMMA PairJoins ==
  ASSUME NEW x \in TaskItem, NEW y \in TaskItem
  PROVE  <<x>> \o <<y>> = <<x, y>>
<1> DEFINE l == <<x>> \o <<y>>
           r == <<x, y>>
<1>1. l \in Seq(TaskItem) /\ Len(l) = 2 /\ l[1] = x /\ l[2] = y
  OBVIOUS
<1>2. r \in Seq(TaskItem) /\ Len(r) = 2 /\ r[1] = x /\ r[2] = y
  OBVIOUS
<1> HIDE DEF l, r
<1>3. \A i \in 1 .. Len(l) : l[i] = r[i]
  <2>1. \A i \in 1 .. 2 : i = 1 \/ i = 2
    OBVIOUS
  <2> QED
    BY <1>1, <1>2, <2>1
<1>4. l = r
  BY <1>1, <1>2, <1>3, SeqEqual
<1> QED
  BY <1>4 DEF l, r

\* Parse keeps the stack and the roles in order.
LEMMA ParseTurns ==
  ASSUME Structured, Parse PROVE Turns
<1> DEFINE s == Top.id
           b == FramesBuf(s)
           x == Item("taken", s)
<1>1. task # <<>> /\ Top.op = "parse" /\ seen' = seen
  BY DEF Parse, Doing
<1>2. s \in Stream /\ ses \in SessionRecord /\ Top \in TaskItem /\ RoleFits(Top.op, ses.role[s])
      /\ task \in Seq(TaskItem)
  BY <1>1, TopRole DEF Structured, Typed
<1>3. CASE Then(<<>>) /\ ses' = ses
  BY <1>1, <1>2, <1>3, SameRoles, NoneTurn
<1>4. CASE Then(<<>>) /\ MarkClosed(ses, "rejected", {})
  BY <1>1, <1>2, <1>4, CloseTurn DEF Causes
<1>5. CASE Then(<<>>) /\ ses' = [ses EXCEPT !.bad = @ \cup {s}]
  BY <1>1, <1>2, <1>5, BadFields, SettledSame, NoneTurn
<1>6. CASE task' = <<x>> \o task /\ ses' = ses
  <2>1. x \in TaskItem /\ x.id = s /\ x.op = "taken"
    BY <1>2, ItemsTyped DEF Item
  <2> HIDE DEF x
  <2>2. Then(<<x, Top>>)
    BY <1>1, <1>2, <1>6, <2>1, PushIsThen
  <2>3. Settled
    BY <1>1, <1>6, SameRoles
  <2>4. RoleFits(x.op, ses'.role[x.id]) /\ RoleFits(Top.op, ses'.role[Top.id]) /\ ses'.role = ses.role
    BY <1>1, <1>2, <1>6, <2>1 DEF RoleFits
  <2> DEFINE y == Top
  <2>5. y \in TaskItem /\ y.id = Top.id /\ Then(<<x, y>>) /\ y.op = "parse" /\ RoleFits(y.op, ses'.role[y.id])
    BY <1>1, <1>2, <2>2, <2>4
  <2> HIDE DEF y
  <2> QED
    BY <1>1, <2>1, <2>3, <2>4, <2>5, TwoTurn
<1> QED
  BY <1>3, <1>4, <1>5, <1>6 DEF Parse

\* ConsumeFrame keeps the stack and the roles in order.
LEMMA ConsumeFrameTurns ==
  ASSUME Structured, ConsumeFrame PROVE Turns
<1> DEFINE s == Top.id
           u == NextUnit(FramesBuf(s))
           x == [op |-> "frame", id |-> s, ty |-> u.ty]
<1>1. task # <<>> /\ Top.op = "taken" /\ seen' = seen /\ ses' = ses /\ Then(<<x>>)
  BY DEF ConsumeFrame, Doing
<1>2. s \in Stream /\ RoleFits(Top.op, ses.role[s]) /\ MemInv
  BY <1>1, TopRole
<1>3. u.ty \in Nat
  BY <1>2, Buffers, UnitTyped
<1>4. x \in TaskItem /\ x.id = s /\ x.op = "frame"
  BY <1>2, <1>3, ItemsTyped
<1> HIDE DEF x
<1>5. RoleFits(x.op, ses'.role[x.id])
  BY <1>1, <1>2, <1>4 DEF RoleFits
<1> QED
  BY <1>1, <1>4, <1>5, SameRoles, OneTurn

\* The frames of the control stream keep the stack and the roles in order.
LEMMA ControlTurns ==
  ASSUME Structured, NEW s \in Unis, ControlSettings(s) \/ ControlFrame(s) PROVE Turns
<1> DEFINE pairs == SettingsPairs(Payload(s))
           done == [ses EXCEPT !.headersDone = @ \cup {s}]
           known == [ses EXCEPT !.headersDone = @ \cup {s}, !.settings = pairs,
                                !.limit = Setting(pairs, SettingsInitialMaxData)]
           joined == [known EXCEPT !.role[Connect] = "connect"]
           goaway == ses.draining \/ Top.ty = FrameGoaway
           drained == [ses EXCEPT !.draining = goaway]
           x == Item("parse", Connect)
           y == Item("drop", s)
<1>1. task # <<>> /\ Top.op = "frame" /\ Top.id = s /\ ses.role[s] = "control" /\ Log(s)
  BY DEF ControlSettings, ControlFrame, Handling, Doing
<1>2. /\ s \in Stream /\ Connect \in Stream /\ ses \in SessionRecord /\ MemInv /\ s # Connect
      /\ seen \in SeenRecord /\ ses.role \in [Stream -> RoleName] /\ Roles1
  BY <1>1, TopRole, PeerAssumption DEF Stream, Structured
<1>3. seen'.app = seen.app
  BY <1>1, <1>2 DEF Log, SeenRecord
<1>4. pairs \in KnownSettings
  BY <1>2, Buffers DEF KnownSettings, Payload, MemInv, MemTypeOK
<1> HIDE DEF pairs
<1>5. /\ done \in SessionRecord /\ done.role = ses.role /\ done.dead = ses.dead
      /\ known \in SessionRecord /\ known.role = ses.role /\ known.dead = ses.dead
  BY <1>2, <1>4, OtherFields, SettingsFields
<1>6. goaway \in BOOLEAN
  BY <1>2 DEF SessionRecord
<1> HIDE DEF goaway
<1>7. drained \in SessionRecord /\ drained.role = ses.role /\ drained.dead = ses.dead
  BY <1>2, <1>6, FlagFields
<1>8. PayloadBuf(s) \in Buffer
  BY <1>2, Buffers
<1> HIDE DEF done, known, drained
<1>9. /\ joined \in SessionRecord /\ joined.role[Connect] = "connect" /\ joined.dead = ses.dead
      /\ \A t \in Stream \ {Connect} : joined.role[t] = ses.role[t]
  BY <1>2, <1>5 DEF SessionRecord, RoleName
<1> HIDE DEF joined
<1>10. CASE /\ Then(<<>>)
            /\ \/ MarkClosed(done, "protocol", {PayloadBuf(s)})
               \/ MarkClosed(known, "rejected", {PayloadBuf(s)})
               \/ MarkClosed(ses, "protocol", {PayloadBuf(s)})
  <2>1. "protocol" \in Causes \ {"none"} /\ "rejected" \in Causes \ {"none"} /\ {PayloadBuf(s)} \in SUBSET Buffer
    BY <1>8 DEF Causes
  <2>2. CASE MarkClosed(done, "protocol", {PayloadBuf(s)})
    BY <1>1, <1>3, <1>5, <1>10, <2>1, <2>2, CloseTurn
  <2>3. CASE MarkClosed(known, "rejected", {PayloadBuf(s)})
    BY <1>1, <1>3, <1>5, <1>10, <2>1, <2>3, CloseTurn
  <2>4. CASE MarkClosed(ses, "protocol", {PayloadBuf(s)})
    BY <1>1, <1>2, <1>3, <1>10, <2>1, <2>4, CloseTurn
  <2> QED
    BY <1>10, <2>2, <2>3, <2>4
<1>11. CASE ses' = drained /\ Then(<<>>)
  BY <1>1, <1>3, <1>7, <1>11, SettledSame, NoneTurn
<1>12. CASE ses' = joined /\ Then(<<>>)
  <2>1. ses.role[Connect] \in {"none", "connect"}
    BY <1>2 DEF Roles1
  <2>2. ASSUME NEW t \in Stream
        PROVE  /\ RoleStep(t) /\ AppStep(t)
               /\ \/ ses'.role[t] = ses.role[t]
                  \/ ses.role[t] = "none" /\ ses'.role[t] = "connect"
    BY <1>3, <1>9, <1>12, <2>1 DEF RoleStep, AppStep
  <2>3. Settled
    BY <1>9, <1>12, <2>2 DEF Settled
  <2> QED
    BY <1>1, <1>9, <1>12, <2>2, <2>3, NoneTurn
<1>13. CASE ses' = known /\ Then((IF ses.role[Connect] # "none" THEN <<x>> ELSE <<>>) \o <<y>>)
  <2>1. Settled /\ ses'.role = ses.role
    BY <1>3, <1>5, <1>13, SettledSame
  <2>2. x \in TaskItem /\ y \in TaskItem /\ x.id = Connect /\ y.id = s /\ x.op = "parse" /\ y.op = "drop"
    BY <1>2, ItemsTyped DEF Item
  <2>3. RoleFits(y.op, ses'.role[y.id])
    BY <1>1, <2>1, <2>2 DEF RoleFits
  <2> HIDE DEF x, y
  <2>4. CASE ses.role[Connect] # "none"
    <3>1. ses.role[Connect] = "connect"
      BY <1>2, <2>4 DEF Roles1
    <3>2. RoleFits(x.op, ses'.role[x.id])
      BY <2>1, <2>2, <3>1 DEF RoleFits
    <3>3. Then(<<x, y>>)
      <4>1. <<x>> \o <<y>> = <<x, y>>
        BY <2>2, PairJoins
      <4> QED
        BY <1>13, <2>4, <4>1
    <3> QED
      BY <1>1, <1>2, <2>1, <2>2, <2>3, <3>2, <3>3, TwoTurn
  <2>5. CASE ses.role[Connect] = "none"
    <3>1. Then(<<y>>)
      <4>1. <<>> \o <<y>> = <<y>>
        BY <2>2
      <4> QED
        BY <1>13, <2>5, <4>1
    <3> QED
      BY <1>1, <2>1, <2>2, <2>3, <3>1, OneTurn
  <2> QED
    BY <2>4, <2>5
<1> QED
  BY <1>10, <1>11, <1>12, <1>13
  DEF ControlSettings, ControlFrame, Dropped, pairs, done, known, joined, drained, goaway

\* The frames of CONNECT keep the stack and the roles in order.
LEMMA ConnectTurns ==
  ASSUME Structured, ConnectHeaders \/ ConnectOther \/ ConnectData PROVE Turns
<1> DEFINE known == [ses EXCEPT !.headersDone = @ \cup {Connect}]
           ready == [known EXCEPT !.ready = TRUE]
           x == Item("scan", Connect)
           y == Item("drop", Connect)
           z == Item("limit", Connect)
<1>1. task # <<>> /\ Top.op = "frame" /\ Top.id = Connect /\ Log(Connect)
  BY DEF ConnectHeaders, ConnectOther, ConnectData, Handling, Doing
<1>2. /\ Connect \in Stream /\ ses \in SessionRecord /\ seen \in SeenRecord
      /\ RoleFits("frame", ses.role[Connect])
  BY <1>1, TopRole
<1>3. seen'.app = seen.app
  BY <1>1, <1>2 DEF Log, SeenRecord
<1>4. known \in SessionRecord /\ known.role = ses.role /\ known.dead = ses.dead
  BY <1>2, OtherFields
<1> HIDE DEF known
<1>5. ready \in SessionRecord /\ ready.role = ses.role /\ ready.dead = ses.dead
  BY <1>4, FlagFields
<1> HIDE DEF ready
<1>6. /\ x \in TaskItem /\ x.id = Connect /\ x.op = "scan" /\ y \in TaskItem /\ y.id = Connect
      /\ y.op = "drop" /\ z \in TaskItem /\ z.id = Connect /\ z.op = "limit"
  BY <1>2, ItemsTyped DEF Item
<1> HIDE DEF x, y, z
<1>7. CASE (ses' = ready \/ ses' = known \/ ses' = ses) /\ Then(<<>>)
  <2>1. ses' \in SessionRecord /\ ses'.role = ses.role /\ ses'.dead = ses.dead
    BY <1>2, <1>4, <1>5, <1>7
  <2> QED
    BY <1>1, <1>3, <1>7, <2>1, SettledSame, NoneTurn
<1>8. CASE MarkClosed(known, "rejected", {PayloadBuf(Connect)}) /\ Then(<<>>)
  <2>1. "rejected" \in Causes \ {"none"} /\ {PayloadBuf(Connect)} \in SUBSET Buffer
    BY <1>2, Buffers DEF Causes
  <2> QED
    BY <1>1, <1>3, <1>4, <1>8, <2>1, CloseTurn
<1>9. CASE ses' = ses /\ (Then(<<x, y>>) \/ Then(<<z, y>>))
  <2>1. Settled
    BY <1>3, <1>9, SameRoles
  <2>2. RoleFits(x.op, ses'.role[x.id]) /\ RoleFits(y.op, ses'.role[y.id]) /\ RoleFits(z.op, ses'.role[z.id])
    BY <1>2, <1>6, <1>9 DEF RoleFits
  <2> QED
    BY <1>1, <1>6, <1>9, <2>1, <2>2, TwoTurn
<1> QED
  BY <1>7, <1>8, <1>9
  DEF ConnectHeaders, ConnectOther, ConnectData, Dropped, known, ready, x, y, z

\* Drop keeps the stack and the roles in order.
LEMMA DropTurns ==
  ASSUME Structured, Drop \/ LimitExceeded PROVE Turns
<1>1. task # <<>> /\ Then(<<>>) /\ seen' = seen /\ ses \in SessionRecord
  BY DEF Drop, Dropped, LimitExceeded, Doing, Structured, Typed
<1>2. CASE ses' = ses
  BY <1>1, <1>2, SameRoles, NoneTurn
<1>3. CASE MarkClosed(ses, "limit", {})
  BY <1>1, <1>3, CloseTurn DEF Causes
<1> QED
  BY <1>2, <1>3 DEF Drop, LimitExceeded

\* Scan keeps the stack and the roles in order.
LEMMA ScanTurns ==
  ASSUME Structured, Scan PROVE Turns
<1> DEFINE s == Top.id
           x == Item("cut", s)
           z == Item("limit", s)
<1>1. task # <<>> /\ Top.op = "scan" /\ seen' = seen
  BY DEF Scan, Doing
<1>2. s \in Stream /\ ses \in SessionRecord /\ Top \in TaskItem /\ RoleFits(Top.op, ses.role[s])
      /\ task \in Seq(TaskItem)
  BY <1>1, TopRole DEF Structured, Typed
<1>3. /\ x \in TaskItem /\ x.id = s /\ x.op = "cut" /\ z \in TaskItem /\ z.id = s /\ z.op = "limit"
  BY <1>2, ItemsTyped DEF Item
<1> HIDE DEF x, z
<1>4. CASE Then(<<>>) /\ ses' = ses
  BY <1>1, <1>2, <1>4, SameRoles, NoneTurn
<1>5. CASE Then(<<>>) /\ MarkClosed(ses, "protocol", {})
  BY <1>1, <1>2, <1>5, CloseTurn DEF Causes
<1>6. CASE task' = <<x>> \o task /\ ses' = ses
  <2>1. Then(<<x, Top>>)
    BY <1>1, <1>2, <1>3, <1>6, PushIsThen
  <2>2. Settled
    BY <1>1, <1>6, SameRoles
  <2> DEFINE y == Top
  <2>3. y \in TaskItem /\ y.id = Top.id /\ Then(<<x, y>>) /\ y.op = "scan" /\ RoleFits(y.op, ses'.role[y.id])
    BY <1>1, <1>2, <1>6, <2>1
  <2>4. RoleFits(x.op, ses'.role[x.id])
    BY <1>3 DEF RoleFits
  <2> HIDE DEF y
  <2> QED
    BY <1>1, <1>3, <1>6, <2>2, <2>3, <2>4, TwoTurn
<1>7. CASE Then(<<z>>) /\ ses' = ses
  <2>1. RoleFits(z.op, ses'.role[z.id])
    BY <1>3 DEF RoleFits
  <2> QED
    BY <1>1, <1>3, <1>7, <2>1, SameRoles, OneTurn
<1> QED
  BY <1>4, <1>5, <1>6, <1>7 DEF Scan, x, z

\* CutCapsule keeps the stack and the roles in order.
LEMMA CutCapsuleTurns ==
  ASSUME Structured, CutCapsule PROVE Turns
<1> DEFINE s == Top.id
           u == NextUnit(CapsuleBuf)
           x == [op |-> "capsule", id |-> s, ty |-> u.ty]
<1>1. task # <<>> /\ Top.op = "cut" /\ seen' = seen /\ ses' = ses /\ Then(<<x>>)
  BY DEF CutCapsule, Doing
<1>2. s \in Stream /\ MemInv
  BY <1>1, TopRole
<1>3. u.ty \in Nat
  BY <1>2, Buffers, UnitTyped
<1>4. x \in TaskItem /\ x.id = s /\ x.op = "capsule"
  BY <1>2, <1>3, ItemsTyped
<1> HIDE DEF x
<1>5. RoleFits(x.op, ses'.role[x.id])
  BY <1>4 DEF RoleFits
<1> QED
  BY <1>1, <1>4, <1>5, SameRoles, OneTurn

\* HandleCapsule keeps the stack and the roles in order.
LEMMA HandleCapsuleTurns ==
  ASSUME Structured, HandleCapsule PROVE Turns
<1> DEFINE raised == [ses EXCEPT !.limit = ReadVarint(data[ValueBuf]).val]
           drained == [ses EXCEPT !.draining = TRUE]
<1>1. /\ task # <<>> /\ Then(<<>>) /\ ses \in SessionRecord /\ seen \in SeenRecord /\ MemInv
      /\ seen' = [seen EXCEPT !.capsules = Append(@, [ty |-> Top.ty, val |-> data[ValueBuf]])]
  BY DEF HandleCapsule, Doing, Structured, Typed
<1>2. seen'.app = seen.app
  BY <1>1 DEF SeenRecord
<1>3. raised \in SessionRecord /\ raised.role = ses.role /\ raised.dead = ses.dead
  <2> DEFINE limit == ReadVarint(data[ValueBuf]).val
  <2>1. limit \in KnownLimit
    <3>1. data[ValueBuf] \in Seq(Octet)
      BY <1>1, Buffers, UnitTyped
    <3> QED
      BY <3>1, ReadVarintType DEF KnownLimit
  <2> HIDE DEF limit
  <2> QED
    BY <1>1, <2>1, OtherFields DEF limit
<1>4. drained \in SessionRecord /\ drained.role = ses.role /\ drained.dead = ses.dead
  BY <1>1, FlagFields
<1> HIDE DEF raised, drained
<1>5. CASE ses' = raised \/ ses' = drained \/ ses' = ses
  <2>1. ses' \in SessionRecord /\ ses'.role = ses.role /\ ses'.dead = ses.dead
    BY <1>1, <1>3, <1>4, <1>5
  <2> QED
    BY <1>1, <1>2, <2>1, SettledSame, NoneTurn
<1>6. CASE MarkClosed(ses, "peer", {ValueBuf}) \/ MarkClosed(ses, "flow", {ValueBuf})
  <2>1. "peer" \in Causes \ {"none"} /\ "flow" \in Causes \ {"none"} /\ {ValueBuf} \in SUBSET Buffer
    BY Buffers DEF Causes
  <2>2. CASE MarkClosed(ses, "peer", {ValueBuf})
    BY <1>1, <1>2, <2>1, <2>2, CloseTurn
  <2>3. CASE MarkClosed(ses, "flow", {ValueBuf})
    BY <1>1, <1>2, <2>1, <2>3, CloseTurn
  <2> QED
    BY <1>6, <2>2, <2>3
<1> QED
  BY <1>5, <1>6 DEF HandleCapsule, raised, drained

\* After keeps the stack and the roles in order.
LEMMA AfterTurns ==
  ASSUME Structured, After PROVE Turns
<1> DEFINE s == Top.id
           shut == [ses EXCEPT !.shut = @ \cup {s}]
           cause == IF Unfinished THEN "protocol" ELSE "peer"
<1>1. task # <<>> /\ Then(<<>>) /\ ses \in SessionRecord /\ seen' = seen
  BY DEF After, Doing, Structured, Typed
<1>2. s \in Stream
  BY <1>1, TopRole
<1>3. shut \in SessionRecord /\ shut.role = ses.role /\ shut.dead = ses.dead
  BY <1>1, <1>2, OtherFields
<1>4. "protocol" \in Causes \ {"none"} /\ "malformed" \in Causes \ {"none"} /\ cause \in Causes \ {"none"}
      /\ {} \in SUBSET Buffer
  BY DEF Causes
<1> HIDE DEF shut, cause
<1>5. CASE ses' = ses
  BY <1>1, <1>5, SameRoles, NoneTurn
<1>6. CASE MarkClosed(ses, "protocol", {})
  BY <1>1, <1>4, <1>6, CloseTurn
<1>7. CASE MarkClosed(shut, "malformed", {})
  BY <1>1, <1>3, <1>4, <1>7, CloseTurn
<1>8. CASE MarkClosed(ses, cause, {})
  BY <1>1, <1>4, <1>8, CloseTurn
<1> QED
  BY <1>5, <1>6, <1>7, <1>8 DEF After, shut, cause

\* Every turn keeps the stack and the roles in order.
LEMMA ProcessingTurns ==
  ASSUME Structured, Processing PROVE Turns /\ task # <<>> /\ peer' = peer
<1>1. Turns
  BY RecvFramesTurns, RecvDiscardedTurns, RecvDataTurns, RecvPendingTurns, ResolveLaterTurns,
     ResolveCriticalTurns, ResolveDataTurns, ResolveIgnoredTurns, ParseTurns, ConsumeFrameTurns,
     ControlTurns, ConnectTurns, DropTurns, ScanTurns, CutCapsuleTurns, HandleCapsuleTurns,
     AfterTurns DEF Processing
<1>2. task # <<>>
  BY DEF Processing, RecvFrames, RecvDiscarded, RecvData, RecvPending, ResolveLater,
     ResolveCritical, ResolveData, ResolveIgnored, Resolving, Parse, ConsumeFrame, ControlSettings,
     ControlFrame, ConnectHeaders, ConnectData, ConnectOther, Handling, Drop, LimitExceeded, Scan,
     CutCapsule, HandleCapsule, After, Doing
<1>3. peer' = peer
  BY DEF Processing, RecvFrames, RecvDiscarded, RecvData, RecvPending, ResolveLater,
     ResolveCritical, ResolveData, ResolveIgnored, Resolving, Parse, ConsumeFrame, ControlSettings,
     ControlFrame, ConnectHeaders, ConnectData, ConnectOther, Handling, Drop, LimitExceeded, Scan,
     CutCapsule, HandleCapsule, After, Quiet
<1> QED
  BY <1>1, <1>2, <1>3

\* With no more than one item on the stack, the items fit together.
LEMMA ShortStack ==
  ASSUME task' = <<>> \/ \E x \in TaskItem : task' = <<x>> /\ RoleFits(x.op, ses'.role[x.id])
  PROVE  Stacked' /\ RolesFit'
<1>1. CASE task' = <<>>
  <2>1. \A i \in 1 .. Len(task') : FALSE
    BY <1>1
  <2>2. ~(Doing("recv") \/ Doing("resolve"))'
    BY <1>1 DEF Doing
  <2>3. Stacked'
    BY <2>1, <2>2 DEF Stacked
  <2> QED
    BY <2>1, <2>3 DEF RolesFit
<1>2. CASE \E x \in TaskItem : task' = <<x>> /\ RoleFits(x.op, ses'.role[x.id])
  <2>1. PICK x \in TaskItem : task' = <<x>> /\ RoleFits(x.op, ses'.role[x.id])
    BY <1>2
  <2>2. Len(task') = 1 /\ task'[1] = x /\ \A i \in 1 .. Len(task') : i = 1
    BY <2>1
  <2>3. \A i, j \in 1 .. Len(task') : ~(i < j)
    BY <2>2
  <2>4. Stacked'
    BY <2>2, <2>3 DEF Stacked
  <2> QED
    BY <2>1, <2>2, <2>4 DEF RolesFit
<1> QED
  BY <1>1, <1>2

\* The role of a stream that is read.
LEMMA ReadRole ==
  ASSUME Structured, NEW s \in Stream
  PROVE  /\ RoleOf(s) \in RoleName /\ RoleOf(s) # "none"
         /\ ses.role[s] # "none" => RoleOf(s) = ses.role[s]
         /\ ses.role[s] = "none" /\ s = Connect => RoleOf(s) = "connect"
         /\ ses.role[s] = "none" /\ s # Connect => RoleOf(s) \in {"pending_uni", "pending_bidi"}
<1>1. RoleOf(s) \in RoleName
  BY RoleOfTyped DEF Structured
<1>2. ClassifyNew(s) = IF s = Connect THEN "connect" ELSE IF s \in Unis THEN "pending_uni" ELSE "pending_bidi"
  BY PeerAssumption DEF ClassifyNew, Stream
<1> QED
  BY <1>1, <1>2 DEF RoleOf

\* A stream that is read is classified as far as its kind says.
LEMMA ReadSettles ==
  ASSUME Structured, NEW s \in Stream, s \notin ses.dead,
         ses'.role = [ses.role EXCEPT ![s] = RoleOf(s)], ses.dead \subseteq ses'.dead,
         \A t \in Stream : seen'.app[t] = seen.app[t] \/ (t = s /\ RoleOf(s) = "data" /\ seen'.app[t].known)
  PROVE  Settled
<1>1. ses.role \in [Stream -> RoleName]
  BY DEF Structured, Typed, SessionRecord
<1>2. ASSUME NEW t \in Stream PROVE RoleStep(t) /\ AppStep(t)
  <2>1. CASE t = s
    <3>1. ses'.role[t] = RoleOf(s)
      BY <1>1, <2>1
    <3>2. seen'.app[t] = seen.app[t] \/ (RoleOf(s) = "data" /\ seen'.app[t].known)
      BY <2>1
    <3>3. AppStep(t)
      BY <3>1, <3>2 DEF AppStep
    <3>4. RoleStep(t)
      BY <2>1, <3>1, ReadRole DEF RoleStep
    <3> QED
      BY <3>3, <3>4
  <2>2. CASE t # s
    BY <1>1, <2>2 DEF RoleStep, AppStep
  <2> QED
    BY <2>1, <2>2
<1> QED
  BY <1>2 DEF Settled

\* OnReadable keeps the stack and the roles in order.
LEMMA OnReadableStep ==
  ASSUME Structured, NEW s \in Stream, NEW n \in {0} \cup ChunkSizes, NEW fin \in BOOLEAN,
         NEW pressed \in BOOLEAN, OnReadable(s, n, fin, pressed)
  PROVE  Settled /\ Stacked' /\ RolesFit'
<1> DEFINE bytes == SubSeq(script.of[s], peer[s].pos + 1, peer[s].pos + n)
           x == [op |-> "recv", id |-> s, fin |-> fin, bytes |-> bytes]
<1>1. /\ task' = <<x>> /\ ses' = [ses EXCEPT !.role[s] = RoleOf(s)] /\ seen' = seen
      /\ s \notin ses.dead /\ ses \in SessionRecord
  BY DEF OnReadable, Readable, Structured, Typed
<1>2. x \in TaskItem
  <2>1. task' \in Seq(TaskItem)
    BY OnReadableTyped DEF Structured, Typed
  <2>2. task'[1] = x /\ 1 \in 1 .. Len(task')
    BY <1>1
  <2> QED
    BY <2>1, <2>2
<1>3. x.op = "recv" /\ x.id = s
  OBVIOUS
<1> HIDE DEF x
<1>4. ses'.role = [ses.role EXCEPT ![s] = RoleOf(s)] /\ ses'.dead = ses.dead
  BY <1>1 DEF SessionRecord
<1>5. Settled
  BY <1>1, <1>4, ReadSettles
<1>6. ses'.role[s] # "none"
  BY <1>1, <1>4, ReadRole DEF SessionRecord
<1>7. RoleFits(x.op, ses'.role[x.id])
  BY <1>3, <1>6 DEF RoleFits
<1> QED
  BY <1>1, <1>2, <1>5, <1>7, ShortStack

\* OnReset keeps the stack and the roles in order.
LEMMA OnResetStep ==
  ASSUME Structured, NEW s \in Stream, NEW code \in Int, OnReset(s, code)
  PROVE  Settled /\ Stacked' /\ RolesFit'
<1> DEFINE role == RoleOf(s)
           known == [ses EXCEPT !.role[s] = role, !.dead = @ \cup {s}]
           told == IF FromHttp(code) = None THEN code ELSE FromHttp(code)
<1>1. task = <<>> /\ task' = task /\ s \notin ses.dead /\ ses \in SessionRecord /\ MemInv /\ seen \in SeenRecord
  BY DEF OnReset, Readable, Idle, Structured, Typed
<1>2. role \in RoleName
  BY ReadRole
<1> HIDE DEF role
<1>3. /\ known \in SessionRecord /\ known.role = [ses.role EXCEPT ![s] = role]
      /\ ses.dead \subseteq known.dead
  <2> DEFINE dead == ses.dead \cup {s}
  <2>1. dead \in SUBSET Stream /\ ses.dead \subseteq dead
    BY <1>1 DEF SessionRecord
  <2> HIDE DEF dead
  <2>2. [ses EXCEPT !.role[s] = role, !.dead = dead] \in SessionRecord
    BY <1>1, <1>2, <2>1 DEF SessionRecord
  <2>3. known.role = [ses.role EXCEPT ![s] = role] /\ known.dead = dead
    BY <1>1 DEF SessionRecord, dead
  <2> QED
    BY <2>1, <2>2, <2>3 DEF dead
<1>4. \/ ses' = known
      \/ MarkClosed(known, "protocol", {})
      \/ MarkClosed(known, "peer", {})
  BY DEF OnReset, known, role
<1> HIDE DEF known
<1>5. ses'.role = known.role /\ known.dead \subseteq ses'.dead
  <2>1. "protocol" \in Causes \ {"none"} /\ "peer" \in Causes \ {"none"} /\ {} \in SUBSET Buffer
    BY DEF Causes
  <2>2. CASE MarkClosed(known, "protocol", {})
    BY <1>1, <1>3, <2>1, <2>2, ClosingSettles
  <2>3. CASE MarkClosed(known, "peer", {})
    BY <1>1, <1>3, <2>1, <2>3, ClosingSettles
  <2> QED
    BY <1>4, <2>2, <2>3
<1>6. \/ seen' = seen
      \/ role = "data" /\ seen' = [seen EXCEPT !.app[s].end = "reset", !.app[s].code = told]
  BY DEF OnReset, role, told
<1> HIDE DEF told
<1>7. ASSUME NEW t \in Stream
      PROVE  seen'.app[t] = seen.app[t] \/ (t = s /\ RoleOf(s) = "data" /\ seen'.app[t].known)
  <2>1. CASE seen' = seen
    BY <2>1
  <2>2. CASE role = "data" /\ seen' = [seen EXCEPT !.app[s].end = "reset", !.app[s].code = told]
    <3>1. ses.role[s] = "data"
      BY <2>2, ReadRole DEF role
    <3>2. seen.app[s].known
      BY <3>1 DEF Structured, Apps
    <3>3. seen.app[s] \in AppRecord /\ seen'.app = [seen.app EXCEPT ![s] = [@ EXCEPT !.end = "reset", !.code = told]]
          /\ seen.app \in [Stream -> AppRecord]
      BY <1>1, <2>2 DEF SeenRecord
    <3>4. seen'.app[s].known = seen.app[s].known /\ \A r \in Stream \ {s} : seen'.app[r] = seen.app[r]
      BY <3>3 DEF AppRecord
    <3> QED
      BY <2>2, <3>2, <3>4 DEF role
  <2> QED
    BY <1>6, <2>1, <2>2
<1>8. Settled
  BY <1>1, <1>3, <1>5, <1>7, ReadSettles DEF role
<1>9. task' = <<>>
  BY <1>1
<1> QED
  BY <1>8, <1>9, ShortStack

\* What happens between the chunks keeps the stack and the roles in order.
LEMMA BetweenStep ==
  ASSUME Structured, Prune \/ ConnectionLost \/ OtherSession \/ \E s \in Bidis : FinishSend(s)
  PROVE  Settled /\ Stacked' /\ RolesFit'
<1>1. task = <<>> /\ task' = task /\ seen' = seen /\ ses \in SessionRecord /\ MemInv
  BY DEF Prune, ConnectionLost, OtherSession, FinishSend, Idle, Structured, Typed
<1>2. task' = <<>>
  BY <1>1
<1>3. CASE Prune
  <2> DEFINE gone == {s \in Stream : Prunable(s)}
             new == [s \in Stream |-> IF s \in gone THEN "none" ELSE ses.role[s]]
  <2>1. ses'.role = new /\ ses'.dead = ses.dead
    BY <1>1, <1>3 DEF Prune, SessionRecord
  <2>2. ASSUME NEW t \in Stream PROVE RoleStep(t) /\ AppStep(t)
    <3>1. t \in gone => t # Connect /\ t \in ses.dead
      BY DEF Prunable
    <3>2. ses'.role[t] = IF t \in gone THEN "none" ELSE ses.role[t]
      BY <2>1
    <3> HIDE DEF gone, new
    <3> QED
      BY <1>1, <3>1, <3>2 DEF RoleStep, AppStep
  <2>3. Settled
    BY <2>1, <2>2 DEF Settled
  <2> QED
    BY <1>2, <2>3, ShortStack
<1>4. CASE ConnectionLost
  <2>1. "peer" \in Causes \ {"none"} /\ {} \in SUBSET Buffer /\ MarkClosed(ses, "peer", {})
    BY <1>4 DEF Causes, ConnectionLost
  <2>2. ses'.role = ses.role /\ ses.dead \subseteq ses'.dead
    BY <1>1, <2>1, ClosingSettles
  <2> QED
    BY <1>1, <1>2, <2>2, SettledSame, ShortStack
<1>5. CASE OtherSession
  <2>1. ses' = ses
    BY <1>5 DEF OtherSession
  <2> QED
    BY <1>1, <1>2, <2>1, SameRoles, ShortStack
<1>6. CASE \E s \in Bidis : FinishSend(s)
  <2>1. ses'.role = ses.role /\ ses'.dead = ses.dead
    BY <1>1, <1>6 DEF FinishSend, SessionRecord
  <2> QED
    BY <1>1, <1>2, <2>1, SettledSame, ShortStack
<1> QED
  BY <1>3, <1>4, <1>5, <1>6

\* The stack is empty and every stream unclassified at first.
LEMMA StructuredInit ==
  ASSUME Init PROVE Structured
<1>1. Typed /\ Releasing
  BY InitTyped, InitReleases
<1>2. seen \in SeenRecord
  BY DEF Init, SeenRecord, AppRecord
<1>3. task = <<>> /\ \A i \in 1 .. Len(task) : FALSE
  BY DEF Init
<1>4. Stacked /\ RolesFit
  BY <1>3 DEF Stacked, RolesFit, Doing
<1>5. Roles1 /\ Apps
  BY PeerAssumption DEF Init, Roles1, Apps, Stream
<1> QED
  BY <1>1, <1>2, <1>4, <1>5 DEF Structured

\* Every step keeps the stack and the roles in order.
LEMMA NextStructured ==
  ASSUME Structured, [Next]_vars
  PROVE  Structured' /\ Settled
<1>1. Typed' /\ Releasing'
  BY NextTyped, NextReleases DEF Structured
<1>2. (seen \in SeenRecord)'
  BY SeenStep DEF Structured
<1>3. Settled /\ Stacked' /\ RolesFit'
  <2>1. CASE Processing
    <3>1. Turns /\ task # <<>>
      BY <2>1, ProcessingTurns
    <3>2. PICK items \in Seq(TaskItem) : Then(items) /\ Fit(items)
      BY <3>1 DEF Turns
    <3>3. Stacked' /\ \A i \in 1 .. Len(task') : RoleFits(task'[i].op, ses'.role[task'[i].id])
      BY <3>1, <3>2, TurnStacked DEF Structured, RolesFit
    <3> QED
      BY <3>1, <3>3 DEF Turns, RolesFit
  <2>2. CASE \E s \in Stream, n \in {0} \cup ChunkSizes, fin \in BOOLEAN, pressed \in BOOLEAN :
               OnReadable(s, n, fin, pressed)
    BY <2>2, OnReadableStep
  <2>3. CASE \E s \in Stream, code \in {ToHttp(c) : c \in PeerCodes} \cup RawCodes : OnReset(s, code)
    BY <2>3, OnResetStep, ResetCodes
  <2>4. CASE Prune \/ ConnectionLost \/ OtherSession \/ \E s \in Bidis : FinishSend(s)
    BY <2>4, BetweenStep
  <2>5. CASE UNCHANGED vars
    <3>1. task' = task /\ ses' = ses /\ seen' = seen
      BY <2>5 DEF vars
    <3>2. Settled
      BY <3>1, SameRoles
    <3>3. Stacked' /\ RolesFit'
      BY <3>1 DEF Structured, Stacked, RolesFit, Doing, Top
    <3> QED
      BY <3>2, <3>3
  <2> QED
    BY <2>1, <2>2, <2>3, <2>4, <2>5 DEF Next
<1>4. Roles1' /\ Apps'
  BY <1>3, SettledKeeps DEF Structured
<1> QED
  BY <1>1, <1>2, <1>3, <1>4 DEF Structured

-----------------------------------------------------------------------------
(* The type invariant *)

\* The limits are numbers.
LEMMA LimitIsNat ==
  KnownLimit \subseteq Nat
<1> SUFFICES ASSUME NEW p \in KnownSettings PROVE Setting(p, SettingsInitialMaxData) \in Nat
  BY DEF KnownLimit
<1>1. p \in Seq([id : Int, val : Nat])
  <2>1. CASE p = NoSettings
    BY <2>1 DEF NoSettings
  <2>2. CASE \E b \in Seq(Byte) : p = SettingsPairs(b)
    BY <2>2, SettingsPairsType, ByteIsOctet
  <2> QED
    BY <2>1, <2>2 DEF KnownSettings
<1> DEFINE Is(i) == i \in DOMAIN p /\ p[i].id = SettingsInitialMaxData
           j == CHOOSE i \in DOMAIN p : p[i].id = SettingsInitialMaxData
<1>2. CASE \E i \in DOMAIN p : p[i].id = SettingsInitialMaxData
  <2>1. j \in DOMAIN p
    BY <1>2
  <2>2. Setting(p, SettingsInitialMaxData) = p[j].val
    BY <1>2 DEF Setting
  <2> HIDE DEF j
  <2>3. p[j] \in [id : Int, val : Nat]
    <3> DEFINE R == [id : Int, val : Nat]
    <3>1. p \in Seq(R)
      BY <1>1
    <3> HIDE DEF R
    <3>2. DOMAIN p = 1 .. Len(p) /\ j \in 1 .. Len(p)
      BY <2>1, <3>1
    <3>3. p[j] \in R
      BY <3>1, <3>2
    <3> QED
      BY <3>3 DEF R
  <2> QED
    BY <2>2, <2>3
<1>3. CASE ~\E i \in DOMAIN p : p[i].id = SettingsInitialMaxData
  BY <1>3 DEF Setting
<1> QED
  BY <1>2, <1>3

\* What the stack and the roles have to do with the types.
LEMMA StructuredTypes ==
  ASSUME Structured PROVE TypeOK
<1>1. /\ MemInv /\ server \in Roles /\ script \in Scripts /\ bp \in BOOLEAN
      /\ peer \in [Stream -> PeerRecord] /\ \A s \in Stream : peer[s].pos <= Len(script.of[s])
      /\ ses \in SessionRecord /\ task \in Seq(TaskItem) /\ seen \in SeenRecord /\ Apps
  BY DEF Structured, Typed
<1>2. ASSUME NEW s \in Stream
      PROVE  /\ peer[s].pos \in 0 .. Len(script.of[s]) /\ peer[s].end \in {"open", "fin", "reset"}
             /\ ses.role[s] \in RoleName
             /\ seen.app[s].end \in {"open", "fin", "reset"}
             /\ seen.app[s].data \in Seq(Byte)
             /\ seen.app[s].known => ses.role[s] \in {"data", "none"}
  <2>1. script.of[s] \in Seq(Byte)
    BY <1>1, PeerAssumption
  <2> DEFINE n == Len(script.of[s])
             p == peer[s]
             a == seen.app[s]
  <2>2. n \in Nat /\ p \in PeerRecord /\ p.pos <= n /\ a \in AppRecord /\ ses.role[s] \in RoleName
    BY <1>1, <2>1 DEF SeenRecord, SessionRecord
  <2>3. a.known => ses.role[s] \in {"data", "none"}
    BY <1>1 DEF Apps
  <2> HIDE DEF n, p, a
  <2>4. p.pos \in 0 .. n /\ p.end \in {"open", "fin", "reset"}
    BY <2>2 DEF PeerRecord
  <2>5. a.end \in {"open", "fin", "reset"} /\ a.data \in Seq(Byte)
    BY <2>2 DEF AppRecord
  <2> QED
    BY <2>2, <2>3, <2>4, <2>5 DEF n, p, a
<1>3. /\ ses.dead \subseteq Stream /\ ses.shut \subseteq Stream /\ ses.bad \subseteq Stream
      /\ ses.headersDone \subseteq Stream /\ ses.finSent \subseteq Bidis
      /\ ses.limit \in Nat /\ ses.ready \in BOOLEAN /\ ses.draining \in BOOLEAN
      /\ ses.cause \in Causes
  BY <1>1, LimitIsNat DEF SessionRecord
<1>4. ASSUME NEW i \in DOMAIN task PROVE task[i].op \in Ops /\ task[i].id \in Stream
  <2>1. task[i] \in TaskItem
    BY <1>1
  <2> QED
    BY <2>1 DEF TaskItem, Ops
<1>5. MemTypeOK
  BY <1>1 DEF MemInv
<1> QED
  BY <1>1, <1>2, <1>3, <1>4, <1>5 DEF TypeOK

\* The receive side stays well typed: no account of the parser budget goes negative, no
\* more is read of a stream than the peer sent, and only a stream that resolve_pending
\* found to carry data of this session is ever the application's, whatever else is opened,
\* ended, reset or pruned meanwhile.
THEOREM ParsersTypeCorrect == Spec => []TypeOK
<1>1. Init => Structured
  BY StructuredInit
<1>2. Structured /\ [Next]_vars => Structured'
  BY NextStructured
<1>3. Structured => TypeOK
  BY StructuredTypes
<1> QED
  BY <1>1, <1>2, <1>3, PTL DEF Spec

-----------------------------------------------------------------------------
(* The end of a stream *)

\* The chunk that is being processed is the last one just if the peer has ended the stream.
Ended ==
  Doing("recv") \/ Doing("resolve") =>
    peer[Top.id].end # "reset" /\ (Top.fin <=> peer[Top.id].end = "fin")

\* A turn that replaces the item by one that goes on with it.
LEMMA GoesOn ==
  ASSUME Structured, task # <<>>, NEW x \in TaskItem, Then(<<x>>)
  PROVE  task' # <<>> /\ Top' = x
<1> DEFINE items == <<x>>
<1>1. items \in Seq(TaskItem) /\ items # <<>> /\ items[1] = x /\ Then(items)
  OBVIOUS
<1> HIDE DEF items
<1>2. Typed /\ Releasing
  BY DEF Structured
<1> QED
  BY <1>1, <1>2, TopAfter

\* What the recv item of OnReadable looks like.
LEMMA ReadTop ==
  ASSUME Structured, NEW s \in Stream, NEW n \in {0} \cup ChunkSizes, NEW fin \in BOOLEAN,
         NEW pressed \in BOOLEAN, OnReadable(s, n, fin, pressed)
  PROVE  /\ Doing("recv")' /\ Top.id' = s /\ Top.fin' = fin /\ Len(task') = 1 /\ task'[1] = Top'
         /\ Top.bytes' = SubSeq(script.of[s], peer[s].pos + 1, peer[s].pos + n)
         /\ peer[s].end = "open" /\ peer'[s].pos = peer[s].pos + n
         /\ peer'[s].end = (IF fin THEN "fin" ELSE "open")
         /\ \A t \in Stream \ {s} : peer'[t] = peer[t]
<1> DEFINE bytes == SubSeq(script.of[s], peer[s].pos + 1, peer[s].pos + n)
           item == [op |-> "recv", id |-> s, fin |-> fin, bytes |-> bytes]
<1>1. /\ task' = <<item>> /\ peer[s].end = "open" /\ peer \in [Stream -> PeerRecord]
      /\ peer' = [peer EXCEPT ![s].pos = @ + n, ![s].end = IF fin THEN "fin" ELSE @]
  BY DEF OnReadable, Readable, Structured, Typed
<1>2. item.op = "recv" /\ item.id = s /\ item.fin = fin /\ item.bytes = bytes
  OBVIOUS
<1> HIDE DEF item, bytes
<1>3. task' # <<>> /\ Top' = item /\ Len(task') = 1 /\ task'[1] = item
  BY <1>1 DEF Top
<1> DEFINE p == peer[s].pos + n
           e == IF fin THEN "fin" ELSE peer[s].end
<1>4. peer' = [peer EXCEPT ![s] = [@ EXCEPT !.pos = p, !.end = e]]
  <2>1. peer[s] \in PeerRecord
    BY <1>1
  <2>2. [[peer[s] EXCEPT !.pos = p] EXCEPT !.end = IF fin THEN "fin" ELSE @] = [peer[s] EXCEPT !.pos = p, !.end = e]
    BY <2>1 DEF PeerRecord
  <2> QED
    BY <1>1, <2>2
<1> HIDE DEF p, e
<1>5. peer'[s].pos = p /\ peer'[s].end = e /\ \A t \in Stream \ {s} : peer'[t] = peer[t]
  BY <1>1, <1>4 DEF PeerRecord
<1>6. e = IF fin THEN "fin" ELSE "open"
  BY <1>1 DEF e
<1>7. peer'[s].pos = peer[s].pos + n
  BY <1>5 DEF p
<1> QED
  BY <1>1, <1>2, <1>3, <1>5, <1>6, <1>7 DEF Doing, bytes

\* The fin of the chunk being processed is what the peer said, at every step.
LEMMA NextEnded ==
  ASSUME Structured, Ended, [Next]_vars PROVE Ended'
<1>0. Typed /\ Releasing /\ task \in Seq(TaskItem) /\ MemInv
  BY DEF Structured, Typed
<1>1. CASE Processing
  <2>1. task # <<>> /\ peer' = peer
    BY <1>1, ProcessingTurns
  <2>2. Top.id \in Stream
    BY <1>0, <2>1, TopTyped
  <2>3. CASE RecvPending
    <3>1. Top.op = "recv" /\ Doing("recv")
      BY <2>3 DEF RecvPending, Doing
    <3>2. Top.fin \in BOOLEAN
      BY <1>0, <2>1, <3>1, TopTyped
    <3> DEFINE x == [op |-> "resolve", id |-> Top.id, fin |-> Top.fin]
               y == Item("limit", Top.id)
    <3>3. x \in TaskItem /\ y \in TaskItem /\ x.id = Top.id /\ x.fin = Top.fin /\ y.op = "limit"
      BY <2>2, <3>2, ItemsTyped DEF Item
    <3>4. Then(<<x>>) \/ Then(<<y>>)
      BY <2>3 DEF RecvPending
    <3> HIDE DEF x, y
    <3>5. CASE Then(<<x>>)
      <4>1. Top' = x
        BY <2>1, <3>3, <3>5, GoesOn
      <4>2. Top.id' = Top.id /\ Top.fin' = Top.fin
        BY <3>3, <4>1
      <4> QED
        BY <2>1, <3>1, <4>2 DEF Ended
    <3>6. CASE Then(<<y>>)
      <4>1. Top' = y
        BY <2>1, <3>3, <3>6, GoesOn
      <4>2. ~Doing("recv")' /\ ~Doing("resolve")'
        BY <3>3, <4>1 DEF Doing
      <4> QED
        BY <4>2 DEF Ended
    <3> QED
      BY <3>4, <3>5, <3>6
  <2>4. ASSUME NEW s \in Unis \cup Bidis, ResolveCritical(s) PROVE Ended'
    <3>1. Top.op = "resolve" /\ Doing("resolve") /\ Top.id = s
      BY <2>4 DEF ResolveCritical, Resolving, Doing
    <3>2. Top.fin \in BOOLEAN
      BY <1>0, <2>1, <3>1, TopTyped
    <3> DEFINE rest == Suffix(data[ClassBuf(s)], TypeOf(s).len)
               x == [op |-> "recv", id |-> s, fin |-> Top.fin, bytes |-> rest]
    <3>3. rest \in Seq(Byte)
      BY <1>0, <2>2, <3>1, TypeOfTyped
    <3>4. Then(<<>>) \/ Then(<<x>>)
      BY <2>4 DEF ResolveCritical
    <3> HIDE DEF rest
    <3>5. x \in TaskItem /\ x.id = s /\ x.fin = Top.fin
      BY <2>2, <3>1, <3>2, <3>3, ItemsTyped
    <3> HIDE DEF x
    <3>6. CASE Then(<<x>>)
      <4>1. Top' = x
        BY <2>1, <3>5, <3>6, GoesOn
      <4>2. Top.id' = Top.id /\ Top.fin' = Top.fin
        BY <3>1, <3>5, <4>1
      <4> QED
        BY <2>1, <3>1, <4>2 DEF Ended
    <3>7. CASE Then(<<>>)
      BY <1>0, <2>1, <3>7, NoTop DEF Ended
    <3> QED
      BY <3>4, <3>6, <3>7
  <2>5. CASE ~RecvPending /\ \A s \in Unis \cup Bidis : ~ResolveCritical(s)
    BY <1>0, <1>1, <2>5, TurnTop DEF Ended
  <2> QED
    BY <2>3, <2>4, <2>5
<1>2. ASSUME NEW s \in Stream, NEW n \in {0} \cup ChunkSizes, NEW fin \in BOOLEAN,
             NEW pressed \in BOOLEAN, OnReadable(s, n, fin, pressed)
      PROVE  Ended'
  <2>1. Top.id' = s /\ Top.fin' = fin /\ peer'[s].end = (IF fin THEN "fin" ELSE "open")
    BY <1>2, ReadTop
  <2> QED
    BY <2>1 DEF Ended
<1>3. ASSUME task' = <<>> PROVE Ended'
  BY <1>3 DEF Ended, Doing
<1>4. ASSUME NEW s \in Stream, NEW code, OnReset(s, code) PROVE Ended'
  BY <1>3, <1>4 DEF OnReset, Readable, Idle
<1>5. CASE Prune \/ ConnectionLost \/ OtherSession \/ \E s \in Bidis : FinishSend(s)
  BY <1>3, <1>5 DEF Prune, ConnectionLost, OtherSession, FinishSend, Idle
<1>6. CASE UNCHANGED vars
  BY <1>6 DEF vars, Ended, Doing, Top
<1> QED
  BY <1>1, <1>2, <1>4, <1>5, <1>6 DEF Next

-----------------------------------------------------------------------------
(* What waits below the top *)

\* A turn whose new items neither come last nor need what comes last, unless the top one did.
LEMMA TurnTrailed ==
  ASSUME Structured, Trailed, task # <<>>, NEW items \in Seq(TaskItem), Then(items),
         \A i \in 1 .. Len(items) :
           /\ items[i].op # "after"
           /\ items[i].op \in {"parse", "taken", "frame"} /\ items[i].id # Connect
                => items[i].id = Top.id /\ Top.op \in {"parse", "taken", "frame"}
  PROVE  Trailed'
<1> DEFINE n == Len(items)
           m == Len(task)
<1>1. /\ task' \in Seq(TaskItem) /\ Len(task') = n + m - 1 /\ m \in Nat /\ m > 0 /\ n \in Nat
      /\ Top = task[1]
      /\ \A i \in 1 .. n : task'[i] = items[i]
      /\ \A i \in n + 1 .. Len(task') : task'[i] = task[i - n + 1] /\ i - n + 1 \in 2 .. m
  BY ThenStack DEF Structured, Typed
<1>2. \A i \in 2 .. m : \E j \in 1 .. Len(task') : task'[j] = task[i]
  BY WaitsAfter DEF Structured
<1>3. /\ \A i \in 1 .. m : task[i].op = "after" => i = m
      /\ \A i \in 1 .. m :
           task[i].op \in {"parse", "taken", "frame"} /\ task[i].id # Connect
             => \E k \in 1 .. m : task[k].op = "after" /\ task[k].id = task[i].id
  BY DEF Trailed, Awaits
<1>4. ASSUME NEW i \in 1 .. Len(task')
      PROVE  /\ task'[i].op = "after" => i = Len(task')
             /\ task'[i].op \in {"parse", "taken", "frame"} /\ task'[i].id # Connect
                  => \E k \in 1 .. Len(task') : task'[k].op = "after" /\ task'[k].id = task'[i].id
  <2>1. CASE i \in 1 .. n
    <3>1. task'[i] = items[i]
      BY <1>1, <2>1
    <3> DEFINE x == items[i]
    <3>2. x.op # "after"
      BY <2>1
    <3>3. ASSUME x.op \in {"parse", "taken", "frame"}, x.id # Connect
          PROVE  \E k \in 1 .. Len(task') : task'[k].op = "after" /\ task'[k].id = x.id
      <4>1. x.id = Top.id /\ Top.op \in {"parse", "taken", "frame"}
        BY <2>1, <3>3
      <4>2. PICK k \in 1 .. m : task[k].op = "after" /\ task[k].id = x.id
        BY <1>1, <1>3, <3>3, <4>1
      <4>3. k \in 2 .. m
        BY <1>1, <4>1, <4>2
      <4> QED
        BY <1>2, <4>2, <4>3
    <3> QED
      BY <3>1, <3>2, <3>3
  <2>2. CASE i \in n + 1 .. Len(task')
    <3> DEFINE j == i - n + 1
               x == task[j]
    <3>1. task'[i] = x /\ j \in 2 .. m
      BY <1>1, <2>2
    <3>2. j = m => i = Len(task')
      BY <1>1
    <3> HIDE DEF j
    <3>3. x.op = "after" => i = Len(task')
      BY <1>3, <3>1, <3>2
    <3>4. ASSUME x.op \in {"parse", "taken", "frame"}, x.id # Connect
          PROVE  \E k \in 1 .. Len(task') : task'[k].op = "after" /\ task'[k].id = x.id
      <4>1. PICK k \in 1 .. m : task[k].op = "after" /\ task[k].id = x.id
        BY <1>3, <3>1, <3>4
      <4>2. k = m /\ m >= 2
        BY <1>3, <3>1, <4>1
      <4>3. k \in 2 .. m
        BY <4>2
      <4> QED
        BY <1>2, <4>1, <4>3
    <3> QED
      BY <3>1, <3>3, <3>4
  <2> QED
    BY <1>1, <2>1, <2>2
<1> QED
  BY <1>4 DEF Trailed, Awaits

\* No new item, one, and two.
LEMMA NoneTrailed ==
  ASSUME Structured, Trailed, task # <<>>, Then(<<>>)
  PROVE  Trailed'
<1> DEFINE items == <<>>
<1>1. items \in Seq(TaskItem) /\ Then(items) /\ \A i \in 1 .. Len(items) : FALSE
  OBVIOUS
<1> HIDE DEF items
<1> QED
  BY <1>1, TurnTrailed

\* A turn that leaves one item, no check at the end.
LEMMA OneTrailed ==
  ASSUME Structured, Trailed, task # <<>>, NEW x \in TaskItem, Then(<<x>>), x.op # "after",
         x.op \in {"parse", "taken", "frame"} /\ x.id # Connect
           => x.id = Top.id /\ Top.op \in {"parse", "taken", "frame"}
  PROVE  Trailed'
<1> DEFINE items == <<x>>
<1>1. items \in Seq(TaskItem) /\ Then(items) /\ \A i \in 1 .. Len(items) : items[i] = x
  OBVIOUS
<1> HIDE DEF items
<1> QED
  BY <1>1, TurnTrailed

\* A turn that leaves two.
LEMMA TwoTrailed ==
  ASSUME Structured, Trailed, task # <<>>, NEW x \in TaskItem, NEW y \in TaskItem, Then(<<x, y>>),
         x.op # "after", y.op # "after",
         x.op \in {"parse", "taken", "frame"} /\ x.id # Connect
           => x.id = Top.id /\ Top.op \in {"parse", "taken", "frame"},
         y.op \in {"parse", "taken", "frame"} /\ y.id # Connect
           => y.id = Top.id /\ Top.op \in {"parse", "taken", "frame"}
  PROVE  Trailed'
<1> DEFINE items == <<x, y>>
<1>1. items \in Seq(TaskItem) /\ Then(items)
  OBVIOUS
<1>2. ASSUME NEW i \in 1 .. Len(items) PROVE items[i] = x \/ items[i] = y
  <2>1. i = 1 \/ i = 2
    OBVIOUS
  <2> QED
    BY <2>1
<1> HIDE DEF items
<1> QED
  BY <1>1, <1>2, TurnTrailed

\* The turn that puts the checks at the end on the stack.
LEMMA RecvFramesTrailed ==
  ASSUME Structured, RecvFrames PROVE Trailed'
<1> DEFINE s == Top.id
           x == Item("parse", s)
           y == [op |-> "after", id |-> s, fin |-> Top.fin]
           items == <<x, y>>
<1>1. task # <<>> /\ Top.op = "recv" /\ Then(items)
  BY DEF RecvFrames, Doing
<1>2. s \in Stream /\ Len(task) = 1 /\ Top \in TaskItem
  BY <1>1, TopRole
<1>3. Top.fin \in BOOLEAN
  BY <1>1, TopTyped DEF Structured, Typed
<1>4. x \in TaskItem /\ y \in TaskItem /\ x.op = "parse" /\ x.id = s /\ y.op = "after" /\ y.id = s
  BY <1>2, <1>3, ItemsTyped DEF Item
<1> HIDE DEF x, y
<1>5. items \in Seq(TaskItem) /\ Len(items) = 2 /\ items[1] = x /\ items[2] = y
  BY <1>4
<1> HIDE DEF items
<1>6. Len(task') = 2 /\ task'[1] = x /\ task'[2] = y
  <2>1. Len(task') = Len(items) + Len(task) - 1 /\ \A i \in 1 .. Len(items) : task'[i] = items[i]
    BY <1>1, <1>5, ThenStack DEF Structured, Typed
  <2> QED
    BY <1>2, <1>5, <2>1
<1>7. \A i \in 1 .. Len(task') : i = 1 \/ i = 2
  BY <1>6
<1> HIDE DEF s
<1> QED
  BY <1>4, <1>6, <1>7 DEF Trailed, Awaits

\* Every turn keeps the checks at the end last.
LEMMA ProcessingTrailed ==
  ASSUME Structured, Trailed, Processing PROVE Trailed'
<1>1. /\ task # <<>> /\ task \in Seq(TaskItem)
  BY ProcessingTurns DEF Structured, Typed
<1> DEFINE s == Top.id
<1>2. s \in Stream /\ Top \in TaskItem /\ Connect \in Stream
  BY <1>1, TopTyped DEF Stream
<1>3. /\ \A op \in {"parse", "taken", "drop", "scan", "cut", "limit"}, t \in Stream :
           Item(op, t) \in TaskItem /\ Item(op, t).op = op /\ Item(op, t).id = t
  BY ItemsTyped DEF Item
<1>4. CASE Then(<<>>)
  BY <1>1, <1>4, NoneTrailed
<1>5. CASE RecvFrames
  BY <1>5, RecvFramesTrailed
<1>6. ASSUME NEW op \in {"drop", "scan", "limit", "cut"}, Then(<<Item(op, s)>>) PROVE Trailed'
  <2> DEFINE x == Item(op, s)
  <2>1. x \in TaskItem /\ x.op = op /\ Then(<<x>>)
    BY <1>2, <1>3, <1>6
  <2> HIDE DEF x
  <2> QED
    BY <1>1, <2>1, OneTrailed
<1>7. ASSUME NEW x \in TaskItem, x.op \in {"resolve", "recv", "capsule"}, Then(<<x>>) PROVE Trailed'
  BY <1>1, <1>7, OneTrailed
<1>8. ASSUME NEW op \in {"taken", "cut"}, Top.op \in {"parse", "scan"}, op = "taken" => Top.op = "parse",
             task' = <<Item(op, s)>> \o task
      PROVE  Trailed'
  <2> DEFINE x == Item(op, s)
  <2>1. x \in TaskItem /\ x.op = op /\ x.id = s /\ task' = <<x>> \o task
    BY <1>2, <1>3, <1>8
  <2> HIDE DEF x
  <2>2. Then(<<x, Top>>)
    BY <1>1, <2>1, PushIsThen
  <2>3. Top.op = "parse" \/ (Top.op = "scan" /\ op = "cut")
    BY <1>8
  <2> QED
    BY <1>1, <1>2, <2>1, <2>2, <2>3, TwoTrailed
<1>9. CASE RecvPending
  <2>1. Top.fin \in BOOLEAN
    BY <1>1, <1>9, TopTyped DEF RecvPending, Doing
  <2> DEFINE x == [op |-> "resolve", id |-> s, fin |-> Top.fin]
  <2>2. x \in TaskItem /\ x.op = "resolve"
    BY <1>2, <2>1, ItemsTyped
  <2>3. Then(<<x>>) \/ Then(<<Item("limit", s)>>)
    BY <1>9 DEF RecvPending
  <2> HIDE DEF x
  <2> QED
    BY <1>6, <1>7, <2>2, <2>3
<1>10. ASSUME NEW t \in Unis \cup Bidis, ResolveCritical(t) PROVE Trailed'
  <2>1. Top.op = "resolve" /\ t \in Stream
    BY <1>10 DEF ResolveCritical, Resolving, Doing, Stream
  <2> DEFINE rest == Suffix(data[ClassBuf(t)], TypeOf(t).len)
             x == [op |-> "recv", id |-> t, fin |-> Top.fin, bytes |-> rest]
  <2>2. Top.fin \in BOOLEAN /\ rest \in Seq(Byte)
    BY <1>1, <2>1, TopTyped, TypeOfTyped DEF Structured, Typed
  <2>3. Then(<<>>) \/ Then(<<x>>)
    BY <1>10 DEF ResolveCritical
  <2> HIDE DEF rest
  <2>4. x \in TaskItem /\ x.op = "recv"
    BY <2>1, <2>2, ItemsTyped
  <2> HIDE DEF x
  <2> QED
    BY <1>4, <1>7, <2>3, <2>4
<1>11. CASE Parse
  <2>1. Top.op = "parse"
    BY <1>11 DEF Parse, Doing
  <2>2. Then(<<>>) \/ task' = <<Item("taken", s)>> \o task
    BY <1>11 DEF Parse
  <2> QED
    BY <1>4, <1>8, <2>1, <2>2
<1>12. CASE ConsumeFrame
  <2> DEFINE x == [op |-> "frame", id |-> s, ty |-> NextUnit(FramesBuf(s)).ty]
  <2>1. Top.op = "taken" /\ Then(<<x>>)
    BY <1>12 DEF ConsumeFrame, Doing
  <2>2. x \in TaskItem /\ x.op = "frame" /\ x.id = s
    BY <1>2, UnitTyped, ItemsTyped, Buffers DEF Structured, Typed
  <2> HIDE DEF x
  <2> QED
    BY <1>1, <2>1, <2>2, OneTrailed
<1>13. ASSUME NEW t \in Unis, ControlSettings(t) PROVE Trailed'
  <2> DEFINE d == Item("drop", t)
             p == Item("parse", Connect)
  <2>1. t \in Stream
    BY DEF Stream
  <2>2. d \in TaskItem /\ d.op = "drop" /\ p \in TaskItem /\ p.op = "parse" /\ p.id = Connect
    BY <1>2, <1>3, <2>1
  <2>3. Then(<<>>) \/ Then(<<p>> \o <<d>>) \/ Then(<<>> \o <<d>>)
    BY <1>13 DEF ControlSettings, Dropped
  <2> HIDE DEF d, p
  <2>4. <<p>> \o <<d>> = <<p, d>>
    BY <2>2, PairJoins
  <2>5. <<>> \o <<d>> = <<d>>
    <3>1. <<d>> \in Seq(TaskItem)
      BY <2>2
    <3> DEFINE one == <<d>>
    <3> HIDE DEF one
    <3>2. <<>> \o one = one
      BY <3>1, ConcatEmptySeq DEF one
    <3> QED
      BY <3>2 DEF one
  <2>6. CASE Then(<<p, d>>)
    BY <1>1, <2>2, <2>6, TwoTrailed
  <2>7. CASE Then(<<d>>)
    BY <1>1, <2>2, <2>7, OneTrailed
  <2> QED
    BY <1>4, <2>3, <2>4, <2>5, <2>6, <2>7
<1>14. CASE ConnectData
  <2> DEFINE d == Item("drop", Connect)
  <2>1. Top.id = Connect
    BY <1>14 DEF ConnectData, Handling
  <2>2. d \in TaskItem /\ d.op = "drop"
    BY <1>2, <1>3
  <2>3. ASSUME NEW op \in {"scan", "limit"}, Then(<<Item(op, Connect), d>>) PROVE Trailed'
    <3> DEFINE x == Item(op, Connect)
    <3>1. x \in TaskItem /\ x.op = op /\ Then(<<x, d>>)
      BY <1>2, <1>3, <2>3
    <3> HIDE DEF x
    <3> QED
      BY <1>1, <2>2, <3>1, TwoTrailed
  <2>4. Then(<<Item("scan", Connect), d>>) \/ Then(<<Item("limit", Connect), d>>)
    BY <1>14 DEF ConnectData
  <2> QED
    BY <2>3, <2>4
<1>15. CASE Scan
  <2>1. Top.op = "scan"
    BY <1>15 DEF Scan, Doing
  <2>2. Then(<<>>) \/ Then(<<Item("limit", s)>>) \/ task' = <<Item("cut", s)>> \o task
    BY <1>15 DEF Scan
  <2> QED
    BY <1>4, <1>6, <1>8, <2>1, <2>2
<1>16. CASE CutCapsule
  <2> DEFINE x == [op |-> "capsule", id |-> s, ty |-> NextUnit(CapsuleBuf).ty]
  <2>1. x \in TaskItem /\ x.op = "capsule"
    BY <1>2, UnitTyped, ItemsTyped, Buffers DEF Structured, Typed
  <2>2. Then(<<x>>)
    BY <1>16 DEF CutCapsule
  <2> HIDE DEF x
  <2> QED
    BY <1>7, <2>1, <2>2
<1>17. CASE \/ RecvDiscarded \/ RecvData \/ ConnectHeaders \/ ConnectOther \/ Drop \/ LimitExceeded
            \/ HandleCapsule \/ After
  BY <1>4, <1>17 DEF RecvDiscarded, RecvData, ConnectHeaders, ConnectOther, Drop, LimitExceeded,
                     HandleCapsule, After, Dropped
<1>18. ASSUME NEW t \in Unis \cup Bidis, ResolveLater(t) \/ ResolveData(t) \/ ResolveIgnored(t)
       PROVE  Trailed'
  BY <1>4, <1>18 DEF ResolveLater, ResolveData, ResolveIgnored
<1>19. ASSUME NEW t \in Unis, ControlFrame(t)
       PROVE  Trailed'
  BY <1>4, <1>19 DEF ControlFrame, Dropped
<1> QED
  BY <1>5, <1>9, <1>10, <1>11, <1>12, <1>13, <1>14, <1>15, <1>16, <1>17, <1>18, <1>19 DEF Processing

\* So does every step.
LEMMA NextTrailed ==
  ASSUME Structured, Trailed, [Next]_vars PROVE Trailed'
<1>1. ASSUME task' = <<>> PROVE Trailed'
  <2>1. \A i \in 1 .. Len(task') : FALSE
    BY <1>1
  <2> QED
    BY <2>1 DEF Trailed
<1>2. ASSUME NEW s \in Stream, NEW n \in {0} \cup ChunkSizes, NEW fin \in BOOLEAN,
             NEW pressed \in BOOLEAN, OnReadable(s, n, fin, pressed)
      PROVE  Trailed'
  <2>1. Doing("recv")' /\ Len(task') = 1 /\ task'[1] = Top'
    BY <1>2, ReadTop
  <2>2. task'[1].op = "recv" /\ \A i \in 1 .. Len(task') : i = 1
    BY <2>1 DEF Doing
  <2> QED
    BY <2>2 DEF Trailed
<1>3. ASSUME NEW s \in Stream, NEW code, OnReset(s, code) PROVE Trailed'
  BY <1>1, <1>3 DEF OnReset, Readable, Idle
<1>4. CASE Prune \/ ConnectionLost \/ OtherSession \/ \E s \in Bidis : FinishSend(s)
  BY <1>1, <1>4 DEF Prune, ConnectionLost, OtherSession, FinishSend, Idle
<1>5. CASE UNCHANGED vars
  BY <1>5 DEF vars, Trailed, Awaits
<1> QED
  BY <1>2, <1>3, <1>4, <1>5, ProcessingTrailed DEF Next

-----------------------------------------------------------------------------
(* What a turn leaves alone *)

\* Whole, of a buffer, is Heads of its bytes.
LEMMA WholeIsFront ==
  ASSUME MemInv, NEW b \in Buffer
  PROVE  /\ Whole(b) <=> Heads(data[b])
         /\ NextUnit(b) = ReadUnit(data[b])
         /\ data[b] = <<>> => ~Whole(b)
<1>1. NextUnit(b) = ReadUnit(data[b])
  BY DEF NextUnit
<1>2. Whole(b) <=> Heads(data[b])
  <2> DEFINE u == NextUnit(b)
             n == Total(u)
             k == Len(data[b])
  <2>1. n \in Nat
    BY UnitTyped
  <2>2. k \in Nat
    BY DEF MemInv, MemTypeOK
  <2>3. Whole(b) <=> u.known /\ u.len <= MaxFrame /\ k >= n
    BY DEF Whole
  <2>4. Heads(data[b]) <=> u.known /\ u.len <= MaxFrame /\ n <= k
    BY DEF Heads, NextUnit
  <2> HIDE DEF u, n, k
  <2> QED
    BY <2>1, <2>2, <2>3, <2>4
<1>3. ASSUME data[b] = <<>>, Heads(data[b]) PROVE FALSE
  <2> DEFINE none == data[b]
  <2>1. none \in Seq(Byte) /\ Len(none) = 0 /\ Heads(none)
    BY <1>3
  <2> HIDE DEF none
  <2>2. FrontLen(none) \in 1 .. Len(none)
    BY <2>1, FrontType
  <2> QED
    BY <2>1, <2>2
<1> QED
  BY <1>1, <1>2, <1>3

\* What has to be shown, after a step, of a stream that frames are expected on,
LEMMA KeptFramed ==
  ASSUME Roles1', Apps', NEW s \in Stream, (ses.role[s] \in {"control", "connect"})',
         Follows(s)', Headed(s)', Parsed(s)', Doomed(s)'
  PROVE  Kept(s)'
<1>1. (~seen.app[s].known)'
  BY DEF Apps
<1> QED
  BY <1>1 DEF Kept, Followed, Fresh, Pending, Unopened, Delivered

\* of a data stream, of one that is not classified, of one whose bytes are discarded,
LEMMA KeptData ==
  ASSUME Roles1', NEW s \in Stream, (ses.role[s] = "data")', Given(s)'
  PROVE  Kept(s)'
  BY DEF Roles1, Kept, Followed, Headed, Fresh, Pending, Unopened, Parsed, Doomed, Delivered, Framed

\* A stream that is not classified.
LEMMA KeptPending ==
  ASSUME Roles1', NEW s \in Stream, (ses.role[s] \in {"pending_uni", "pending_bidi"})',
         Blank(s)', (Received(s) = data[ClassBuf(s)] \o In(s))'
  PROVE  Kept(s)'
  BY DEF Roles1, Kept, Followed, Headed, Fresh, Pending, Unopened, Parsed, Doomed, Delivered, Framed,
         Blank

\* A stream whose bytes are discarded has nothing to keep.
LEMMA KeptDiscarded ==
  ASSUME Roles1', Apps', NEW s \in Stream,
         (ses.role[s] \in {"qpack_encoder", "qpack_decoder", "ignored"})'
  PROVE  Kept(s)'
<1>1. (~seen.app[s].known)'
  BY DEF Apps
<1> QED
  BY <1>1 DEF Roles1, Kept, Followed, Headed, Fresh, Pending, Unopened, Parsed, Doomed, Delivered,
              Framed

\* and of one that was dropped.
LEMMA KeptGone ==
  ASSUME NEW s \in Stream \ {Connect}, (ses.role[s] = "none")',
         (s \in ses.dead \/ peer[s].end # "open")', Delivered(s)'
  PROVE  Kept(s)'
  BY DEF Kept, Followed, Headed, Fresh, Pending, Unopened, Parsed, Doomed, Framed

\* What waits after a turn: the new items, and all but the top item of the old ones.
LEMMA TurnWaits ==
  ASSUME Structured, task # <<>>, NEW items \in Seq(TaskItem), Then(items)
  PROVE  /\ \A i \in 1 .. Len(items) : Awaits(items[i].op, items[i].id)'
         /\ \A op, t : Awaits(op, t) /\ (op # Top.op \/ t # Top.id) => Awaits(op, t)'
<1>1. /\ \A i \in 1 .. Len(items) : \E j \in 1 .. Len(task') : task'[j] = items[i]
      /\ \A i \in 2 .. Len(task) : \E j \in 1 .. Len(task') : task'[j] = task[i]
      /\ Top = task[1] /\ Len(task) \in Nat
  BY WaitsAfter DEF Structured
<1>2. ASSUME NEW i \in 1 .. Len(items) PROVE Awaits(items[i].op, items[i].id)'
  <2> DEFINE x == items[i]
             op == x.op
             t == x.id
  <2>1. PICK j \in 1 .. Len(task') : task'[j] = x
    BY <1>1
  <2>2. \E k \in 1 .. Len(task') : task'[k].op = op /\ task'[k].id = t
    BY <2>1
  <2> QED
    BY <2>2 DEF Awaits
<1>3. ASSUME NEW op, NEW t, Awaits(op, t), op # Top.op \/ t # Top.id PROVE Awaits(op, t)'
  <2>1. PICK i \in 1 .. Len(task) : task[i].op = op /\ task[i].id = t
    BY <1>3 DEF Awaits
  <2>2. i \in 2 .. Len(task)
    BY <1>1, <1>3, <2>1
  <2>3. PICK j \in 1 .. Len(task') : task'[j] = task[i]
    BY <1>1, <2>2
  <2> QED
    BY <2>1, <2>3 DEF Awaits
<1> QED
  BY <1>2, <1>3

\* A step that leaves alone what is kept of stream t; CONNECT may become wanted meanwhile, and
\* if it no longer waits for SETTINGS, it has nothing to parse or will be parsed.
Same(t) ==
  /\ peer'[t] = peer[t] /\ script' = script
  /\ ses'.role[t] = ses.role[t] \/ (t = Connect /\ ses'.role[t] = "connect")
  /\ t \in ses'.bad <=> t \in ses.bad
  /\ t \in ses.dead => t \in ses'.dead
  /\ data'[FramesBuf(t)] = data[FramesBuf(t)] /\ data'[ClassBuf(t)] = data[ClassBuf(t)]
  /\ seen'.frames[t] = seen.frames[t] /\ seen'.app[t] = seen.app[t]
  /\ Waits(t) /\ ~Waits(t)' => data[FramesBuf(t)] = <<>> \/ Awaits("parse", t)'

\* A step that leaves alone what is in hand of stream t and what waits for it.
Still(t) ==
  /\ In(t)' = In(t) /\ InHand(t)' = InHand(t) /\ (Reading(t)' <=> Reading(t))
  /\ Awaits("parse", t) => Awaits("parse", t)'
  /\ Awaits("after", t) => Awaits("after", t)'

\* A step that does not touch a stream keeps what holds of it.
LEMMA KeptSame ==
  ASSUME MemInv, MemInv', NEW t \in Stream, Kept(t), Same(t), Still(t)
  PROVE  Kept(t)'
<1> USE DEF Same, Still
<1>1. Received(t)' = Received(t) /\ Sent(t)' = Sent(t)
  BY DEF Received, Sent
<1>2. Framed(t)' <=> Framed(t)
  BY DEF Framed
<1>3. Followed(t)'
  <2>1. Follows(t)' <=> Follows(t)
    BY <1>1 DEF Follows
  <2> QED
    BY <1>2, <2>1 DEF Kept, Followed
<1>4. Headed(t)' /\ Unopened(t)'
  BY <1>1 DEF Kept, Headed, Unopened
<1>5. Blank(t)' <=> Blank(t)
  BY DEF Blank
<1>6. Fresh(t)'
  BY <1>5 DEF Kept, Fresh
<1>7. Pending(t)'
  BY <1>1, <1>5 DEF Kept, Pending
<1>8. Parsed(t)'
  <2>1. Whole(FramesBuf(t))' <=> Whole(FramesBuf(t))
    BY DEF Whole, NextUnit
  <2>2. data[FramesBuf(t)] = <<>> => ~Whole(FramesBuf(t))
    BY WholeIsFront, Buffers
  <2> QED
    BY <1>2, <2>1, <2>2 DEF Kept, Parsed
<1>9. Doomed(t)'
  BY DEF Kept, Doomed
<1>10. Delivered(t)'
  <2>1. Given(t)' <=> Given(t)
    BY <1>1 DEF Given
  <2> QED
    BY <2>1 DEF Kept, Delivered
<1> QED
  BY <1>3, <1>4, <1>6, <1>7, <1>8, <1>9, <1>10 DEF Kept

\* What is on top after a turn.
LEMMA TurnDoing ==
  ASSUME Structured, task # <<>>, NEW items \in Seq(TaskItem), Then(items)
  PROVE  /\ \A op : op \notin Rest /\ Doing(op)' => items # <<>> /\ items[1].op = op /\ Top' = items[1]
         /\ items # <<>> => task' # <<>> /\ Top' = items[1]
<1>1. /\ items # <<>> => task' # <<>> /\ Top' = items[1]
      /\ items = <<>> /\ task' # <<>> => (Top.op)' \in Rest
  BY TopAfter DEF Structured
<1>2. ASSUME NEW op, op \notin Rest, Doing(op)' PROVE items # <<>> /\ items[1].op = op /\ Top' = items[1]
  <2>1. task' # <<>> /\ (Top.op)' = op
    BY <1>2 DEF Doing
  <2> QED
    BY <1>1, <1>2, <2>1
<1> QED
  BY <1>1, <1>2

\* A turn for another stream leaves this one in place.
LEMMA StillTurn ==
  ASSUME Structured, task # <<>>, NEW items \in Seq(TaskItem), Then(items), NEW t \in Stream,
         t # Top.id \/ Top.op \notin {"recv", "frame", "parse", "after"},
         items # <<>> /\ items[1].op \in {"recv", "frame"} => items[1].id # t
  PROVE  Still(t)
<1>1. ~(Doing("recv") /\ Top.id = t) /\ ~(Doing("frame") /\ Top.id = t)
  BY DEF Doing
<1>2. ~(Doing("recv") /\ Top.id = t)' /\ ~(Doing("frame") /\ Top.id = t)'
  BY TurnDoing DEF Rest
<1>3. /\ Awaits("parse", t) => Awaits("parse", t)'
      /\ Awaits("after", t) => Awaits("after", t)'
  BY TurnWaits
<1> QED
  BY <1>1, <1>2, <1>3 DEF Still, In, InHand, Reading

\* A turn for the scan of the capsules waits.
Scans == \E i \in 1 .. Len(task) : task[i].op = "scan"

\* A scan that waits below the top goes on waiting.
LEMMA TurnScans ==
  ASSUME Structured, task # <<>>, NEW items \in Seq(TaskItem), Then(items)
  PROVE  /\ Scans /\ Top.op # "scan" => Scans'
         /\ \A i \in 1 .. Len(items) : items[i].op = "scan" => Scans'
<1>1. ASSUME Scans, Top.op # "scan" PROVE Scans'
  <2>1. PICK t : Awaits("scan", t)
    BY <1>1 DEF Scans, Awaits
  <2>2. Awaits("scan", t)'
    BY <1>1, <2>1, TurnWaits
  <2> QED
    BY <2>2 DEF Awaits, Scans
<1>2. ASSUME NEW i \in 1 .. Len(items), items[i].op = "scan" PROVE Scans'
  <2>1. Awaits("scan", items[i].id)'
    BY <1>2, TurnWaits
  <2> QED
    BY <2>1 DEF Awaits, Scans
<1> QED
  BY <1>1, <1>2

\* A step that does not touch the capsules keeps what holds of them.
LEMMA CapsulesSame ==
  ASSUME Capsules, DataOf(seen'.frames[Connect]) = DataOf(seen.frames[Connect]),
         seen'.capsules = seen.capsules, data'[CapsuleBuf] = data[CapsuleBuf],
         CapsuleInHand' = CapsuleInHand, Scans => Scans'
  PROVE  Capsules'
<1>1. Whole(CapsuleBuf)' <=> Whole(CapsuleBuf)
  BY DEF Whole, NextUnit
<1> QED
  BY <1>1 DEF Capsules, Scans

\* Nothing is on top that was cut out of a buffer.
LEMMA NoCopy ==
  ASSUME ~Doing("taken"), ~Doing("frame"), ~Doing("cut") PROVE Copied
  BY DEF Copied

\* The parsers have kept what the peer sent.
Conforming == (\A s \in Stream : Kept(s)) /\ Capsules /\ Copied

\* What every turn can start from.
Ready == Structured /\ Structured' /\ Settled /\ Ended /\ Trailed /\ Conforming /\ Live /\ Live'

\* What follows at once from Ready.
LEMMA ReadyFacts ==
  ASSUME Ready
  PROVE  /\ MemInv /\ MemInv' /\ ses \in SessionRecord /\ seen \in SeenRecord /\ Roles1' /\ Apps'
         /\ Roles1 /\ Apps /\ Capsules /\ Copied /\ data \in [Buffer -> Seq(Byte)]
         /\ data' \in [Buffer -> Seq(Byte)] /\ seen' \in SeenRecord /\ ses' \in SessionRecord
         /\ \A s \in Stream : Kept(s)
         /\ seen.frames \in [Stream -> Seq(UnitRecord)] /\ seen.capsules \in Seq(UnitRecord)
         /\ \A t \in Stream : t \in ses.dead => t \in ses'.dead
         /\ ~Closed /\ ~Closed' /\ ~Doing("limit") /\ ~Doing("limit")'
         /\ task \in Seq(TaskItem)
  BY DEF Ready, Structured, Typed, Conforming, MemInv, MemTypeOK, SeenRecord, Settled, Live

\* No new item, one, and two.
LEMMA NoneStays ==
  ASSUME Structured, task # <<>>, Then(<<>>)
  PROVE  /\ \A t \in Stream :
              t # Top.id \/ Top.op \notin {"recv", "frame", "parse", "after"} => Still(t)
         /\ \A op : op \notin Rest => ~Doing(op)'
         /\ Scans /\ Top.op # "scan" => Scans'
         /\ \A op, t : Awaits(op, t) /\ (op # Top.op \/ t # Top.id) => Awaits(op, t)'
<1> DEFINE items == <<>>
<1>1. items \in Seq(TaskItem) /\ Then(items) /\ items = <<>>
  OBVIOUS
<1> HIDE DEF items
<1>2. /\ \A op : op \notin Rest /\ Doing(op)' => items # <<>> /\ items[1].op = op /\ Top' = items[1]
      /\ \A op, t : Awaits(op, t) /\ (op # Top.op \/ t # Top.id) => Awaits(op, t)'
      /\ Scans /\ Top.op # "scan" => Scans'
  BY <1>1, TurnDoing, TurnWaits, TurnScans
<1>3. ASSUME NEW t \in Stream, t # Top.id \/ Top.op \notin {"recv", "frame", "parse", "after"}
      PROVE  Still(t)
  BY <1>1, <1>3, StillTurn
<1> QED
  BY <1>1, <1>2, <1>3

\* What stays when one item replaces the top item.
LEMMA OneStays ==
  ASSUME Structured, task # <<>>, NEW x \in TaskItem, Then(<<x>>)
  PROVE  /\ \A t \in Stream :
              /\ t # Top.id \/ Top.op \notin {"recv", "frame", "parse", "after"}
              /\ x.op \in {"recv", "frame"} => x.id # t
              => Still(t)
         /\ task' # <<>> /\ Top' = x
         /\ \A op : Doing(op)' <=> x.op = op
         /\ Scans /\ Top.op # "scan" => Scans'
         /\ \A op, t : Awaits(op, t) /\ (op # Top.op \/ t # Top.id) => Awaits(op, t)'
<1> DEFINE items == <<x>>
<1>1. items \in Seq(TaskItem) /\ Then(items) /\ items # <<>> /\ items[1] = x
  OBVIOUS
<1> HIDE DEF items
<1>2. /\ task' # <<>> /\ Top' = x
      /\ \A op, t : Awaits(op, t) /\ (op # Top.op \/ t # Top.id) => Awaits(op, t)'
      /\ Scans /\ Top.op # "scan" => Scans'
  BY <1>1, TurnDoing, TurnWaits, TurnScans
<1>3. ASSUME NEW t \in Stream, t # Top.id \/ Top.op \notin {"recv", "frame", "parse", "after"},
             x.op \in {"recv", "frame"} => x.id # t
      PROVE  Still(t)
  BY <1>1, <1>3, StillTurn
<1>4. \A op : Doing(op)' <=> x.op = op
  BY <1>2 DEF Doing
<1> QED
  BY <1>2, <1>3, <1>4

\* What stays when two do.
LEMMA TwoStays ==
  ASSUME Structured, task # <<>>, NEW x \in TaskItem, NEW y \in TaskItem, Then(<<x, y>>)
  PROVE  /\ \A t \in Stream :
              /\ t # Top.id \/ Top.op \notin {"recv", "frame", "parse", "after"}
              /\ x.op \in {"recv", "frame"} => x.id # t
              => Still(t)
         /\ task' # <<>> /\ Top' = x
         /\ \A op : Doing(op)' <=> x.op = op
         /\ Scans /\ Top.op # "scan" => Scans'
         /\ x.op = "scan" \/ y.op = "scan" => Scans'
         /\ \A op, t : Awaits(op, t) /\ (op # Top.op \/ t # Top.id) => Awaits(op, t)'
         /\ Awaits(x.op, x.id)' /\ Awaits(y.op, y.id)'
<1> DEFINE items == <<x, y>>
<1>1. items \in Seq(TaskItem) /\ Then(items) /\ items # <<>> /\ items[1] = x /\ items[2] = y
      /\ 1 \in 1 .. Len(items) /\ 2 \in 1 .. Len(items)
  OBVIOUS
<1> HIDE DEF items
<1>2. /\ task' # <<>> /\ Top' = x
      /\ \A op, t : Awaits(op, t) /\ (op # Top.op \/ t # Top.id) => Awaits(op, t)'
      /\ Scans /\ Top.op # "scan" => Scans'
      /\ \A i \in 1 .. Len(items) : Awaits(items[i].op, items[i].id)'
      /\ \A i \in 1 .. Len(items) : items[i].op = "scan" => Scans'
  BY <1>1, TurnDoing, TurnWaits, TurnScans
<1>3. ASSUME NEW t \in Stream, t # Top.id \/ Top.op \notin {"recv", "frame", "parse", "after"},
             x.op \in {"recv", "frame"} => x.id # t
      PROVE  Still(t)
  BY <1>1, <1>3, StillTurn
<1>4. \A op : Doing(op)' <=> x.op = op
  BY <1>2 DEF Doing
<1>5. Awaits(x.op, x.id)' /\ Awaits(y.op, y.id)' /\ (x.op = "scan" \/ y.op = "scan" => Scans')
  BY <1>1, <1>2
<1> QED
  BY <1>2, <1>3, <1>4, <1>5

\* Turns that change neither the roles nor the SETTINGS.
LEMMA SameQuiet ==
  ASSUME Quiet, NEW t \in Stream, ses'.role[t] = ses.role[t], t \in ses'.bad <=> t \in ses.bad,
         t \in ses.dead => t \in ses'.dead, ses'.settings = ses.settings,
         data'[FramesBuf(t)] = data[FramesBuf(t)], data'[ClassBuf(t)] = data[ClassBuf(t)],
         seen'.frames[t] = seen.frames[t], seen'.app[t] = seen.app[t]
  PROVE  Same(t)
  BY DEF Same, Quiet, Waits

\* A turn that does not touch a stream keeps what holds of it.
LEMMA KeptQuiet ==
  ASSUME Ready, Quiet, NEW t \in Stream, ses'.role[t] = ses.role[t], t \in ses'.bad <=> t \in ses.bad,
         ses'.settings = ses.settings,
         data'[FramesBuf(t)] = data[FramesBuf(t)], data'[ClassBuf(t)] = data[ClassBuf(t)],
         seen'.frames[t] = seen.frames[t], seen'.app[t] = seen.app[t], Still(t)
  PROVE  Kept(t)'
<1>1. MemInv /\ MemInv' /\ Kept(t) /\ (t \in ses.dead => t \in ses'.dead)
  BY ReadyFacts
<1>2. Same(t)
  BY <1>1, SameQuiet
<1> QED
  BY <1>1, <1>2, KeptSame

\* A closing turn does not leave the session open.
LEMMA NotClosing ==
  ASSUME Ready, NEW r \in SessionRecord, NEW cause \in Causes \ {"none"}, NEW locals,
         MarkClosed(r, cause, locals)
  PROVE  FALSE
<1>1. ses' = [r EXCEPT !.cause = cause, !.dead = @ \cup {x \in Stream : r.role[x] # "none"}]
  BY DEF MarkClosed
<1>2. ses'.cause = cause
  BY <1>1 DEF SessionRecord
<1> QED
  BY <1>2, ReadyFacts DEF Closed

\* What is left of a buffer that was consumed.
LEMMA ConsumedBehind ==
  ASSUME MemInv, NEW b \in Buffer, NEW n \in Nat, Consumed(b, n)
  PROVE  data'[b] = Suffix(data[b], n)
<1> DEFINE d == data[b]
<1>1. d \in Seq(Byte) /\ data \in [Buffer -> Seq(Byte)]
  BY DEF MemInv, MemTypeOK
<1>2. CASE n = Len(d) /\ Cleared({b})
  <2>1. data'[b] = <<>>
    BY <1>2, BytesAfter
  <2> HIDE DEF d
  <2>2. Suffix(d, Len(d)) = <<>>
    BY <1>1 DEF Suffix
  <2> QED
    BY <1>2, <2>1, <2>2 DEF d
<1>3. CASE data' = [data EXCEPT ![b] = SubSeq(@, n + 1, Len(@))]
  BY <1>1, <1>3 DEF Suffix
<1> QED
  BY <1>2, <1>3 DEF Consumed

\* Drop hands on what it should and loses nothing.
LEMMA DropConforms ==
  ASSUME Ready, Drop PROVE Conforming'
<1> DEFINE s == Top.id
<1>1. /\ task # <<>> /\ Top.op = "drop" /\ Then(<<>>) /\ Cleared({PayloadBuf(s)}) /\ Quiet
      /\ ses' = ses /\ seen' = seen /\ Structured
  BY DEF Drop, Dropped, Doing, Ready
<1>2. s \in Stream /\ {PayloadBuf(s)} \in SUBSET Buffer /\ Connect \in Stream
  BY <1>1, TopRole, Buffers DEF Stream
<1>3. \A x \in Buffer : x # PayloadBuf(s) => data'[x] = data[x]
  BY <1>1, <1>2, BytesAfter, ReadyFacts
<1>4. ASSUME NEW t \in Stream PROVE Kept(t)'
  <2>1. data'[FramesBuf(t)] = data[FramesBuf(t)] /\ data'[ClassBuf(t)] = data[ClassBuf(t)]
    BY <1>2, <1>3, Buffers
  <2>2. Still(t)
    BY <1>1, NoneStays
  <2> QED
    BY <1>1, <2>1, <2>2, KeptQuiet
<1>5. /\ ~Doing("capsule")' /\ ~Doing("taken")' /\ ~Doing("frame")' /\ ~Doing("cut")'
      /\ ~Doing("capsule") /\ (Scans => Scans')
  BY <1>1, NoneStays DEF Rest, Doing
<1>6. data'[CapsuleBuf] = data[CapsuleBuf]
  BY <1>2, <1>3, Buffers
<1>7. Capsules'
  BY <1>1, <1>5, <1>6, CapsulesSame, ReadyFacts DEF CapsuleInHand
<1>8. Copied'
  BY <1>5 DEF Copied
<1> QED
  BY <1>4, <1>7, <1>8 DEF Conforming

\* Scan hands on what it should and loses nothing.
LEMMA ScanConforms ==
  ASSUME Ready, Scan PROVE Conforming'
<1> DEFINE s == Top.id
           b == data[CapsuleBuf]
           u == NextUnit(CapsuleBuf)
           value == UnitValue(b, u)
<1>1. /\ task # <<>> /\ Top.op = "scan" /\ seen' = seen /\ Quiet /\ Structured /\ MemInv
      /\ task \in Seq(TaskItem) /\ Typed /\ Releasing
  BY ReadyFacts DEF Scan, Doing, Ready, Structured
<1>2. /\ s \in Stream /\ Top \in TaskItem /\ CapsuleBuf \in Buffer /\ ValueBuf \in Buffer
      /\ Connect \in Stream
  BY <1>1, TopRole, Buffers DEF Stream
<1>3. ASSUME ses' = ses, \A x \in Buffer : x # ValueBuf => data'[x] = data[x],
             \A t \in Stream : Still(t),
             ~Doing("capsule")', Whole(CapsuleBuf) => Scans', Copied'
      PROVE  Conforming'
  <2>1. ASSUME NEW t \in Stream PROVE Kept(t)'
    <3>1. data'[FramesBuf(t)] = data[FramesBuf(t)] /\ data'[ClassBuf(t)] = data[ClassBuf(t)]
      BY <1>2, <1>3, Buffers
    <3> QED
      BY <1>1, <1>3, <3>1, KeptQuiet
  <2>2. data'[CapsuleBuf] = b
    BY <1>2, <1>3, Buffers
  <2>3. Whole(CapsuleBuf)' <=> Whole(CapsuleBuf)
    BY <2>2 DEF Whole, NextUnit
  <2>4. CapsuleInHand' = CapsuleInHand
    BY <1>1, <1>3 DEF CapsuleInHand, Doing
  <2>5. Capsules
    BY ReadyFacts
  <2>6. Capsules'
    BY <1>1, <1>3, <2>2, <2>3, <2>4, <2>5 DEF Capsules, Scans
  <2> QED
    BY <1>3, <2>1, <2>6 DEF Conforming
<1>4. CASE ~Whole(CapsuleBuf) /\ Then(<<>>) /\ UNCHANGED <<memVars, ses>>
  <2>1. /\ ~Doing("capsule")' /\ ~Doing("taken")' /\ ~Doing("frame")' /\ ~Doing("cut")'
        /\ \A t \in Stream : Still(t)
    BY <1>1, <1>4, NoneStays DEF Rest
  <2>2. Copied'
    BY <2>1 DEF Copied
  <2>3. data' = data
    BY <1>4 DEF memVars
  <2> QED
    BY <1>3, <1>4, <2>1, <2>2, <2>3
<1>5. ASSUME MarkClosed(ses, "protocol", {}) PROVE FALSE
  <2>1. "protocol" \in Causes \ {"none"} /\ ses \in SessionRecord
    BY ReadyFacts DEF Causes
  <2> QED
    BY <1>5, <2>1, NotClosing
<1>6. CASE /\ Whole(CapsuleBuf) /\ Extended(ValueBuf, value)
           /\ task' = <<Item("cut", s)>> \o task /\ ses' = ses
  <2> DEFINE x == Item("cut", s)
  <2>1. x \in TaskItem /\ x.op = "cut" /\ task' = <<x>> \o task
    BY <1>2, <1>6, ItemsTyped DEF Item
  <2> HIDE DEF x
  <2>2. Then(<<x, Top>>)
    BY <1>1, <2>1, PushIsThen
  <2>3. /\ \A t \in Stream : Still(t)
        /\ ~Doing("capsule")' /\ ~Doing("taken")' /\ ~Doing("frame")' /\ Scans'
    BY <1>1, <1>2, <2>1, <2>2, TwoStays
  <2>4. value \in Seq(Byte)
    BY <1>1, <1>2, <1>6, UnitTyped
  <2>5. /\ \A y \in Buffer : y # ValueBuf => data'[y] = data[y]
        /\ data'[ValueBuf] = data[ValueBuf] \o value
    BY <1>1, <1>2, <1>6, <2>4, BytesAfter, ReadyFacts DEF Extended
  <2>6. data[ValueBuf] = <<>>
    BY <1>1, TopReleases
  <2>7. data'[ValueBuf] = value
    BY <2>4, <2>5, <2>6, ConcatEmptySeq
  <2>8. data'[CapsuleBuf] = b
    BY <1>2, <2>5, Buffers
  <2>9. Copied'
    <3>1. Whole(CapsuleBuf)' /\ NextUnit(CapsuleBuf)' = u
      BY <1>6, <2>8 DEF Whole, NextUnit
    <3>2. (data[ValueBuf] = UnitValue(data[CapsuleBuf], NextUnit(CapsuleBuf)))'
      BY <2>7, <2>8, <3>1
    <3> QED
      BY <2>3, <3>1, <3>2 DEF Copied
  <2> QED
    BY <1>3, <1>6, <2>3, <2>5, <2>9
<1>7. ASSUME Then(<<Item("limit", s)>>) PROVE FALSE
  <2> DEFINE x == Item("limit", s)
  <2>1. x \in TaskItem /\ x.op = "limit" /\ Then(<<x>>)
    BY <1>2, <1>7, ItemsTyped DEF Item
  <2> HIDE DEF x
  <2>2. Doing("limit")'
    BY <1>1, <2>1, OneStays
  <2> QED
    BY <2>2, ReadyFacts
<1>8. ~Closed
  BY ReadyFacts
<1> QED
  BY <1>4, <1>5, <1>6, <1>7, <1>8 DEF Scan

\* CutCapsule hands on what it should and loses nothing.
LEMMA CutCapsuleConforms ==
  ASSUME Ready, CutCapsule PROVE Conforming'
<1> DEFINE s == Top.id
           b == data[CapsuleBuf]
           u == NextUnit(CapsuleBuf)
           x == [op |-> "capsule", id |-> s, ty |-> u.ty]
           sent == DataOf(seen.frames[Connect])
<1>1. /\ task # <<>> /\ Top.op = "cut" /\ Consumed(CapsuleBuf, Total(u)) /\ Then(<<x>>)
      /\ ses' = ses /\ seen' = seen /\ Quiet /\ Structured /\ MemInv /\ Doing("cut")
  BY ReadyFacts DEF CutCapsule, Doing, Ready, Structured
<1>2. /\ s \in Stream /\ CapsuleBuf \in Buffer /\ ValueBuf \in Buffer /\ Connect \in Stream
      /\ Total(u) \in Nat /\ u.ty \in Nat /\ b \in Seq(Byte)
  BY <1>1, TopRole, Buffers, UnitTyped DEF Stream, MemInv, MemTypeOK
<1>3. x \in TaskItem /\ x.op = "capsule" /\ x.ty = u.ty
  BY <1>2, ItemsTyped
<1>4. /\ \A y \in Buffer : y # CapsuleBuf => data'[y] = data[y]
      /\ data'[CapsuleBuf] = Behind1(b)
  <2>1. Total(u) = FrontLen(b)
    BY DEF FrontLen, NextUnit
  <2> QED
    BY <1>1, <1>2, <2>1, BytesAfter, ConsumedBehind DEF Behind1
<1>5. /\ Heads(b) /\ data[ValueBuf] = UnitValue(b, u) /\ u = ReadUnit(b)
      /\ Leaves(sent, seen.capsules \o <<>>, b) /\ Scans
  <2>1. Copied /\ Capsules /\ Whole(CapsuleBuf)
    BY <1>1, ReadyFacts DEF Copied
  <2>2. CapsuleInHand = <<>>
    BY <1>1 DEF CapsuleInHand, Doing
  <2>3. Heads(b) /\ u = ReadUnit(b)
    BY <1>1, <1>2, <2>1, WholeIsFront
  <2>4. Leaves(sent, seen.capsules \o <<>>, b) /\ Scans
    BY <2>1, <2>2 DEF Capsules, Scans
  <2> QED
    BY <1>1, <2>1, <2>3, <2>4 DEF Copied
<1>6. sent \in Seq(Byte) /\ seen.capsules \in Seq(UnitRecord) /\ seen.capsules \o <<>> = seen.capsules
  <2>1. seen.frames[Connect] \in Seq(UnitRecord) /\ seen.capsules \in Seq(UnitRecord)
    BY <1>2, ReadyFacts
  <2>2. FrontUnit(b) \in UnitRecord
    BY <1>2, <1>5, FrontType
  <2> QED
    BY <2>1, <2>2, DataOfAppend, ConcatEmptySeq
<1>7. Leaves(sent, seen.capsules \o <<FrontUnit(b)>>, Behind1(b))
  <2> HIDE DEF b, sent
  <2> QED
    BY <1>2, <1>5, <1>6, LeavesCut
<1>8. data'[ValueBuf] = UnitValue(b, u)
  BY <1>2, <1>4, <1>5, Buffers
<1> HIDE DEF x
<1>9. /\ Top' = x /\ Doing("capsule")' /\ ~Doing("taken")' /\ ~Doing("frame")' /\ ~Doing("cut")'
      /\ \A t \in Stream : Still(t)
      /\ Scans'
  BY <1>1, <1>3, <1>5, OneStays
<1>10. ASSUME NEW t \in Stream PROVE Kept(t)'
  <2>1. data'[FramesBuf(t)] = data[FramesBuf(t)] /\ data'[ClassBuf(t)] = data[ClassBuf(t)]
    BY <1>2, <1>4, Buffers
  <2> QED
    BY <1>1, <1>9, <2>1, KeptQuiet
<1>11. CapsuleInHand' = <<FrontUnit(b)>>
  <2>1. CapsuleInHand' = <<[ty |-> Top.ty', val |-> data'[ValueBuf]]>>
    BY <1>9 DEF CapsuleInHand
  <2>2. Top.ty' = u.ty
    BY <1>3, <1>9
  <2>3. FrontUnit(b) = [ty |-> u.ty, val |-> UnitValue(b, u)]
    BY <1>5 DEF FrontUnit
  <2> QED
    BY <1>8, <2>1, <2>2, <2>3
<1>12. Capsules'
  BY <1>1, <1>4, <1>7, <1>9, <1>11 DEF Capsules, Scans
<1>13. Copied'
  BY <1>9 DEF Copied
<1> QED
  BY <1>10, <1>12, <1>13 DEF Conforming

\* HandleCapsule hands on what it should and loses nothing.
LEMMA HandleCapsuleConforms ==
  ASSUME Ready, HandleCapsule PROVE Conforming'
<1> DEFINE s == Top.id
           u == [ty |-> Top.ty, val |-> data[ValueBuf]]
           sent == DataOf(seen.frames[Connect])
<1>1. /\ task # <<>> /\ Top.op = "capsule" /\ Then(<<>>) /\ Doing("capsule")
      /\ seen' = [seen EXCEPT !.capsules = Append(@, u)] /\ Quiet /\ Structured /\ MemInv
      /\ ses \in SessionRecord /\ seen \in SeenRecord
  BY ReadyFacts DEF HandleCapsule, Doing, Ready, Structured
<1>2. /\ s \in Stream /\ CapsuleBuf \in Buffer /\ ValueBuf \in Buffer /\ Connect \in Stream
      /\ {ValueBuf} \in SUBSET Buffer /\ u \in UnitRecord
  BY <1>1, TopRole, TopTyped, Buffers, ReadyFacts DEF Stream, UnitRecord
<1>3. ASSUME NEW cause \in {"peer", "flow"}, NEW locals, MarkClosed(ses, cause, locals) PROVE FALSE
  <2>1. cause \in Causes \ {"none"}
    BY DEF Causes
  <2> QED
    BY <1>1, <1>3, <2>1, NotClosing
<1>4. /\ Cleared({ValueBuf}) /\ ses'.role = ses.role /\ ses'.bad = ses.bad /\ ses'.settings = ses.settings
  <2>1. Cleared({ValueBuf})
    BY <1>3 DEF HandleCapsule
  <2>2. \/ ses' = ses \/ ses' = [ses EXCEPT !.draining = TRUE]
        \/ ses' = [ses EXCEPT !.limit = ReadVarint(data[ValueBuf]).val]
    BY <1>3 DEF HandleCapsule
  <2> DEFINE yes == TRUE
             limit == ReadVarint(data[ValueBuf]).val
  <2>3. ses' = ses \/ ses' = [ses EXCEPT !.draining = yes] \/ ses' = [ses EXCEPT !.limit = limit]
    BY <2>2
  <2> HIDE DEF yes, limit
  <2>4. ses'.role = ses.role /\ ses'.bad = ses.bad /\ ses'.settings = ses.settings
    BY <1>1, <2>3 DEF SessionRecord
  <2> QED
    BY <2>1, <2>4
<1> HIDE DEF u
<1>5. \A x \in Buffer : x # ValueBuf => data'[x] = data[x]
  BY <1>1, <1>2, <1>4, BytesAfter
<1>6. seen'.frames = seen.frames /\ seen'.app = seen.app /\ seen'.capsules = Append(seen.capsules, u)
  BY <1>1 DEF SeenRecord
<1>7. /\ ~Doing("capsule")' /\ ~Doing("taken")' /\ ~Doing("frame")' /\ ~Doing("cut")'
      /\ \A t \in Stream : Still(t)
      /\ Scans => Scans'
  BY <1>1, NoneStays DEF Rest
<1>8. ASSUME NEW t \in Stream PROVE Kept(t)'
  <2>1. data'[FramesBuf(t)] = data[FramesBuf(t)] /\ data'[ClassBuf(t)] = data[ClassBuf(t)]
    BY <1>2, <1>5, Buffers
  <2> QED
    BY <1>1, <1>4, <1>6, <1>7, <2>1, KeptQuiet
<1>9. data'[CapsuleBuf] = data[CapsuleBuf]
  BY <1>2, <1>5, Buffers
<1>10. Capsules'
  <2>1. Capsules /\ seen.capsules \in Seq(UnitRecord)
    BY ReadyFacts
  <2>2. CapsuleInHand = <<u>> /\ CapsuleInHand' = <<>>
    BY <1>1, <1>7 DEF CapsuleInHand, u
  <2> DEFINE cs == seen.capsules
             more == Append(cs, u)
  <2>3. cs \o <<u>> = more /\ more \in Seq(UnitRecord)
    BY <1>2, <2>1
  <2> HIDE DEF more
  <2>4. more \o <<>> = more
    BY <2>3, ConcatEmptySeq
  <2>5. seen'.capsules \o CapsuleInHand' = seen.capsules \o CapsuleInHand
    BY <1>6, <2>2, <2>3, <2>4 DEF more
  <2>6. Whole(CapsuleBuf)' <=> Whole(CapsuleBuf)
    BY <1>9 DEF Whole, NextUnit
  <2> QED
    BY <1>6, <1>7, <1>9, <2>1, <2>5, <2>6 DEF Capsules, Scans
<1>11. Copied'
  BY <1>7 DEF Copied
<1> QED
  BY <1>8, <1>10, <1>11 DEF Conforming

\* What is read of a stream, on the top of the stack.
LEMMA ReadingTop ==
  ASSUME Ready, Doing("recv"), Quiet
  PROVE  \E s \in Stream, bytes \in Seq(Byte), fin \in BOOLEAN :
           /\ s = Top.id /\ bytes = Top.bytes /\ fin = Top.fin
           /\ Reading(s) /\ In(s) = bytes /\ InHand(s) = <<>> /\ Len(task) = 1
           /\ Kept(s) /\ ses.role[s] # "none"
           /\ Received(s)' = Received(s) /\ Sent(s)' = Sent(s) /\ peer' = peer
           /\ peer[s].end # "reset" /\ (fin <=> peer[s].end = "fin")
<1>1. task # <<>> /\ Top.op = "recv" /\ Structured /\ Ended
  BY DEF Ready, Doing
<1>2. /\ Top.id \in Stream /\ Top.bytes \in Seq(Byte) /\ Top.fin \in BOOLEAN /\ Len(task) = 1
      /\ ses.role[Top.id] # "none"
  BY <1>1, TopTyped, TopRole DEF Structured, Typed, RoleFits
<1>3. PICK s \in Stream, bytes \in Seq(Byte), fin \in BOOLEAN :
        s = Top.id /\ bytes = Top.bytes /\ fin = Top.fin
  BY <1>2
<1>4. Reading(s) /\ In(s) = bytes /\ InHand(s) = <<>>
  BY <1>1, <1>3 DEF Reading, In, InHand, Doing
<1>5. Received(s)' = Received(s) /\ Sent(s)' = Sent(s)
  BY DEF Quiet, Received, Sent
<1>6. peer[s].end # "reset" /\ (fin <=> peer[s].end = "fin")
  BY <1>1, <1>3 DEF Ended, Doing
<1>7. Kept(s)
  BY ReadyFacts
<1> QED
  BY <1>2, <1>3, <1>4, <1>5, <1>6, <1>7 DEF Quiet

\* The bytes that were sent, read and buffered are bytes.
LEMMA SentTyped ==
  ASSUME MemInv, script \in Scripts, NEW s \in Stream, peer[s].pos \in Nat,
         peer[s].pos <= Len(script.of[s])
  PROVE  /\ Received(s) \in Seq(Byte) /\ Sent(s) \in Seq(Byte) /\ data[FramesBuf(s)] \in Seq(Byte)
         /\ data[ClassBuf(s)] \in Seq(Byte)
<1>1. script.of[s] \in Seq(Byte)
  BY PeerAssumption
<1> DEFINE d == script.of[s]
           n == peer[s].pos
<1>2. SubSeq(d, 1, n) \in Seq(Byte)
  <2>1. d \in Seq(Byte) /\ n \in Nat /\ n <= Len(d)
    BY <1>1
  <2> HIDE DEF d, n
  <2> QED
    BY <2>1
<1>3. Received(s) \in Seq(Byte)
  BY <1>2 DEF Received
<1>4. Sent(s) \in Seq(Byte)
  <2> DEFINE r == Received(s)
  <2>1. r \in Seq(Byte)
    BY <1>3
  <2> HIDE DEF r
  <2>2. <<>> \in Seq(Byte)
    OBVIOUS
  <2>3. AfterVarint(r) \in Seq(Byte)
    BY <2>1, <2>2, AfterVarintGrows
  <2> QED
    BY <2>1, <2>3 DEF Sent, r
<1>5. data[FramesBuf(s)] \in Seq(Byte) /\ data[ClassBuf(s)] \in Seq(Byte)
  BY Buffers DEF MemInv, MemTypeOK
<1> QED
  BY <1>3, <1>4, <1>5

\* The types of what Follows speaks of.
LEMMA ReadyBytes ==
  ASSUME Ready, NEW s \in Stream
  PROVE  /\ Received(s) \in Seq(Byte) /\ Sent(s) \in Seq(Byte) /\ data[FramesBuf(s)] \in Seq(Byte)
         /\ data[ClassBuf(s)] \in Seq(Byte) /\ seen.frames[s] \in Seq(UnitRecord)
<1>1. MemInv /\ script \in Scripts /\ peer[s].pos \in Nat /\ peer[s].pos <= Len(script.of[s])
  BY DEF Ready, Structured, Typed, PeerRecord
<1> QED
  BY <1>1, SentTyped, ReadyFacts

\* RecvFrames hands on what it should and loses nothing.
LEMMA RecvFramesConforms ==
  ASSUME Ready, RecvFrames PROVE Conforming'
<1>1. /\ Doing("recv") /\ task # <<>> /\ Top.op = "recv" /\ Quiet /\ Structured /\ seen' = seen
      /\ ses.role[Top.id] \in {"control", "connect"} /\ MemInv /\ MemInv'
  BY ReadyFacts DEF RecvFrames, Doing, Ready
<1>2. PICK s \in Stream, bytes \in Seq(Byte), fin \in BOOLEAN :
           /\ s = Top.id /\ bytes = Top.bytes /\ fin = Top.fin
           /\ Reading(s) /\ In(s) = bytes /\ InHand(s) = <<>> /\ Len(task) = 1
           /\ Kept(s) /\ ses.role[s] # "none"
           /\ Received(s)' = Received(s) /\ Sent(s)' = Sent(s) /\ peer' = peer
           /\ peer[s].end # "reset" /\ (fin <=> peer[s].end = "fin")
  BY <1>1, ReadingTop
<1> DEFINE x == Item("parse", s)
           y == [op |-> "after", id |-> s, fin |-> fin]
           b == FramesBuf(s)
<1>3. x \in TaskItem /\ x.op = "parse" /\ x.id = s /\ y \in TaskItem /\ y.op = "after" /\ y.id = s
      /\ Then(<<x, y>>)
  BY <1>2, ItemsTyped DEF Item, RecvFrames
<1> HIDE DEF x, y
<1>4. /\ \A t \in Stream \ {s} : Still(t)
      /\ ~Doing("recv")' /\ ~Doing("frame")' /\ ~Doing("taken")' /\ ~Doing("cut")' /\ ~Doing("capsule")'
      /\ Scans => Scans'
      /\ Awaits("parse", s)' /\ Awaits("after", s)'
  BY <1>1, <1>2, <1>3, TwoStays
<1>5. b \in Buffer /\ Connect \in Stream
  BY Buffers DEF Stream
<1>6. /\ \A z \in Buffer \ {b} : data'[z] = data[z]
      /\ ses'.role = ses.role /\ ses'.settings = ses.settings
      /\ \A t \in Stream \ {s} : t \in ses'.bad <=> t \in ses.bad
      /\ \/ s \in ses.bad /\ s \in ses'.bad
         \/ s \notin ses.bad /\ s \notin ses'.bad /\ data'[b] = data[b] \o bytes
         \/ s \notin ses.bad /\ s \in ses'.bad
  <2>1. CASE s \in ses.bad /\ UNCHANGED <<memVars, ses>>
    BY <2>1 DEF memVars
  <2>2. CASE s \notin ses.bad /\ Extended(b, bytes) /\ UNCHANGED ses
    <3>1. \A z \in Buffer \ {b} : data'[z] = data[z]
      BY <1>1, <1>2, <1>5, <2>2, BytesAfter
    <3>2. data'[b] = data[b] \o bytes
      BY <1>5, <2>2, ReadyFacts DEF Extended
    <3> QED
      BY <2>2, <3>1, <3>2
  <2>3. CASE /\ s \notin ses.bad /\ Refused(b, bytes)
             /\ ses' = [ses EXCEPT !.bad = @ \cup {s}]
    <3>1. data' = data
      BY <1>1, <1>2, <1>5, <2>3, BytesAfter
    <3>2. ses'.role = ses.role /\ ses'.settings = ses.settings /\ ses'.bad = ses.bad \cup {s}
      BY <2>3, BadFields, ReadyFacts
    <3> QED
      BY <2>3, <3>1, <3>2
  <2> QED
    BY <1>2, <2>1, <2>2, <2>3 DEF RecvFrames
<1>7. ASSUME NEW t \in Stream \ {s} PROVE Kept(t)'
  <2>1. FramesBuf(t) # b /\ ClassBuf(t) # b /\ FramesBuf(t) \in Buffer /\ ClassBuf(t) \in Buffer
    BY Buffers
  <2> HIDE DEF b
  <2>2. data'[FramesBuf(t)] = data[FramesBuf(t)] /\ data'[ClassBuf(t)] = data[ClassBuf(t)]
    BY <1>6, <2>1
  <2>3. Still(t)
    BY <1>4
  <2> QED
    BY <1>1, <1>6, <2>2, <2>3, KeptQuiet
<1>8. Kept(s)'
  <2>1. Followed(s) /\ Headed(s) /\ Framed(s) /\ Follows(s)
    <3>1. Followed(s) /\ Headed(s)
      BY <1>2 DEF Kept
    <3>2. Framed(s)
      BY <1>1, <1>2, ReadyFacts DEF Framed, Roles1, Stream
    <3> QED
      BY <3>1, <3>2 DEF Followed
  <2>2. In(s)' = <<>> /\ InHand(s)' = <<>>
    BY <1>4 DEF In, InHand, Reading
  <2> DEFINE us == seen.frames[s]
             rest == data[b]
             sent == Sent(s)
             none == <<>>
  <2>3. sent \in Seq(Byte) /\ us \in Seq(UnitRecord) /\ rest \in Seq(Byte) /\ rest \o bytes \in Seq(Byte)
        /\ none \in Seq(UnitRecord)
    BY <1>2, ReadyBytes
  <2>4. Follows(s)'
    <3>1. CASE s \in ses.bad /\ s \in ses'.bad
      BY <1>1, <1>2, <2>1, <3>1 DEF Follows
    <3>2. ASSUME s \notin ses.bad PROVE Leaves(sent, us \o none, rest \o bytes)
      BY <1>2, <2>1, <3>2 DEF Follows
    <3>3. CASE s \notin ses.bad /\ s \notin ses'.bad /\ data'[b] = data[b] \o bytes
      <4> DEFINE joined == rest \o bytes
      <4>1. Leaves(sent, us \o none, joined) /\ data'[b] = joined /\ joined \o <<>> = joined
        BY <1>2, <2>3, <3>2, <3>3, BytesJoin
      <4> HIDE DEF joined, sent, us
      <4>2. Leaves(sent, us \o none, data'[b] \o <<>>)
        BY <4>1
      <4> QED
        BY <1>1, <1>2, <2>2, <3>3, <4>2 DEF Follows, sent, us
    <3>4. CASE s \notin ses.bad /\ s \in ses'.bad
      <4>1. Leaves(sent, us \o none, rest \o bytes)
        BY <3>2, <3>4
      <4> DEFINE joined == rest \o bytes
      <4>2. Leaves(sent, us \o none, joined) /\ joined \in Seq(Byte)
        BY <2>3, <4>1
      <4> HIDE DEF sent, us, joined, none
      <4>3. Behind(sent, us)
        BY <2>3, <4>2, LeavesBehind
      <4> QED
        BY <1>1, <1>2, <3>4, <4>3 DEF Follows, sent, us
    <3> QED
      BY <1>6, <3>1, <3>3, <3>4
  <2>5. Headed(s)'
    BY <1>2, <1>6, <2>1 DEF Headed
  <2>6. Parsed(s)' /\ Doomed(s)'
    BY <1>4 DEF Parsed, Doomed
  <2>7. Roles1' /\ Apps' /\ (ses.role[s] \in {"control", "connect"})'
    BY <1>1, <1>2, <1>6, ReadyFacts
  <2> QED
    BY <2>4, <2>5, <2>6, <2>7, KeptFramed
<1>9. Capsules'
  <2>1. data'[CapsuleBuf] = data[CapsuleBuf]
    BY <1>6, Buffers
  <2>2. CapsuleInHand' = CapsuleInHand
    BY <1>1, <1>4 DEF CapsuleInHand, Doing
  <2> QED
    BY <1>1, <1>4, <2>1, <2>2, CapsulesSame, ReadyFacts
<1>10. Copied'
  BY <1>4 DEF Copied
<1> QED
  BY <1>7, <1>8, <1>9, <1>10 DEF Conforming

\* A turn that handles the bytes of stream s, with the capsules and the copies left alone.
LEMMA ReadConforms ==
  ASSUME Ready, ~Doing("capsule"), Quiet, NEW s \in Stream, Kept(s)',
         ses'.settings = ses.settings, seen'.frames = seen.frames, seen'.capsules = seen.capsules,
         \A t \in Stream \ {s} :
           /\ ses'.role[t] = ses.role[t] /\ (t \in ses'.bad <=> t \in ses.bad)
           /\ seen'.app[t] = seen.app[t] /\ Still(t),
         \A b \in Buffer \ {FramesBuf(s), ClassBuf(s)} : data'[b] = data[b],
         ~Doing("frame")', ~Doing("taken")', ~Doing("cut")', ~Doing("capsule")', Scans => Scans'
  PROVE  Conforming'
<1>1. ASSUME NEW t \in Stream \ {s} PROVE Kept(t)'
  <2>1. /\ FramesBuf(t) \notin {FramesBuf(s), ClassBuf(s)} /\ FramesBuf(t) \in Buffer
        /\ ClassBuf(t) \notin {FramesBuf(s), ClassBuf(s)} /\ ClassBuf(t) \in Buffer
    BY Buffers
  <2>2. data'[FramesBuf(t)] = data[FramesBuf(t)] /\ data'[ClassBuf(t)] = data[ClassBuf(t)]
    BY <2>1
  <2> QED
    BY <2>2, KeptQuiet
<1>2. Capsules'
  <2>1. CapsuleBuf \notin {FramesBuf(s), ClassBuf(s)} /\ CapsuleBuf \in Buffer
    BY Buffers
  <2>2. data'[CapsuleBuf] = data[CapsuleBuf]
    BY <2>1
  <2>3. CapsuleInHand' = CapsuleInHand
    BY DEF CapsuleInHand, Doing
  <2> QED
    BY <2>2, <2>3, CapsulesSame, ReadyFacts
<1>3. Copied'
  BY DEF Copied
<1> QED
  BY <1>1, <1>2, <1>3 DEF Conforming

\* RecvDiscarded hands on what it should and loses nothing.
LEMMA RecvDiscardedConforms ==
  ASSUME Ready, RecvDiscarded PROVE Conforming'
<1>1. /\ Doing("recv") /\ task # <<>> /\ Top.op = "recv" /\ Quiet /\ Structured /\ seen' = seen
      /\ ~Doing("capsule")
      /\ Then(<<>>)
  BY DEF RecvDiscarded, Doing, Ready
<1>2. PICK s \in Stream, bytes \in Seq(Byte), fin \in BOOLEAN :
           /\ s = Top.id /\ bytes = Top.bytes /\ fin = Top.fin
  BY <1>1, ReadingTop
<1>3. /\ \A t \in Stream \ {s} : Still(t)
      /\ ~Doing("frame")' /\ ~Doing("taken")' /\ ~Doing("cut")' /\ ~Doing("capsule")'
      /\ Scans => Scans'
  BY <1>1, <1>2, NoneStays DEF Rest
<1>4. ASSUME MarkClosed(ses, "protocol", {}) PROVE FALSE
  <2>1. "protocol" \in Causes \ {"none"} /\ ses \in SessionRecord
    BY ReadyFacts DEF Causes
  <2> QED
    BY <1>4, <2>1, NotClosing
<1>5. /\ ses'.role = ses.role /\ ses'.bad = ses.bad /\ ses'.settings = ses.settings /\ data' = data
      /\ ses.role[s] \in {"qpack_encoder", "qpack_decoder", "ignored"}
  <2>1. CASE UNCHANGED <<memVars, ses>> /\ ses.role[s] \in {"qpack_encoder", "qpack_decoder"}
    BY <2>1 DEF memVars
  <2>2. CASE /\ ses.role[s] = "ignored" /\ UNCHANGED memVars
             /\ ses' = [ses EXCEPT !.dead = IF fin THEN @ \cup {s} ELSE @]
    BY <2>2, DeadFields, ReadyFacts DEF memVars
  <2> QED
    BY <1>2, <1>4, <2>1, <2>2 DEF RecvDiscarded
<1>6. Kept(s)'
  BY <1>5, KeptDiscarded, ReadyFacts
<1> QED
  BY <1>1, <1>2, <1>3, <1>5, <1>6, ReadConforms

\* RecvData hands on what it should and loses nothing.
LEMMA RecvDataConforms ==
  ASSUME Ready, RecvData PROVE Conforming'
<1>1. /\ Doing("recv") /\ task # <<>> /\ Top.op = "recv" /\ Quiet /\ Structured /\ ~Doing("capsule")
      /\ Then(<<>>) /\ seen \in SeenRecord
  BY ReadyFacts DEF RecvData, Doing, Ready
<1>2. PICK s \in Stream, bytes \in Seq(Byte), fin \in BOOLEAN :
           /\ s = Top.id /\ bytes = Top.bytes /\ fin = Top.fin
           /\ Reading(s) /\ In(s) = bytes /\ InHand(s) = <<>> /\ Len(task) = 1
           /\ Kept(s) /\ ses.role[s] # "none"
           /\ Received(s)' = Received(s) /\ Sent(s)' = Sent(s) /\ peer' = peer
           /\ peer[s].end # "reset" /\ (fin <=> peer[s].end = "fin")
  BY <1>1, ReadingTop
<1>3. /\ \A t \in Stream \ {s} : Still(t)
      /\ ~Doing("frame")' /\ ~Doing("taken")' /\ ~Doing("cut")' /\ ~Doing("capsule")'
      /\ ~Doing("recv")' /\ (Scans => Scans')
  BY <1>1, <1>2, NoneStays DEF Rest
<1>4. /\ ses'.role = ses.role /\ ses'.bad = ses.bad /\ ses'.settings = ses.settings /\ data' = data
      /\ ses.role[s] = "data" /\ Deliver(s, bytes, fin)
  <2>1. /\ ses.role[s] = "data" /\ UNCHANGED memVars /\ Deliver(s, bytes, fin)
        /\ ses' = [ses EXCEPT !.dead = IF fin THEN @ \cup {s} ELSE @]
    BY <1>2 DEF RecvData
  <2> QED
    BY <2>1, DeadFields, ReadyFacts DEF memVars
<1>5. /\ seen'.frames = seen.frames /\ seen'.capsules = seen.capsules
      /\ \A t \in Stream \ {s} : seen'.app[t] = seen.app[t]
      /\ seen'.app[s].data = seen.app[s].data \o bytes
      /\ seen'.app[s].end = IF fin THEN "fin" ELSE seen.app[s].end
  BY <1>1, <1>4 DEF Deliver, SeenRecord, AppRecord
<1>6. Given(s)
  <2>1. seen.app[s].known
    BY <1>4, ReadyFacts DEF Apps
  <2> QED
    BY <1>2, <2>1 DEF Kept, Delivered
<1>7. Given(s)'
  <2>1. /\ ReadVarint(Received(s)).len > 0 /\ ReadVarint(AfterVarint(Received(s))).len > 0
        /\ AfterVarint(AfterVarint(Received(s))) = seen.app[s].data \o bytes
        /\ seen.app[s].end = "open"
    BY <1>2, <1>6 DEF Given
  <2>2. ~Reading(s)' /\ In(s)' = <<>>
    BY <1>3 DEF Reading, In
  <2> DEFINE d == seen.app[s].data
             joined == d \o bytes
  <2>3. joined \in Seq(Byte)
    BY <1>1 DEF SeenRecord, AppRecord
  <2>4. AfterVarint(AfterVarint(Received(s)))' = joined /\ seen'.app[s].data = joined
    BY <1>2, <1>5, <2>1
  <2> HIDE DEF d, joined
  <2>5. joined \o <<>> = joined
    BY <2>3, ConcatEmptySeq
  <2>6. seen'.app[s].end = peer'[s].end /\ seen'.app[s].end # "reset"
    <3>1. peer[s].end \in {"open", "fin", "reset"}
      BY <1>1 DEF Structured, Typed, PeerRecord
    <3> QED
      BY <1>2, <1>5, <2>1, <3>1
  <2>7. (ReadVarint(Received(s)).len > 0 /\ ReadVarint(AfterVarint(Received(s))).len > 0)'
    BY <1>2, <2>1
  <2>8. (AfterVarint(AfterVarint(Received(s))) = seen.app[s].data \o In(s))'
    BY <2>2, <2>4, <2>5
  <2> QED
    BY <2>2, <2>6, <2>7, <2>8 DEF Given
<1>8. Kept(s)'
  BY <1>4, <1>7, KeptData, ReadyFacts
<1> QED
  BY <1>1, <1>2, <1>3, <1>4, <1>5, <1>8, ReadConforms

\* RecvPending hands on what it should and loses nothing.
LEMMA RecvPendingConforms ==
  ASSUME Ready, RecvPending PROVE Conforming'
<1>1. /\ Doing("recv") /\ task # <<>> /\ Top.op = "recv" /\ Quiet /\ Structured /\ seen' = seen
      /\ ~Doing("capsule")
      /\ MemInv
  BY ReadyFacts DEF RecvPending, Doing, Ready
<1>2. PICK s \in Stream, bytes \in Seq(Byte), fin \in BOOLEAN :
           /\ s = Top.id /\ bytes = Top.bytes /\ fin = Top.fin
           /\ Reading(s) /\ In(s) = bytes /\ InHand(s) = <<>> /\ Len(task) = 1
           /\ Kept(s) /\ ses.role[s] # "none"
           /\ Received(s)' = Received(s) /\ Sent(s)' = Sent(s) /\ peer' = peer
           /\ peer[s].end # "reset" /\ (fin <=> peer[s].end = "fin")
  BY <1>1, ReadingTop
<1> DEFINE x == [op |-> "resolve", id |-> s, fin |-> fin]
           y == Item("limit", s)
           b == ClassBuf(s)
<1>3. x \in TaskItem /\ x.op = "resolve" /\ y \in TaskItem /\ y.op = "limit"
  BY ItemsTyped DEF Item
<1>4. ses.role[s] \in {"pending_uni", "pending_bidi"}
      /\ ((Extended(b, bytes) /\ Then(<<x>>) /\ UNCHANGED ses) \/ Then(<<y>>))
  BY <1>2 DEF RecvPending
<1> HIDE DEF x, y
<1>5. ASSUME Then(<<y>>) PROVE FALSE
  <2>1. Doing("limit")'
    BY <1>1, <1>3, <1>5, OneStays
  <2> QED
    BY <2>1, ReadyFacts
<1>6. Extended(b, bytes) /\ Then(<<x>>) /\ UNCHANGED ses
  BY <1>4, <1>5
<1>7. /\ \A t \in Stream \ {s} : Still(t)
      /\ ~Doing("frame")' /\ ~Doing("taken")' /\ ~Doing("cut")' /\ ~Doing("capsule")'
      /\ ~Doing("recv")' /\ (Scans => Scans')
  BY <1>1, <1>2, <1>3, <1>6, OneStays
<1>8. /\ b \in Buffer /\ data'[b] = data[b] \o bytes
      /\ \A z \in Buffer \ {b} : data'[z] = data[z]
  BY <1>1, <1>2, <1>6, Buffers, BytesAfter, ReadyFacts DEF Extended
<1>9. Blank(s) /\ Received(s) = data[b] \o bytes
  BY <1>2, <1>4 DEF Kept, Pending
<1>10. Blank(s)'
  <2>1. FramesBuf(s) # b /\ FramesBuf(s) \in Buffer
    BY Buffers
  <2>2. data'[FramesBuf(s)] = data[FramesBuf(s)]
    BY <1>8, <2>1
  <2> QED
    BY <1>1, <1>6, <1>9, <2>2 DEF Blank
<1>11. (Received(s) = data[b] \o In(s))'
  <2> DEFINE joined == data[b] \o bytes
  <2>1. In(s)' = <<>>
    BY <1>7 DEF In, Reading
  <2>2. joined \in Seq(Byte)
    BY ReadyBytes
  <2>3. Received(s)' = joined /\ data'[b] = joined
    BY <1>2, <1>8, <1>9
  <2> HIDE DEF joined
  <2>4. joined \o <<>> = joined
    BY <2>2, ConcatEmptySeq
  <2> QED
    BY <2>1, <2>3, <2>4
<1>12. Kept(s)'
  BY <1>4, <1>6, <1>10, <1>11, KeptPending, ReadyFacts
<1> QED
  BY <1>1, <1>2, <1>6, <1>7, <1>8, <1>12, ReadConforms

\* What is known of a stream that is being classified.
LEMMA ResolvingReady ==
  ASSUME Ready, NEW s \in Unis \cup Bidis, Resolving(s)
  PROVE  /\ task # <<>> /\ Top.op = "resolve" /\ Top.id = s /\ s \in Stream /\ s # Connect
         /\ ses.role[s] \in {"pending_uni", "pending_bidi"} /\ Top.fin \in BOOLEAN
         /\ Structured /\ MemInv /\ seen \in SeenRecord /\ ses \in SessionRecord
         /\ Quiet /\ ~Doing("capsule")
         /\ Blank(s) /\ Received(s) = data[ClassBuf(s)] /\ Received(s)' = Received(s)
         /\ data[ClassBuf(s)] \in Seq(Byte) /\ Kept(s)
         /\ peer' = peer /\ peer[s].end # "reset" /\ (Top.fin <=> peer[s].end = "fin")
         /\ {ClassBuf(s)} \in SUBSET Buffer /\ FramesBuf(s) # ClassBuf(s) /\ FramesBuf(s) \in Buffer
<1>1. /\ task # <<>> /\ Top.op = "resolve" /\ Top.id = s /\ s \in Stream /\ Doing("resolve")
      /\ ses.role[s] \in {"pending_uni", "pending_bidi"} /\ Top.fin \in BOOLEAN
      /\ Structured /\ MemInv /\ seen \in SeenRecord /\ ses \in SessionRecord /\ Quiet /\ Ended
  BY ResolvingTop DEF Ready, Resolving
<1>2. s # Connect
  BY PeerAssumption
<1>3. Kept(s) /\ data[ClassBuf(s)] \in Seq(Byte)
  BY <1>1, ReadyFacts, ReadyBytes
<1>4. Blank(s) /\ Received(s) = data[ClassBuf(s)] \o In(s)
  BY <1>1, <1>3 DEF Kept, Pending
<1>5. In(s) = <<>>
  BY <1>1 DEF In, Reading, Doing
<1>6. Received(s) = data[ClassBuf(s)]
  BY <1>3, <1>4, <1>5, ConcatEmptySeq
<1>7. Received(s)' = Received(s) /\ peer' = peer
  BY <1>1 DEF Quiet, Received
<1>8. peer[s].end # "reset" /\ (Top.fin <=> peer[s].end = "fin")
  BY <1>1 DEF Ended
<1>9. {ClassBuf(s)} \in SUBSET Buffer /\ FramesBuf(s) # ClassBuf(s) /\ FramesBuf(s) \in Buffer
  BY <1>1, Buffers
<1>10. ~Doing("capsule")
  BY <1>1 DEF Doing
<1> QED
  BY <1>1, <1>2, <1>3, <1>4, <1>6, <1>7, <1>8, <1>9, <1>10

\* A turn that resolves a stream and leaves nothing on the stack.
LEMMA ResolvedConforms ==
  ASSUME Ready, NEW s \in Unis \cup Bidis, Resolving(s), Then(<<>>), Cleared({ClassBuf(s)}), Kept(s)',
         ses'.settings = ses.settings, ses'.bad = ses.bad, seen'.frames = seen.frames,
         seen'.capsules = seen.capsules,
         \A t \in Stream \ {s} : ses'.role[t] = ses.role[t] /\ seen'.app[t] = seen.app[t]
  PROVE  Conforming'
<1>1. /\ task # <<>> /\ Top.op = "resolve" /\ Top.id = s /\ s \in Stream /\ Structured /\ MemInv
      /\ Quiet /\ ~Doing("capsule") /\ {ClassBuf(s)} \in SUBSET Buffer
  BY ResolvingReady
<1>2. /\ \A t \in Stream \ {s} : Still(t)
      /\ ~Doing("frame")' /\ ~Doing("taken")' /\ ~Doing("cut")' /\ ~Doing("capsule")'
      /\ Scans => Scans'
  BY <1>1, NoneStays DEF Rest
<1>3. \A b \in Buffer \ {FramesBuf(s), ClassBuf(s)} : data'[b] = data[b]
  <2> DEFINE c == ClassBuf(s)
             cs == {c}
  <2>1. cs \in SUBSET Buffer /\ Cleared(cs) /\ \A b : b \in cs <=> b = c
    BY <1>1
  <2> HIDE DEF c, cs
  <2>2. \A b \in Buffer : data'[b] = IF b \in cs THEN <<>> ELSE data[b]
    BY <1>1, <2>1, BytesAfter
  <2>3. \A b \in Buffer \ {FramesBuf(s), c} : data'[b] = data[b]
    BY <2>1, <2>2
  <2> QED
    BY <2>3 DEF c
<1> QED
  BY <1>1, <1>2, <1>3, ReadConforms

\* ResolveLater hands on what it should and loses nothing.
LEMMA ResolveLaterConforms ==
  ASSUME Ready, NEW s \in Unis \cup Bidis, ResolveLater(s) PROVE Conforming'
<1>1. /\ Resolving(s) /\ Then(<<>>) /\ seen' = seen
      /\ \/ ~Top.fin /\ UNCHANGED <<memVars, ses>>
         \/ /\ Top.fin
            /\ ses' = [ses EXCEPT !.role[s] = "none"]
            /\ Cleared({ClassBuf(s)})
  BY DEF ResolveLater
<1>2. /\ task # <<>> /\ Top.op = "resolve" /\ Top.id = s /\ s \in Stream /\ s # Connect
      /\ Structured /\ Quiet /\ ~Doing("capsule") /\ ses \in SessionRecord
      /\ ses.role[s] \in {"pending_uni", "pending_bidi"}
      /\ peer' = peer /\ (Top.fin <=> peer[s].end = "fin") /\ Kept(s)
  BY <1>1, ResolvingReady
<1>3. CASE ~Top.fin /\ UNCHANGED <<memVars, ses>>
  <2>1. /\ \A t \in Stream : Still(t)
        /\ ~Doing("frame")' /\ ~Doing("taken")' /\ ~Doing("cut")' /\ ~Doing("capsule")'
        /\ Scans => Scans'
    BY <1>1, <1>2, NoneStays DEF Rest
  <2>2. data' = data /\ ses' = ses
    BY <1>3 DEF memVars
  <2>3. Kept(s)'
    BY <1>1, <1>2, <2>1, <2>2, KeptQuiet
  <2> QED
    BY <1>1, <1>2, <2>1, <2>2, <2>3, ReadConforms
<1>4. CASE /\ Top.fin /\ Cleared({ClassBuf(s)})
           /\ ses' = [ses EXCEPT !.role[s] = "none"]
  <2> DEFINE none == "none"
  <2>1. ses' = [ses EXCEPT !.role[s] = none] /\ none = "none"
    BY <1>4
  <2>2. none \in RoleName
    BY DEF RoleName
  <2> HIDE DEF none
  <2>3. /\ ses'.role[s] = none /\ \A t \in Stream \ {s} : ses'.role[t] = ses.role[t]
        /\ ses'.bad = ses.bad /\ ses'.settings = ses.settings
    BY <1>2, <2>1, <2>2, RoleFields
  <2>4. Delivered(s)'
    <3>1. ~seen.app[s].known
      BY <1>2, ReadyFacts DEF Apps
    <3> QED
      BY <1>1, <3>1 DEF Delivered
  <2>5. (peer[s].end # "open")'
    BY <1>2, <1>4
  <2>6. Kept(s)'
    BY <1>2, <2>1, <2>3, <2>4, <2>5, KeptGone
  <2> QED
    BY <1>1, <1>4, <2>3, <2>6, ResolvedConforms
<1> QED
  BY <1>1, <1>3, <1>4

\* ResolveIgnored hands on what it should and loses nothing.
LEMMA ResolveIgnoredConforms ==
  ASSUME Ready, NEW s \in Unis \cup Bidis, ResolveIgnored(s) PROVE Conforming'
<1> DEFINE shut == IF s \in Bidis \/ IsWebTransport(s) THEN ses.shut \cup {s} ELSE ses.shut
<1>1. /\ Resolving(s) /\ Then(<<>>) /\ seen' = seen /\ Cleared({ClassBuf(s)})
      /\ ses' = [ses EXCEPT !.role[s] = "ignored", !.shut = shut]
  BY DEF ResolveIgnored
<1>2. s \in Stream /\ ses \in SessionRecord
  BY <1>1, ResolvingReady
<1> HIDE DEF shut
<1>3. /\ ses'.role[s] = "ignored" /\ \A t \in Stream \ {s} : ses'.role[t] = ses.role[t]
      /\ ses'.bad = ses.bad /\ ses'.settings = ses.settings
  BY <1>1, <1>2 DEF SessionRecord
<1>4. Kept(s)'
  BY <1>2, <1>3, KeptDiscarded, ReadyFacts
<1> QED
  BY <1>1, <1>3, <1>4, ResolvedConforms

\* ResolveData hands on what it should and loses nothing.
LEMMA ResolveDataConforms ==
  ASSUME Ready, NEW s \in Unis \cup Bidis, ResolveData(s) PROVE Conforming'
<1> DEFINE c == data[ClassBuf(s)]
           bytes == Suffix(c, HeaderLen(s))
           dead == IF Top.fin THEN ses.dead \cup {s} ELSE ses.dead
           fin == Top.fin
<1>1. /\ Resolving(s) /\ Then(<<>>) /\ Cleared({ClassBuf(s)}) /\ Deliver(s, bytes, fin)
      /\ ses' = [ses EXCEPT !.role[s] = "data", !.dead = dead]
      /\ TypeOf(s).len > 0 /\ SessionOf(s).len > 0
  BY DEF ResolveData, IsWebTransport, IsType
<1>2. /\ task # <<>> /\ s \in Stream /\ ses \in SessionRecord /\ seen \in SeenRecord /\ c \in Seq(Byte)
      /\ Received(s) = c /\ Received(s)' = Received(s) /\ Structured /\ fin \in BOOLEAN
      /\ peer' = peer /\ peer[s].end # "reset" /\ (fin <=> peer[s].end = "fin") /\ Blank(s)
  BY <1>1, ResolvingReady
<1> HIDE DEF dead, bytes
<1>3. /\ ses'.role[s] = "data" /\ \A t \in Stream \ {s} : ses'.role[t] = ses.role[t]
      /\ ses'.bad = ses.bad /\ ses'.settings = ses.settings
  BY <1>1, <1>2 DEF SessionRecord
<1>4. seen.app[s].data = <<>> /\ seen.app[s].end = "open"
  <2>1. ~seen.app[s].known
    BY <1>2 DEF Blank
  <2> QED
    BY <1>2, <2>1, ReadyFacts DEF Apps
<1>5. /\ AfterVarint(AfterVarint(c)) = bytes /\ bytes \in Seq(Byte)
      /\ ReadVarint(c).len > 0 /\ ReadVarint(AfterVarint(c)).len > 0
  <2> DEFINE n == ReadVarint(c).len
             r == AfterVarint(c)
             m == ReadVarint(r).len
             none == <<>>
  <2>1. n = TypeOf(s).len /\ r = Suffix(c, n) /\ m = SessionOf(s).len
    BY DEF TypeOf, SessionOf, AfterVarint
  <2>2. bytes = Suffix(c, n + m)
    BY <2>1 DEF bytes, HeaderLen
  <2>3. none \in Seq(Byte)
    OBVIOUS
  <2>4. c \in Seq(Byte)
    BY <1>2
  <2> HIDE DEF c, none
  <2>5. n \in {0, 1, 2, 4, 8} /\ n <= Len(c) /\ r \in Seq(Byte) /\ Len(r) = Len(c) - n
    BY <2>3, <2>4, AfterVarintGrows
  <2> HIDE DEF r
  <2>6. m \in {0, 1, 2, 4, 8} /\ m <= Len(r) /\ AfterVarint(r) \in Seq(Byte)
    BY <2>3, <2>5, AfterVarintGrows
  <2>7. AfterVarint(r) = Suffix(r, m)
    BY DEF AfterVarint
  <2> HIDE DEF n, m
  <2>8. n \in 0 .. Len(c) /\ m \in 0 .. Len(c) - n /\ m + n = n + m
    <3>1. Len(c) \in Nat
      BY <2>4
    <3> QED
      BY <2>5, <2>6, <3>1
  <2>9. Suffix(Suffix(c, n), m) = Suffix(c, m + n)
    BY <2>4, <2>8, SuffixOfSuffix
  <2>10. AfterVarint(r) = bytes
    BY <2>1, <2>2, <2>7, <2>8, <2>9
  <2> QED
    BY <1>1, <2>1, <2>6, <2>10 DEF n, m, r
<1>6. /\ seen'.frames = seen.frames /\ seen'.capsules = seen.capsules
      /\ \A t \in Stream \ {s} : seen'.app[t] = seen.app[t]
      /\ seen'.app[s].data = seen.app[s].data \o bytes
      /\ seen'.app[s].end = IF fin THEN "fin" ELSE seen.app[s].end
  BY <1>1, <1>2 DEF Deliver, SeenRecord, AppRecord
<1>7. ~Reading(s)' /\ In(s)' = <<>>
  <2>1. ~Doing("recv")'
    BY <1>1, <1>2, NoneStays DEF Rest
  <2> QED
    BY <2>1 DEF Reading, In
<1>8. Given(s)'
  <2>1. (ReadVarint(Received(s)).len > 0 /\ ReadVarint(AfterVarint(Received(s))).len > 0)'
    BY <1>2, <1>5
  <2>2. (AfterVarint(AfterVarint(Received(s))) = seen.app[s].data \o In(s))'
    <3>1. AfterVarint(AfterVarint(Received(s)))' = bytes
      BY <1>2, <1>5
    <3>2. seen'.app[s].data = bytes
      BY <1>4, <1>5, <1>6, ConcatEmptySeq
    <3>3. bytes = bytes \o <<>>
      BY <1>5, ConcatEmptySeq
    <3> QED
      BY <1>7, <3>1, <3>2, <3>3
  <2>3. seen'.app[s].end = peer'[s].end /\ seen'.app[s].end # "reset"
    <3>1. peer[s].end \in {"open", "fin", "reset"}
      BY <1>2 DEF Structured, Typed, PeerRecord
    <3> QED
      BY <1>2, <1>4, <1>6, <3>1
  <2> QED
    BY <1>7, <2>1, <2>2, <2>3 DEF Given
<1>9. Kept(s)'
  BY <1>2, <1>3, <1>8, KeptData, ReadyFacts
<1> QED
  BY <1>1, <1>3, <1>6, <1>9, ResolvedConforms

\* ResolveCritical hands on what it should and loses nothing.
LEMMA ResolveCriticalConforms ==
  ASSUME Ready, NEW s \in Unis \cup Bidis, ResolveCritical(s) PROVE Conforming'
<1> DEFINE new == CriticalRole(TypeOf(s).val)
           known == [ses EXCEPT !.role[s] = new]
           c == data[ClassBuf(s)]
           rest == Suffix(c, TypeOf(s).len)
           x == [op |-> "recv", id |-> s, fin |-> Top.fin, bytes |-> rest]
           b == FramesBuf(s)
<1>1. /\ Resolving(s) /\ seen' = seen /\ TypeOf(s).len > 0
  BY DEF ResolveCritical, IsCritical
<1>2. /\ task # <<>> /\ Top.op = "resolve" /\ Top.id = s /\ s \in Stream /\ s # Connect
      /\ ses \in SessionRecord /\ c \in Seq(Byte) /\ MemInv /\ Quiet
      /\ Received(s) = c /\ Received(s)' = Received(s) /\ Structured /\ Top.fin \in BOOLEAN
      /\ Blank(s) /\ {ClassBuf(s)} \in SUBSET Buffer /\ FramesBuf(s) # ClassBuf(s)
      /\ FramesBuf(s) \in Buffer /\ ~Doing("capsule")
  BY <1>1, ResolvingReady
<1>3. new \in {"control", "qpack_encoder", "qpack_decoder"}
  BY DEF ResolveCritical, IsCritical, CriticalRole, H3Control, QpackEncoder, QpackDecoder
<1>4. /\ known \in SessionRecord /\ known.role[s] = new
      /\ \A t \in Stream \ {s} : known.role[t] = ses.role[t]
      /\ known.bad = ses.bad /\ known.settings = ses.settings
  <2>1. new \in RoleName
    BY <1>3 DEF RoleName
  <2> HIDE DEF new
  <2> QED
    BY <1>2, <2>1, RoleFields
<1>5. rest = AfterVarint(c) /\ rest \in Seq(Byte) /\ ReadVarint(c).len > 0
  <2>1. rest \in Seq(Byte)
    BY <1>2, TypeOfTyped
  <2> QED
    BY <1>1, <2>1 DEF AfterVarint, TypeOf
<1>6. x \in TaskItem /\ x.id = s /\ x.op = "recv" /\ x.bytes = rest
  BY <1>2, <1>5, ItemsTyped
<1>7. \/ MarkClosed(ses, "protocol", {})
      \/ new = "control" /\ ses' = known /\ Cleared({ClassBuf(s)}) /\ Then(<<x>>)
      \/ new # "control" /\ ses' = known /\ Cleared({ClassBuf(s)}) /\ Then(<<>>)
      \/ MarkClosed(known, "protocol", {})
  BY DEF ResolveCritical
<1> HIDE DEF new, known, rest, x, c
<1>8. ASSUME NEW r \in SessionRecord, MarkClosed(r, "protocol", {}) PROVE FALSE
  <2>1. "protocol" \in Causes \ {"none"}
    BY DEF Causes
  <2> QED
    BY <1>8, <2>1, NotClosing
<1>9. CASE new = "control" /\ ses' = known /\ Cleared({ClassBuf(s)}) /\ Then(<<x>>)
  <2>1. /\ \A t \in Stream \ {s} : Still(t)
        /\ ~Doing("frame")' /\ ~Doing("taken")' /\ ~Doing("cut")' /\ ~Doing("capsule")'
        /\ (Scans => Scans') /\ Doing("recv")' /\ Top' = x
    BY <1>2, <1>6, <1>9, OneStays
  <2>2. \A y \in Buffer : y # ClassBuf(s) => data'[y] = data[y]
    <3> DEFINE one == ClassBuf(s)
               cs == {one}
    <3>1. cs \in SUBSET Buffer /\ Cleared(cs) /\ \A y : y \in cs <=> y = one
      BY <1>2, <1>9
    <3> HIDE DEF one, cs
    <3>2. \A y \in Buffer : data'[y] = IF y \in cs THEN <<>> ELSE data[y]
      BY <1>2, <3>1, BytesAfter
    <3>3. \A y \in Buffer : y # one => data'[y] = data[y]
      BY <3>1, <3>2
    <3> QED
      BY <3>3 DEF one
  <2>3. data'[b] = <<>> /\ data[b] = <<>> /\ seen.frames[s] = <<>> /\ s \notin ses.bad
    BY <1>2, <2>2 DEF Blank
  <2>4. In(s)' = rest /\ InHand(s)' = <<>>
    <3>1. Top' = x /\ Doing("recv")' /\ ~Doing("frame")'
      BY <2>1
    <3>2. (Top.id)' = s
      BY <1>6, <3>1
    <3>3. (Top.bytes)' = rest
      BY <1>6, <3>1
    <3>4. Reading(s)'
      BY <3>1, <3>2 DEF Reading
    <3>5. In(s)' = rest
      BY <3>3, <3>4 DEF In
    <3>6. InHand(s)' = <<>>
      BY <3>1 DEF InHand
    <3> QED
      BY <3>5, <3>6
  <2>5. s \notin ses'.bad /\ ses'.role[s] = "control"
    BY <1>4, <1>9, <2>3
  <2>6. Follows(s)'
    <3>1. Sent(s)' = rest
      BY <1>2, <1>5 DEF Sent
    <3>2. Leaves(rest, <<>>, rest)
      BY <1>5, LeavesStart
    <3>3. seen'.frames[s] \o InHand(s)' = <<>>
      <4> DEFINE none == <<>>
      <4>1. none \in Seq(UnitRecord)
        OBVIOUS
      <4>2. seen'.frames[s] \o InHand(s)' = none \o <<>>
        BY <1>1, <2>3, <2>4
      <4> HIDE DEF none
      <4>3. none \o <<>> = none
        BY <4>1, ConcatEmptySeq
      <4> QED
        BY <4>2, <4>3 DEF none
    <3>4. data'[b] \o In(s)' = rest
      BY <1>5, <2>3, <2>4, ConcatEmptySeq
    <3> QED
      BY <2>5, <3>1, <3>2, <3>3, <3>4 DEF Follows
  <2>7. Headed(s)'
    BY <1>2, <1>5 DEF Headed
  <2>8. Parsed(s)'
    <3>1. ~Whole(b)
      BY <1>2, <2>3, WholeIsFront
    <3>2. data'[b] = data[b]
      BY <2>3
    <3> HIDE DEF b
    <3>3. Whole(b)' <=> Whole(b)
      BY <3>2 DEF Whole, NextUnit
    <3> QED
      BY <3>1, <3>3 DEF Parsed, b
  <2>9. Doomed(s)'
    BY <2>5 DEF Doomed
  <2>10. Kept(s)'
    BY <1>2, <2>5, <2>6, <2>7, <2>8, <2>9, KeptFramed, ReadyFacts
  <2>11. /\ \A y \in Buffer \ {FramesBuf(s), ClassBuf(s)} : data'[y] = data[y]
         /\ ses'.settings = ses.settings
         /\ \A t \in Stream \ {s} : /\ ses'.role[t] = ses.role[t] /\ (t \in ses'.bad <=> t \in ses.bad)
                                    /\ seen'.app[t] = seen.app[t]
    BY <1>1, <1>4, <1>9, <2>2
  <2> QED
    BY <1>1, <1>2, <2>1, <2>10, <2>11, ReadConforms
<1>10. CASE new # "control" /\ ses' = known /\ Cleared({ClassBuf(s)}) /\ Then(<<>>)
  <2>1. (ses.role[s] \in {"qpack_encoder", "qpack_decoder", "ignored"})'
    BY <1>3, <1>4, <1>10
  <2>2. Kept(s)'
    BY <1>2, <2>1, KeptDiscarded, ReadyFacts
  <2> QED
    BY <1>1, <1>4, <1>10, <2>2, ResolvedConforms
<1> QED
  BY <1>2, <1>4, <1>7, <1>8, <1>9, <1>10

\* A turn of the frame loop of stream s leaves the other streams alone.
LEMMA OthersKept ==
  ASSUME Ready, Quiet, NEW s \in Stream, ses'.settings = ses.settings,
         \A t \in Stream \ {s} :
           /\ ses'.role[t] = ses.role[t] /\ (t \in ses'.bad <=> t \in ses.bad)
           /\ seen'.frames[t] = seen.frames[t] /\ seen'.app[t] = seen.app[t] /\ Still(t),
         \A b \in Buffer \ {FramesBuf(s), PayloadBuf(s), CapsuleBuf} : data'[b] = data[b]
  PROVE  \A t \in Stream \ {s} : Kept(t)'
<1>1. ASSUME NEW t \in Stream \ {s} PROVE Kept(t)'
  <2>1. /\ FramesBuf(t) \notin {FramesBuf(s), PayloadBuf(s), CapsuleBuf} /\ FramesBuf(t) \in Buffer
        /\ ClassBuf(t) \notin {FramesBuf(s), PayloadBuf(s), CapsuleBuf} /\ ClassBuf(t) \in Buffer
    BY Buffers
  <2>2. data'[FramesBuf(t)] = data[FramesBuf(t)] /\ data'[ClassBuf(t)] = data[ClassBuf(t)]
    BY <2>1
  <2> QED
    BY <2>2, KeptQuiet
<1> QED
  BY <1>1

\* The stream whose frames are being cut.
LEMMA FrameTop ==
  ASSUME Ready, Quiet, task # <<>>, Top.op \in {"parse", "taken", "frame"}
  PROVE  \E s \in Stream :
           /\ s = Top.id /\ ses.role[s] \in {"control", "connect"} /\ Framed(s) /\ Kept(s)
           /\ Follows(s) /\ Headed(s) /\ Parsed(s) /\ Doomed(s) /\ In(s) = <<>>
           /\ Received(s)' = Received(s) /\ Sent(s)' = Sent(s)
           /\ (s # Connect => Awaits("after", s)) /\ (Framed(s)' <=> s = Connect \/ ses'.role[s] = "control")
           /\ (ses.role[s] = "control" => s # Connect)
<1>1. /\ Top.id \in Stream /\ ses.role[Top.id] \in {"control", "connect"} /\ Structured /\ Trailed
      /\ task \in Seq(TaskItem)
  BY TopRole, ReadyFacts DEF Ready, RoleFits
<1>2. PICK s \in Stream : s = Top.id
  BY <1>1
<1>3. Framed(s) /\ (ses.role[s] = "control" => s # Connect)
  BY <1>1, <1>2, ReadyFacts DEF Framed, Roles1, Stream
<1>4. Kept(s)
  BY ReadyFacts
<1>5. In(s) = <<>>
  BY DEF In, Reading, Doing
<1>6. Received(s)' = Received(s) /\ Sent(s)' = Sent(s)
  BY DEF Quiet, Received, Sent
<1>7. ASSUME s # Connect PROVE Awaits("after", s)
  <2>1. 1 \in 1 .. Len(task) /\ task[1] = Top
    BY <1>1 DEF Top
  <2>2. Awaits("after", task[1].id)
    BY <1>1, <1>2, <1>7, <2>1 DEF Trailed
  <2> QED
    BY <1>2, <2>1, <2>2
<1>8. Framed(s)' <=> s = Connect \/ ses'.role[s] = "control"
  BY DEF Framed
<1>9. Follows(s) /\ Headed(s) /\ Parsed(s) /\ Doomed(s)
  BY <1>3, <1>4 DEF Kept, Followed
<1> QED
  BY <1>1, <1>2, <1>3, <1>4, <1>5, <1>6, <1>7, <1>8, <1>9

\* A turn of the loop that leaves it, with the parser of the stream failed or not.
LEMMA LeaveConforms ==
  ASSUME Ready, Quiet, task # <<>>, Top.op = "parse", Then(<<>>), seen' = seen, data' = data,
         ses'.role = ses.role, ses'.settings = ses.settings,
         ses'.bad = ses.bad \/ (ses'.bad = ses.bad \cup {Top.id} /\ Top.id \notin ses.bad),
         Waits(Top.id) \/ Top.id \in ses'.bad \/ ~Whole(FramesBuf(Top.id))
  PROVE  Conforming'
<1>1. PICK s \in Stream :
           /\ s = Top.id /\ ses.role[s] \in {"control", "connect"} /\ Framed(s) /\ Kept(s)
           /\ Follows(s) /\ Headed(s) /\ Parsed(s) /\ Doomed(s) /\ In(s) = <<>>
           /\ Received(s)' = Received(s) /\ Sent(s)' = Sent(s)
           /\ (s # Connect => Awaits("after", s)) /\ (Framed(s)' <=> s = Connect \/ ses'.role[s] = "control")
           /\ (ses.role[s] = "control" => s # Connect)
  BY FrameTop
<1>2. /\ \A t \in Stream \ {s} : Still(t)
      /\ ~Doing("recv")' /\ ~Doing("frame")' /\ ~Doing("taken")' /\ ~Doing("cut")' /\ ~Doing("capsule")'
      /\ (Scans => Scans')
      /\ Awaits("after", s) => Awaits("after", s)'
  BY <1>1, NoneStays DEF Rest, Ready
<1>3. \A t \in Stream \ {s} : Kept(t)'
  <2>1. \A t \in Stream \ {s} : t \in ses'.bad <=> t \in ses.bad
    BY <1>1
  <2> QED
    BY <1>2, <2>1, OthersKept
<1>4. In(s)' = <<>> /\ InHand(s)' = <<>> /\ InHand(s) = <<>>
  BY <1>2 DEF In, InHand, Reading, Doing
<1>5. Follows(s)'
  <2>1. CASE s \in ses.bad <=> s \in ses'.bad
    BY <1>1, <1>4, <2>1 DEF Follows
  <2>2. CASE s \notin ses.bad /\ s \in ses'.bad
    <3> DEFINE us == seen.frames[s]
               rest == data[FramesBuf(s)] \o In(s)
               sent == Sent(s)
               hand == InHand(s)
    <3>1. Leaves(sent, us \o hand, rest)
      BY <1>1, <2>2 DEF Follows
    <3>2. sent \in Seq(Byte) /\ us \in Seq(UnitRecord) /\ rest \in Seq(Byte) /\ hand \in Seq(UnitRecord)
      BY <1>1, <1>4, ReadyBytes
    <3> HIDE DEF sent, us, rest, hand
    <3>3. Behind(sent, us)
      BY <3>1, <3>2, LeavesBehind
    <3> QED
      BY <1>1, <2>2, <3>3 DEF Follows, sent, us
  <2> QED
    BY <1>1, <2>1, <2>2
<1>6. Headed(s)'
  BY <1>1 DEF Headed
<1>7. Parsed(s)'
  <2>1. Whole(FramesBuf(s))' <=> Whole(FramesBuf(s))
    BY DEF Whole, NextUnit
  <2>2. Waits(s)' <=> Waits(s)
    BY DEF Waits, Quiet
  <2> QED
    BY <1>1, <2>1, <2>2 DEF Parsed
<1>8. Doomed(s)'
  BY <1>1, <1>2 DEF Doomed
<1>9. Kept(s)'
  <2>1. Roles1' /\ Apps' /\ (ses.role[s] \in {"control", "connect"})'
    BY <1>1, ReadyFacts
  <2> QED
    BY <1>5, <1>6, <1>7, <1>8, <2>1, KeptFramed
<1>10. Capsules'
  <2>1. CapsuleInHand' = CapsuleInHand
    BY <1>2 DEF CapsuleInHand, Doing
  <2> QED
    BY <1>2, <2>1, CapsulesSame, ReadyFacts
<1>11. Copied'
  BY <1>2 DEF Copied
<1> QED
  BY <1>3, <1>9, <1>10, <1>11 DEF Conforming

\* Before a frame is taken there is no copy of one.
LEMMA NoPayload ==
  ASSUME Structured, task # <<>>, Top.op = "parse"
  PROVE  data[PayloadBuf(Top.id)] = <<>>
<1>1. /\ task \in Seq(TaskItem) /\ Top = task[1] /\ Len(task) \in Nat /\ Len(task) > 0 /\ Top.id \in Stream
      /\ Releasing /\ Stacked
  BY TopTyped DEF Structured, Typed, Top
<1>2. ASSUME NEW i \in 1 .. Len(task), Holds(task[i], Top.id) PROVE FALSE
  <2>1. i # 1
    BY <1>1, <1>2 DEF Holds
  <2>2. i \in 2 .. Len(task) /\ 1 \in 1 .. Len(task) /\ 1 < i
    BY <1>1, <2>1
  <2>3. task[i].op = "drop" /\ task[i].id = Top.id
    BY <1>1, <1>2, <2>2 DEF Releasing, Holds, Rest
  <2> QED
    BY <1>1, <2>2, <2>3 DEF Stacked
<1> QED
  BY <1>1, <1>2 DEF Releasing

\* A whole frame is copied out of its buffer.
LEMMA TakeConforms ==
  ASSUME Ready, Quiet, task # <<>>, Top.op = "parse", Whole(FramesBuf(Top.id)), ~Waits(Top.id),
         Top.id \notin ses.bad, ses' = ses, seen' = seen,
         Extended(PayloadBuf(Top.id), UnitValue(data[FramesBuf(Top.id)], NextUnit(FramesBuf(Top.id)))),
         task' = <<Item("taken", Top.id)>> \o task
  PROVE  Conforming'
<1>1. PICK s \in Stream : s = Top.id
  BY TopRole DEF Ready
<1> DEFINE b == FramesBuf(s)
           value == UnitValue(data[b], NextUnit(b))
           x == Item("taken", s)
<1>2. /\ Structured /\ MemInv /\ task \in Seq(TaskItem) /\ Top \in TaskItem /\ b \in Buffer
      /\ PayloadBuf(s) \in Buffer /\ CapsuleBuf \in Buffer /\ b # PayloadBuf(s)
      /\ CapsuleBuf # PayloadBuf(s)
  BY TopRole, ReadyFacts, Buffers DEF Ready
<1>3. x \in TaskItem /\ x.op = "taken" /\ x.id = s /\ task' = <<x>> \o task
  BY <1>1, ItemsTyped DEF Item
<1> HIDE DEF x
<1>4. Then(<<x, Top>>)
  BY <1>2, <1>3, PushIsThen
<1>5. /\ \A t \in Stream : t # s => Still(t)
      /\ ~Doing("frame")' /\ ~Doing("recv")' /\ ~Doing("cut")' /\ ~Doing("capsule")'
      /\ (Scans => Scans') /\ Top' = x /\ Doing("taken")'
      /\ Awaits("after", s) => Awaits("after", s)'
  BY <1>1, <1>2, <1>3, <1>4, TwoStays
<1>6. Awaits("parse", s)'
  <2>1. PICK y \in TaskItem : y = Top
    BY <1>2
  <2>2. y.op = "parse" /\ y.id = s /\ Then(<<x, y>>)
    BY <1>1, <1>4, <2>1
  <2>3. Awaits(y.op, y.id)'
    BY <1>2, <1>3, <2>2, TwoStays
  <2> QED
    BY <2>2, <2>3
<1>7. Still(s)
  <2>1. In(s) = <<>> /\ InHand(s) = <<>> /\ ~Reading(s)
    BY DEF In, InHand, Reading, Doing
  <2>2. In(s)' = <<>> /\ InHand(s)' = <<>> /\ ~Reading(s)'
    BY <1>5 DEF In, InHand, Reading
  <2> QED
    BY <1>5, <1>6, <2>1, <2>2 DEF Still
<1>8. value \in Seq(Byte) /\ Extended(PayloadBuf(s), value) /\ data[PayloadBuf(s)] = <<>>
  BY <1>1, <1>2, UnitTyped, NoPayload
<1>9. /\ \A z \in Buffer \ {PayloadBuf(s)} : data'[z] = data[z]
      /\ data'[PayloadBuf(s)] = value
  <2> HIDE DEF value
  <2>1. data'[PayloadBuf(s)] = data[PayloadBuf(s)] \o value
    BY <1>2, <1>8, ReadyFacts DEF Extended
  <2> QED
    BY <1>2, <1>8, <2>1, BytesAfter, ConcatEmptySeq
<1>10. ASSUME NEW t \in Stream PROVE Kept(t)'
  <2>1. data'[FramesBuf(t)] = data[FramesBuf(t)] /\ data'[ClassBuf(t)] = data[ClassBuf(t)]
    BY <1>9, Buffers
  <2>2. Still(t)
    BY <1>5, <1>7
  <2> QED
    BY <2>1, <2>2, KeptQuiet
<1>11. Capsules'
  <2>1. CapsuleInHand' = CapsuleInHand
    BY <1>5 DEF CapsuleInHand, Doing
  <2>2. data'[CapsuleBuf] = data[CapsuleBuf]
    BY <1>2, <1>9
  <2> QED
    BY <1>5, <2>1, <2>2, CapsulesSame, ReadyFacts
<1>12. Copied'
  <2>1. data'[b] = data[b] /\ Top.id' = s
    BY <1>2, <1>3, <1>5, <1>9
  <2>2. Whole(b)' /\ NextUnit(b)' = NextUnit(b)
    <3>1. Whole(b)
      BY <1>1
    <3>2. data'[b] = data[b]
      BY <2>1
    <3> HIDE DEF b
    <3> QED
      BY <3>1, <3>2 DEF Whole, NextUnit
  <2>3. ~Waits(s)' /\ s \notin ses'.bad
    BY <1>1 DEF Waits, Quiet
  <2>4. Payload(s)' = UnitValue(data'[b], NextUnit(b)')
    BY <1>9, <2>1, <2>2 DEF Payload
  <2> QED
    BY <1>5, <2>1, <2>2, <2>3, <2>4 DEF Copied
<1> QED
  BY <1>10, <1>11, <1>12 DEF Conforming

\* Parse hands on what it should and loses nothing.
LEMMA ParseConforms ==
  ASSUME Ready, Parse PROVE Conforming'
<1>1. PICK s \in Stream : s = Top.id
  BY TopRole DEF Ready, Parse, Doing
<1> DEFINE b == FramesBuf(s)
           value == UnitValue(data[b], NextUnit(b))
<1>2. /\ Quiet /\ task # <<>> /\ Top.op = "parse" /\ seen' = seen /\ ~Closed /\ ses \in SessionRecord
      /\ MemInv /\ b \in Buffer /\ PayloadBuf(s) \in Buffer
  BY ReadyFacts, Buffers DEF Parse, Doing
<1>3. \/ /\ Waits(s) \/ s \in ses.bad \/ ~Whole(b)
         /\ Then(<<>>) /\ UNCHANGED <<memVars, ses>>
      \/ MarkClosed(ses, "rejected", {})
      \/ /\ s \notin ses.bad /\ Then(<<>>) /\ ses' = [ses EXCEPT !.bad = @ \cup {s}] /\ data' = data
      \/ /\ s \notin ses.bad /\ ~Waits(s) /\ Whole(b) /\ Extended(PayloadBuf(s), value)
         /\ task' = <<Item("taken", s)>> \o task /\ ses' = ses
  <2>1. Whole(b) => value \in Seq(Byte)
    BY <1>2, UnitTyped
  <2>2. \A bytes \in Seq(Byte) : Refused(PayloadBuf(s), bytes) => data' = data
    BY <1>2, BytesAfter
  <2>3. UNCHANGED memVars => data' = data
    BY DEF memVars
  <2> HIDE DEF value, b
  <2> QED
    BY <1>1, <1>2, <2>1, <2>2, <2>3 DEF Parse, b, value
<1>4. CASE /\ Waits(s) \/ s \in ses.bad \/ ~Whole(b)
           /\ Then(<<>>) /\ UNCHANGED <<memVars, ses>>
  BY <1>1, <1>2, <1>4, LeaveConforms DEF memVars
<1>5. ASSUME MarkClosed(ses, "rejected", {}) PROVE FALSE
  <2>1. "rejected" \in Causes \ {"none"}
    BY DEF Causes
  <2> QED
    BY <1>2, <1>5, <2>1, NotClosing
<1>6. CASE s \notin ses.bad /\ Then(<<>>) /\ ses' = [ses EXCEPT !.bad = @ \cup {s}] /\ data' = data
  <2>1. ses'.role = ses.role /\ ses'.bad = ses.bad \cup {s} /\ ses'.settings = ses.settings
    BY <1>2, <1>6, BadFields
  <2>2. s \in ses'.bad
    BY <2>1
  <2> QED
    BY <1>1, <1>2, <1>6, <2>1, <2>2, LeaveConforms
<1>7. CASE /\ s \notin ses.bad /\ ~Waits(s) /\ Whole(b) /\ Extended(PayloadBuf(s), value)
           /\ task' = <<Item("taken", s)>> \o task /\ ses' = ses
  BY <1>1, <1>2, <1>7, TakeConforms
<1> QED
  BY <1>3, <1>4, <1>5, <1>6, <1>7

\* ConsumeFrame hands on what it should and loses nothing.
LEMMA ConsumeFrameConforms ==
  ASSUME Ready, ConsumeFrame PROVE Conforming'
<1>1. /\ Quiet /\ task # <<>> /\ Top.op = "taken" /\ seen' = seen /\ ses' = ses /\ Doing("taken")
      /\ Structured /\ MemInv /\ Copied
  BY ReadyFacts DEF ConsumeFrame, Doing, Ready
<1>2. PICK s \in Stream :
           /\ s = Top.id /\ ses.role[s] \in {"control", "connect"} /\ Framed(s) /\ Kept(s)
           /\ Follows(s) /\ Headed(s) /\ Parsed(s) /\ Doomed(s) /\ In(s) = <<>>
           /\ Received(s)' = Received(s) /\ Sent(s)' = Sent(s)
           /\ (s # Connect => Awaits("after", s)) /\ (Framed(s)' <=> s = Connect \/ ses'.role[s] = "control")
           /\ (ses.role[s] = "control" => s # Connect)
  BY <1>1, FrameTop
<1> DEFINE b == FramesBuf(s)
           d == data[b]
           u == NextUnit(b)
           x == [op |-> "frame", id |-> s, ty |-> u.ty]
           us == seen.frames[s]
           sent == Sent(s)
<1>3. b \in Buffer /\ PayloadBuf(s) \in Buffer /\ b # PayloadBuf(s) /\ CapsuleBuf \in Buffer /\ CapsuleBuf # b
  BY Buffers
<1>4. Consumed(b, Total(u)) /\ Then(<<x>>)
  BY <1>2 DEF ConsumeFrame
<1>5. d \in Seq(Byte) /\ sent \in Seq(Byte) /\ us \in Seq(UnitRecord) /\ u.ty \in Nat /\ Total(u) \in Nat
  BY <1>1, <1>3, ReadyBytes, UnitTyped
<1>6. x \in TaskItem /\ x.op = "frame" /\ x.id = s /\ x.ty = u.ty
  BY <1>5, ItemsTyped
<1>7. /\ Whole(b) /\ Heads(d) /\ u = ReadUnit(d) /\ s \notin ses.bad /\ ~Waits(s)
      /\ data[PayloadBuf(s)] = UnitValue(d, u)
  BY <1>1, <1>2, <1>3, WholeIsFront DEF Copied, Payload
<1>8. data'[b] = Behind1(d) /\ \A z \in Buffer \ {b} : data'[z] = data[z]
  <2>1. Total(u) = FrontLen(d)
    BY <1>7 DEF FrontLen
  <2> QED
    BY <1>1, <1>3, <1>4, <1>5, <2>1, BytesAfter, ConsumedBehind DEF Behind1
<1> HIDE DEF x
<1>9. /\ \A t \in Stream : t # s => Still(t)
      /\ Doing("frame")' /\ ~Doing("recv")' /\ ~Doing("cut")' /\ ~Doing("capsule")' /\ ~Doing("taken")'
      /\ (Scans => Scans') /\ Top' = x
      /\ (Awaits("after", s) => Awaits("after", s)')
      /\ (Awaits("parse", s) => Awaits("parse", s)')
  BY <1>1, <1>2, <1>4, <1>6, OneStays
<1>10. In(s)' = <<>> /\ InHand(s) = <<>> /\ InHand(s)' = <<FrontUnit(d)>>
  <2>1. In(s)' = <<>> /\ InHand(s) = <<>>
    BY <1>1, <1>9 DEF In, InHand, Reading, Doing
  <2>2. (Top.id)' = s /\ (Top.ty)' = u.ty
    BY <1>6, <1>9
  <2>3. InHand(s)' = <<[ty |-> (Top.ty)', val |-> Payload(s)']>>
    BY <1>9, <2>2 DEF InHand
  <2>4. Payload(s)' = UnitValue(d, u)
    BY <1>3, <1>7, <1>8 DEF Payload
  <2>5. FrontUnit(d) = [ty |-> u.ty, val |-> UnitValue(d, u)]
    BY <1>7 DEF FrontUnit
  <2> HIDE DEF d, u
  <2> QED
    BY <2>1, <2>2, <2>3, <2>4, <2>5
<1>11. Follows(s)'
  <2>1. Leaves(sent, us \o <<>>, d \o <<>>)
    BY <1>2, <1>7, <1>10 DEF Follows
  <2>2. us \o <<>> = us /\ d \o <<>> = d
    BY <1>5, ConcatEmptySeq
  <2>3. Leaves(sent, us, d)
    BY <2>1, <2>2
  <2> HIDE DEF sent, us, d
  <2>4. Leaves(sent, us \o <<FrontUnit(d)>>, Behind1(d)) /\ Behind1(d) \in Seq(Byte)
    BY <1>5, <1>7, <2>3, LeavesCut, FrontType
  <2>5. Behind1(d) \o <<>> = Behind1(d)
    BY <2>4, ConcatEmptySeq
  <2>6. /\ Sent(s)' = sent /\ seen'.frames[s] = us /\ InHand(s)' = <<FrontUnit(d)>>
        /\ data'[FramesBuf(s)] = Behind1(d) /\ In(s)' = <<>> /\ s \notin ses'.bad
    BY <1>1, <1>2, <1>7, <1>8, <1>10 DEF sent, us, d
  <2>7. Leaves(Sent(s)', seen'.frames[s] \o InHand(s)', data'[FramesBuf(s)] \o In(s)')
    BY <2>4, <2>5, <2>6
  <2> QED
    BY <2>6, <2>7 DEF Follows
<1>12. Kept(s)'
  <2>1. Headed(s)'
    BY <1>1, <1>2 DEF Headed
  <2>2. Awaits("parse", s)'
    BY <1>2, <1>7, <1>9 DEF Parsed
  <2>3. Parsed(s)'
    BY <2>2 DEF Parsed
  <2>4. Doomed(s)'
    BY <1>1, <1>7 DEF Doomed
  <2>5. Roles1' /\ Apps' /\ (ses.role[s] \in {"control", "connect"})'
    BY <1>1, <1>2, ReadyFacts
  <2> QED
    BY <1>11, <2>1, <2>3, <2>4, <2>5, KeptFramed
<1>13. \A t \in Stream \ {s} : Kept(t)'
  <2>1. \A z \in Buffer \ {FramesBuf(s), PayloadBuf(s), CapsuleBuf} : data'[z] = data[z]
    BY <1>8
  <2> QED
    BY <1>1, <1>9, <2>1, OthersKept
<1>14. Capsules'
  <2>1. CapsuleInHand' = CapsuleInHand
    BY <1>1, <1>9 DEF CapsuleInHand, Doing
  <2>2. data'[CapsuleBuf] = data[CapsuleBuf]
    BY <1>3, <1>8
  <2> QED
    BY <1>1, <1>9, <2>1, <2>2, CapsulesSame, ReadyFacts
<1>15. Copied'
  <2>1. (Top.id)' = s /\ s \notin ses'.bad
    BY <1>1, <1>6, <1>7, <1>9
  <2> QED
    BY <1>9, <2>1 DEF Copied
<1> QED
  BY <1>12, <1>13, <1>14, <1>15 DEF Conforming

\* What is known of a frame that is handled.
LEMMA HandlingTop ==
  ASSUME Ready, NEW s \in Stream, Handling(s)
  PROVE  /\ task # <<>> /\ Top.op = "frame" /\ Top.id = s /\ Doing("frame") /\ Quiet /\ Structured
         /\ MemInv /\ ses \in SessionRecord /\ seen \in SeenRecord /\ Top.ty \in Nat
         /\ Payload(s) \in Seq(Byte) /\ [ty |-> Top.ty, val |-> Payload(s)] \in UnitRecord
         /\ PayloadBuf(s) \in Buffer /\ {PayloadBuf(s)} \in SUBSET Buffer
         /\ s \notin ses.bad /\ ses.role[s] \in {"control", "connect"} /\ ~Doing("capsule")
<1>1. task # <<>> /\ Top.op = "frame" /\ Top.id = s /\ Doing("frame") /\ Quiet /\ ~Doing("capsule")
  BY DEF Handling, Doing
<1>2. Structured /\ MemInv /\ ses \in SessionRecord /\ seen \in SeenRecord /\ Copied
  BY ReadyFacts DEF Ready
<1>3. Top.ty \in Nat /\ s \notin ses.bad
  BY <1>1, <1>2, TopTyped, ReadyFacts DEF Copied
<1>4. ses.role[s] \in {"control", "connect"}
  BY <1>1, <1>2, TopRole DEF RoleFits
<1>5. Payload(s) \in Seq(Byte) /\ PayloadBuf(s) \in Buffer
  BY Buffers, ReadyFacts DEF Payload
<1> QED
  BY <1>1, <1>2, <1>3, <1>4, <1>5 DEF UnitRecord

\* What Log does.
LEMMA Logged ==
  ASSUME seen \in SeenRecord, NEW s \in Stream, Log(s)
  PROVE  /\ seen'.app = seen.app /\ seen'.capsules = seen.capsules
         /\ \A t \in Stream \ {s} : seen'.frames[t] = seen.frames[t]
         /\ seen'.frames[s] = Append(seen.frames[s], [ty |-> Top.ty, val |-> Payload(s)])
<1> DEFINE u == [ty |-> Top.ty, val |-> Payload(s)]
           f == Append(seen.frames[s], u)
<1>1. seen' = [seen EXCEPT !.frames[s] = f]
  BY DEF Log
<1> HIDE DEF f
<1>2. /\ seen'.app = seen.app /\ seen'.capsules = seen.capsules
      /\ \A t \in Stream \ {s} : seen'.frames[t] = seen.frames[t]
      /\ seen'.frames[s] = f
  BY <1>1 DEF SeenRecord
<1> QED
  BY <1>2 DEF f

\* The frame that was in hand has been handed on.
LEMMA HandledKept ==
  ASSUME Ready, NEW s \in Stream, Handling(s), Log(s), ses'.role[s] = ses.role[s],
         ses'.bad = ses.bad, Waits(s) => Waits(s)', data'[FramesBuf(s)] = data[FramesBuf(s)],
         ~Doing("recv")', ~Doing("frame")', Awaits("parse", s) => Awaits("parse", s)'
  PROVE  Kept(s)'
<1>1. /\ task # <<>> /\ Top.op = "frame" /\ Top.id = s /\ Doing("frame") /\ Quiet
      /\ seen \in SeenRecord /\ [ty |-> Top.ty, val |-> Payload(s)] \in UnitRecord
      /\ s \notin ses.bad /\ ses.role[s] \in {"control", "connect"}
  BY HandlingTop
<1> DEFINE u == [ty |-> Top.ty, val |-> Payload(s)]
           us == seen.frames[s]
           more == Append(us, u)
           rest == data[FramesBuf(s)]
<1>2. /\ Framed(s) /\ Follows(s) /\ Headed(s) /\ Parsed(s) /\ In(s) = <<>>
      /\ Received(s)' = Received(s) /\ Sent(s)' = Sent(s)
  BY <1>1, FrameTop
<1>3. seen'.frames[s] = more
  BY <1>1, Logged
<1>4. InHand(s) = <<u>> /\ InHand(s)' = <<>> /\ In(s)' = <<>>
  BY <1>1 DEF InHand, In, Reading
<1>5. us \in Seq(UnitRecord) /\ rest \in Seq(Byte) /\ us \o <<u>> = more /\ more \in Seq(UnitRecord)
  BY <1>1, ReadyBytes
<1> HIDE DEF more, u
<1>6. more \o <<>> = more
  BY <1>5, ConcatEmptySeq
<1>7. Follows(s)'
  <2>1. Leaves(Sent(s), us \o <<u>>, rest \o <<>>)
    BY <1>1, <1>2, <1>4 DEF Follows
  <2> HIDE DEF us, rest
  <2>2. Leaves(Sent(s)', more \o <<>>, rest \o <<>>)
    BY <1>2, <1>5, <1>6, <2>1
  <2> QED
    BY <1>1, <1>3, <1>4, <2>2 DEF Follows, rest
<1>8. Headed(s)' /\ Doomed(s)'
  BY <1>1, <1>2 DEF Headed, Doomed
<1>9. Parsed(s)'
  <2>1. Whole(FramesBuf(s))' <=> Whole(FramesBuf(s))
    BY DEF Whole, NextUnit
  <2> QED
    BY <1>2, <2>1 DEF Parsed
<1> QED
  BY <1>1, <1>7, <1>8, <1>9, KeptFramed, ReadyFacts

\* The other streams, when neither the roles nor the SETTINGS changed.
LEMMA HandledOthers ==
  ASSUME Ready, NEW s \in Stream, Handling(s), Log(s), ses'.role = ses.role, ses'.bad = ses.bad,
         ses'.settings = ses.settings, \A t \in Stream : t # s => Still(t),
         \A b \in Buffer \ {FramesBuf(s), PayloadBuf(s), CapsuleBuf} : data'[b] = data[b]
  PROVE  \A t \in Stream \ {s} : Kept(t)'
<1>1. Quiet /\ seen \in SeenRecord
  BY HandlingTop
<1>2. seen'.app = seen.app /\ \A t \in Stream \ {s} : seen'.frames[t] = seen.frames[t]
  BY <1>1, Logged
<1> QED
  BY <1>1, <1>2, OthersKept

\* What a frame that carries no data adds to the capsules: nothing.
LEMMA NoDataAdded ==
  ASSUME Ready, NEW s \in Stream, Handling(s), Log(s), s # Connect \/ Top.ty # FrameData
  PROVE  DataOf(seen'.frames[Connect]) = DataOf(seen.frames[Connect])
<1> DEFINE u == [ty |-> Top.ty, val |-> Payload(s)]
           us == seen.frames[s]
           more == Append(us, u)
<1>1. seen \in SeenRecord /\ u \in UnitRecord /\ u.ty = Top.ty /\ us \in Seq(UnitRecord)
  BY HandlingTop, ReadyBytes
<1>2. /\ \A t \in Stream \ {s} : seen'.frames[t] = seen.frames[t]
      /\ seen'.frames[s] = more
  BY <1>1, Logged
<1> HIDE DEF u
<1>3. CASE s # Connect
  BY <1>2, <1>3 DEF Stream
<1>4. CASE s = Connect /\ Top.ty # FrameData
  <2> HIDE DEF us
  <2>1. DataOf(more) = DataOf(us)
    BY <1>1, <1>4, DataOfAppend
  <2> QED
    BY <1>2, <1>4, <2>1 DEF us
<1> QED
  BY <1>3, <1>4

\* A frame that was handled and dropped.
LEMMA DroppedConforms ==
  ASSUME Ready, NEW s \in Stream, Handling(s), Log(s), Dropped(s), ses'.role = ses.role,
         ses'.bad = ses.bad, ses'.settings = ses.settings, s # Connect \/ Top.ty # FrameData
  PROVE  Conforming'
<1>1. /\ task # <<>> /\ Top.op = "frame" /\ Top.id = s /\ Quiet /\ Structured /\ MemInv
      /\ {PayloadBuf(s)} \in SUBSET Buffer /\ seen \in SeenRecord /\ ~Doing("capsule")
  BY HandlingTop
<1>2. /\ \A t \in Stream : t # s => Still(t)
      /\ ~Doing("frame")' /\ ~Doing("recv")' /\ ~Doing("cut")' /\ ~Doing("capsule")' /\ ~Doing("taken")'
      /\ (Scans => Scans') /\ (Awaits("parse", s) => Awaits("parse", s)')
  BY <1>1, NoneStays DEF Rest, Dropped
<1>3. \A x \in Buffer : x # PayloadBuf(s) => data'[x] = data[x]
  <2> DEFINE one == PayloadBuf(s)
             cs == {one}
  <2>1. cs \in SUBSET Buffer /\ Cleared(cs) /\ \A y : y \in cs <=> y = one
    BY <1>1 DEF Dropped
  <2> HIDE DEF one, cs
  <2>2. \A y \in Buffer : data'[y] = IF y \in cs THEN <<>> ELSE data[y]
    BY <1>1, <2>1, BytesAfter
  <2>3. \A y \in Buffer : y # one => data'[y] = data[y]
    BY <2>1, <2>2
  <2> QED
    BY <2>3 DEF one
<1>4. data'[FramesBuf(s)] = data[FramesBuf(s)] /\ data'[CapsuleBuf] = data[CapsuleBuf]
  BY <1>3, Buffers
<1>5. Waits(s) => Waits(s)'
  BY <1>1 DEF Waits, Quiet
<1>6. Kept(s)'
  BY <1>2, <1>4, <1>5, HandledKept
<1>7. \A t \in Stream \ {s} : Kept(t)'
  BY <1>2, <1>3, HandledOthers
<1>8. Capsules'
  <2>1. CapsuleInHand' = CapsuleInHand
    BY <1>1, <1>2 DEF CapsuleInHand
  <2>2. seen'.capsules = seen.capsules
    BY <1>1, Logged
  <2> QED
    BY <1>2, <1>4, <2>1, <2>2, NoDataAdded, CapsulesSame, ReadyFacts
<1>9. Copied'
  BY <1>2 DEF Copied
<1> QED
  BY <1>6, <1>7, <1>8, <1>9 DEF Conforming

\* ControlFrame hands on what it should and loses nothing.
LEMMA ControlFrameConforms ==
  ASSUME Ready, NEW s \in Unis, ControlFrame(s) PROVE Conforming'
<1> DEFINE goaway == ses.draining \/ Top.ty = FrameGoaway
           drained == [ses EXCEPT !.draining = goaway]
<1>1. /\ Handling(s) /\ Log(s)
      /\ \/ MarkClosed(ses, "protocol", {PayloadBuf(s)})
         \/ ses' = drained /\ Dropped(s)
  BY DEF ControlFrame
<1>2. s \in Stream /\ s # Connect /\ ses \in SessionRecord
  BY PeerAssumption, ReadyFacts DEF Stream
<1>3. ASSUME MarkClosed(ses, "protocol", {PayloadBuf(s)}) PROVE FALSE
  <2>1. "protocol" \in Causes \ {"none"}
    BY DEF Causes
  <2> QED
    BY <1>2, <1>3, <2>1, NotClosing
<1>4. goaway \in BOOLEAN
  BY <1>2 DEF SessionRecord
<1> HIDE DEF goaway
<1>5. drained.role = ses.role /\ drained.bad = ses.bad /\ drained.settings = ses.settings
  BY <1>2, <1>4, FlagFields
<1> HIDE DEF drained
<1> QED
  BY <1>1, <1>2, <1>3, <1>5, DroppedConforms

\* ConnectHeaders and ConnectOther hand on what they should and lose nothing.
LEMMA ConnectFrameConforms ==
  ASSUME Ready, ConnectHeaders \/ ConnectOther PROVE Conforming'
<1> DEFINE known == [ses EXCEPT !.headersDone = @ \cup {Connect}]
           ready == [known EXCEPT !.ready = TRUE]
<1>1. /\ Handling(Connect) /\ Log(Connect) /\ Top.ty # FrameData
      /\ \/ MarkClosed(known, "rejected", {PayloadBuf(Connect)})
         \/ (ses' = ready \/ ses' = known \/ ses' = ses) /\ Dropped(Connect)
  <2>1. FrameHeaders # FrameData
    BY DEF FrameHeaders, FrameData
  <2> QED
    BY <2>1 DEF ConnectHeaders, ConnectOther
<1>2. Connect \in Stream /\ ses \in SessionRecord
  BY ReadyFacts DEF Stream
<1>3. /\ known \in SessionRecord /\ known.role = ses.role /\ known.bad = ses.bad
      /\ known.settings = ses.settings
  BY <1>2, OtherFields
<1> HIDE DEF known
<1>4. ready.role = ses.role /\ ready.bad = ses.bad /\ ready.settings = ses.settings
  BY <1>3, FlagFields
<1> HIDE DEF ready
<1>5. ASSUME MarkClosed(known, "rejected", {PayloadBuf(Connect)}) PROVE FALSE
  <2>1. "rejected" \in Causes \ {"none"}
    BY DEF Causes
  <2> QED
    BY <1>3, <1>5, <2>1, NotClosing
<1> QED
  BY <1>1, <1>2, <1>3, <1>4, <1>5, DroppedConforms

\* ConnectData hands on what it should and loses nothing.
LEMMA ConnectDataConforms ==
  ASSUME Ready, ConnectData PROVE Conforming'
<1> DEFINE s == Connect
           x == Item("scan", s)
           y == Item("drop", s)
           z == Item("limit", s)
           pay == Payload(s)
           u == [ty |-> Top.ty, val |-> pay]
<1>1. /\ Handling(s) /\ Log(s) /\ Top.ty = FrameData
      /\ \/ Extended(CapsuleBuf, pay) /\ ses' = ses /\ Then(<<x, y>>)
         \/ Then(<<z, y>>)
  BY DEF ConnectData
<1>2. /\ task # <<>> /\ Top.op = "frame" /\ Top.id = s /\ Doing("frame") /\ Quiet /\ Structured
      /\ MemInv /\ seen \in SeenRecord /\ pay \in Seq(Byte) /\ u \in UnitRecord /\ ~Doing("capsule")
      /\ s \in Stream
  BY <1>1, HandlingTop DEF Stream
<1>3. /\ x \in TaskItem /\ x.op = "scan" /\ y \in TaskItem /\ y.op = "drop" /\ z \in TaskItem
      /\ z.op = "limit"
  BY <1>2, ItemsTyped DEF Item
<1>4. u.ty = FrameData /\ u.val = pay
  BY <1>1
<1> HIDE DEF x, y, z, pay, u
<1>5. ASSUME Then(<<z, y>>) PROVE FALSE
  <2>1. Doing("limit")'
    BY <1>2, <1>3, <1>5, TwoStays
  <2> QED
    BY <2>1, ReadyFacts
<1>6. Extended(CapsuleBuf, pay) /\ ses' = ses /\ Then(<<x, y>>)
  BY <1>1, <1>5
<1>7. /\ \A t \in Stream : t # s => Still(t)
      /\ ~Doing("frame")' /\ ~Doing("recv")' /\ ~Doing("cut")' /\ ~Doing("capsule")' /\ ~Doing("taken")'
      /\ Scans' /\ (Awaits("parse", s) => Awaits("parse", s)')
  BY <1>2, <1>3, <1>6, TwoStays
<1>8. /\ CapsuleBuf \in Buffer /\ FramesBuf(s) \in Buffer /\ FramesBuf(s) # CapsuleBuf
  BY <1>2, Buffers
<1>9. /\ \A b \in Buffer \ {CapsuleBuf} : data'[b] = data[b]
      /\ data'[CapsuleBuf] = data[CapsuleBuf] \o pay /\ data[CapsuleBuf] \in Seq(Byte)
  BY <1>2, <1>6, <1>8, BytesAfter, ReadyFacts DEF Extended
<1>10. Waits(s) => Waits(s)'
  BY <1>2, <1>6 DEF Waits, Quiet
<1>11. Kept(s)'
  BY <1>1, <1>2, <1>6, <1>7, <1>8, <1>9, <1>10, HandledKept
<1>12. \A t \in Stream \ {s} : Kept(t)'
  <2>1. \A b \in Buffer \ {FramesBuf(s), PayloadBuf(s), CapsuleBuf} : data'[b] = data[b]
    BY <1>9
  <2> QED
    BY <1>1, <1>2, <1>6, <1>7, <2>1, HandledOthers
<1>13. Capsules'
  <2> DEFINE us == seen.frames[s]
             more == Append(us, u)
             sent == DataOf(us)
             cs == seen.capsules
             rest == data[CapsuleBuf]
  <2>1. us \in Seq(UnitRecord) /\ cs \in Seq(UnitRecord) /\ rest \in Seq(Byte)
    BY <1>2, <1>9, ReadyFacts
  <2>2. seen'.capsules = cs /\ seen'.frames[s] = more
    <3>1. seen'.frames[s] = Append(seen.frames[s], [ty |-> Top.ty, val |-> Payload(s)])
      BY <1>1, <1>2, Logged
    <3> QED
      BY <1>1, <1>2, <3>1, Logged DEF u, pay
  <2>3. CapsuleInHand = <<>> /\ CapsuleInHand' = <<>>
    BY <1>2, <1>7 DEF CapsuleInHand
  <2>4. Leaves(sent, cs \o <<>>, rest)
    BY <2>3, ReadyFacts DEF Capsules
  <2> HIDE DEF us
  <2>5. sent \in Seq(Byte) /\ DataOf(more) = sent \o pay
    BY <1>2, <1>4, <2>1, DataOfAppend
  <2> DEFINE handed == cs \o <<>>
  <2> HIDE DEF sent, rest
  <2>6. Leaves(sent \o pay, handed, rest \o pay)
    <3>1. Leaves(sent, handed, rest)
      BY <2>4
    <3> HIDE DEF handed
    <3> QED
      BY <1>2, <2>1, <2>5, <3>1, LeavesRead
  <2>7. seen'.capsules \o CapsuleInHand' = handed
    BY <2>2, <2>3
  <2>8. DataOf(seen'.frames[Connect]) = sent \o pay /\ data'[CapsuleBuf] = rest \o pay
    BY <1>9, <2>2, <2>5 DEF rest
  <2> HIDE DEF handed
  <2>9. Leaves(DataOf(seen'.frames[Connect]), seen'.capsules \o CapsuleInHand', data'[CapsuleBuf])
    BY <2>6, <2>7, <2>8
  <2> QED
    BY <1>7, <2>9 DEF Capsules, Scans
<1>14. Copied'
  BY <1>7 DEF Copied
<1> QED
  BY <1>11, <1>12, <1>13, <1>14 DEF Conforming

\* ControlSettings hands on what it should and loses nothing.
LEMMA ControlSettingsConforms ==
  ASSUME Ready, NEW s \in Unis, ControlSettings(s) PROVE Conforming'
<1> DEFINE pairs == SettingsPairs(Payload(s))
           done == [ses EXCEPT !.headersDone = @ \cup {s}]
           known == [ses EXCEPT !.headersDone = @ \cup {s}, !.settings = pairs,
                                !.limit = Setting(pairs, SettingsInitialMaxData)]
           joined == [known EXCEPT !.role[Connect] = "connect"]
           x == Item("parse", Connect)
           y == Item("drop", s)
<1>1. /\ Handling(s) /\ Log(s)
      /\ \/ MarkClosed(done, "protocol", {PayloadBuf(s)})
         \/ MarkClosed(known, "rejected", {PayloadBuf(s)})
         \/ ~server /\ ses' = joined /\ Dropped(s)
         \/ /\ ses' = known /\ UNCHANGED memVars
            /\ Then((IF ses.role[Connect] # "none" THEN <<x>> ELSE <<>>) \o <<y>>)
  BY DEF ControlSettings
<1>2. /\ s \in Stream /\ Connect \in Stream /\ s # Connect
      /\ task # <<>> /\ Top.op = "frame" /\ Top.id = s /\ Quiet /\ Structured
      /\ MemInv /\ MemInv' /\ ses \in SessionRecord /\ seen \in SeenRecord /\ {PayloadBuf(s)} \in SUBSET Buffer
      /\ ~Doing("capsule") /\ ses.role[s] \in {"control", "connect"}
  <2>1. s \in Stream /\ Connect \in Stream /\ s # Connect
    BY PeerAssumption DEF Stream
  <2> QED
    BY <1>1, <2>1, HandlingTop, ReadyFacts
<1>3. pairs \in KnownSettings
  BY <1>2, Buffers DEF KnownSettings, Payload, MemInv, MemTypeOK
<1> HIDE DEF pairs
<1>4. /\ done \in SessionRecord /\ known \in SessionRecord /\ known.role = ses.role /\ known.bad = ses.bad
      /\ known.settings = pairs
  BY <1>2, <1>3, OtherFields, SettingsFields
<1> HIDE DEF done, known
<1>5. /\ joined.role[Connect] = "connect" /\ joined.bad = ses.bad
      /\ \A t \in Stream \ {Connect} : joined.role[t] = ses.role[t]
  BY <1>2, <1>4 DEF SessionRecord, RoleName
<1> HIDE DEF joined
<1>6. x \in TaskItem /\ y \in TaskItem /\ x.id = Connect /\ y.id = s /\ x.op = "parse" /\ y.op = "drop"
  BY <1>2, ItemsTyped DEF Item
<1> HIDE DEF x, y
<1>7. ASSUME \/ MarkClosed(done, "protocol", {PayloadBuf(s)})
             \/ MarkClosed(known, "rejected", {PayloadBuf(s)})
      PROVE  FALSE
  <2>1. "protocol" \in Causes \ {"none"} /\ "rejected" \in Causes \ {"none"}
    BY DEF Causes
  <2> QED
    BY <1>4, <1>7, <2>1, NotClosing
<1>8. /\ seen'.app = seen.app /\ seen'.capsules = seen.capsules
      /\ \A t \in Stream \ {s} : seen'.frames[t] = seen.frames[t]
  BY <1>1, <1>2, Logged
<1>9. ASSUME \A t \in Stream : t # s => Still(t),
             ~Doing("frame")', ~Doing("recv")', ~Doing("cut")', ~Doing("capsule")', ~Doing("taken")',
             Scans => Scans', Awaits("parse", s) => Awaits("parse", s)',
             \A b \in Buffer : b # PayloadBuf(s) => data'[b] = data[b],
             ses'.bad = ses.bad,
             \A t \in Stream : ses'.role[t] = ses.role[t] \/ (t = Connect /\ ses'.role[t] = "connect"),
             server => data[FramesBuf(Connect)] = <<>> \/ Awaits("parse", Connect)'
      PROVE  Conforming'
  <2>1. \A t \in Stream : data'[FramesBuf(t)] = data[FramesBuf(t)] /\ data'[ClassBuf(t)] = data[ClassBuf(t)]
    BY <1>2, <1>9, Buffers
  <2>2. data'[CapsuleBuf] = data[CapsuleBuf]
    BY <1>2, <1>9, Buffers
  <2>3. Kept(s)'
    <3>1. Waits(s) => Waits(s)'
      BY <1>2 DEF Waits
    <3>2. ses'.role[s] = ses.role[s]
      BY <1>2, <1>9
    <3> QED
      BY <1>1, <1>2, <1>9, <2>1, <3>1, <3>2, HandledKept
  <2>4. ASSUME NEW t \in Stream, t # s PROVE Kept(t)'
    <3>1. Waits(t) /\ ~Waits(t)' => data[FramesBuf(t)] = <<>> \/ Awaits("parse", t)'
      BY <1>9 DEF Waits
    <3>2. ses'.role[t] = ses.role[t] \/ (t = Connect /\ ses'.role[t] = "connect")
      BY <1>9
    <3>3. seen'.frames[t] = seen.frames[t] /\ seen'.app[t] = seen.app[t]
      BY <1>8, <2>4
    <3>4. Same(t)
      BY <1>2, <1>9, <2>1, <3>1, <3>2, <3>3, ReadyFacts DEF Same, Quiet
    <3> QED
      BY <1>2, <1>9, <2>4, <3>4, KeptSame, ReadyFacts
  <2>5. Capsules'
    <3>1. CapsuleInHand' = CapsuleInHand
      BY <1>2, <1>9 DEF CapsuleInHand
    <3> QED
      BY <1>1, <1>2, <1>8, <1>9, <2>2, <3>1, NoDataAdded, CapsulesSame, ReadyFacts
  <2>6. Copied'
    BY <1>9 DEF Copied
  <2> QED
    BY <2>3, <2>4, <2>5, <2>6 DEF Conforming
<1>10. CASE ~server /\ ses' = joined /\ Dropped(s)
  <2>1. /\ \A t \in Stream : t # s => Still(t)
        /\ ~Doing("frame")' /\ ~Doing("recv")' /\ ~Doing("cut")' /\ ~Doing("capsule")' /\ ~Doing("taken")'
        /\ (Scans => Scans') /\ (Awaits("parse", s) => Awaits("parse", s)')
    BY <1>2, <1>10, NoneStays DEF Rest, Dropped
  <2>2. \A b \in Buffer : b # PayloadBuf(s) => data'[b] = data[b]
    <3> DEFINE one == PayloadBuf(s)
               cs == {one}
    <3>1. cs \in SUBSET Buffer /\ Cleared(cs) /\ \A b : b \in cs <=> b = one
      BY <1>2, <1>10 DEF Dropped
    <3> HIDE DEF one, cs
    <3>2. \A b \in Buffer : data'[b] = IF b \in cs THEN <<>> ELSE data[b]
      BY <1>2, <3>1, BytesAfter
    <3>3. \A b \in Buffer : b # one => data'[b] = data[b]
      BY <3>1, <3>2
    <3> QED
      BY <3>3 DEF one
  <2>3. /\ ses'.bad = ses.bad
        /\ \A t \in Stream : ses'.role[t] = ses.role[t] \/ (t = Connect /\ ses'.role[t] = "connect")
    BY <1>5, <1>10
  <2> QED
    BY <1>9, <1>10, <2>1, <2>2, <2>3
<1>11. CASE /\ ses' = known /\ UNCHANGED memVars
            /\ Then((IF ses.role[Connect] # "none" THEN <<x>> ELSE <<>>) \o <<y>>)
  <2>1. /\ data' = data /\ ses'.bad = ses.bad
        /\ \A t \in Stream : ses'.role[t] = ses.role[t] \/ (t = Connect /\ ses'.role[t] = "connect")
    BY <1>4, <1>11 DEF memVars
  <2>2. CASE ses.role[Connect] # "none"
    <3>1. Then(<<x, y>>)
      <4>1. <<x>> \o <<y>> = <<x, y>>
        BY <1>6, PairJoins
      <4> QED
        BY <1>11, <2>2, <4>1
    <3>2. /\ \A t \in Stream : t # s => Still(t)
          /\ ~Doing("frame")' /\ ~Doing("recv")' /\ ~Doing("cut")' /\ ~Doing("capsule")' /\ ~Doing("taken")'
          /\ (Scans => Scans') /\ (Awaits("parse", s) => Awaits("parse", s)')
          /\ Awaits("parse", Connect)'
      BY <1>2, <1>6, <3>1, TwoStays
    <3> QED
      BY <1>9, <2>1, <3>2
  <2>3. CASE ses.role[Connect] = "none"
    <3>1. Then(<<y>>)
      <4>1. <<>> \o <<y>> = <<y>>
        BY <1>6
      <4> QED
        BY <1>11, <2>3, <4>1
    <3>2. /\ \A t \in Stream : t # s => Still(t)
          /\ ~Doing("frame")' /\ ~Doing("recv")' /\ ~Doing("cut")' /\ ~Doing("capsule")' /\ ~Doing("taken")'
          /\ (Scans => Scans') /\ (Awaits("parse", s) => Awaits("parse", s)')
      BY <1>2, <1>6, <3>1, OneStays
    <3>3. data[FramesBuf(Connect)] = <<>>
      <4>1. Unopened(Connect)
        BY <1>2, ReadyFacts DEF Kept
      <4> QED
        BY <2>3, <4>1 DEF Unopened
    <3> QED
      BY <1>9, <2>1, <3>2, <3>3
  <2> QED
    BY <2>2, <2>3
<1> QED
  BY <1>1, <1>7, <1>10, <1>11

\* After hands on what it should and loses nothing.
LEMMA AfterConforms ==
  ASSUME Ready, After PROVE Conforming'
<1>1. /\ Quiet /\ task # <<>> /\ Top.op = "after" /\ Then(<<>>) /\ seen' = seen /\ ~Closed
      /\ Structured /\ MemInv /\ ses \in SessionRecord /\ Top.id \in Stream
      /\ ses.role[Top.id] \in {"control", "connect"}
  BY TopRole, ReadyFacts DEF After, Doing, Ready, RoleFits
<1>2. PICK s \in Stream : s = Top.id
  BY <1>1
<1> DEFINE r == [ses EXCEPT !.shut = @ \cup {s}]
<1>3. r \in SessionRecord
  BY <1>1, OtherFields
<1> HIDE DEF r
<1>4. \/ s \notin ses.bad /\ UNCHANGED <<memVars, ses>>
      \/ MarkClosed(ses, "protocol", {})
      \/ MarkClosed(r, "malformed", {})
      \/ MarkClosed(ses, IF Unfinished THEN "protocol" ELSE "peer", {})
  BY <1>1, <1>2 DEF After, r
<1>5. ASSUME \/ MarkClosed(ses, "protocol", {})
             \/ MarkClosed(r, "malformed", {})
             \/ MarkClosed(ses, IF Unfinished THEN "protocol" ELSE "peer", {})
      PROVE  FALSE
  <2> DEFINE cause == IF Unfinished THEN "protocol" ELSE "peer"
  <2>1. "protocol" \in Causes \ {"none"} /\ "malformed" \in Causes \ {"none"} /\ cause \in Causes \ {"none"}
    BY DEF Causes
  <2>2. MarkClosed(ses, "protocol", {}) \/ MarkClosed(r, "malformed", {}) \/ MarkClosed(ses, cause, {})
    BY <1>5
  <2> HIDE DEF cause
  <2> QED
    BY <1>1, <1>3, <2>1, <2>2, NotClosing
<1>6. s \notin ses.bad /\ data' = data /\ ses' = ses
  BY <1>4, <1>5 DEF memVars
<1>7. /\ \A t \in Stream : t # s => Still(t)
      /\ ~Doing("frame")' /\ ~Doing("recv")' /\ ~Doing("cut")' /\ ~Doing("capsule")' /\ ~Doing("taken")'
      /\ (Scans => Scans') /\ (Awaits("parse", s) => Awaits("parse", s)')
  BY <1>1, <1>2, NoneStays DEF Rest
<1>8. Kept(s)'
  <2>1. Kept(s) /\ Framed(s)
    BY <1>1, <1>2, ReadyFacts DEF Framed, Roles1, Stream
  <2>2. Follows(s) /\ Headed(s) /\ Parsed(s)
    BY <2>1 DEF Kept, Followed
  <2>3. In(s) = <<>> /\ In(s)' = <<>> /\ InHand(s) = <<>> /\ InHand(s)' = <<>>
    BY <1>1, <1>7 DEF In, InHand, Reading, Doing
  <2>4. Received(s)' = Received(s) /\ Sent(s)' = Sent(s) /\ (Waits(s)' <=> Waits(s)) /\ (Framed(s)' <=> Framed(s))
    BY <1>1, <1>6 DEF Quiet, Received, Sent, Waits, Framed
  <2>5. Follows(s)' /\ Headed(s)' /\ Doomed(s)'
    BY <1>1, <1>6, <2>2, <2>3, <2>4 DEF Follows, Headed, Doomed
  <2>6. Parsed(s)'
    <3>1. Whole(FramesBuf(s))' <=> Whole(FramesBuf(s))
      BY <1>6 DEF Whole, NextUnit
    <3> QED
      BY <1>6, <1>7, <2>2, <2>4, <3>1 DEF Parsed
  <2>7. Roles1' /\ Apps' /\ (ses.role[s] \in {"control", "connect"})'
    BY <1>1, <1>2, <1>6, ReadyFacts
  <2> QED
    BY <2>5, <2>6, <2>7, KeptFramed
<1>9. \A t \in Stream \ {s} : Kept(t)'
  BY <1>1, <1>6, <1>7, OthersKept
<1>10. Capsules'
  <2>1. CapsuleInHand' = CapsuleInHand
    BY <1>1, <1>7 DEF CapsuleInHand, Doing
  <2> QED
    BY <1>1, <1>6, <1>7, <2>1, CapsulesSame, ReadyFacts
<1>11. Copied'
  BY <1>7 DEF Copied
<1> QED
  BY <1>8, <1>9, <1>10, <1>11 DEF Conforming

\* Every turn hands on what it should.
LEMMA ProcessingConforms ==
  ASSUME Ready, Processing PROVE Conforming'
<1>1. CASE RecvFrames
  BY <1>1, RecvFramesConforms
<1>2. CASE RecvDiscarded
  BY <1>2, RecvDiscardedConforms
<1>3. CASE RecvData
  BY <1>3, RecvDataConforms
<1>4. CASE RecvPending
  BY <1>4, RecvPendingConforms
<1>5. ASSUME NEW s \in Unis \cup Bidis,
             ResolveLater(s) \/ ResolveCritical(s) \/ ResolveData(s) \/ ResolveIgnored(s)
      PROVE  Conforming'
  BY <1>5, ResolveLaterConforms, ResolveCriticalConforms, ResolveDataConforms, ResolveIgnoredConforms
<1>6. CASE Parse
  BY <1>6, ParseConforms
<1>7. CASE ConsumeFrame
  BY <1>7, ConsumeFrameConforms
<1>8. ASSUME NEW s \in Unis, ControlSettings(s) \/ ControlFrame(s) PROVE Conforming'
  BY <1>8, ControlSettingsConforms, ControlFrameConforms
<1>9. CASE ConnectHeaders \/ ConnectOther
  BY <1>9, ConnectFrameConforms
<1>10. CASE ConnectData
  BY <1>10, ConnectDataConforms
<1>11. CASE Drop
  BY <1>11, DropConforms
<1>12. ASSUME LimitExceeded PROVE FALSE
  BY <1>12, ReadyFacts DEF LimitExceeded
<1>13. CASE Scan
  BY <1>13, ScanConforms
<1>14. CASE CutCapsule
  BY <1>14, CutCapsuleConforms
<1>15. CASE HandleCapsule
  BY <1>15, HandleCapsuleConforms
<1>16. CASE After
  BY <1>16, AfterConforms
<1> QED
  BY <1>1, <1>2, <1>3, <1>4, <1>5, <1>6, <1>7, <1>8, <1>9, <1>10, <1>11, <1>12, <1>13, <1>14,
     <1>15, <1>16 DEF Processing

-----------------------------------------------------------------------------
(* Between the chunks *)

\* Nothing is done, nothing waits.
LEMMA NothingDoing ==
  ASSUME task = <<>>
  PROVE  /\ \A op : ~Doing(op)
         /\ \A op, t : ~Awaits(op, t)
         /\ ~Scans /\ CapsuleInHand = <<>>
         /\ \A t : In(t) = <<>> /\ InHand(t) = <<>> /\ ~Reading(t)
<1>1. \A op : ~Doing(op)
  BY DEF Doing
<1>2. \A i \in 1 .. Len(task) : FALSE
  <2>1. Len(task) = 0
    OBVIOUS
  <2> QED
    BY <2>1
<1> QED
  BY <1>1, <1>2 DEF Awaits, Scans, CapsuleInHand, In, InHand, Reading

\* Likewise after a step.
LEMMA StillNothing ==
  ASSUME task' = <<>>
  PROVE  /\ \A op : ~Doing(op)'
         /\ CapsuleInHand' = <<>>
         /\ \A t : In(t)' = <<>> /\ InHand(t)' = <<>> /\ (~Reading(t))'
<1>1. \A op : ~Doing(op)'
  BY DEF Doing
<1> QED
  BY <1>1 DEF CapsuleInHand, In, InHand, Reading

\* A step that leaves the session idle, and all streams but those of S alone.
LEMMA IdleConforms ==
  ASSUME Ready, task = <<>>, task' = <<>>, NEW S, \A t \in S : t \in Stream => Kept(t)',
         script' = script, server' = server, ses'.settings = ses.settings, ses'.bad = ses.bad,
         seen'.frames = seen.frames, seen'.capsules = seen.capsules,
         data'[CapsuleBuf] = data[CapsuleBuf],
         \A t \in Stream \ S :
           /\ ses'.role[t] = ses.role[t] /\ seen'.app[t] = seen.app[t] /\ peer'[t] = peer[t]
           /\ data'[FramesBuf(t)] = data[FramesBuf(t)] /\ data'[ClassBuf(t)] = data[ClassBuf(t)]
  PROVE  Conforming'
<1>1. ASSUME NEW t \in Stream PROVE Still(t)
  BY NothingDoing, StillNothing DEF Still
<1>2. ASSUME NEW t \in Stream \ S PROVE Kept(t)'
  <2>1. Same(t)
    BY ReadyFacts DEF Same, Waits
  <2>2. Still(t)
    BY <1>1
  <2> QED
    BY <2>1, <2>2, KeptSame, ReadyFacts
<1>3. Capsules'
  BY NothingDoing, StillNothing, CapsulesSame, ReadyFacts
<1>4. Copied'
  BY StillNothing DEF Copied
<1> QED
  BY <1>2, <1>3, <1>4 DEF Conforming

\* Pruning, losing the connection, another session, and the end of the sending side.
LEMMA BetweenConforms ==
  ASSUME Ready, Prune \/ ConnectionLost \/ OtherSession \/ \E s \in Bidis : FinishSend(s)
  PROVE  Conforming'
<1>1. /\ task = <<>> /\ task' = <<>> /\ MemInv /\ ses \in SessionRecord /\ Connect \in Stream
      /\ peer' = peer /\ script' = script /\ server' = server /\ seen' = seen
  BY ReadyFacts DEF Prune, ConnectionLost, OtherSession, FinishSend, Idle, Stream
<1>2. CASE Prune
  <2> DEFINE gone == {s \in Stream : Prunable(s)}
             role == [s \in Stream |-> IF s \in gone THEN "none" ELSE ses.role[s]]
             bufs == {FramesBuf(s) : s \in gone} \cup {ClassBuf(s) : s \in gone}
  <2>1. ses' = [ses EXCEPT !.role = role] /\ Cleared(bufs)
    BY <1>2 DEF Prune
  <2>2. bufs \in SUBSET Buffer /\ CapsuleBuf \notin bufs /\ CapsuleBuf \in Buffer
    BY Buffers
  <2>3. ASSUME NEW t \in Stream \ gone PROVE FramesBuf(t) \notin bufs /\ ClassBuf(t) \notin bufs
    BY Buffers
  <2>4. \A t \in Stream : role[t] = IF t \in gone THEN "none" ELSE ses.role[t]
    OBVIOUS
  <2>5. \A t \in gone : t \in Stream \ {Connect} /\ t \in ses.dead
    BY DEF Prunable
  <2> HIDE DEF role, bufs, gone
  <2>6. ses'.role = role /\ ses'.bad = ses.bad /\ ses'.settings = ses.settings /\ ses'.dead = ses.dead
    BY <1>1, <2>1 DEF SessionRecord
  <2>7. \A b \in Buffer : b \notin bufs => data'[b] = data[b]
    BY <1>1, <2>1, <2>2, BytesAfter
  <2>8. ASSUME NEW t \in gone PROVE Kept(t)'
    <3>1. t \in Stream /\ t \in Stream \ {Connect} /\ (ses.role[t] = "none")' /\ (t \in ses.dead)'
      BY <2>4, <2>5, <2>6, <2>8
    <3>2. Delivered(t)
      BY <3>1, ReadyFacts DEF Kept
    <3>3. In(t)' = In(t) /\ (Reading(t)' <=> Reading(t))
      BY <1>1, NothingDoing, StillNothing
    <3>4. Delivered(t)'
      <4>1. Received(t)' = Received(t)
        BY <1>1 DEF Received
      <4> QED
        BY <1>1, <3>2, <3>3, <4>1 DEF Delivered, Given
    <3> QED
      BY <3>1, <3>4, KeptGone
  <2>9. ASSUME NEW t \in Stream \ gone
        PROVE  /\ ses'.role[t] = ses.role[t]
               /\ data'[FramesBuf(t)] = data[FramesBuf(t)] /\ data'[ClassBuf(t)] = data[ClassBuf(t)]
    BY <2>3, <2>4, <2>6, <2>7, Buffers
  <2> QED
    BY <1>1, <2>2, <2>6, <2>7, <2>8, <2>9, IdleConforms
<1>3. ASSUME ConnectionLost PROVE FALSE
  <2>1. "peer" \in Causes \ {"none"} /\ MarkClosed(ses, "peer", {})
    BY <1>3 DEF Causes, ConnectionLost
  <2> QED
    BY <1>1, <2>1, NotClosing
<1>4. CASE OtherSession
  <2>1. OtherBuf \in Buffer /\ CapsuleBuf \in Buffer /\ CapsuleBuf # OtherBuf
    BY Buffers
  <2>2. \A b \in Buffer : b # OtherBuf => data'[b] = data[b]
    <3> DEFINE zeros == [i \in 1 .. OtherSize |-> 0]
               one == OtherBuf
               cs == {one}
    <3>1. zeros \in Seq(Byte)
      BY PeerAssumption
    <3>2. Extended(one, zeros) \/ Cleared(cs)
      BY <1>4 DEF OtherSession
    <3>3. cs \in SUBSET Buffer /\ (\A b : b \in cs <=> b = one) /\ one \in Buffer
      BY <2>1
    <3> HIDE DEF zeros, one, cs
    <3>4. CASE Extended(one, zeros)
      <4>1. \A b \in Buffer \ {one} : data'[b] = data[b]
        BY <1>1, <3>1, <3>3, <3>4, BytesAfter
      <4> QED
        BY <4>1 DEF one
    <3>5. CASE Cleared(cs)
      <4>1. \A b \in Buffer : data'[b] = IF b \in cs THEN <<>> ELSE data[b]
        BY <1>1, <3>3, <3>5, BytesAfter
      <4> QED
        BY <3>3, <4>1 DEF one
    <3> QED
      BY <3>2, <3>4, <3>5
  <2>3. ses' = ses
    BY <1>4 DEF OtherSession
  <2>4. \A t \in Stream : data'[FramesBuf(t)] = data[FramesBuf(t)] /\ data'[ClassBuf(t)] = data[ClassBuf(t)]
    BY <2>2, Buffers
  <2> DEFINE S == {}
  <2>5. \A t \in S : FALSE
    OBVIOUS
  <2> HIDE DEF S
  <2> QED
    BY <1>1, <2>1, <2>2, <2>3, <2>4, <2>5, IdleConforms
<1>5. CASE \E s \in Bidis : FinishSend(s)
  <2>1. PICK s \in Bidis : FinishSend(s)
    BY <1>5
  <2> DEFINE sent == ses.finSent \cup {s}
  <2>2. ses' = [ses EXCEPT !.finSent = sent] /\ data' = data
    BY <2>1 DEF FinishSend, memVars
  <2> HIDE DEF sent
  <2>3. ses'.role = ses.role /\ ses'.bad = ses.bad /\ ses'.settings = ses.settings
    BY <1>1, <2>2 DEF SessionRecord
  <2> DEFINE S == {}
  <2>4. \A t \in S : FALSE
    OBVIOUS
  <2> HIDE DEF S
  <2> QED
    BY <1>1, <2>2, <2>3, <2>4, IdleConforms
<1> QED
  BY <1>2, <1>3, <1>4, <1>5

\* A step that changes nothing.
LEMMA StutterConforms ==
  ASSUME Conforming, UNCHANGED vars PROVE Conforming'
<1> USE DEF vars, memVars
<1>1. /\ data' = data /\ peer' = peer /\ script' = script /\ server' = server /\ ses' = ses
      /\ seen' = seen /\ task' = task
  OBVIOUS
<1>2. ASSUME NEW t \in Stream PROVE Kept(t)'
  <2>1. Kept(t)
    BY DEF Conforming
  <2>2. /\ Received(t)' = Received(t) /\ Sent(t)' = Sent(t) /\ Framed(t)' = Framed(t)
        /\ Whole(FramesBuf(t))' = Whole(FramesBuf(t)) /\ Waits(t)' = Waits(t)
        /\ In(t)' = In(t) /\ InHand(t)' = InHand(t) /\ Reading(t)' = Reading(t)
        /\ \A op : Awaits(op, t)' = Awaits(op, t)
    BY <1>1 DEF Received, Sent, Framed, Whole, NextUnit, Waits, In, InHand, Reading, Doing, Top, Payload, Awaits
  <2>3. Followed(t)' /\ Headed(t)' /\ Fresh(t)' /\ Pending(t)'
    BY <1>1, <2>1, <2>2 DEF Kept, Followed, Follows, Headed, Fresh, Pending, Blank
  <2>4. Unopened(t)' /\ Parsed(t)' /\ Doomed(t)' /\ Delivered(t)'
    BY <1>1, <2>1, <2>2 DEF Kept, Unopened, Parsed, Doomed, Delivered, Given
  <2> QED
    BY <2>3, <2>4 DEF Kept
<1>3. Capsules'
  BY <1>1 DEF Conforming, Capsules, CapsuleInHand, Doing, Top, Whole, NextUnit
<1>4. Copied'
  BY <1>1 DEF Conforming, Copied, Doing, Top, Whole, NextUnit, Waits, Payload
<1> QED
  BY <1>2, <1>3, <1>4 DEF Conforming

\* What has been read grows by what is read.
LEMMA ReadGrows ==
  ASSUME NEW d \in Seq(Byte), NEW p \in Nat, NEW n \in Nat, p + n <= Len(d)
  PROVE  /\ SubSeq(d, 1, p + n) = SubSeq(d, 1, p) \o SubSeq(d, p + 1, p + n)
         /\ SubSeq(d, p + 1, p + n) \in Seq(Byte)
         /\ SubSeq(d, 1, 0) = <<>>
<1> DEFINE q == p + n
           one == 1
<1>1. one \in 1 .. Len(d) + 1 /\ p \in one - 1 .. Len(d) /\ q \in p .. Len(d)
  OBVIOUS
<1>2. SubSeq(d, p + 1, q) \in Seq(Byte)
  <2>1. p + 1 \in Int /\ q \in Int /\ \A i \in p + 1 .. q : d[i] \in Byte
    OBVIOUS
  <2> HIDE DEF q
  <2> QED
    BY <2>1, SubSeqProperties
<1>3. SubSeq(d, 1, 0) = <<>>
  OBVIOUS
<1> HIDE DEF q, one
<1>4. SubSeq(d, one, p) \o SubSeq(d, p + 1, q) = SubSeq(d, one, q)
  BY <1>1, ConcatAdjacentSubSeq
<1> QED
  BY <1>2, <1>3, <1>4 DEF q, one

\* A stream that is or becomes pending has been kept whole.
LEMMA PendingBlank ==
  ASSUME Ready, task = <<>>, NEW s \in Stream, Readable(s), RoleOf(s) \in {"pending_uni", "pending_bidi"}
  PROVE  Blank(s) /\ Received(s) = data[ClassBuf(s)]
<1>1. Kept(s) /\ In(s) = <<>>
  BY NothingDoing, ReadyFacts
<1>2. data[ClassBuf(s)] \in Seq(Byte) /\ Structured
  BY ReadyBytes DEF Ready
<1>3. CASE ses.role[s] = "none"
  <2>1. s # Connect /\ s \notin ses.dead /\ peer[s].end = "open"
    BY <1>2, <1>3, ReadRole DEF Readable
  <2>2. Blank(s) /\ data[ClassBuf(s)] = <<>> /\ peer[s].pos = 0
    BY <1>1, <1>3, <2>1 DEF Kept, Fresh
  <2>3. Received(s) = <<>>
    <3> DEFINE d == script.of[s]
               p == 0
    <3>1. d \in Seq(Byte) /\ 0 \in Nat /\ 0 + 0 <= Len(d)
      BY <1>2, PeerAssumption DEF Structured, Typed
    <3>2. Received(s) = SubSeq(d, 1, 0)
      BY <2>2 DEF Received
    <3> HIDE DEF d
    <3> QED
      BY <3>1, <3>2, ReadGrows
  <2> QED
    BY <2>2, <2>3
<1>4. CASE ses.role[s] # "none"
  <2>1. ses.role[s] \in {"pending_uni", "pending_bidi"}
    BY <1>2, <1>4, ReadRole
  <2>2. Blank(s) /\ Received(s) = data[ClassBuf(s)] \o <<>>
    BY <1>1, <2>1 DEF Kept, Pending
  <2> QED
    BY <1>2, <2>2, ConcatEmptySeq
<1> QED
  BY <1>3, <1>4

\* A data stream, between the chunks.
LEMMA DataGiven ==
  ASSUME Ready, task = <<>>, NEW s \in Stream, RoleOf(s) = "data"
  PROVE  ses.role[s] = "data" /\ Given(s) /\ In(s) = <<>> /\ ~Reading(s)
<1>1. ses.role[s] = "data"
  BY ReadRole DEF Ready
<1>2. seen.app[s].known /\ Kept(s)
  BY <1>1, ReadyFacts DEF Apps
<1> QED
  BY <1>1, <1>2, NothingDoing DEF Kept, Delivered

\* A reset ends a data stream with the code it is reported with.
LEMMA OnResetConforms ==
  ASSUME Ready, NEW s \in Stream, NEW code \in Int, OnReset(s, code) PROVE Conforming'
<1> DEFINE role == RoleOf(s)
           more == ses.dead \cup {s}
           known == [ses EXCEPT !.role[s] = role, !.dead = more]
           say == "reset"
<1>1. /\ task = <<>> /\ task' = <<>> /\ Structured /\ MemInv /\ ses \in SessionRecord
      /\ seen \in SeenRecord /\ Readable(s) /\ script' = script /\ server' = server
      /\ peer \in [Stream -> PeerRecord] /\ peer[s].end = "open" /\ more \in SUBSET Stream /\ s \in more
  BY ReadyFacts DEF OnReset, Readable, Idle, Ready, Structured, Typed, SessionRecord
<1>2. role \in RoleName
  BY <1>1, ReadRole
<1>3. /\ peer' = [peer EXCEPT ![s].end = say, ![s].code = code]
      /\ \/ /\ role = "data" /\ ses' = known /\ data' = data
            /\ seen' = [seen EXCEPT !.app[s].end = say, !.app[s].code = Reported(code)]
         \/ MarkClosed(known, "protocol", {})
         \/ MarkClosed(known, "peer", {})
         \/ /\ role \in {"pending_uni", "pending_bidi", "ignored"}
            /\ ses' = known /\ data' = data /\ seen' = seen
  BY DEF OnReset, memVars, Reported
<1> HIDE DEF role, more, say
<1>4. /\ known \in SessionRecord /\ known.role[s] = role /\ \A t \in Stream \ {s} : known.role[t] = ses.role[t]
      /\ known.bad = ses.bad /\ known.settings = ses.settings /\ s \in known.dead
  BY <1>1, <1>2 DEF SessionRecord
<1> HIDE DEF known
<1>5. /\ peer'[s].pos = peer[s].pos /\ peer'[s].end = "reset" /\ peer'[s].code = code
      /\ \A t \in Stream \ {s} : peer'[t] = peer[t]
  BY <1>1, <1>3 DEF PeerRecord, say
<1>6. Received(s)' = Received(s)
  BY <1>1, <1>5 DEF Received
<1>7. ASSUME MarkClosed(known, "protocol", {}) \/ MarkClosed(known, "peer", {}) PROVE FALSE
  <2>1. "protocol" \in Causes \ {"none"} /\ "peer" \in Causes \ {"none"}
    BY DEF Causes
  <2> QED
    BY <1>4, <1>7, <2>1, NotClosing
<1>8. In(s)' = <<>> /\ ~Reading(s)'
  BY <1>1, StillNothing
<1> DEFINE S == {s}
<1>9. S \subseteq Stream /\ s \in S /\ \A t \in S : t = s
  OBVIOUS
<1>10. \A t \in Stream \ S : t \in Stream \ {s}
  OBVIOUS
<1> HIDE DEF S
<1>11. CASE /\ role = "data" /\ ses' = known /\ data' = data
            /\ seen' = [seen EXCEPT !.app[s].end = say, !.app[s].code = Reported(code)]
  <2>1. /\ seen'.frames = seen.frames /\ seen'.capsules = seen.capsules
        /\ seen'.app[s].data = seen.app[s].data /\ seen'.app[s].end = "reset"
        /\ seen'.app[s].code = Reported(code)
        /\ \A t \in Stream \ {s} : seen'.app[t] = seen.app[t]
    <3> DEFINE r == Reported(code)
               old == seen.app[s]
               new == [old EXCEPT !.end = say, !.code = r]
    <3>1. seen' = [seen EXCEPT !.app[s] = new]
      BY <1>11
    <3>2. old \in AppRecord
      BY <1>1 DEF SeenRecord
    <3> HIDE DEF r, old
    <3>3. new.data = old.data /\ new.end = say /\ new.code = r
      BY <3>2 DEF AppRecord
    <3> HIDE DEF new
    <3>4. /\ seen'.frames = seen.frames /\ seen'.capsules = seen.capsules
          /\ seen'.app[s] = new /\ \A t \in Stream \ {s} : seen'.app[t] = seen.app[t]
      BY <1>1, <3>1 DEF SeenRecord
    <3> QED
      BY <3>3, <3>4 DEF r, old, say
  <2>2. Given(s) /\ In(s) = <<>> /\ ~Reading(s)
    BY <1>1, <1>11, DataGiven DEF role
  <2>3. Given(s)'
    <3>1. /\ ReadVarint(Received(s)).len > 0 /\ ReadVarint(AfterVarint(Received(s))).len > 0
          /\ AfterVarint(AfterVarint(Received(s))) = seen.app[s].data \o <<>>
      BY <2>2 DEF Given
    <3>2. (ReadVarint(Received(s)).len > 0 /\ ReadVarint(AfterVarint(Received(s))).len > 0)'
      BY <1>6, <3>1
    <3>3. (AfterVarint(AfterVarint(Received(s))) = seen.app[s].data \o In(s))'
      BY <1>6, <1>8, <2>1, <3>1
    <3>4. seen'.app[s].end = peer'[s].end /\ seen'.app[s].code = Reported(peer'[s].code)
      BY <1>5, <2>1
    <3> QED
      BY <1>8, <3>2, <3>3, <3>4 DEF Given
  <2>4. Kept(s)'
    BY <1>4, <1>11, <2>3, KeptData, ReadyFacts
  <2> QED
    BY <1>1, <1>4, <1>5, <1>9, <1>10, <1>11, <2>1, <2>4, IdleConforms
<1>12. CASE /\ role \in {"pending_uni", "pending_bidi", "ignored"}
            /\ ses' = known /\ data' = data /\ seen' = seen
  <2>1. CASE role = "ignored"
    <3>1. Kept(s)'
      BY <1>4, <1>12, <2>1, KeptDiscarded, ReadyFacts
    <3> QED
      BY <1>1, <1>4, <1>5, <1>9, <1>10, <1>12, <3>1, IdleConforms
  <2>2. CASE role \in {"pending_uni", "pending_bidi"}
    <3>1. Blank(s) /\ Received(s) = data[ClassBuf(s)] /\ data[ClassBuf(s)] \in Seq(Byte)
      BY <1>1, <2>2, PendingBlank, ReadyBytes DEF role
    <3>2. Blank(s)'
      BY <1>4, <1>12, <3>1 DEF Blank
    <3>3. (Received(s) = data[ClassBuf(s)] \o In(s))'
      <4> DEFINE c == data[ClassBuf(s)]
      <4>1. data'[ClassBuf(s)] = c /\ Received(s)' = c /\ c \in Seq(Byte)
        BY <1>6, <1>12, <3>1
      <4> HIDE DEF c
      <4>2. c \o <<>> = c
        BY <4>1, ConcatEmptySeq
      <4> QED
        BY <1>8, <4>1, <4>2
    <3>4. Kept(s)'
      BY <1>4, <1>12, <2>2, <3>2, <3>3, KeptPending, ReadyFacts
    <3> QED
      BY <1>1, <1>4, <1>5, <1>9, <1>10, <1>12, <3>4, IdleConforms
  <2> QED
    BY <1>12, <2>1, <2>2
<1> QED
  BY <1>3, <1>7, <1>11, <1>12

\* A chunk is in hand, and it is what has been read since.
LEMMA ChunkRead ==
  ASSUME Ready, NEW s \in Stream, NEW n \in {0} \cup ChunkSizes, NEW fin \in BOOLEAN,
         NEW pressed \in BOOLEAN, OnReadable(s, n, fin, pressed)
  PROVE  /\ task = <<>> /\ Readable(s) /\ data' = data /\ seen' = seen /\ server' = server
         /\ ses'.role[s] = RoleOf(s) /\ (\A t \in Stream \ {s} : ses'.role[t] = ses.role[t])
         /\ ses'.bad = ses.bad /\ ses'.settings = ses.settings
         /\ In(s)' \in Seq(Byte) /\ Received(s)' = Received(s) \o In(s)' /\ Reading(s)'
         /\ (\A op : op # "recv" => ~Doing(op)')
         /\ (\A t \in Stream \ {s} : Same(t) /\ Still(t))
<1> DEFINE role == RoleOf(s)
<1>1. /\ task = <<>> /\ Readable(s) /\ data' = data /\ seen' = seen /\ server' = server
      /\ script' = script /\ ses' = [ses EXCEPT !.role[s] = role] /\ peer[s].pos + n <= Len(script.of[s])
      /\ Structured
  BY DEF OnReadable, Readable, Idle, memVars, Ready
<1>2. role \in RoleName
  BY <1>1, ReadRole
<1> HIDE DEF role
<1>3. /\ ses'.role[s] = role /\ \A t \in Stream \ {s} : ses'.role[t] = ses.role[t]
      /\ ses'.bad = ses.bad /\ ses'.settings = ses.settings /\ ses'.dead = ses.dead
  BY <1>1, <1>2, ReadyFacts DEF SessionRecord
<1>4. /\ Doing("recv")' /\ Top.id' = s /\ peer'[s].pos = peer[s].pos + n
      /\ Top.bytes' = SubSeq(script.of[s], peer[s].pos + 1, peer[s].pos + n)
      /\ \A t \in Stream \ {s} : peer'[t] = peer[t]
  BY <1>1, ReadTop
<1>5. In(s)' \in Seq(Byte) /\ Received(s)' = Received(s) \o In(s)'
  <2> DEFINE d == script.of[s]
             p == peer[s].pos
  <2>1. d \in Seq(Byte) /\ p \in Nat /\ n \in Nat /\ p + n <= Len(d)
    BY <1>1, PeerAssumption DEF Structured, Typed, PeerRecord
  <2>2. In(s)' = SubSeq(d, p + 1, p + n) /\ Received(s) = SubSeq(d, 1, p)
    BY <1>4 DEF In, Reading, Received
  <2>3. Received(s)' = SubSeq(d, 1, p + n)
    BY <1>1, <1>4 DEF Received
  <2> HIDE DEF d, p
  <2>4. /\ SubSeq(d, 1, p + n) = SubSeq(d, 1, p) \o SubSeq(d, p + 1, p + n)
        /\ SubSeq(d, p + 1, p + n) \in Seq(Byte)
    BY <2>1, ReadGrows, Zenon
  <2> QED
    BY <2>2, <2>3, <2>4, Zenon
<1>6. ASSUME NEW op, op # "recv" PROVE ~Doing(op)'
  BY <1>4, <1>6 DEF Doing
<1>7. ASSUME NEW t \in Stream \ {s} PROVE Same(t) /\ Still(t)
  <2>1. Same(t)
    BY <1>1, <1>3, <1>4 DEF Same, Waits
  <2>2. In(t)' = <<>> /\ InHand(t)' = <<>> /\ ~Reading(t)'
    BY <1>4, <1>6 DEF In, InHand, Reading
  <2> QED
    BY <1>1, <2>1, <2>2, NothingDoing DEF Still
<1>8. Reading(s)'
  BY <1>4 DEF Reading
<1> QED
  BY <1>1, <1>3, <1>5, <1>6, <1>7, <1>8 DEF role

\* What follows the type of a control stream, and what is sent on CONNECT, grow alike.
LEMMA SentGrows ==
  ASSUME Ready, NEW s \in Stream, Framed(s), Received(s)' = Received(s) \o In(s)', In(s)' \in Seq(Byte)
  PROVE  Sent(s)' = Sent(s) \o In(s)' /\ (Headed(s) /\ ses'.role[s] = ses.role[s] => Headed(s)')
<1> DEFINE r == Received(s)
           x == In(s)'
<1>1. r \in Seq(Byte) /\ x \in Seq(Byte) /\ Received(s)' = r \o x /\ Kept(s)
  BY ReadyBytes, ReadyFacts
<1>2. ReadVarint(r).len > 0 => ReadVarint(r \o x) = ReadVarint(r) /\ AfterVarint(r \o x) = AfterVarint(r) \o x
  <2> HIDE DEF r, x
  <2> QED
    BY <1>1, AfterVarintGrows
<1> HIDE DEF x
<1>3. ses.role[s] = "control" => ReadVarint(r).len > 0
  BY <1>1 DEF Kept, Headed
<1>4. CASE s = Connect
  <2>1. Sent(s) = r /\ Sent(s)' = Received(s)' /\ ses.role[s] # "control"
    BY <1>4, ReadyFacts DEF Sent, Roles1
  <2> QED
    BY <1>1, <2>1 DEF Headed, x
<1>5. CASE s # Connect
  <2>1. ses.role[s] = "control" /\ Sent(s) = AfterVarint(r) /\ Sent(s)' = AfterVarint(Received(s)')
    BY <1>5 DEF Framed, Sent
  <2>2. ReadVarint(r \o x).len > 0 /\ Sent(s)' = Sent(s) \o x
    BY <1>1, <1>2, <1>3, <2>1
  <2>3. Headed(s)'
    BY <1>1, <2>2 DEF Headed
  <2> QED
    BY <2>2, <2>3 DEF x
<1> QED
  BY <1>4, <1>5

\* More of a stream of frames.
LEMMA ReadFramed ==
  ASSUME Ready, task = <<>>, NEW s \in Stream, RoleOf(s) \in {"control", "connect"},
         ses'.role[s] = RoleOf(s), data' = data, seen' = seen, server' = server,
         ses'.bad = ses.bad, ses'.settings = ses.settings,
         In(s)' \in Seq(Byte), Received(s)' = Received(s) \o In(s)', ~Doing("frame")'
  PROVE  Kept(s)'
<1>1. Framed(s) /\ Framed(s)' /\ Kept(s) /\ (s = Connect \/ ses'.role[s] = ses.role[s]) /\ (ses.role[s] \in {"control", "connect"})'
  BY ReadRole, ReadyFacts DEF Framed, Ready, Roles1, Stream
<1>2. Sent(s)' = Sent(s) \o In(s)' /\ (Headed(s) /\ ses'.role[s] = ses.role[s] => Headed(s)')
  BY <1>1, SentGrows
<1>3. Headed(s)'
  <2>1. CASE s = Connect
    BY <2>1, ReadyFacts DEF Headed, Roles1
  <2>2. CASE ses'.role[s] = ses.role[s]
    BY <1>1, <1>2, <2>2 DEF Kept
  <2> QED
    BY <1>1, <2>1, <2>2
<1>4. /\ Sent(s) \in Seq(Byte) /\ data[FramesBuf(s)] \in Seq(Byte) /\ seen.frames[s] \in Seq(UnitRecord)
  BY ReadyBytes
<1>5. In(s) = <<>> /\ InHand(s) = <<>> /\ InHand(s)' = <<>>
  BY NothingDoing DEF InHand
<1>6. Follows(s) /\ ~Awaits("parse", s) /\ ~Awaits("after", s)
  BY <1>1, NothingDoing DEF Kept, Followed
<1>7. Follows(s)'
  <2> DEFINE x == In(s)'
             sent == Sent(s)
             us == seen.frames[s]
             none == <<>>
             units == us \o none
             rest == data[FramesBuf(s)]
  <2>1. CASE s \in ses.bad
    <3>1. Behind(sent, us) /\ sent \in Seq(Byte) /\ x \in Seq(Byte)
      BY <1>4, <1>6, <2>1 DEF Follows
    <3> HIDE DEF x, sent, us
    <3>2. Behind(sent \o x, us)
      BY <3>1, BehindRead
    <3>3. (Behind(Sent(s), seen.frames[s]))'
      BY <1>2, <3>2 DEF x, sent, us
    <3> QED
      BY <2>1, <3>3 DEF Follows
  <2>2. CASE s \notin ses.bad
    <3>1. Leaves(sent, units, rest \o none) /\ rest \in Seq(Byte) /\ sent \in Seq(Byte) /\ x \in Seq(Byte)
      BY <1>4, <1>5, <1>6, <2>2 DEF Follows
    <3>2. Leaves(sent, units, rest)
      <4> HIDE DEF rest, sent, units
      <4>1. rest \o none = rest
        BY <3>1, ConcatEmptySeq
      <4> QED
        BY <3>1, <4>1
    <3> HIDE DEF x, sent, us, units, rest
    <3>3. Leaves(sent \o x, units, rest \o x)
      BY <3>1, <3>2, LeavesRead
    <3>4. (Leaves(Sent(s), seen.frames[s] \o InHand(s), data[FramesBuf(s)] \o In(s)))'
      BY <1>2, <1>5, <3>3 DEF x, sent, us, units, rest, none
    <3> QED
      BY <2>2, <3>4 DEF Follows
  <2> QED
    BY <2>1, <2>2
<1>8. Parsed(s)'
  <2>1. Whole(FramesBuf(s))' <=> Whole(FramesBuf(s))
    BY DEF Whole, NextUnit
  <2>2. ~Whole(FramesBuf(s)) \/ s \in ses.bad \/ Waits(s)
    BY <1>1, <1>6 DEF Kept, Parsed
  <2> QED
    BY <2>1, <2>2 DEF Parsed, Waits
<1>9. Doomed(s)'
  <2>1. ses.role[s] = "control" => s \notin ses.bad
    BY <1>1, <1>6 DEF Kept, Doomed
  <2>2. ses'.role[s] = "control" => ses.role[s] = "control"
    BY <1>1, ReadyFacts DEF Roles1
  <2> QED
    BY <2>1, <2>2 DEF Doomed
<1> QED
  BY <1>1, <1>3, <1>7, <1>8, <1>9, KeptFramed, ReadyFacts

\* More of a stream that is not classified.
LEMMA ReadPending ==
  ASSUME Ready, task = <<>>, NEW s \in Stream, Readable(s), RoleOf(s) \in {"pending_uni", "pending_bidi"},
         ses'.role[s] = RoleOf(s), data' = data, seen' = seen, ses'.bad = ses.bad,
         Received(s)' = Received(s) \o In(s)'
  PROVE  Kept(s)'
<1>1. Blank(s) /\ Received(s) = data[ClassBuf(s)]
  BY PendingBlank
<1>2. Blank(s)' /\ (Received(s) = data[ClassBuf(s)] \o In(s))'
  BY <1>1 DEF Blank
<1> QED
  BY <1>2, KeptPending, ReadyFacts

\* More of a data stream.
LEMMA ReadData ==
  ASSUME Ready, task = <<>>, NEW s \in Stream, Readable(s), RoleOf(s) = "data",
         ses'.role[s] = RoleOf(s), seen' = seen, Reading(s)',
         In(s)' \in Seq(Byte), Received(s)' = Received(s) \o In(s)'
  PROVE  Kept(s)'
<1>1. Given(s) /\ In(s) = <<>> /\ ~Reading(s)
  BY DataGiven
<1> DEFINE r == Received(s)
           x == In(s)'
           d == seen.app[s].data
<1>2. /\ ReadVarint(r).len > 0 /\ ReadVarint(AfterVarint(r)).len > 0
      /\ AfterVarint(AfterVarint(r)) = d \o <<>> /\ seen.app[s].end = "open"
  BY <1>1 DEF Given, Readable
<1>3. r \in Seq(Byte) /\ x \in Seq(Byte) /\ Received(s)' = r \o x /\ d \in Seq(Byte)
  BY ReadyBytes, ReadyFacts DEF SeenRecord, AppRecord
<1> HIDE DEF r, x, d
<1>4. d \o <<>> = d
  BY <1>3, ConcatEmptySeq
<1>5. /\ ReadVarint(r \o x).len > 0 /\ AfterVarint(r \o x) = AfterVarint(r) \o x /\ AfterVarint(r) \in Seq(Byte)
  BY <1>2, <1>3, AfterVarintGrows
<1> DEFINE q == AfterVarint(r)
<1>6. q \in Seq(Byte) /\ ReadVarint(q).len > 0 /\ AfterVarint(q) = d
  BY <1>2, <1>4, <1>5
<1>7. ReadVarint(q \o x).len > 0 /\ AfterVarint(q \o x) = d \o x
  <2> HIDE DEF q
  <2> QED
    BY <1>3, <1>6, AfterVarintGrows
<1>8. Given(s)'
  <2>1. (ReadVarint(Received(s)).len > 0)' /\ AfterVarint(Received(s))' = q \o x
    BY <1>3, <1>5
  <2>2. (ReadVarint(AfterVarint(Received(s))).len > 0)' /\ AfterVarint(AfterVarint(Received(s)))' = d \o x
    BY <1>7, <2>1
  <2>3. (seen.app[s].data \o In(s))' = d \o x
    BY DEF d, x
  <2> HIDE DEF q
  <2> QED
    BY <1>2, <2>1, <2>2, <2>3 DEF Given
<1> QED
  BY <1>8, KeptData, ReadyFacts

\* A chunk of any stream.
LEMMA OnReadableConforms ==
  ASSUME Ready, NEW s \in Stream, NEW n \in {0} \cup ChunkSizes, NEW fin \in BOOLEAN,
         NEW pressed \in BOOLEAN, OnReadable(s, n, fin, pressed)
  PROVE  Conforming'
<1>1. /\ task = <<>> /\ Readable(s) /\ data' = data /\ seen' = seen /\ server' = server
      /\ ses'.role[s] = RoleOf(s) /\ (\A t \in Stream \ {s} : ses'.role[t] = ses.role[t])
      /\ ses'.bad = ses.bad /\ ses'.settings = ses.settings
      /\ In(s)' \in Seq(Byte) /\ Received(s)' = Received(s) \o In(s)' /\ Reading(s)'
      /\ (\A op : op # "recv" => ~Doing(op)')
      /\ (\A t \in Stream \ {s} : Same(t) /\ Still(t))
  BY ChunkRead
<1>2. Kept(s)'
  <2>1. RoleOf(s) \in {"control", "connect", "data", "pending_uni", "pending_bidi", "qpack_encoder",
                       "qpack_decoder", "ignored"}
    BY ReadRole DEF Ready, RoleName
  <2>2. CASE RoleOf(s) \in {"control", "connect"}
    <3>1. ~Doing("frame")'
      BY <1>1
    <3> QED
      BY <1>1, <2>2, <3>1, ReadFramed
  <2>3. CASE RoleOf(s) \in {"pending_uni", "pending_bidi"}
    BY <1>1, <2>3, ReadPending
  <2>4. CASE RoleOf(s) = "data"
    BY <1>1, <2>4, ReadData
  <2>5. CASE RoleOf(s) \in {"qpack_encoder", "qpack_decoder", "ignored"}
    BY <1>1, <2>5, KeptDiscarded, ReadyFacts
  <2> QED
    BY <2>1, <2>2, <2>3, <2>4, <2>5
<1>3. ASSUME NEW t \in Stream \ {s} PROVE Kept(t)'
  <2>1. Same(t) /\ Still(t) /\ Kept(t) /\ MemInv /\ MemInv'
    BY <1>1, ReadyFacts
  <2> QED
    BY <2>1, KeptSame
<1>4. Capsules'
  <2>1. CapsuleInHand' = CapsuleInHand
    BY <1>1, NothingDoing DEF CapsuleInHand
  <2> QED
    BY <1>1, <2>1, NothingDoing, CapsulesSame, ReadyFacts
<1>5. Copied'
  BY <1>1 DEF Copied
<1> QED
  BY <1>2, <1>3, <1>4, <1>5 DEF Conforming

\* Nothing comes between two turns for a chunk.
LEMMA ChunkFirst ==
  ASSUME task # <<>>, Next PROVE Processing
<1>1. ~Idle
  BY DEF Idle
<1>2. \A s, n, fin, pressed : ~OnReadable(s, n, fin, pressed)
  BY <1>1 DEF OnReadable, Readable
<1>3. \A s, code : ~OnReset(s, code)
  BY <1>1 DEF OnReset, Readable
<1>4. ~Prune /\ ~ConnectionLost /\ ~OtherSession /\ (\A s : ~FinishSend(s))
  BY <1>1 DEF Prune, ConnectionLost, OtherSession, FinishSend
<1> QED
  BY <1>2, <1>3, <1>4 DEF Next

\* A session that is closed, or whose budget ran out, stays so.
LEMMA NeverReopens ==
  ASSUME Structured, ~Live, [Next]_vars PROVE ~Live'
<1>1. /\ ses \in SessionRecord /\ MemInv /\ {} \in SUBSET Buffer /\ "limit" \in Causes \ {"none"}
  BY DEF Structured, Typed, Causes
<1>2. CASE Doing("limit")
  <2>1. task # <<>> /\ Top.op = "limit"
    BY <1>2 DEF Doing
  <2>2. CASE UNCHANGED vars
    BY <1>2, <2>2 DEF Live, Doing, Top, vars
  <2>3. CASE Next
    <3>1. Processing
      BY <2>1, <2>3, ChunkFirst
    <3>2. LimitExceeded
      BY <2>1, <3>1 DEF Processing, RecvFrames, RecvDiscarded, RecvData, RecvPending, ResolveLater,
            ResolveCritical, ResolveData, ResolveIgnored, Resolving, Parse, ConsumeFrame,
            ControlSettings, ControlFrame, ConnectHeaders, ConnectData, ConnectOther, Handling, Drop,
            Scan, CutCapsule, HandleCapsule, After, Doing
    <3>3. Closed'
      BY <1>1, <3>2, ClosingSettles DEF LimitExceeded
    <3> QED
      BY <3>3 DEF Live
  <2> QED
    BY <2>2, <2>3
<1>3. CASE Closed /\ task # <<>>
  <2>1. Top.op \in Rest
    BY <1>3, TopRole
  <2>2. CASE UNCHANGED vars
    BY <1>3, <2>2 DEF Live, Closed, vars
  <2>3. CASE Next
    <3>1. Processing
      BY <1>3, <2>3, ChunkFirst
    <3>2. Parse \/ Drop \/ Scan \/ After
      BY <2>1, <3>1 DEF Processing, RecvFrames, RecvDiscarded, RecvData, RecvPending, ResolveLater,
            ResolveCritical, ResolveData, ResolveIgnored, Resolving, ConsumeFrame,
            ControlSettings, ControlFrame, ConnectHeaders, ConnectData, ConnectOther, Handling,
            CutCapsule, HandleCapsule, LimitExceeded, Doing, Rest
    <3>3. ses' = ses
      BY <1>3, <3>2 DEF Parse, Drop, Scan, After
    <3> QED
      BY <1>3, <3>3 DEF Live, Closed
  <2> QED
    BY <2>2, <2>3
<1>4. CASE Closed /\ task = <<>>
  <2>1. CASE UNCHANGED vars
    BY <1>4, <2>1 DEF Live, Closed, vars
  <2>2. CASE Next
    <3>1. ~Processing
      BY <1>4 DEF Processing, RecvFrames, RecvDiscarded, RecvData, RecvPending, ResolveLater,
            ResolveCritical, ResolveData, ResolveIgnored, Resolving, Parse, ConsumeFrame,
            ControlSettings, ControlFrame, ConnectHeaders, ConnectData, ConnectOther, Handling, Drop,
            Scan, CutCapsule, HandleCapsule, After, LimitExceeded, Doing
    <3>2. Prune \/ \E s \in Bidis : FinishSend(s)
      BY <1>4, <2>2, <3>1 DEF Next, OnReadable, OnReset, Readable, ConnectionLost, OtherSession
    <3>3. ses'.cause = ses.cause
      <4>1. CASE Prune
        <5> DEFINE roles == [s \in Stream |-> IF s \in {x \in Stream : Prunable(x)} THEN "none" ELSE ses.role[s]]
        <5>1. ses' = [ses EXCEPT !.role = roles]
          BY <4>1 DEF Prune
        <5> HIDE DEF roles
        <5> QED
          BY <1>1, <5>1 DEF SessionRecord
      <4>2. CASE \E s \in Bidis : FinishSend(s)
        BY <1>1, <4>2 DEF FinishSend, SessionRecord
      <4> QED
        BY <3>2, <4>1, <4>2
    <3> QED
      BY <1>4, <3>3 DEF Live, Closed
  <2> QED
    BY <2>1, <2>2
<1> QED
  BY <1>2, <1>3, <1>4 DEF Live

\* The invariant of the parsers.
ParsersInv == Structured /\ Ended /\ Trailed /\ Conforms

\* Nothing has been sent at first.
LEMMA ConformsInit ==
  ASSUME Init PROVE Conforms
<1>1. Structured /\ task = <<>> /\ MemInv
  BY StructuredInit DEF Init, Structured, Typed
<1>2. \A b \in Buffer : data[b] = <<>>
  BY DEF Init, MemInit
<1>3. /\ \A s \in Stream : /\ ses.role[s] = "none" /\ s \notin ses.bad /\ ~seen.app[s].known
                           /\ seen.frames[s] = <<>> /\ peer[s].pos = 0
      /\ seen.capsules = <<>> /\ script \in Scripts
  BY DEF Init
<1>4. Leaves(<<>>, <<>>, <<>>) /\ <<>> \o <<>> = <<>>
  <2> DEFINE e == <<>>
  <2>1. e \in Seq(Byte) /\ e \o e = e
    OBVIOUS
  <2> HIDE DEF e
  <2>2. Leaves(e, <<>>, e)
    BY <2>1, LeavesStart
  <2> QED
    BY <2>1, <2>2 DEF e
<1>5. ASSUME NEW s \in Stream PROVE Kept(s)
  <2>1. /\ FramesBuf(s) \in Buffer /\ ClassBuf(s) \in Buffer
        /\ data[FramesBuf(s)] = <<>> /\ data[ClassBuf(s)] = <<>>
    BY <1>2, Buffers
  <2>2. Blank(s) /\ peer[s].pos = 0
    BY <1>3, <2>1 DEF Blank
  <2>3. In(s) = <<>> /\ InHand(s) = <<>> /\ ~Whole(FramesBuf(s))
    BY <1>1, <2>1, NothingDoing, WholeIsFront
  <2>4. Followed(s)
    <3>1. CASE s = Connect
      <4> DEFINE d == script.of[s]
                 p == 0
      <4>1. d \in Seq(Byte)
        BY <1>3, PeerAssumption
      <4>2. Received(s) = SubSeq(d, 1, 0) /\ 0 \in Nat /\ 0 + 0 <= Len(d)
        BY <1>3, <4>1 DEF Received
      <4> HIDE DEF d
      <4>3. Received(s) = <<>>
        BY <4>1, <4>2, ReadGrows
      <4>4. Sent(s) = <<>>
        BY <3>1, <4>3 DEF Sent
      <4>5. Leaves(Sent(s), seen.frames[s] \o InHand(s), data[FramesBuf(s)] \o In(s))
        BY <1>3, <1>4, <2>1, <2>3, <4>4
      <4> QED
        BY <1>3, <4>5 DEF Followed, Follows
    <3>2. CASE s # Connect
      BY <1>3, <3>2 DEF Followed, Framed
    <3> QED
      BY <3>1, <3>2
  <2>5. Headed(s) /\ Fresh(s) /\ Pending(s) /\ Unopened(s) /\ Parsed(s) /\ Doomed(s) /\ Delivered(s)
    BY <1>3, <2>1, <2>2, <2>3 DEF Headed, Fresh, Pending, Unopened, Parsed, Doomed, Delivered
  <2> QED
    BY <2>4, <2>5 DEF Kept
<1>6. Capsules
  <2>1. CapsuleBuf \in Buffer /\ Connect \in Stream
    BY Buffers DEF Stream
  <2>2. data[CapsuleBuf] = <<>> /\ ~Whole(CapsuleBuf) /\ CapsuleInHand = <<>>
    BY <1>1, <1>2, <2>1, NothingDoing, WholeIsFront
  <2>3. DataOf(seen.frames[Connect]) = <<>>
    <3> DEFINE e == <<>>
               u == [ty |-> 0, val |-> e]
    <3>1. e \in Seq(UnitRecord) /\ u \in UnitRecord
      BY DEF UnitRecord
    <3> HIDE DEF u
    <3>2. DataOf(<<>>) = <<>>
      BY <3>1, DataOfAppend
    <3> QED
      BY <1>3, <2>1, <3>2
  <2> QED
    BY <1>3, <1>4, <2>2, <2>3 DEF Capsules
<1>7. Copied
  BY <1>1, NothingDoing DEF Copied
<1> QED
  BY <1>5, <1>6, <1>7 DEF Conforms

\* The invariant holds at first,
LEMMA ParsersInit ==
  ASSUME Init PROVE ParsersInv
<1>1. Structured /\ Conforms /\ task = <<>>
  BY StructuredInit, ConformsInit DEF Init
<1>2. Ended
  BY <1>1, NothingDoing DEF Ended
<1>3. Trailed
  BY <1>1 DEF Trailed
<1> QED
  BY <1>1, <1>2, <1>3 DEF ParsersInv

\* and every step keeps it.
LEMMA NextConforms ==
  ASSUME ParsersInv, [Next]_vars PROVE ParsersInv'
<1>1. Structured /\ Ended /\ Trailed /\ Conforms
  BY DEF ParsersInv
<1>2. Structured' /\ Settled /\ Ended' /\ Trailed'
  BY <1>1, NextStructured, NextEnded, NextTrailed
<1>3. ASSUME Live' PROVE Conforming'
  <2>1. Live
    BY <1>1, <1>3, NeverReopens
  <2>2. Conforming
    BY <1>1, <2>1 DEF Conforms, Conforming
  <2>3. Ready
    BY <1>1, <1>2, <1>3, <2>1, <2>2 DEF Ready
  <2>4. CASE Processing
    BY <2>3, <2>4, ProcessingConforms
  <2>5. CASE \E s \in Stream, n \in {0} \cup ChunkSizes, fin \in BOOLEAN, pressed \in BOOLEAN :
               OnReadable(s, n, fin, pressed)
    BY <2>3, <2>5, OnReadableConforms
  <2>6. CASE \E s \in Stream, code \in {ToHttp(c) : c \in PeerCodes} \cup RawCodes : OnReset(s, code)
    BY <2>3, <2>6, OnResetConforms, ResetCodes
  <2>7. CASE Prune \/ ConnectionLost \/ OtherSession \/ \E s \in Bidis : FinishSend(s)
    BY <2>3, <2>7, BetweenConforms
  <2>8. CASE UNCHANGED vars
    BY <2>2, <2>8, StutterConforms
  <2> QED
    BY <2>4, <2>5, <2>6, <2>7, <2>8 DEF Next
<1>4. Conforms'
  BY <1>3 DEF Conforms, Conforming
<1> QED
  BY <1>2, <1>4 DEF ParsersInv

\* Between chunks nothing is in hand, and the whole frames of a stream have been taken.
LEMMA IdleFrames ==
  ASSUME ParsersInv, Idle, ~Closed, NEW s \in Stream, Framed(s), ~Waits(s)
  PROVE  /\ s \notin ses.bad => seen.frames[s] = Units(Sent(s))
         /\ IsPrefix(seen.frames[s], Units(Sent(s)))
         /\ ses.role[s] = "control" => s \notin ses.bad
<1>1. /\ task = <<>> /\ Structured /\ Kept(s) /\ MemInv /\ In(s) = <<>> /\ InHand(s) = <<>>
      /\ ~Awaits("parse", s) /\ ~Awaits("after", s)
  BY NothingDoing DEF ParsersInv, Conforms, Live, Idle, Structured, Typed
<1>2. Follows(s) /\ Parsed(s) /\ Doomed(s)
  BY <1>1 DEF Kept, Followed
<1>3. ses.role[s] = "control" => s \notin ses.bad
  BY <1>1, <1>2 DEF Doomed
<1> DEFINE sent == Sent(s)
           us == seen.frames[s]
           rest == data[FramesBuf(s)]
           none == <<>>
<1>4. sent \in Seq(Byte) /\ rest \in Seq(Byte) /\ us \in Seq(UnitRecord) /\ none \in Seq(UnitRecord)
  <2>1. script \in Scripts /\ peer[s].pos \in Nat /\ peer[s].pos <= Len(script.of[s]) /\ seen \in SeenRecord
    BY <1>1 DEF Structured, Typed, PeerRecord
  <2> QED
    BY <1>1, <2>1, SentTyped DEF SeenRecord
<1>5. CASE s \in ses.bad
  <2>1. Behind(sent, us)
    BY <1>2, <1>5 DEF Follows
  <2> HIDE DEF sent, us
  <2>2. IsPrefix(us, Units(sent))
    BY <1>4, <2>1, BehindNow
  <2> QED
    BY <1>3, <1>5, <2>2 DEF sent, us
<1>6. CASE s \notin ses.bad
  <2>1. ~Whole(FramesBuf(s)) /\ FramesBuf(s) \in Buffer
    BY <1>1, <1>2, <1>6, Buffers DEF Parsed
  <2>2. ~Heads(rest)
    BY <1>1, <2>1, WholeIsFront
  <2>3. Leaves(sent, us \o none, rest \o none)
    BY <1>1, <1>2, <1>6 DEF Follows
  <2> HIDE DEF sent, us, rest
  <2>4. us \o none = us
    BY <1>4, ConcatEmptySeq
  <2>5. rest \o none = rest
    BY <1>4, ConcatEmptySeq
  <2>6. Leaves(sent, us, rest)
    BY <2>3, <2>4, <2>5
  <2>7. Units(sent) = us
    BY <1>4, <2>2, <2>6, LeavesDone
  <2>8. IsPrefix(us, us)
    <3>1. IsPrefix(us, us \o none)
      BY <1>4, PrefixOfJoin
    <3> QED
      BY <2>4, <3>1
  <2> QED
    BY <1>3, <1>6, <2>7, <2>8 DEF sent, us
<1> QED
  BY <1>5, <1>6

\* Likewise the whole capsules.
LEMMA IdleCapsules ==
  ASSUME ParsersInv, Idle, ~Closed
  PROVE  seen.capsules = Units(DataOf(seen.frames[Connect]))
<1>1. task = <<>> /\ Structured /\ Capsules /\ MemInv /\ CapsuleInHand = <<>> /\ ~Scans
  BY NothingDoing DEF ParsersInv, Conforms, Live, Idle, Structured, Typed
<1> DEFINE frames == seen.frames[Connect]
           sent == DataOf(frames)
           us == seen.capsules
           rest == data[CapsuleBuf]
           none == <<>>
<1>2. /\ frames \in Seq(UnitRecord) /\ us \in Seq(UnitRecord) /\ rest \in Seq(Byte)
      /\ none \in Seq(UnitRecord) /\ CapsuleBuf \in Buffer
  <2>1. seen \in SeenRecord /\ Connect \in Stream /\ CapsuleBuf \in Buffer /\ data \in [Buffer -> Seq(Byte)]
    BY <1>1, Buffers DEF Structured, Stream, MemInv, MemTypeOK
  <2> QED
    BY <2>1 DEF SeenRecord
<1>3. sent \in Seq(Byte)
  <2> DEFINE u == [ty |-> 0, val |-> <<>>]
  <2>1. u \in UnitRecord
    BY DEF UnitRecord
  <2> HIDE DEF frames, u
  <2> QED
    BY <1>2, <2>1, DataOfAppend
<1>4. ~Heads(rest)
  BY <1>1, <1>2, WholeIsFront DEF Capsules, Scans
<1>5. Leaves(sent, us \o none, rest)
  BY <1>1 DEF Capsules
<1> HIDE DEF sent, us, rest
<1>6. us \o none = us
  BY <1>2, ConcatEmptySeq
<1>7. Units(sent) = us
  BY <1>2, <1>3, <1>4, <1>5, <1>6, LeavesDone
<1> QED
  BY <1>7 DEF sent, us

\* What the application has of a data stream.
LEMMA IdleData ==
  ASSUME ParsersInv, Idle, ~Closed, NEW s \in Stream, seen.app[s].known
  PROVE  /\ seen.app[s].data = AfterVarint(AfterVarint(Received(s)))
         /\ seen.app[s].end = peer[s].end
         /\ \A c \in PeerCodes : peer[s].end = "reset" /\ peer[s].code = ToHttp(c)
                                   => seen.app[s].code = c
<1>1. task = <<>> /\ Kept(s) /\ In(s) = <<>> /\ ~Reading(s) /\ seen \in SeenRecord
  BY NothingDoing DEF ParsersInv, Conforms, Live, Idle, Structured
<1>2. Given(s)
  BY <1>1 DEF Kept, Delivered
<1> DEFINE d == seen.app[s].data
<1>3. AfterVarint(AfterVarint(Received(s))) = d \o <<>> /\ d \in Seq(Byte)
  BY <1>1, <1>2 DEF Given, SeenRecord, AppRecord
<1>4. AfterVarint(AfterVarint(Received(s))) = d
  <2> HIDE DEF d
  <2>1. d \o <<>> = d
    BY <1>3, ConcatEmptySeq
  <2> QED
    BY <1>3, <2>1
<1>5. seen.app[s].end = peer[s].end /\ (seen.app[s].end = "reset" => seen.app[s].code = Reported(peer[s].code))
  BY <1>1, <1>2 DEF Given
<1>6. ASSUME NEW c \in PeerCodes, peer[s].end = "reset", peer[s].code = ToHttp(c)
      PROVE  seen.app[s].code = c
  <2>1. c \in 0 .. MaxCode /\ c # None
    BY LayoutAssumption, CodeAssumption DEF None
  <2>2. FromHttp(ToHttp(c)) = c
    BY <2>1, RoundTrip
  <2> QED
    BY <1>5, <1>6, <2>1, <2>2 DEF Reported
<1> QED
  BY <1>4, <1>5, <1>6

\* Between the chunks the invariant is what Reassembled says.
LEMMA ConformsReassembles ==
  ASSUME ParsersInv PROVE Reassembled
<1> SUFFICES ASSUME Idle, ~Closed
             PROVE  /\ \A s \in Unis : ses.role[s] = "control" =>
                         seen.frames[s] = Units(AfterVarint(Received(s)))
                    /\ ses.role[Connect] = "connect" /\ ~Waits(Connect) =>
                         /\ Connect \notin ses.bad => seen.frames[Connect] = Units(Received(Connect))
                         /\ IsPrefix(seen.frames[Connect], Units(Received(Connect)))
                         /\ seen.capsules = Units(DataOf(seen.frames[Connect]))
                    /\ \A s \in Stream : seen.app[s].known =>
                         /\ seen.app[s].data = AfterVarint(AfterVarint(Received(s)))
                         /\ seen.app[s].end = peer[s].end
                         /\ \A c \in PeerCodes : peer[s].end = "reset" /\ peer[s].code = ToHttp(c)
                                                   => seen.app[s].code = c
  BY DEF Reassembled
<1>1. ASSUME NEW s \in Unis, ses.role[s] = "control"
      PROVE  seen.frames[s] = Units(AfterVarint(Received(s)))
  <2>1. s \in Stream /\ s # Connect /\ Framed(s) /\ ~Waits(s)
    BY <1>1, PeerAssumption DEF Stream, Framed, Waits
  <2>2. seen.frames[s] = Units(Sent(s))
    BY <1>1, <2>1, IdleFrames
  <2> QED
    BY <2>1, <2>2 DEF Sent
<1>2. ASSUME ~Waits(Connect)
      PROVE  /\ Connect \notin ses.bad => seen.frames[Connect] = Units(Received(Connect))
             /\ IsPrefix(seen.frames[Connect], Units(Received(Connect)))
  <2>1. Connect \in Stream /\ Framed(Connect) /\ Sent(Connect) = Received(Connect)
    BY DEF Stream, Framed, Sent
  <2> QED
    BY <1>2, <2>1, IdleFrames
<1>3. ASSUME NEW s \in Stream, seen.app[s].known
      PROVE  /\ seen.app[s].data = AfterVarint(AfterVarint(Received(s)))
             /\ seen.app[s].end = peer[s].end
             /\ \A c \in PeerCodes : peer[s].end = "reset" /\ peer[s].code = ToHttp(c)
                                       => seen.app[s].code = c
  BY <1>3, IdleData
<1> QED
  BY <1>1, <1>2, <1>3, IdleCapsules

\* However QUIC cuts the peer's bytes into chunks, whatever budget is left and whoever comes
\* first, an open session has handed on exactly the units and the data they hold.
THEOREM ReassembledAlways == Spec => []Reassembled
<1>1. Init => ParsersInv
  BY ParsersInit
<1>2. ParsersInv /\ [Next]_vars => ParsersInv'
  BY NextConforms
<1>3. ParsersInv => Reassembled
  BY ConformsReassembles
<1> QED
  BY <1>1, <1>2, <1>3, PTL DEF Spec
=============================================================================
