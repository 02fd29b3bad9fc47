------------------------- MODULE SessionFlowProofs -------------------------
(***************************************************************************)
(* TLAPS proofs about SessionFlow, for every set of streams and all limits *)
(* with InitialMax < GrantMax.                                             *)
(***************************************************************************)
EXTENDS SessionFlow, FunctionTheorems, FiniteSetTheorems, TLAPS

-----------------------------------------------------------------------------
(* Totals: sums over all streams *)

\* There are finitely many streams.
LEMMA StreamFinite == IsFiniteSet(Stream)
  BY StreamsAssumption, FS_Union DEF Stream

\* The cells of a counter: the pairs of a stream and one of its units.
LEMMA CellsMember ==
  ASSUME NEW f \in [Stream -> Nat], NEW s, NEW i
  PROVE  <<s, i>> \in Cells(f) <=> s \in Stream /\ i \in 1 .. f[s]
  BY DEF Cells

\* Cells are pairs.
LEMMA CellsPairs ==
  ASSUME NEW f \in [Stream -> Nat], NEW c \in Cells(f)
  PROVE  c = <<c[1], c[2]>> /\ c[1] \in Stream /\ c[2] \in 1 .. f[c[1]]
  BY DEF Cells

\* A counter has finitely many cells, so its total is a natural number.
LEMMA TotalType ==
  ASSUME NEW f \in [Stream -> Nat]
  PROVE  IsFiniteSet(Cells(f)) /\ Total(f) \in Nat
<1> DEFINE Row(s) == {s} \X (1 .. f[s])
           Rows == {Row(s) : s \in Stream}
           g == [s \in Stream |-> Row(s)]
<1>1. g \in Surjection(Stream, Rows)
  BY Fun_IsSurj
<1>2. IsFiniteSet(Rows)
  BY <1>1, StreamFinite, FS_Surjection
<1>3. \A s \in Stream : IsFiniteSet(Row(s))
  <2> SUFFICES ASSUME NEW s \in Stream PROVE IsFiniteSet(Row(s))
    OBVIOUS
  <2>1. IsFiniteSet({s})
    BY FS_Singleton
  <2>2. IsFiniteSet(1 .. f[s])
    BY FS_Interval
  <2> QED
    BY <2>1, <2>2, FS_Product
<1>4. IsFiniteSet(UNION Rows)
  BY <1>2, <1>3, FS_UNION
<1> QED
  BY <1>4, FS_CardinalityType DEF Cells, Total

\* Totals add up: the cells of f + g are those of f and, above them, those of g.
LEMMA TotalSum ==
  ASSUME NEW f \in [Stream -> Nat], NEW g \in [Stream -> Nat],
         NEW h \in [Stream -> Nat], \A s \in Stream : h[s] = f[s] + g[s]
  PROVE  Total(h) = Total(f) + Total(g)
<1> DEFINE Above == {c \in Cells(h) : c[2] > f[c[1]]}
           shift == [c \in Cells(g) |-> <<c[1], f[c[1]] + c[2]>>]
<1>1. shift \in [Cells(g) -> Above]
  <2> SUFFICES ASSUME NEW c \in Cells(g)
               PROVE  <<c[1], f[c[1]] + c[2]>> \in Above
    OBVIOUS
  <2>1. c[1] \in Stream /\ c[2] \in 1 .. g[c[1]]
    BY CellsPairs
  <2>2. f[c[1]] + c[2] \in 1 .. h[c[1]]
    BY <2>1
  <2>3. <<c[1], f[c[1]] + c[2]>> \in Cells(h)
    BY <2>1, <2>2, CellsMember
  <2> QED
    BY <2>1, <2>3
<1>2. \A a, b \in Cells(g) : shift[a] = shift[b] => a = b
  <2> SUFFICES ASSUME NEW a \in Cells(g), NEW b \in Cells(g), shift[a] = shift[b]
               PROVE  a = b
    OBVIOUS
  <2>1. /\ a = <<a[1], a[2]>> /\ a[1] \in Stream /\ a[2] \in 1 .. g[a[1]]
        /\ b = <<b[1], b[2]>> /\ b[1] \in Stream /\ b[2] \in 1 .. g[b[1]]
    BY CellsPairs
  <2>2. a[1] = b[1] /\ f[a[1]] + a[2] = f[b[1]] + b[2]
    OBVIOUS
  <2>3. a[2] = b[2]
    BY <2>1, <2>2
  <2> QED
    BY <2>1, <2>2, <2>3
<1>3. \A d \in Above : \E c \in Cells(g) : shift[c] = d
  <2> SUFFICES ASSUME NEW d \in Above
               PROVE  \E c \in Cells(g) : shift[c] = d
    OBVIOUS
  <2>1. d = <<d[1], d[2]>> /\ d[1] \in Stream /\ d[2] \in 1 .. h[d[1]] /\ d[2] > f[d[1]]
    BY CellsPairs
  <2> DEFINE c == <<d[1], d[2] - f[d[1]]>>
  <2>2. d[2] - f[d[1]] \in 1 .. g[d[1]]
    BY <2>1
  <2>3. c \in Cells(g)
    BY <2>1, <2>2, CellsMember
  <2>4. c[1] = d[1] /\ f[c[1]] + c[2] = d[2]
    BY <2>1
  <2> QED
    BY <2>1, <2>3, <2>4
<1>4. ExistsBijection(Cells(g), Above)
  BY <1>1, <1>2, <1>3, Fun_IsBij, Fun_ExistsBij
<1>5. IsFiniteSet(Above) /\ Cardinality(Above) = Cardinality(Cells(g))
  BY <1>4, TotalType, FS_Bijection
<1>6. Cells(h) = Cells(f) \cup Above
  <2>1. ASSUME NEW d \in Cells(h) PROVE d \in Cells(f) \cup Above
    <3>1. d = <<d[1], d[2]>> /\ d[1] \in Stream /\ d[2] \in 1 .. h[d[1]]
      BY CellsPairs
    <3>2. CASE d[2] > f[d[1]]
      BY <3>2
    <3>3. CASE ~(d[2] > f[d[1]])
      <4>1. d[2] \in 1 .. f[d[1]]
        BY <3>1, <3>3
      <4> QED
        BY <3>1, <4>1, CellsMember
    <3> QED
      BY <3>2, <3>3
  <2>2. ASSUME NEW d \in Cells(f) PROVE d \in Cells(h)
    <3>1. d = <<d[1], d[2]>> /\ d[1] \in Stream /\ d[2] \in 1 .. f[d[1]]
      BY CellsPairs
    <3>2. d[2] \in 1 .. h[d[1]]
      BY <3>1
    <3> QED
      BY <3>1, <3>2, CellsMember
  <2> QED
    BY <2>1, <2>2
<1>7. Cells(f) \cap Above = {}
  <2> SUFFICES ASSUME NEW d \in Cells(f), d \in Above PROVE FALSE
    OBVIOUS
  <2>1. d[1] \in Stream /\ d[2] \in 1 .. f[d[1]]
    BY CellsPairs
  <2> QED
    BY <2>1
<1>8. Cardinality(Cells(f) \cup Above) = Cardinality(Cells(f)) + Cardinality(Above) - Cardinality(Cells(f) \cap Above)
  BY <1>5, TotalType, FS_Union
<1>9. Cardinality(Cells(f) \cap Above) = 0
  BY <1>7, FS_EmptySet
<1>10. Total(f) \in Nat /\ Total(g) \in Nat
  BY TotalType
<1> HIDE DEF Above, shift
<1> QED
  BY <1>5, <1>6, <1>8, <1>9, <1>10 DEF Total

\* A counter that is zero but at s totals its value at s.
LEMMA TotalSingle ==
  ASSUME NEW s \in Stream, NEW n \in Nat
  PROVE  Total([t \in Stream |-> IF t = s THEN n ELSE 0]) = n
<1> DEFINE f == [t \in Stream |-> IF t = s THEN n ELSE 0]
<1>1. f \in [Stream -> Nat]
  OBVIOUS
<1>2. Cells(f) = {s} \X (1 .. n)
  <2>1. ASSUME NEW c \in Cells(f) PROVE c \in {s} \X (1 .. n)
    <3>1. c = <<c[1], c[2]>> /\ c[1] \in Stream /\ c[2] \in 1 .. f[c[1]]
      BY <1>1, CellsPairs
    <3>2. c[1] = s
      BY <3>1
    <3> QED
      BY <3>1, <3>2
  <2>2. ASSUME NEW i \in 1 .. n PROVE <<s, i>> \in Cells(f)
    BY <1>1, CellsMember
  <2> QED
    BY <2>1, <2>2
<1>3. IsFiniteSet({s}) /\ Cardinality({s}) = 1
  BY FS_Singleton
<1>4. IsFiniteSet(1 .. n) /\ Cardinality(1 .. n) = n
  BY FS_Interval
<1>5. Cardinality({s} \X (1 .. n)) = Cardinality({s}) * Cardinality(1 .. n)
  BY <1>3, <1>4, FS_Product
<1>6. Cardinality({s} \X (1 .. n)) = n
  BY <1>3, <1>4, <1>5
<1> QED
  BY <1>2, <1>6, Zenon DEF Total

\* Adding n to one stream adds n to the total.
LEMMA TotalRaise ==
  ASSUME NEW f \in [Stream -> Nat], NEW s \in Stream, NEW n \in Nat
  PROVE  Total([f EXCEPT ![s] = @ + n]) = Total(f) + n
<1> DEFINE g == [t \in Stream |-> IF t = s THEN n ELSE 0]
           h == [f EXCEPT ![s] = @ + n]
<1>1. h \in [Stream -> Nat] /\ g \in [Stream -> Nat] /\ \A t \in Stream : h[t] = f[t] + g[t]
  OBVIOUS
<1>2. Total(h) = Total(f) + Total(g)
  BY <1>1, TotalSum
<1> QED
  BY <1>2, TotalSingle

\* Taking n from one stream takes n from the total, which had it.
LEMMA TotalLower ==
  ASSUME NEW f \in [Stream -> Nat], NEW s \in Stream, NEW n \in 0 .. f[s]
  PROVE  n <= Total(f) /\ Total([f EXCEPT ![s] = @ - n]) = Total(f) - n
<1> DEFINE h == [f EXCEPT ![s] = @ - n]
           g == [t \in Stream |-> IF t = s THEN n ELSE 0]
<1>1. n \in Nat /\ h \in [Stream -> Nat] /\ g \in [Stream -> Nat]
  OBVIOUS
<1>2. \A t \in Stream : f[t] = h[t] + g[t]
  OBVIOUS
<1>3. Total(f) = Total(h) + Total(g)
  BY <1>1, <1>2, TotalSum
<1>4. Total(g) = n
  BY <1>1, TotalSingle
<1>5. Total(h) \in Nat
  BY <1>1, TotalType
<1> HIDE DEF g, h
<1>6. n <= Total(f) /\ Total(h) = Total(f) - n
  BY <1>1, <1>3, <1>4, <1>5
<1> QED
  BY <1>6 DEF h

\* Totals are monotone.
LEMMA TotalMonotone ==
  ASSUME NEW f \in [Stream -> Nat], NEW g \in [Stream -> Nat],
         \A s \in Stream : f[s] <= g[s]
  PROVE  Total(f) <= Total(g)
<1> DEFINE d == [s \in Stream |-> g[s] - f[s]]
<1>1. d \in [Stream -> Nat] /\ \A s \in Stream : g[s] = f[s] + d[s]
  OBVIOUS
<1>2. Total(g) = Total(f) + Total(d)
  BY <1>1, TotalSum
<1> QED
  BY <1>1, <1>2, TotalType
-----------------------------------------------------------------------------
(* Capsules in flight *)

\* Queueing a WT_MAX_* capsule for r keeps the limits in flight in order.
LEMMA QueueRaiseInOrder ==
  ASSUME NEW q \in Seq(Capsule), NEW r \in Resource,
         NEW known \in [Resource -> Nat], NEW now \in [Resource -> Nat],
         NEW old \in [Resource -> Nat], NEW new \in [Resource -> Nat],
         InOrder(q, known, now), \A x \in Resource : known[x] <= now[x],
         now[r] = old[r], old[r] <= new[r]
  PROVE  /\ QueueRaise(q, r, old, new) \in Seq(Capsule)
         /\ InOrder(QueueRaise(q, r, old, new), known, [now EXCEPT ![r] = new[r]])
<1> DEFINE c == [res |-> r, max |-> new[r]]
           then == [now EXCEPT ![r] = new[r]]
<1>0. c \in Capsule
  BY DEF Capsule
<1>1. CASE new[r] > old[r]
  <2> DEFINE p == Append(q, c)
  <2>1. QueueRaise(q, r, old, new) = p
    BY <1>1 DEF QueueRaise
  <2>2. p \in Seq(Capsule) /\ Len(p) = Len(q) + 1
    BY <1>0
  <2>3. \A i \in 1 .. Len(q) : p[i] = q[i] /\ q[i] \in Capsule
    OBVIOUS
  <2>4. p[Len(q) + 1] = c /\ Len(q) \in Nat
    OBVIOUS
  <2> HIDE DEF p
  <2>5. ASSUME NEW i \in 1 .. Len(p)
        PROVE  /\ known[p[i].res] < p[i].max
               /\ p[i].max <= then[p[i].res]
               /\ \A j \in 1 .. i - 1 : p[j].res = p[i].res => p[j].max < p[i].max
    <3>1. CASE i \in 1 .. Len(q)
      <4>1. \A j \in 1 .. i : p[j] = q[j] /\ q[j].res \in Resource /\ q[j].max \in Nat
        <5> SUFFICES ASSUME NEW j \in 1 .. i
                     PROVE  p[j] = q[j] /\ q[j].res \in Resource /\ q[j].max \in Nat
          OBVIOUS
        <5>1. j \in 1 .. Len(q)
          BY <2>4, <3>1
        <5>2. p[j] = q[j] /\ q[j] \in Capsule
          BY <5>1, <2>3
        <5> QED
          BY <5>2 DEF Capsule
      <4>2. /\ known[q[i].res] < q[i].max /\ q[i].max <= now[q[i].res]
            /\ \A j \in 1 .. i - 1 : q[j].res = q[i].res => q[j].max < q[i].max
        BY <3>1 DEF InOrder
      <4>3. p[i] = q[i] /\ q[i].res \in Resource /\ q[i].max \in Nat /\ i \in Nat
        BY <3>1, <4>1
      <4>4. now[q[i].res] \in Nat /\ then[q[i].res] \in Nat /\ now[q[i].res] <= then[q[i].res]
        BY <4>3
      <4>5. q[i].max <= then[q[i].res]
        BY <4>2, <4>3, <4>4
      <4>6. \A j \in 1 .. i - 1 : p[j] = q[j]
        BY <4>1, <4>3
      <4> HIDE DEF then
      <4> QED
        BY <4>2, <4>3, <4>5, <4>6
    <3>2. CASE i = Len(q) + 1
      <4>1. p[i] = c
        BY <2>4, <3>2
      <4>2. known[r] < new[r] /\ new[r] <= then[r]
        BY <1>1
      <4>3. ASSUME NEW j \in 1 .. i - 1, p[j].res = r PROVE p[j].max < new[r]
        <5>1. j \in 1 .. Len(q)
          BY <3>2
        <5>2. p[j] = q[j] /\ q[j].max \in Nat
          BY <5>1, <2>3 DEF Capsule
        <5>3. q[j].max <= now[r]
          BY <5>1, <5>2, <4>3 DEF InOrder
        <5> QED
          BY <5>2, <5>3, <1>1
      <4> QED
        BY <4>1, <4>2, <4>3
    <3>3. i \in 1 .. Len(q) \/ i = Len(q) + 1
      BY <2>2, <2>4
    <3> QED
      BY <3>1, <3>2, <3>3
  <2> QED
    BY <2>1, <2>2, <2>5 DEF InOrder
<1>2. CASE ~(new[r] > old[r])
  <2>1. QueueRaise(q, r, old, new) = q /\ then = now
    BY <1>2 DEF QueueRaise
  <2> QED
    BY <2>1
<1> QED
  BY <1>1, <1>2

\* One round of queue_session_capsule takes the limits in flight from old to new.
LEMMA QueueRaisesInOrder ==
  ASSUME NEW q \in Seq(Capsule), NEW known \in [Resource -> Nat],
         NEW old \in [Resource -> Nat], NEW new \in [Resource -> Nat],
         InOrder(q, known, old),
         \A x \in Resource : known[x] <= old[x] /\ old[x] <= new[x]
  PROVE  /\ QueueRaises(q, old, new) \in Seq(Capsule)
         /\ InOrder(QueueRaises(q, old, new), known, new)
<1> DEFINE q1 == QueueRaise(q, "data", old, new)
           q2 == QueueRaise(q1, "uni", old, new)
           q3 == QueueRaise(q2, "bidi", old, new)
           n1 == [old EXCEPT !["data"] = new["data"]]
           n2 == [n1 EXCEPT !["uni"] = new["uni"]]
           n3 == [n2 EXCEPT !["bidi"] = new["bidi"]]
<1>0. Resource = {"data", "uni", "bidi"}
  BY DEF Resource, Kinds
<1>1. n1 \in [Resource -> Nat] /\ n2 \in [Resource -> Nat] /\ n3 = new
  BY <1>0
<1>2. /\ \A x \in Resource : known[x] <= n1[x] /\ known[x] <= n2[x]
      /\ n1["uni"] = old["uni"] /\ n2["bidi"] = old["bidi"]
  BY <1>0
<1>3. q1 \in Seq(Capsule) /\ InOrder(q1, known, n1)
  BY <1>0, QueueRaiseInOrder
<1> HIDE DEF q1, n1
<1>4. q2 \in Seq(Capsule) /\ InOrder(q2, known, n2)
  BY <1>0, <1>1, <1>2, <1>3, QueueRaiseInOrder
<1> HIDE DEF q2, n2
<1>5. q3 \in Seq(Capsule) /\ InOrder(q3, known, n3)
  BY <1>0, <1>1, <1>2, <1>4, QueueRaiseInOrder
<1> QED
  BY <1>1, <1>5 DEF QueueRaises, q1, q2

\* Taking the first capsule, the limit the sender knows rises and the rest stays in order.
LEMMA TailInOrder ==
  ASSUME NEW q \in Seq(Capsule), q # <<>>,
         NEW known \in [Resource -> Nat], NEW enforced \in [Resource -> Nat],
         InOrder(q, known, enforced)
  PROVE  LET c == Head(q)
         IN /\ c \in Capsule /\ known[c.res] < c.max /\ c.max <= enforced[c.res]
            /\ Tail(q) \in Seq(Capsule)
            /\ InOrder(Tail(q), [known EXCEPT ![c.res] = c.max], enforced)
<1> DEFINE c == Head(q)
           t == Tail(q)
           k == [known EXCEPT ![c.res] = c.max]
<1>1. c = q[1] /\ 1 \in 1 .. Len(q) /\ c \in Capsule
  OBVIOUS
<1>2. t \in Seq(Capsule) /\ Len(t) = Len(q) - 1 /\ \A i \in 1 .. Len(t) : t[i] = q[i + 1]
  OBVIOUS
<1>3. known[c.res] < c.max /\ c.max <= enforced[c.res]
  BY <1>1 DEF InOrder
<1>4. ASSUME NEW i \in 1 .. Len(t)
      PROVE  /\ k[t[i].res] < t[i].max
             /\ t[i].max <= enforced[t[i].res]
             /\ \A j \in 1 .. i - 1 : t[j].res = t[i].res => t[j].max < t[i].max
  <2>1. i + 1 \in 1 .. Len(q) /\ t[i] = q[i + 1] /\ q[i + 1] \in Capsule
    BY <1>2
  <2>2. /\ known[q[i + 1].res] < q[i + 1].max /\ q[i + 1].max <= enforced[q[i + 1].res]
        /\ \A j \in 1 .. i : q[j].res = q[i + 1].res => q[j].max < q[i + 1].max
    BY <2>1 DEF InOrder
  <2>3. c.res = t[i].res => c.max < t[i].max
    BY <1>1, <2>1, <2>2
  <2>4. k[t[i].res] < t[i].max
    BY <1>1, <2>1, <2>2, <2>3 DEF Capsule
  <2>5. ASSUME NEW j \in 1 .. i - 1, t[j].res = t[i].res PROVE t[j].max < t[i].max
    <3>1. t[j] = q[j + 1] /\ j + 1 \in 1 .. i
      BY <1>2
    <3> QED
      BY <2>1, <2>2, <2>5, <3>1
  <2> QED
    BY <2>1, <2>2, <2>4, <2>5
<1> QED
  BY <1>1, <1>2, <1>3, <1>4 DEF InOrder

-----------------------------------------------------------------------------
(* The inductive invariant *)

\* What the receiver charged never exceeds what the sender charged.
LEMMA ReceivedBelowSent ==
  ASSUME NEW sp \in [Stream -> Nat], NEW rp \in [Stream -> Nat], NEW em \in [Stream -> Nat],
         NEW rl,
         \A s \in Stream : /\ em[s] <= 1 + sp[s]
                           /\ IF rl[s] = "wtdata" THEN rp[s] + 1 <= em[s] ELSE rp[s] = 0
  PROVE  Total(rp) <= Total(sp)
<1>1. \A s \in Stream : rp[s] <= sp[s]
  OBVIOUS
<1> QED
  BY <1>1, TotalMonotone

\* Likewise for streams: only an opened stream is ever classified.
LEMMA ClassifiedBelowOpened ==
  ASSUME NEW k \in Kinds, NEW op \in SUBSET Stream, NEW rl,
         \A s \in Stream : rl[s] = "wtdata" => s \in op
  PROVE  Cardinality({s \in StreamsOf(k) : rl[s] = "wtdata"}) <= Cardinality(op \cap StreamsOf(k))
<1>1. StreamsOf(k) \subseteq Stream
  BY DEF StreamsOf, Stream
<1>2. IsFiniteSet(op \cap StreamsOf(k))
  BY <1>1, StreamFinite, FS_Subset
<1>3. {s \in StreamsOf(k) : rl[s] = "wtdata"} \in SUBSET (op \cap StreamsOf(k))
  BY <1>1
<1> QED
  BY <1>2, <1>3, FS_Subset

\* The initial state satisfies the invariant.
LEMMA InitInv == Init => Inv
<1> SUFFICES ASSUME Init PROVE Inv
  OBVIOUS
<1> USE DEF Init
<1>1. TypeOK
  <2>1. capsules \in Seq(Capsule) /\ blockedAt \in [Resource -> Nat \cup {-1}]
    OBVIOUS
  <2>2. maxRemote \in [Resource -> Nat] /\ maxLocal \in [Resource -> Nat]
    BY CreditAssumption
  <2> QED
    BY <2>1, <2>2 DEF TypeOK
<1>2. CreditConserved
  <2> DEFINE z == [s \in Stream |-> 0]
  <2>1. Cells(z) = {}
    BY DEF Cells
  <2>2. Total(sendPayload) = 0 /\ Total(recvPayload) = 0
    BY <2>1, FS_EmptySet DEF Total
  <2>3. \A k \in Kinds : /\ opened \cap StreamsOf(k) = {}
                         /\ {s \in StreamsOf(k) : role[s] = "wtdata"} = {}
    BY DEF StreamsOf, Stream
  <2> QED
    BY <2>2, <2>3, FS_EmptySet DEF CreditConserved, Resource
<1>3. /\ \A r \in Resource : sent[r] <= maxRemote[r] /\ maxRemote[r] <= maxLocal[r]
      /\ OutstandingCreditBounded
  BY CreditAssumption DEF OutstandingCreditBounded
<1>4. InOrder(capsules, maxRemote, maxLocal)
  BY DEF InOrder
<1> QED
  BY <1>1, <1>2, <1>3, <1>4 DEF Inv, StreamLag, PrefixFirst, GrantOnce, NoFlowError

\* The sender's and receiver's readiness, FIN and writes only touch their own queues.
LEMMA QuietSenderInv ==
  ASSUME Inv, \/ SenderReady \/ ReceiverReady
              \/ \E s \in Stream : StreamWrite(s) \/ StreamFin(s)
  PROVE  Inv'
<1> USE DEF Inv
<1>1. /\ UNCHANGED <<maxRemote, sent, opened, inMap, prefixQueued, sendPayload, finSent, created,
                     emitted, capsules, creditGranted, maxLocal, received, role, recvPayload, flowErrors>>
      /\ UNCHANGED <<pendingOpens, blockedAt, reset, stopped, stopSent, recvDead>>
  BY DEF SenderReady, ReceiverReady, StreamWrite, StreamFin, sendVars, recvVars, quicVars
<1>2. sReady' \in BOOLEAN /\ rReady' \in BOOLEAN
  BY DEF TypeOK, SenderReady, ReceiverReady, StreamWrite, StreamFin, sendVars, recvVars, quicVars
<1>3. out' \in [Stream -> Nat] /\ finQueued' \subseteq Stream
  <2>1. CASE SenderReady \/ ReceiverReady
    BY <2>1 DEF TypeOK, SenderReady, ReceiverReady, sendVars
  <2>2. ASSUME NEW s \in Stream, StreamWrite(s) PROVE out' \in [Stream -> Nat] /\ finQueued' \subseteq Stream
    BY <2>2 DEF TypeOK, StreamWrite
  <2>3. ASSUME NEW s \in Stream, StreamFin(s) PROVE out' \in [Stream -> Nat] /\ finQueued' \subseteq Stream
    BY <2>3 DEF TypeOK, StreamFin
  <2> QED
    BY <2>1, <2>2, <2>3
<1>4. TypeOK'
  BY <1>1, <1>2, <1>3 DEF TypeOK
<1>5. PrefixFirst'
  BY <1>1 DEF PrefixFirst, TypeOK, SenderReady, ReceiverReady, StreamWrite, StreamFin, sendVars
<1> QED
  BY <1>1, <1>4, <1>5 DEF CreditConserved, StreamLag, GrantOnce, OutstandingCreditBounded, NoFlowError

\* QUIC serializes a byte it accepted, or learns of a STOP_SENDING.
LEMMA QuicInv ==
  ASSUME Inv, NEW s \in Stream, Emit(s) \/ RecvStopSending(s) \/ StreamStopSending(s)
  PROVE  Inv'
<1> USE DEF Inv
<1>1. /\ UNCHANGED sendVars
      /\ UNCHANGED <<created, capsules, rReady, creditGranted, maxLocal, received, role, recvPayload, flowErrors>>
  BY DEF Emit, RecvStopSending, StreamStopSending, recvVars
<1>2. /\ emitted' \in [Stream -> Nat] /\ recvDead' \subseteq Stream
      /\ reset' \subseteq Stream /\ stopped' \subseteq reset' /\ stopSent' \subseteq Stream
  <2>1. CASE Emit(s)
    BY <2>1 DEF TypeOK, Emit, recvVars
  <2>2. CASE RecvStopSending(s)
    BY <2>2 DEF TypeOK, RecvStopSending, recvVars
  <2>3. CASE StreamStopSending(s)
    BY <2>3 DEF TypeOK, StreamStopSending
  <2> QED
    BY <2>1, <2>2, <2>3
<1>3. TypeOK'
  BY <1>1, <1>2 DEF TypeOK, sendVars
<1>4. StreamLag'
  <2>1. UNCHANGED <<role, recvPayload, created, sendPayload>>
    BY <1>1 DEF sendVars
  <2>2. CASE Emit(s)
    <3>1. \A t \in Stream : emitted'[t] = IF t = s THEN emitted[t] + 1 ELSE emitted[t]
      BY <2>2 DEF TypeOK, Emit
    <3>2. s \in created /\ emitted[s] + 1 <= 1 + sendPayload[s]
      BY <2>2 DEF TypeOK, Emit
    <3>3. /\ emitted \in [Stream -> Nat] /\ recvPayload \in [Stream -> Nat]
          /\ sendPayload \in [Stream -> Nat]
      BY DEF TypeOK
    <3>4. ASSUME NEW t \in Stream, t # s
          PROVE  /\ emitted'[t] <= 1 + sendPayload[t]
                 /\ t \notin created => sendPayload[t] = 0 /\ emitted'[t] = 0
                 /\ IF role[t] = "wtdata" THEN recvPayload[t] + 1 <= emitted'[t] ELSE recvPayload[t] = 0
      BY <3>1, <3>4 DEF StreamLag
    <3>5. /\ emitted'[s] <= 1 + sendPayload[s]
          /\ s \notin created => sendPayload[s] = 0 /\ emitted'[s] = 0
          /\ IF role[s] = "wtdata" THEN recvPayload[s] + 1 <= emitted'[s] ELSE recvPayload[s] = 0
      <4>1. emitted'[s] = emitted[s] + 1 /\ emitted[s] \in Nat /\ recvPayload[s] \in Nat
        BY <3>1, <3>3
      <4>2. IF role[s] = "wtdata" THEN recvPayload[s] + 1 <= emitted[s] ELSE recvPayload[s] = 0
        BY DEF StreamLag
      <4> QED
        BY <3>2, <4>1, <4>2
    <3> QED
      BY <2>1, <3>4, <3>5 DEF StreamLag
  <2>3. CASE RecvStopSending(s) \/ StreamStopSending(s)
    <3>1. emitted' = emitted
      BY <2>3 DEF RecvStopSending, StreamStopSending
    <3> QED
      BY <2>1, <3>1 DEF StreamLag
  <2> QED
    BY <2>2, <2>3
<1> QED
  BY <1>1, <1>3, <1>4 DEF CreditConserved, PrefixFirst, GrantOnce, OutstandingCreditBounded,
                          NoFlowError, sendVars

\* scan_capsules takes the next WT_MAX_* capsule, which always raises its limit.
LEMMA RecvCapsuleInv ==
  ASSUME Inv, RecvCapsule
  PROVE  Inv'
<1> USE DEF Inv
<1> DEFINE c == Head(capsules)
<1>0. /\ capsules \in Seq(Capsule) /\ capsules # <<>>
      /\ maxRemote \in [Resource -> Nat] /\ maxLocal \in [Resource -> Nat]
  BY DEF RecvCapsule, TypeOK
<1>1. /\ c \in Capsule /\ maxRemote[c.res] < c.max /\ c.max <= maxLocal[c.res]
      /\ Tail(capsules) \in Seq(Capsule)
      /\ InOrder(Tail(capsules), [maxRemote EXCEPT ![c.res] = c.max], maxLocal)
  BY <1>0, TailInOrder
<1>2. c.res \in Resource /\ c.max \in Nat
  BY <1>1 DEF Capsule
<1> HIDE DEF c
<1>3. c.max > maxRemote[c.res]
  BY <1>0, <1>1, <1>2
<1>4. maxRemote' = [maxRemote EXCEPT ![c.res] = c.max] /\ UNCHANGED flowErrors
  BY <1>3 DEF RecvCapsule, c
<1>5. capsules' = Tail(capsules)
  BY DEF RecvCapsule
<1>6. /\ UNCHANGED <<sReady, sent, pendingOpens, opened, inMap, prefixQueued, out,
                     sendPayload, finQueued, finSent, blockedAt, recvVars,
                     created, emitted, reset, stopped, stopSent>>
  BY DEF RecvCapsule
<1>7. TypeOK'
  BY <1>0, <1>1, <1>2, <1>4, <1>5, <1>6 DEF TypeOK, recvVars
<1>8. \A r \in Resource : sent'[r] <= maxRemote'[r] /\ maxRemote'[r] <= maxLocal'[r]
  BY <1>0, <1>1, <1>2, <1>4, <1>6 DEF TypeOK, recvVars
<1>9. InOrder(capsules', maxRemote', maxLocal')
  BY <1>1, <1>4, <1>5, <1>6 DEF recvVars
<1> QED
  BY <1>4, <1>6, <1>7, <1>8, <1>9 DEF CreditConserved, StreamLag, PrefixFirst, GrantOnce,
                                      OutstandingCreditBounded, NoFlowError, recvVars

\* flush grants and replenishes: the limits rise and the capsules announce them in order.
LEMMA FlushReceiverInv ==
  ASSUME Inv, FlushReceiver
  PROVE  Inv'
<1> USE DEF Inv
<1> DEFINE limits == [r \in Resource |-> Replenished(Granted, r)]
<1>0. /\ capsules \in Seq(Capsule) /\ maxRemote \in [Resource -> Nat] /\ maxLocal \in [Resource -> Nat]
      /\ received \in [Resource -> Nat] /\ GrantMax \in [Resource -> Nat]
      /\ \A r \in Resource : InitialMax[r] < GrantMax[r] /\ InitialMax[r] \in Nat
  BY CreditAssumption DEF TypeOK
<1>1. /\ Granted \in [Resource -> Nat]
      /\ \A r \in Resource : maxLocal[r] <= Granted[r] /\ Granted[r] <= received[r] + GrantMax[r]
  BY <1>0 DEF Granted, GrantOnce, OutstandingCreditBounded
<1>2. /\ limits \in [Resource -> Nat]
      /\ \A r \in Resource : Granted[r] <= limits[r] /\ limits[r] <= received[r] + GrantMax[r]
  BY <1>0, <1>1 DEF Replenished
<1>3. /\ creditGranted' = TRUE /\ maxLocal' = limits
      /\ capsules' = QueueRaises(QueueRaises(capsules, maxLocal, Granted), Granted, limits)
      /\ UNCHANGED <<sendVars, created, emitted, reset, stopped, stopSent, rReady, received, role,
                     recvPayload, recvDead, flowErrors>>
  BY DEF FlushReceiver
<1> HIDE DEF limits
<1>4. /\ QueueRaises(capsules, maxLocal, Granted) \in Seq(Capsule)
      /\ InOrder(QueueRaises(capsules, maxLocal, Granted), maxRemote, Granted)
  BY <1>0, <1>1, QueueRaisesInOrder
<1>5. \A r \in Resource : maxRemote[r] <= Granted[r]
  BY <1>0, <1>1
<1>6. capsules' \in Seq(Capsule) /\ InOrder(capsules', maxRemote, limits)
  BY <1>0, <1>1, <1>2, <1>3, <1>4, <1>5, QueueRaisesInOrder
<1>7. TypeOK'
  BY <1>2, <1>3, <1>6 DEF TypeOK, sendVars
<1>8. \A r \in Resource : sent'[r] <= maxRemote'[r] /\ maxRemote'[r] <= maxLocal'[r]
  BY <1>0, <1>1, <1>2, <1>3 DEF TypeOK, sendVars
<1>9. OutstandingCreditBounded'
  BY <1>2, <1>3 DEF OutstandingCreditBounded
<1>10. InOrder(capsules', maxRemote', maxLocal')
  BY <1>3, <1>6 DEF sendVars
<1> QED
  BY <1>3, <1>7, <1>8, <1>9, <1>10 DEF CreditConserved, StreamLag, PrefixFirst, GrantOnce,
                                       NoFlowError, sendVars

\* release_pending_opens stays within the peer's limit and counts every stream it opens.
LEMMA Releases ==
  ASSUME Inv, NEW pending \in [Kinds -> Nat], NEW new \in SUBSET (Stream \ opened),
         ReleasesExactly(pending, new), NEW data \in Nat
  PROVE  /\ ReleasedPending(pending, new) \in [Kinds -> Nat]
         /\ SentWith(new, data) \in [Resource -> Nat]
         /\ SentWith(new, data)["data"] = data
         /\ \A k \in Kinds : /\ SentWith(new, data)[k] <= maxRemote[k]
                             /\ SentWith(new, data)[k] = Cardinality((opened \cup new) \cap StreamsOf(k))
<1> USE DEF Inv
<1>0. sent \in [Resource -> Nat] /\ maxRemote \in [Resource -> Nat] /\ opened \subseteq Stream
  BY DEF TypeOK
<1>1. ASSUME NEW k \in Kinds
      PROVE  /\ k \in Resource /\ k # "data"
             /\ Cardinality(new \cap StreamsOf(k)) \in Nat
             /\ Cardinality(new \cap StreamsOf(k)) <= pending[k]
             /\ sent[k] + Cardinality(new \cap StreamsOf(k)) <= maxRemote[k]
             /\ sent[k] + Cardinality(new \cap StreamsOf(k)) = Cardinality((opened \cup new) \cap StreamsOf(k))
  <2> DEFINE A == opened \cap StreamsOf(k)
             B == new \cap StreamsOf(k)
  <2>1. k \in Resource /\ k # "data"
    BY <1>1 DEF Resource, Kinds
  <2>2. IsFiniteSet(A) /\ IsFiniteSet(B)
    BY <1>0, StreamFinite, FS_Subset
  <2>3. Cardinality(A) \in Nat /\ Cardinality(B) \in Nat
    BY <2>2, FS_CardinalityType
  <2>4. A \cap B = {} /\ (opened \cup new) \cap StreamsOf(k) = A \cup B
    OBVIOUS
  <2>5. Cardinality(A \cup B) = Cardinality(A) + Cardinality(B) - Cardinality(A \cap B)
    BY <2>2, FS_Union
  <2>6. Cardinality(A \cap B) = 0
    BY <2>4, FS_EmptySet
  <2>7. sent[k] = Cardinality(A)
    BY DEF CreditConserved
  <2>8. Cardinality(B) = Releasable(pending, k)
    BY DEF ReleasesExactly
  <2>9. sent[k] \in Nat /\ maxRemote[k] \in Nat /\ sent[k] <= maxRemote[k] /\ pending[k] \in Nat
    BY <1>0, <2>1
  <2>10. Releasable(pending, k) <= pending[k] /\ sent[k] + Releasable(pending, k) <= maxRemote[k]
    BY <2>9 DEF Releasable, Monus
  <2> HIDE DEF A, B
  <2>11. sent[k] + Cardinality(B) = Cardinality(A \cup B)
    BY <2>3, <2>5, <2>6, <2>7
  <2> QED
    BY <2>1, <2>3, <2>4, <2>8, <2>10, <2>11 DEF A, B
<1>2. ReleasedPending(pending, new) \in [Kinds -> Nat]
  <2>1. \A k \in Kinds : pending[k] - Cardinality(new \cap StreamsOf(k)) \in Nat
    <3> SUFFICES ASSUME NEW k \in Kinds PROVE pending[k] - Cardinality(new \cap StreamsOf(k)) \in Nat
      OBVIOUS
    <3>1. Cardinality(new \cap StreamsOf(k)) \in Nat /\ Cardinality(new \cap StreamsOf(k)) <= pending[k]
      BY <1>1
    <3> QED
      BY <3>1
  <2> QED
    BY <2>1 DEF ReleasedPending
<1>3. \A r \in Resource : r = "data" \/ r \in Kinds
  BY DEF Resource
<1>4. SentWith(new, data) \in [Resource -> Nat]
  <2>1. \A r \in Resource : (IF r = "data" THEN data ELSE sent[r] + Cardinality(new \cap StreamsOf(r))) \in Nat
    <3> SUFFICES ASSUME NEW r \in Resource, r # "data"
                 PROVE  sent[r] + Cardinality(new \cap StreamsOf(r)) \in Nat
      OBVIOUS
    <3>1. Cardinality(new \cap StreamsOf(r)) \in Nat
      BY <1>1, <1>3
    <3> QED
      BY <1>0, <3>1
  <2> QED
    BY <2>1 DEF SentWith
<1>5. SentWith(new, data)["data"] = data
  BY DEF SentWith, Resource
<1>6. \A k \in Kinds : SentWith(new, data)[k] = sent[k] + Cardinality(new \cap StreamsOf(k))
  BY <1>1 DEF SentWith
<1> QED
  BY <1>1, <1>2, <1>4, <1>5, <1>6

\* open_stream queues the open and releases what the limit allows.
LEMMA OpenStreamInv ==
  ASSUME Inv, NEW k \in Kinds, OpenStream(k)
  PROVE  Inv'
<1> USE DEF Inv
<1> DEFINE pending == [pendingOpens EXCEPT ![k] = @ + 1]
<1>0. PICK new \in SUBSET (Stream \ opened) :
        /\ ReleasesExactly(pending, new)
        /\ pendingOpens' = ReleasedPending(pending, new)
        /\ sent' = SentWith(new, sent["data"])
        /\ opened' = opened \cup new
        /\ inMap' = inMap \cup new
        /\ prefixQueued' = prefixQueued \cup new
  BY DEF OpenStream
<1>1. UNCHANGED <<sReady, maxRemote, out, sendPayload, finQueued, finSent, blockedAt,
                  recvVars, quicVars, flowErrors>>
  BY DEF OpenStream
<1>2. pending \in [Kinds -> Nat] /\ sent["data"] \in Nat
  BY DEF TypeOK, Resource
<1> HIDE DEF pending
<1>3. /\ pendingOpens' \in [Kinds -> Nat] /\ sent' \in [Resource -> Nat]
      /\ sent'["data"] = sent["data"]
      /\ \A j \in Kinds : /\ sent'[j] <= maxRemote[j]
                          /\ sent'[j] = Cardinality(opened' \cap StreamsOf(j))
  <2>1. ReleasesExactly(pending, new) /\ Inv
    BY <1>0
  <2> DEFINE w == SentWith(new, sent["data"])
  <2>2. /\ ReleasedPending(pending, new) \in [Kinds -> Nat] /\ w \in [Resource -> Nat]
        /\ w["data"] = sent["data"]
        /\ \A j \in Kinds : w[j] <= maxRemote[j] /\ w[j] = Cardinality((opened \cup new) \cap StreamsOf(j))
    <3> HIDE DEF Inv
    <3>1. ReleasedPending(pending, new) \in [Kinds -> Nat]
      BY <1>2, <2>1, Releases
    <3>2. w \in [Resource -> Nat]
      BY <1>2, <2>1, Releases
    <3>3. w["data"] = sent["data"]
      BY <1>2, <2>1, Releases
    <3>4. \A j \in Kinds : w[j] <= maxRemote[j] /\ w[j] = Cardinality((opened \cup new) \cap StreamsOf(j))
      BY <1>2, <2>1, Releases
    <3> QED
      BY <3>1, <3>2, <3>3, <3>4
  <2> HIDE DEF w
  <2>3. sent' = w
    BY <1>0 DEF w
  <2> QED
    BY <1>0, <2>2, <2>3
<1>4. TypeOK'
  BY <1>0, <1>1, <1>3 DEF TypeOK, recvVars, quicVars
<1>5. CreditConserved'
  BY <1>1, <1>3 DEF CreditConserved, recvVars
<1>6. \A r \in Resource : sent'[r] <= maxRemote'[r] /\ maxRemote'[r] <= maxLocal'[r]
  BY <1>1, <1>3 DEF Resource, recvVars
<1>7. StreamLag' /\ PrefixFirst'
  BY <1>0, <1>1 DEF StreamLag, PrefixFirst, recvVars, quicVars
<1> QED
  BY <1>1, <1>4, <1>5, <1>6, <1>7 DEF GrantOnce, OutstandingCreditBounded, NoFlowError, recvVars, quicVars

\* What a reset gives back is part of what the stream was charged, and leaves the charge
\* at or above the bytes on the wire.
LEMMA UnsentBounds ==
  ASSUME Inv, NEW s \in Stream, NEW b \in BOOLEAN
  PROVE  /\ Unsent(s, b) \in 0 .. sendPayload[s]
         /\ emitted[s] <= 1 + (sendPayload[s] - Unsent(s, b))
<1>1. sendPayload[s] \in Nat /\ emitted[s] \in Nat /\ emitted[s] <= 1 + sendPayload[s]
  BY DEF Inv, TypeOK, StreamLag
<1> QED
  BY <1>1 DEF Unsent, Monus

\* stream_reset settles the charge of the stream and drops its queue.
LEMMA StreamResetInv ==
  ASSUME Inv, NEW s \in Stream, StreamReset(s)
  PROVE  Inv'
<1> USE DEF Inv
<1> DEFINE back == Unsent(s, s \in created)
<1>0. /\ sendPayload \in [Stream -> Nat] /\ sent \in [Resource -> Nat] /\ emitted \in [Stream -> Nat]
      /\ maxRemote \in [Resource -> Nat] /\ "data" \in Resource
  BY DEF TypeOK, Resource
<1>1. back \in 0 .. sendPayload[s] /\ emitted[s] <= 1 + (sendPayload[s] - back)
  <2>1. (s \in created) \in BOOLEAN
    OBVIOUS
  <2> QED
    BY <2>1, UnsentBounds
<1>2. /\ sendPayload' = [sendPayload EXCEPT ![s] = @ - back]
      /\ sent' = [sent EXCEPT !["data"] = Monus(@, back)]
      /\ reset' = reset \cup ({s} \cap created)
      /\ out' = [out EXCEPT ![s] = 0]
      /\ prefixQueued' = prefixQueued \ {s} /\ finSent' = finSent \cup {s}
      /\ UNCHANGED <<sReady, maxRemote, pendingOpens, opened, inMap, finQueued, blockedAt,
                     recvVars, created, emitted, stopped, stopSent, capsules, flowErrors>>
  BY DEF StreamReset
<1> HIDE DEF back
<1>3. back <= Total(sendPayload) /\ Total(sendPayload') = Total(sendPayload) - back
  BY <1>0, <1>1, <1>2, TotalLower
<1>4. sent["data"] = Total(sendPayload) /\ sent["data"] \in Nat /\ back \in Nat
  BY <1>0, <1>1 DEF CreditConserved
<1>5. Monus(sent["data"], back) = sent["data"] - back /\ sent["data"] - back \in Nat
  BY <1>3, <1>4 DEF Monus
<1>6. /\ sent' \in [Resource -> Nat] /\ sent'["data"] = Total(sendPayload')
      /\ \A r \in Resource : sent'[r] <= sent[r] /\ (r # "data" => sent'[r] = sent[r])
  BY <1>0, <1>2, <1>3, <1>4, <1>5
<1>7. TypeOK'
  <2>1. sendPayload' \in [Stream -> Nat] /\ out' \in [Stream -> Nat]
    BY <1>0, <1>1, <1>2 DEF TypeOK
  <2> QED
    BY <1>2, <1>6, <2>1 DEF TypeOK, recvVars
<1>8. CreditConserved'
  BY <1>2, <1>6 DEF CreditConserved, recvVars, Resource, Kinds
<1>9. \A r \in Resource : sent'[r] <= maxRemote'[r] /\ maxRemote'[r] <= maxLocal'[r]
  BY <1>0, <1>2, <1>6 DEF recvVars
<1>10. StreamLag'
  BY <1>0, <1>1, <1>2 DEF StreamLag, recvVars
<1>11. PrefixFirst'
  BY <1>2 DEF PrefixFirst, TypeOK
<1> QED
  BY <1>2, <1>7, <1>8, <1>9, <1>10, <1>11 DEF GrantOnce, OutstandingCreditBounded, NoFlowError, recvVars

\* Charging what the receiver read or was told of: its totals stay below the sender's,
\* so below every limit, and no overrun is reported.
LEMMA ChargeInv ==
  ASSUME Inv, NEW s \in Stream, NEW amount \in Nat, NEW incoming \in BOOLEAN,
         received' = Accounted(s, amount, incoming),
         recvPayload' = [recvPayload EXCEPT ![s] = @ + amount],
         flowErrors' = flowErrors \cup Exceeded(received'),
         recvDead' \subseteq Stream,
         role' = IF incoming THEN [role EXCEPT ![s] = "wtdata"] ELSE role,
         incoming => role[s] = "pending" /\ recvPayload[s] + amount + 1 <= emitted[s],
         ~incoming => \/ amount = 0
                      \/ role[s] = "wtdata" /\ recvPayload[s] + amount + 1 <= emitted[s],
         UNCHANGED <<sendVars, quicVars, rReady, creditGranted, maxLocal>>
  PROVE  Inv'
<1> USE DEF Inv
<1>0. /\ received \in [Resource -> Nat] /\ recvPayload \in [Stream -> Nat] /\ sendPayload \in [Stream -> Nat]
      /\ emitted \in [Stream -> Nat] /\ role \in [Stream -> {"pending", "wtdata"}]
      /\ maxLocal \in [Resource -> Nat] /\ maxRemote \in [Resource -> Nat] /\ sent \in [Resource -> Nat]
      /\ opened \subseteq Stream /\ created \subseteq opened
      /\ "data" \in Resource /\ KindOf(s) \in Kinds /\ KindOf(s) \in Resource /\ KindOf(s) # "data"
  BY DEF TypeOK, Resource, Kinds, KindOf
<1>1. recvPayload' \in [Stream -> Nat] /\ role' \in [Stream -> {"pending", "wtdata"}]
  BY <1>0
<1>2. received' = [received EXCEPT !["data"] = @ + amount,
                                   ![KindOf(s)] = @ + (IF incoming THEN 1 ELSE 0)]
  BY DEF Accounted
<1>3. /\ received' \in [Resource -> Nat]
      /\ received'["data"] = received["data"] + amount
      /\ received'[KindOf(s)] = received[KindOf(s)] + (IF incoming THEN 1 ELSE 0)
      /\ \A r \in Resource : received[r] <= received'[r] /\ (r \notin {"data", KindOf(s)} => received'[r] = received[r])
  BY <1>0, <1>2
<1>4. received'["data"] = Total(recvPayload')
  <2>1. Total(recvPayload') = Total(recvPayload) + amount
    BY <1>0, TotalRaise
  <2> QED
    BY <1>3, <2>1 DEF CreditConserved
<1>5. StreamLag'
  <2> SUFFICES ASSUME NEW t \in Stream
               PROVE  IF role'[t] = "wtdata" THEN recvPayload'[t] + 1 <= emitted[t] ELSE recvPayload'[t] = 0
    BY DEF StreamLag, sendVars, quicVars
  <2>1. CASE t # s
    BY <1>0, <2>1 DEF StreamLag
  <2>2. CASE t = s /\ incoming
    BY <1>0, <2>2 DEF StreamLag
  <2>3. CASE t = s /\ ~incoming
    BY <1>0, <2>3 DEF StreamLag
  <2> QED
    BY <2>1, <2>2, <2>3
<1>6. \A k \in Kinds : received'[k] = Cardinality({t \in StreamsOf(k) : role'[t] = "wtdata"})
  <2> SUFFICES ASSUME NEW k \in Kinds
               PROVE  received'[k] = Cardinality({t \in StreamsOf(k) : role'[t] = "wtdata"})
    OBVIOUS
  <2> DEFINE R == {t \in StreamsOf(k) : role[t] = "wtdata"}
             R2 == {t \in StreamsOf(k) : role'[t] = "wtdata"}
  <2>1. StreamsOf(k) \subseteq Stream /\ k \in Resource /\ k # "data"
    BY DEF StreamsOf, Stream, Resource, Kinds
  <2>2. IsFiniteSet(R)
    BY <2>1, StreamFinite, FS_Subset
  <2>3. received[k] = Cardinality(R)
    BY DEF CreditConserved
  <2>4. CASE incoming /\ k = KindOf(s)
    <3>1. s \in StreamsOf(k)
      BY <2>4 DEF StreamsOf, KindOf, Stream
    <3>2. R2 = R \cup {s} /\ s \notin R
      BY <1>0, <2>1, <2>4, <3>1
    <3>3. Cardinality(R \cup {s}) = Cardinality(R) + 1
      BY <2>2, <3>2, FS_AddElement
    <3> QED
      BY <1>3, <2>3, <2>4, <3>2, <3>3
  <2>5. CASE ~incoming
    <3>1. R2 = R /\ received'[k] = received[k]
      BY <1>0, <1>3, <2>1, <2>5
    <3> QED
      BY <2>3, <3>1
  <2>6. CASE incoming /\ k # KindOf(s)
    <3>1. s \notin StreamsOf(k)
      BY <2>6, StreamsAssumption DEF StreamsOf, KindOf, Stream, Kinds
    <3>2. R2 = R
      BY <1>0, <2>1, <2>6, <3>1
    <3>3. received'[k] = received[k]
      BY <1>3, <2>1, <2>6
    <3> QED
      BY <2>3, <3>2, <3>3
  <2> QED
    BY <2>4, <2>5, <2>6
<1>7. \A r \in Resource : received'[r] <= maxLocal[r]
  <2>1. Total(recvPayload') <= Total(sendPayload)
    <3>1. \A t \in Stream : /\ emitted[t] <= 1 + sendPayload[t]
                            /\ IF role'[t] = "wtdata" THEN recvPayload'[t] + 1 <= emitted[t] ELSE recvPayload'[t] = 0
      BY <1>5 DEF StreamLag, sendVars, quicVars
    <3> QED
      BY <1>0, <1>1, <3>1, ReceivedBelowSent
  <2>2. received'["data"] <= sent["data"]
    BY <1>4, <2>1 DEF CreditConserved
  <2>3. \A t \in Stream : role'[t] = "wtdata" => t \in opened
    BY <1>0, <1>1, <1>5 DEF StreamLag, sendVars, quicVars
  <2>4. \A k \in Kinds : received'[k] <= sent[k]
    <3> SUFFICES ASSUME NEW k \in Kinds PROVE received'[k] <= sent[k]
      OBVIOUS
    <3>1. received'[k] = Cardinality({t \in StreamsOf(k) : role'[t] = "wtdata"})
      BY <1>6
    <3>2. sent[k] = Cardinality(opened \cap StreamsOf(k))
      BY DEF CreditConserved
    <3> HIDE DEF Inv
    <3>3. Cardinality({t \in StreamsOf(k) : role'[t] = "wtdata"}) <= Cardinality(opened \cap StreamsOf(k))
      BY <1>0, <2>3, ClassifiedBelowOpened
    <3> QED
      BY <3>1, <3>2, <3>3
  <2>5. \A r \in Resource : received'[r] <= sent[r]
    BY <2>2, <2>4 DEF Resource
  <2> QED
    BY <1>0, <1>3, <2>5
<1>8. Exceeded(received') = {}
  <2>1. \A r \in Resource : ~(received'[r] > maxLocal[r])
    <3> SUFFICES ASSUME NEW r \in Resource PROVE ~(received'[r] > maxLocal[r])
      OBVIOUS
    <3>1. received'[r] \in Nat /\ maxLocal[r] \in Nat /\ received'[r] <= maxLocal[r]
      BY <1>0, <1>3, <1>7
    <3> QED
      BY <3>1
  <2>2. ~(received'["data"] > maxLocal["data"]) /\ \A k \in Kinds : ~(received'[k] > maxLocal[k])
    BY <2>1 DEF Resource
  <2> QED
    BY <2>2 DEF Exceeded
<1>9. TypeOK'
  BY <1>1, <1>3, <1>8 DEF TypeOK, sendVars, quicVars, NoFlowError
<1>10. CreditConserved'
  BY <1>4, <1>6 DEF CreditConserved, sendVars
<1>11. OutstandingCreditBounded'
  BY <1>0, <1>3, CreditAssumption DEF OutstandingCreditBounded
<1>12. NoFlowError' /\ PrefixFirst' /\ GrantOnce'
  BY <1>8 DEF NoFlowError, PrefixFirst, GrantOnce, sendVars, quicVars
<1> QED
  BY <1>5, <1>9, <1>10, <1>11, <1>12 DEF sendVars, quicVars

\* on_readable: bytes that were emitted, the first of them classifying the stream.
LEMMA OnReadableInv ==
  ASSUME Inv, NEW s \in Stream, NEW n \in Nat, OnReadable(s, n)
  PROVE  Inv'
<1> DEFINE incoming == role[s] = "pending"
           amount == IF incoming THEN n - 1 ELSE n
<1>1. /\ role \in [Stream -> {"pending", "wtdata"}] /\ emitted[s] \in Nat /\ recvPayload[s] \in Nat
      /\ recvDead \subseteq Stream /\ (role[s] = "pending" => recvPayload[s] = 0)
      /\ (role[s] = "wtdata" => recvPayload[s] + 1 <= emitted[s])
  BY DEF Inv, TypeOK, StreamLag
<1>2. /\ ReadOffset(s) + n <= emitted[s]
      /\ n > 0 \/ role[s] = "wtdata"
      /\ received' = Accounted(s, amount, incoming)
      /\ recvPayload' = [recvPayload EXCEPT ![s] = @ + amount]
      /\ flowErrors' = flowErrors \cup Exceeded(received')
      /\ role' = [role EXCEPT ![s] = "wtdata"]
      /\ UNCHANGED <<sendVars, quicVars, rReady, creditGranted, maxLocal>>
  BY DEF OnReadable
<1>3. recvDead' \subseteq Stream
  BY <1>1 DEF OnReadable
<1>4. /\ amount \in Nat /\ incoming \in BOOLEAN
      /\ incoming => recvPayload[s] + amount + 1 <= emitted[s]
      /\ ~incoming => role[s] = "wtdata" /\ recvPayload[s] + amount + 1 <= emitted[s]
  BY <1>1, <1>2 DEF ReadOffset
<1>5. role' = IF incoming THEN [role EXCEPT ![s] = "wtdata"] ELSE role
  BY <1>1, <1>2
<1>6. incoming => role[s] = "pending"
  OBVIOUS
<1> HIDE DEF incoming, amount
<1> QED
  BY <1>2, <1>3, <1>4, <1>5, <1>6, ChargeInv

\* on_readable meeting a reset: the rest of the final size is charged.
LEMMA OnResetInv ==
  ASSUME Inv, NEW s \in Stream, OnReset(s)
  PROVE  Inv'
<1> DEFINE missing == IF role[s] = "wtdata" THEN Monus(Monus(emitted[s], 1), recvPayload[s]) ELSE 0
<1>1. /\ emitted[s] \in Nat /\ recvPayload[s] \in Nat /\ recvDead \subseteq Stream
      /\ (role[s] = "wtdata" => recvPayload[s] + 1 <= emitted[s])
  BY DEF Inv, TypeOK, StreamLag
<1>2. /\ received' = Accounted(s, missing, FALSE)
      /\ recvPayload' = [recvPayload EXCEPT ![s] = @ + missing]
      /\ flowErrors' = flowErrors \cup Exceeded(received')
      /\ UNCHANGED <<sendVars, quicVars, rReady, creditGranted, maxLocal>>
      /\ role' = role
  BY DEF OnReset
<1>3. recvDead' \subseteq Stream
  BY <1>1 DEF OnReset
<1>4. /\ missing \in Nat
      /\ missing = 0 \/ (role[s] = "wtdata" /\ recvPayload[s] + missing + 1 <= emitted[s])
  BY <1>1 DEF Monus
<1> HIDE DEF missing
<1> QED
  BY <1>2, <1>3, <1>4, ChargeInv


\* Settling the resets, as flush_stream does first, lowers the session's charge by what
\* the streams give back, so the room left under the peer's limit is real.
LEMMA ReconciledTotals ==
  ASSUME Inv, NEW pay \in [Stream -> Nat]
  PROVE  /\ Reconciled \in [Stream -> Nat]
         /\ ReconciledData \in Nat /\ ReconciledData <= sent["data"]
         /\ Total([s \in Stream |-> Reconciled[s] + pay[s]]) = ReconciledData + Total(pay)
<1> DEFINE u == [s \in Stream |-> Unsent(s, s \in reset)]
           h == [s \in Stream |-> Reconciled[s] + pay[s]]
<1>0. sendPayload \in [Stream -> Nat]
  BY DEF Inv, TypeOK
<1>1. \A s \in Stream : u[s] \in 0 .. sendPayload[s]
  <2> SUFFICES ASSUME NEW s \in Stream PROVE Unsent(s, s \in reset) \in 0 .. sendPayload[s]
    OBVIOUS
  <2>1. (s \in reset) \in BOOLEAN
    OBVIOUS
  <2> QED
    BY <2>1, UnsentBounds
<1>2. \A s \in Stream : Reconciled[s] = sendPayload[s] - u[s]
  BY DEF Reconciled
<1>3. Reconciled = [s \in Stream |-> sendPayload[s] - u[s]]
  BY DEF Reconciled
<1>4. ReconciledData = Monus(sent["data"], Total(u))
  BY DEF ReconciledData
<1>5. u = [s \in Stream |-> u[s]]
  OBVIOUS
<1> HIDE DEF u
<1>6. u \in [Stream -> Nat] /\ Reconciled \in [Stream -> Nat]
  BY <1>0, <1>1, <1>3, <1>5
<1>7. \A s \in Stream : sendPayload[s] = Reconciled[s] + u[s]
  <2> SUFFICES ASSUME NEW s \in Stream PROVE sendPayload[s] = Reconciled[s] + u[s]
    OBVIOUS
  <2>1. sendPayload[s] \in Nat /\ u[s] \in Nat /\ Reconciled[s] = sendPayload[s] - u[s]
    BY <1>0, <1>2, <1>6
  <2> QED
    BY <2>1
<1>8. Total(sendPayload) = Total(Reconciled) + Total(u)
  BY <1>0, <1>6, <1>7, TotalSum
<1>9. Total(Reconciled) \in Nat /\ Total(u) \in Nat
  BY <1>6, TotalType
<1>10. sent["data"] = Total(sendPayload)
  BY DEF Inv, CreditConserved
<1>11. ReconciledData = Total(Reconciled) /\ Total(Reconciled) <= sent["data"]
  BY <1>4, <1>8, <1>9, <1>10 DEF Monus
<1>12. h \in [Stream -> Nat] /\ \A s \in Stream : h[s] = Reconciled[s] + pay[s]
  BY <1>6
<1> HIDE DEF h
<1>13. Total(h) = Total(Reconciled) + Total(pay)
  BY <1>6, <1>12, TotalSum
<1> QED
  BY <1>6, <1>9, <1>11, <1>13 DEF h

\* flush, sending half: opens are released and bytes handed to QUIC within the limits.
LEMMA FlushInv ==
  ASSUME Inv, Flush
  PROVE  Inv'
<1>0. PICK new \in SUBSET (Stream \ opened), pay \in [Stream -> 0 .. MaxWrite],
           dead \in SUBSET (inMap \cap stopped) :
        \E pre \in SUBSET (prefixQueued \cup new) : FlushWith(new, pre, pay, dead)
  BY DEF Flush
<1>1. PICK pre \in SUBSET (prefixQueued \cup new) : FlushWith(new, pre, pay, dead)
  BY <1>0
<1> DEFINE queued == prefixQueued \cup new
           map    == inMap \cup new
           left   == (queued \ pre) \ dead
           o      == [s \in Stream |-> IF s \in dead THEN 0 ELSE out[s] - pay[s]]
           fins   == finSent \cup dead
                       \cup {s \in finQueued \cap map : Drained(s, left, o) /\ s \notin reset}
           data   == ReconciledData + Total(pay)
           pending == ReleasedPending(pendingOpens, new)
<1>2. /\ ReleasesExactly(pendingOpens, new)
      /\ Accepts(queued, pre, pay)
  BY <1>1 DEF FlushWith
<1>3. PICK gone \in SUBSET Prunable(map, left, o, fins) : inMap' = map \ gone
  BY <1>1 DEF FlushWith
<1>4. /\ opened' = opened \cup new
      /\ pendingOpens' = pending
      /\ prefixQueued' = left
      /\ out' = o
      /\ sendPayload' = [s \in Stream |-> Reconciled[s] + pay[s]]
      /\ sent' = SentWith(new, data)
      /\ finSent' = fins
      /\ created' = created \cup pre
  BY <1>1 DEF FlushWith
<1>5. blockedAt' = [r \in Resource |-> IF Blocked(r, SentWith(new, data), o, map, pending)
                                       THEN maxRemote[r] ELSE blockedAt[r]]
  BY <1>1 DEF FlushWith
<1>6. UNCHANGED <<sReady, maxRemote, finQueued, recvVars, emitted, reset, stopped,
                  stopSent, capsules, flowErrors>>
  BY DEF Flush
<1>7. /\ opened \subseteq Stream /\ inMap \subseteq opened /\ prefixQueued \subseteq inMap
      /\ created \subseteq opened /\ out \in [Stream -> Nat] /\ finSent \subseteq Stream
      /\ finQueued \subseteq Stream /\ pendingOpens \in [Kinds -> Nat]
      /\ maxRemote \in [Resource -> Nat] /\ sent \in [Resource -> Nat]
      /\ "data" \in Resource
  BY DEF Inv, TypeOK, Resource
<1>8. pay \in [Stream -> Nat] /\ Total(pay) \in Nat
  <2>1. pay \in [Stream -> Nat]
    BY CreditAssumption
  <2> QED
    BY <2>1, TotalType
<1>9. /\ Reconciled \in [Stream -> Nat]
      /\ ReconciledData \in Nat /\ ReconciledData <= sent["data"]
      /\ Total(sendPayload') = data
  BY <1>4, <1>8, ReconciledTotals
<1>10. /\ pre \subseteq queued \ reset
       /\ \A s \in Stream : /\ pay[s] <= out[s]
                            /\ pay[s] > 0 => s \in inMap /\ s \notin queued \ pre
       /\ Total(pay) <= Monus(maxRemote["data"], ReconciledData)
  BY <1>2 DEF Accepts
<1>11. data \in Nat /\ data <= maxRemote["data"]
  <2>1. sent["data"] <= maxRemote["data"] /\ sent["data"] \in Nat /\ maxRemote["data"] \in Nat
    BY <1>7 DEF Inv
  <2> QED
    BY <1>8, <1>9, <1>10, <2>1 DEF Monus
<1> HIDE DEF data
<1>12. pending \in [Kinds -> Nat]
  BY <1>2, <1>7, <1>11, Releases
<1>13. sent' \in [Resource -> Nat]
  BY <1>2, <1>4, <1>7, <1>11, Releases
<1>14. sent'["data"] = data
  BY <1>2, <1>4, <1>7, <1>11, Releases
<1>15. \A k \in Kinds : /\ sent'[k] <= maxRemote[k]
                        /\ sent'[k] = Cardinality((opened \cup new) \cap StreamsOf(k))
  <2> SUFFICES ASSUME NEW k \in Kinds
               PROVE  /\ SentWith(new, data)[k] <= maxRemote[k]
                      /\ SentWith(new, data)[k] = Cardinality((opened \cup new) \cap StreamsOf(k))
    BY <1>4
  <2>1. \A d \in Nat :
          /\ SentWith(new, d)[k] <= maxRemote[k]
          /\ SentWith(new, d)[k] = Cardinality((opened \cup new) \cap StreamsOf(k))
    BY <1>2, <1>7, Releases
  <2> QED
    BY <1>11, <2>1
<1>16. dead \subseteq inMap \cap stopped
  OBVIOUS
<1>17. gone \subseteq {s \in map : s \in fins /\ s \notin left /\ o[s] = 0}
  BY <1>3 DEF Prunable, Drained
<1>18. fins \subseteq Stream /\ finSent \subseteq fins
  BY <1>7, <1>16
<1>19. o \in [Stream -> Nat]
  BY <1>7, <1>8, <1>10
<1>20. sendPayload' \in [Stream -> Nat]
  BY <1>4, <1>8, <1>9
<1>21. blockedAt' \in [Resource -> Nat \cup {-1}]
  <2>1. blockedAt \in [Resource -> Nat \cup {-1}]
    BY DEF Inv, TypeOK
  <2> HIDE DEF o, map, pending
  <2> QED
    BY <1>5, <1>7, <2>1
<1>22. /\ opened' \subseteq Stream /\ inMap' \subseteq opened' /\ prefixQueued' \subseteq inMap'
       /\ created' \subseteq opened'
  <2>1. inMap' = map \ gone
    BY <1>3
  <2>2. left \subseteq map \ gone
    BY <1>7, <1>17
  <2>3. created \cup pre \subseteq opened \cup new
    BY <1>7
  <2> QED
    BY <1>4, <1>7, <2>1, <2>2, <2>3
<1>23. TypeOK'
  <2>1. pendingOpens' \in [Kinds -> Nat] /\ out' \in [Stream -> Nat] /\ finSent' \subseteq Stream
    BY <1>4, <1>12, <1>18, <1>19
  <2> QED
    BY <1>6, <1>13, <1>20, <1>21, <1>22, <2>1 DEF Inv, TypeOK, recvVars
<1>24. CreditConserved'
  <2>1. sent'["data"] = Total(sendPayload')
    BY <1>9, <1>14
  <2>2. \A k \in Kinds : sent'[k] = Cardinality(opened' \cap StreamsOf(k))
    BY <1>4, <1>15
  <2> QED
    BY <1>6, <2>1, <2>2 DEF Inv, CreditConserved, recvVars
<1>25. \A r \in Resource : sent'[r] <= maxRemote'[r] /\ maxRemote'[r] <= maxLocal'[r]
  <2>1. \A r \in Resource : sent'[r] <= maxRemote[r]
    BY <1>11, <1>14, <1>15 DEF Resource
  <2> QED
    BY <1>6, <2>1 DEF Inv, recvVars
<1>26. StreamLag'
  <2> SUFFICES ASSUME NEW s \in Stream
               PROVE  /\ emitted[s] <= 1 + sendPayload'[s]
                      /\ s \notin created' => sendPayload'[s] = 0 /\ emitted[s] = 0
                      /\ IF role[s] = "wtdata" THEN recvPayload[s] + 1 <= emitted[s] ELSE recvPayload[s] = 0
    BY <1>6 DEF StreamLag, recvVars
  <2> DEFINE back == Unsent(s, s \in reset)
  <2>1. back \in 0 .. sendPayload[s] /\ emitted[s] <= 1 + (sendPayload[s] - back)
    <3>1. (s \in reset) \in BOOLEAN
      OBVIOUS
    <3> QED
      BY <3>1, UnsentBounds
  <2>2. sendPayload'[s] = sendPayload[s] - back + pay[s]
    BY <1>4 DEF Reconciled
  <2> HIDE DEF back
  <2>3. sendPayload[s] \in Nat /\ pay[s] \in Nat /\ emitted[s] \in Nat /\ back \in Nat
    BY <1>8, <2>1 DEF Inv, TypeOK
  <2>4. emitted[s] <= 1 + sendPayload'[s]
    BY <2>1, <2>2, <2>3
  <2>5. ASSUME s \notin created' PROVE sendPayload'[s] = 0 /\ emitted[s] = 0
    <3>1. s \notin created /\ s \notin pre
      BY <1>4, <2>5
    <3>2. sendPayload[s] = 0 /\ emitted[s] = 0
      BY <3>1 DEF Inv, StreamLag
    <3>3. s \in prefixQueued \/ out[s] = 0
      BY <3>1 DEF Inv, PrefixFirst
    <3>4. pay[s] = 0
      BY <1>7, <1>10, <2>3, <3>1, <3>3
    <3>5. back = 0
      BY <2>1, <2>3, <3>2
    <3>6. sendPayload'[s] = 0 - 0 + 0
      BY <2>2, <3>2, <3>4, <3>5
    <3> QED
      BY <3>2, <3>6
  <2>6. IF role[s] = "wtdata" THEN recvPayload[s] + 1 <= emitted[s] ELSE recvPayload[s] = 0
    BY DEF Inv, StreamLag
  <2> QED
    BY <2>4, <2>5, <2>6
<1>27. PrefixFirst'
  <2> SUFFICES ASSUME NEW s \in Stream, s \notin created', s \notin prefixQueued'
               PROVE  out'[s] = 0 /\ (s \in finSent' \/ s \notin opened')
    BY DEF PrefixFirst
  <2>1. s \notin created /\ s \notin pre
    BY <1>4
  <2>2. CASE s \in queued
    <3>1. s \in dead
      BY <1>4, <2>1, <2>2
    <3> QED
      BY <1>4, <3>1
  <2>3. CASE s \notin queued
    <3>1. out[s] = 0 /\ (s \in finSent \/ s \notin opened) /\ s \notin new
      BY <2>1, <2>3 DEF Inv, PrefixFirst
    <3>2. pay[s] = 0
      BY <1>8, <1>10, <3>1
    <3> QED
      BY <1>4, <1>18, <3>1, <3>2
  <2> QED
    BY <2>2, <2>3
<1>28. /\ InOrder(capsules', maxRemote', maxLocal')
       /\ GrantOnce' /\ OutstandingCreditBounded' /\ NoFlowError'
  BY <1>6 DEF Inv, GrantOnce, OutstandingCreditBounded, NoFlowError, recvVars
<1> QED
  BY <1>23, <1>24, <1>25, <1>26, <1>27, <1>28 DEF Inv

\* Every step keeps the invariant.
LEMMA NextInv == Inv /\ [Next]_vars => Inv'
<1> SUFFICES ASSUME Inv, [Next]_vars PROVE Inv'
  OBVIOUS
<1>1. CASE SenderReady \/ ReceiverReady
  BY <1>1, QuietSenderInv
<1>2. ASSUME NEW k \in Kinds, OpenStream(k) PROVE Inv'
  BY <1>2, OpenStreamInv
<1>3. ASSUME NEW s \in Stream, StreamWrite(s) \/ StreamFin(s) PROVE Inv'
  BY <1>3, QuietSenderInv
<1>4. ASSUME NEW s \in Stream, StreamReset(s) PROVE Inv'
  BY <1>4, StreamResetInv
<1>5. ASSUME NEW s \in Stream, Emit(s) \/ RecvStopSending(s) \/ StreamStopSending(s) PROVE Inv'
  BY <1>5, QuicInv
<1>6. ASSUME NEW s \in Stream, OnReset(s) PROVE Inv'
  BY <1>6, OnResetInv
<1>7. ASSUME NEW s \in Stream, NEW n \in 0 .. MaxWrite + 1, OnReadable(s, n) PROVE Inv'
  <2>1. n \in Nat
    BY CreditAssumption
  <2> QED
    BY <1>7, <2>1, OnReadableInv
<1>8. CASE Flush
  BY <1>8, FlushInv
<1>9. CASE RecvCapsule
  BY <1>9, RecvCapsuleInv
<1>10. CASE FlushReceiver
  BY <1>10, FlushReceiverInv
<1>11. CASE UNCHANGED vars
  BY <1>11 DEF vars, sendVars, recvVars, quicVars, Inv, TypeOK, CreditConserved, StreamLag,
               PrefixFirst, GrantOnce, OutstandingCreditBounded, NoFlowError
<1> QED
  BY <1>1, <1>2, <1>3, <1>4, <1>5, <1>6, <1>7, <1>8, <1>9, <1>10, <1>11 DEF Next

\* The invariant gives the whole chain of limits: what was received is below what was sent.
LEMMA InvChain == Inv => CreditChain
<1> SUFFICES ASSUME Inv PROVE CreditChain
  OBVIOUS
<1>1. /\ sendPayload \in [Stream -> Nat] /\ recvPayload \in [Stream -> Nat]
      /\ emitted \in [Stream -> Nat] /\ opened \subseteq Stream /\ created \subseteq opened
  BY DEF Inv, TypeOK
<1>2. Total(recvPayload) <= Total(sendPayload)
  <2>1. \A s \in Stream : /\ emitted[s] <= 1 + sendPayload[s]
                          /\ IF role[s] = "wtdata" THEN recvPayload[s] + 1 <= emitted[s] ELSE recvPayload[s] = 0
    BY DEF Inv, StreamLag
  <2> QED
    BY <1>1, <2>1, ReceivedBelowSent
<1>3. received["data"] <= sent["data"]
  BY <1>2 DEF Inv, CreditConserved
<1>4. ASSUME NEW k \in Kinds PROVE received[k] <= sent[k]
  <2>1. \A s \in Stream : role[s] = "wtdata" => s \in opened
    BY <1>1 DEF Inv, StreamLag
  <2>2. Cardinality({s \in StreamsOf(k) : role[s] = "wtdata"}) <= Cardinality(opened \cap StreamsOf(k))
    BY <1>1, <2>1, ClassifiedBelowOpened
  <2> QED
    BY <2>2 DEF Inv, CreditConserved
<1>5. \A r \in Resource : received[r] <= sent[r]
  BY <1>3, <1>4 DEF Resource
<1> QED
  BY <1>5 DEF Inv, CreditChain

-----------------------------------------------------------------------------
(* The theorems *)

\* Every reachable state of the two endpoints satisfies the inductive invariant.
THEOREM Invariance == Spec => []Inv
<1>1. Init => Inv
  BY InitInv
<1>2. Inv /\ [Next]_vars => Inv'
  BY NextInv
<1> QED
  BY <1>1, <1>2, PTL DEF Spec

\* The model is typed: in particular no counter of session.rs goes below zero.
THEOREM TypeCorrect == Spec => []TypeOK
<1>1. Inv => TypeOK
  BY DEF Inv
<1> QED
  BY <1>1, Invariance, PTL

\* fc_data_sent and fc_data_received equal the sums of their streams' charges, whatever
\* the order of flushes, resets, STOP_SENDINGs and reads.
THEOREM Conservation == Spec => []CreditConserved
<1>1. Inv => CreditConserved
  BY DEF Inv
<1> QED
  BY <1>1, Invariance, PTL

\* Received <= sent <= the sender's limit < the limits in flight, rising, <= the
\* receiver's limit, for all three credits.
THEOREM Chain == Spec => []CreditChain
  BY InvChain, Invariance, PTL

\* Two endpoints that run session.rs never call flow_error on each other.
THEOREM NoFlowErrorEver == Spec => []NoFlowError
<1>1. Inv => NoFlowError
  BY DEF Inv
<1> QED
  BY <1>1, Invariance, PTL

\* The peer never holds more than one grant of unused credit.
THEOREM CreditBounded == Spec => []OutstandingCreditBounded
<1>1. Inv => OutstandingCreditBounded
  BY DEF Inv
<1> QED
  BY <1>1, Invariance, PTL

-----------------------------------------------------------------------------
(* The refinement of CreditContract *)

\* What the invariant says of the counters after a step.
LEMMA CountersAfter ==
  ASSUME Inv'
  PROVE  /\ sent' \in [Resource -> Nat] /\ maxRemote' \in [Resource -> Nat]
         /\ received' \in [Resource -> Nat] /\ maxLocal' \in [Resource -> Nat]
         /\ \A r \in Resource : /\ received'[r] <= sent'[r] /\ sent'[r] <= maxRemote'[r]
                               /\ maxRemote'[r] <= maxLocal'[r]
                               /\ maxLocal'[r] <= received'[r] + GrantMax[r]
<1>1. CreditChain'
  BY InvChain, PTL
<1> QED
  BY <1>1 DEF Inv, TypeOK, CreditChain, OutstandingCreditBounded

\* Charging a stream never lowers what the receiver counted.
LEMMA AccountedGrows ==
  ASSUME Inv, NEW s \in Stream, NEW amount \in Nat, NEW incoming \in BOOLEAN
  PROVE  \A r \in Resource : received[r] <= Accounted(s, amount, incoming)[r]
<1>1. received \in [Resource -> Nat] /\ KindOf(s) \in Resource /\ KindOf(s) # "data" /\ "data" \in Resource
  BY DEF Inv, TypeOK, KindOf, Resource, Kinds
<1> QED
  BY <1>1 DEF Accounted

\* Every step of the two endpoints is a step of the contract, or changes none of its
\* counters.
LEMMA ContractStep ==
  ASSUME Inv, Inv', [Next]_vars
  PROVE  Contract!Next \/ UNCHANGED <<sent, maxRemote, received, maxLocal>>
<1> USE DEF Contract!Next, Contract!Within
<1>0. /\ sent \in [Resource -> Nat] /\ maxRemote \in [Resource -> Nat]
      /\ received \in [Resource -> Nat] /\ maxLocal \in [Resource -> Nat]
  BY DEF Inv, TypeOK
<1>1. CASE UNCHANGED <<maxRemote, received, maxLocal>>
  BY <1>1, CountersAfter DEF Contract!Spend
<1>2. CASE /\ UNCHANGED <<sent, maxRemote, maxLocal>>
           /\ \A r \in Resource : received[r] <= received'[r]
  BY <1>2, CountersAfter DEF Contract!Count
<1>3. CASE FlushReceiver
  <2>1. UNCHANGED <<sent, maxRemote, received>>
    BY <1>3 DEF FlushReceiver, sendVars
  <2>2. GrantMax \in [Resource -> Nat] /\ \A r \in Resource : InitialMax[r] < GrantMax[r]
    BY CreditAssumption
  <2>3. ASSUME NEW r \in Resource PROVE maxLocal[r] <= Granted[r] /\ Granted[r] \in Nat
    BY <1>0, <2>2, CreditAssumption DEF Inv, GrantOnce, Granted
  <2>4. ASSUME NEW r \in Resource PROVE maxLocal[r] <= maxLocal'[r]
    <3>1. maxLocal'[r] = Replenished(Granted, r)
      BY <1>3 DEF FlushReceiver
    <3> QED
      BY <1>0, <2>2, <2>3, <3>1 DEF Replenished
  <2>5. [r \in Resource |-> received[r] + GrantMax[r]] = [r \in Resource |-> received'[r] + GrantMax[r]]
    BY <2>1
  <2> QED
    BY <2>1, <2>4, CountersAfter DEF Contract!Offer
<1>4. CASE RecvCapsule
  <2>1. UNCHANGED <<sent, received, maxLocal>>
    BY <1>4 DEF RecvCapsule, recvVars
  <2> DEFINE c == Head(capsules)
  <2>2. c \in Capsule
    <3>1. capsules \in Seq(Capsule) /\ capsules # <<>>
      BY <1>4 DEF RecvCapsule, Inv, TypeOK
    <3> QED
      BY <3>1
  <2> HIDE DEF c
  <2>3. ASSUME NEW r \in Resource PROVE maxRemote[r] <= maxRemote'[r]
    <3>1. c.res \in Resource /\ c.max \in Nat
      BY <2>2 DEF Capsule
    <3>2. CASE c.max > maxRemote[c.res]
      <4>1. maxRemote' = [maxRemote EXCEPT ![c.res] = c.max]
        BY <1>4, <3>2 DEF RecvCapsule, c
      <4> QED
        BY <1>0, <3>1, <3>2, <4>1
    <3>3. CASE ~(c.max > maxRemote[c.res])
      <4>1. maxRemote' = maxRemote
        BY <1>4, <3>3 DEF RecvCapsule, c
      <4> QED
        BY <1>0, <4>1
    <3> QED
      BY <3>2, <3>3
  <2> QED
    BY <2>1, <2>3, CountersAfter DEF Contract!Learn
<1>5. ASSUME NEW s \in Stream, OnReset(s)
      PROVE  Contract!Next \/ UNCHANGED <<sent, maxRemote, received, maxLocal>>
  <2> DEFINE missing == IF role[s] = "wtdata" THEN Monus(Monus(emitted[s], 1), recvPayload[s]) ELSE 0
  <2>1. missing \in Nat
    BY DEF Inv, TypeOK, Monus
  <2>2. received' = Accounted(s, missing, FALSE) /\ UNCHANGED <<sent, maxRemote, maxLocal>>
    BY <1>5 DEF OnReset, sendVars
  <2>3. \A r \in Resource : received[r] <= received'[r]
    BY <2>1, <2>2, AccountedGrows
  <2> QED
    BY <1>2, <2>2, <2>3
<1>6. ASSUME NEW s \in Stream, NEW n \in 0 .. MaxWrite + 1, OnReadable(s, n)
      PROVE  Contract!Next \/ UNCHANGED <<sent, maxRemote, received, maxLocal>>
  <2> DEFINE incoming == role[s] = "pending"
             amount == IF incoming THEN n - 1 ELSE n
  <2>1. amount \in Nat
    <3>1. n \in Nat
      BY CreditAssumption
    <3>2. incoming => n > 0
      BY <1>6, <3>1 DEF OnReadable
    <3> QED
      BY <3>1, <3>2
  <2>2. received' = Accounted(s, amount, incoming) /\ UNCHANGED <<sent, maxRemote, maxLocal>>
    BY <1>6 DEF OnReadable, sendVars
  <2>3. \A r \in Resource : received[r] <= received'[r]
    BY <2>1, <2>2, AccountedGrows
  <2> QED
    BY <1>2, <2>2, <2>3
<1>7. CASE SenderReady \/ ReceiverReady \/ Flush \/ UNCHANGED vars
  <2>1. UNCHANGED <<maxRemote, received, maxLocal>>
    BY <1>7 DEF SenderReady, ReceiverReady, Flush, vars, sendVars, recvVars
  <2> QED
    BY <1>1, <2>1
<1>8. ASSUME NEW k \in Kinds, OpenStream(k)
      PROVE  Contract!Next \/ UNCHANGED <<sent, maxRemote, received, maxLocal>>
  <2>1. UNCHANGED <<maxRemote, received, maxLocal>>
    BY <1>8 DEF OpenStream, recvVars
  <2> QED
    BY <1>1, <2>1
<1>9. ASSUME NEW s \in Stream, \/ StreamWrite(s) \/ StreamFin(s) \/ StreamReset(s) \/ Emit(s)
                               \/ RecvStopSending(s) \/ StreamStopSending(s)
      PROVE  Contract!Next \/ UNCHANGED <<sent, maxRemote, received, maxLocal>>
  <2>1. UNCHANGED <<maxRemote, received, maxLocal>>
    BY <1>9 DEF StreamWrite, StreamFin, StreamReset, Emit, RecvStopSending, StreamStopSending,
                sendVars, recvVars
  <2> QED
    BY <1>1, <2>1
<1> QED
  BY <1>3, <1>4, <1>5, <1>6, <1>7, <1>8, <1>9 DEF Next

\* SessionFlow implements CreditContract: for any streams, writes, resets and limits, what
\* session.rs does at both ends is an exchange of credit under the contract.
THEOREM Refinement == Spec => ImplementsContract
<1>1. Init => Contract!Init
  BY DEF Init, Contract!Init
<1>2. Inv /\ Inv' /\ [Next]_vars => [Contract!Next]_<<sent, maxRemote, received, maxLocal>>
  BY ContractStep
<1>3. <<sent, maxRemote, received, maxLocal>> = Contract!creditVars
  BY DEF Contract!creditVars
<1> QED
  BY <1>1, <1>2, Invariance, PTL DEF Spec, ImplementsContract, Contract!Spec, Contract!creditVars

-----------------------------------------------------------------------------
(* Agreement on streams that were reset *)

\* The initial states of the reset invariant.
LEMMA InitResetInv == Init => ResetInv
  BY DEF Init, ResetInv, FinDrained, ResetSettled, EndSettled

\* stream_reset fixes the sender's charge at the final size, which a stream that was
\* read to its FIN had reached already.
LEMMA StreamResetSettles ==
  ASSUME Inv, ResetInv, NEW s \in Stream, StreamReset(s)
  PROVE  ResetInv'
<1> DEFINE back == Unsent(s, s \in created)
<1>0. /\ sendPayload \in [Stream -> Nat] /\ emitted \in [Stream -> Nat] /\ out \in [Stream -> Nat]
      /\ recvPayload \in [Stream -> Nat] /\ finSent \subseteq Stream /\ recvDead \subseteq Stream
      /\ reset \subseteq Stream
  BY DEF Inv, TypeOK
<1>1. /\ sendPayload' = [sendPayload EXCEPT ![s] = @ - back]
      /\ out' = [out EXCEPT ![s] = 0] /\ finSent' = finSent \cup {s}
      /\ reset' = reset \cup ({s} \cap created)
      /\ UNCHANGED <<emitted, stopSent, recvDead, role, recvPayload>>
      /\ s \in inMap
  BY DEF StreamReset, recvVars
<1>2. sendPayload[s] \in Nat /\ emitted[s] \in Nat /\ emitted[s] <= 1 + sendPayload[s]
  BY <1>0 DEF Inv, StreamLag
<1>3. s \in created => sendPayload[s] - back = Monus(emitted[s], 1)
  BY <1>1, <1>2 DEF Unsent, Monus
<1>4. s \notin created => back = 0
  BY DEF Unsent
<1>5. FinDrained'
  BY <1>0, <1>1 DEF ResetInv, FinDrained
<1>6. ResetSettled'
  BY <1>0, <1>1, <1>3, <1>4 DEF ResetInv, ResetSettled
<1>7. EndSettled'
  <2>1. emitted[s] = 1 + sendPayload[s] => back = 0
    BY <1>1, <1>2 DEF Unsent, Monus
  <2> QED
    BY <1>0, <1>1, <2>1 DEF ResetInv, EndSettled
<1> QED
  BY <1>5, <1>6, <1>7 DEF ResetInv

\* flush hands QUIC nothing of a stream that was reset or whose queue is empty, and
\* reconciles a settled charge by nothing.
LEMMA FlushSettles ==
  ASSUME Inv, ResetInv, Flush
  PROVE  ResetInv'
<1>0. /\ sendPayload \in [Stream -> Nat] /\ emitted \in [Stream -> Nat] /\ out \in [Stream -> Nat]
      /\ recvPayload \in [Stream -> Nat] /\ finSent \subseteq Stream /\ recvDead \subseteq Stream
      /\ reset \subseteq Stream /\ inMap \subseteq Stream
  BY DEF Inv, TypeOK
<1>1. PICK new \in SUBSET (Stream \ opened), pay \in [Stream -> 0 .. MaxWrite],
           dead \in SUBSET (inMap \cap stopped) :
        \E pre \in SUBSET (prefixQueued \cup new) : FlushWith(new, pre, pay, dead)
  BY DEF Flush
<1>2. PICK pre \in SUBSET (prefixQueued \cup new) : FlushWith(new, pre, pay, dead)
  BY <1>1
<1> DEFINE queued == prefixQueued \cup new
           o == [s \in Stream |-> IF s \in dead THEN 0 ELSE out[s] - pay[s]]
           left == (queued \ pre) \ dead
           fins == finSent \cup dead
                     \cup {s \in finQueued \cap (inMap \cup new) : Drained(s, left, o) /\ s \notin reset}
<1>3. /\ out' = o /\ finSent' = fins
      /\ sendPayload' = [s \in Stream |-> Reconciled[s] + pay[s]]
      /\ UNCHANGED <<emitted, reset, stopSent, recvDead, role, recvPayload>>
  BY <1>2 DEF FlushWith, Flush, recvVars
<1>4. \A s \in Stream : /\ pay[s] \in Nat /\ pay[s] <= out[s]
                        /\ pay[s] > 0 => s \notin reset
  BY <1>2, CreditAssumption DEF FlushWith, Accepts
<1>5. ASSUME NEW s \in Stream,
             s \in reset => sendPayload[s] = Monus(emitted[s], 1),
             s \in reset \/ out[s] = 0
      PROVE  sendPayload'[s] = sendPayload[s]
  <2>1. pay[s] = 0
    BY <1>0, <1>4, <1>5
  <2>2. Unsent(s, s \in reset) = 0
    BY <1>0, <1>5 DEF Unsent, Monus
  <2> QED
    BY <1>0, <1>3, <2>1, <2>2 DEF Reconciled
<1>6. FinDrained'
  <2>1. ASSUME NEW s \in finSent PROVE o[s] = 0
    <3>1. s \in Stream /\ out[s] = 0 /\ pay[s] = 0
      BY <1>0, <1>4 DEF ResetInv, FinDrained
    <3> QED
      BY <3>1
  <2>2. dead \subseteq Stream
    BY <1>0
  <2>3. ASSUME NEW s \in dead PROVE o[s] = 0
    BY <2>2
  <2>4. ASSUME NEW s \in fins PROVE o[s] = 0
    <3>1. CASE Drained(s, left, o)
      BY <3>1 DEF Drained
    <3> QED
      BY <2>1, <2>3, <3>1
  <2> HIDE DEF o, fins
  <2> QED
    BY <1>3, <2>4 DEF FinDrained
<1>7. ResetSettled'
  <2> SUFFICES ASSUME NEW s \in reset \ stopSent PROVE sendPayload'[s] = Monus(emitted[s], 1)
    BY <1>3 DEF ResetSettled
  <2>1. s \in Stream /\ sendPayload[s] = Monus(emitted[s], 1)
    BY <1>0 DEF ResetInv, ResetSettled
  <2> QED
    BY <1>5, <2>1
<1>8. EndSettled'
  <2> SUFFICES ASSUME NEW s \in recvDead \ stopSent, role[s] = "wtdata"
               PROVE  /\ recvPayload[s] = sendPayload'[s] /\ emitted[s] = 1 + sendPayload'[s]
                      /\ s \in reset \cup finSent'
    BY <1>3 DEF EndSettled
  <2>1. /\ recvPayload[s] = sendPayload[s] /\ emitted[s] = 1 + sendPayload[s]
        /\ s \in reset \cup finSent /\ s \in Stream
    BY <1>0 DEF ResetInv, EndSettled
  <2>2. s \in finSent => out[s] = 0
    BY DEF ResetInv, FinDrained
  <2>3. sendPayload[s] = Monus(emitted[s], 1)
    BY <1>0, <2>1 DEF Monus
  <2>4. sendPayload'[s] = sendPayload[s]
    BY <1>5, <2>1, <2>2, <2>3
  <2> QED
    BY <1>3, <2>1, <2>4
<1> QED
  BY <1>6, <1>7, <1>8 DEF ResetInv

\* on_readable keeps what a stream that ended was charged.
LEMMA OnReadableSettles ==
  ASSUME Inv, ResetInv, NEW s \in Stream, NEW n \in Nat, OnReadable(s, n)
  PROVE  ResetInv'
<1> DEFINE incoming == role[s] = "pending"
           amount == IF incoming THEN n - 1 ELSE n
<1>0. /\ sendPayload \in [Stream -> Nat] /\ emitted \in [Stream -> Nat]
      /\ recvPayload \in [Stream -> Nat] /\ recvDead \subseteq Stream
      /\ role \in [Stream -> {"pending", "wtdata"}]
  BY DEF Inv, TypeOK
<1>1. /\ UNCHANGED <<sendPayload, out, finSent, emitted, reset, stopSent>>
      /\ role' = [role EXCEPT ![s] = "wtdata"]
      /\ recvPayload' = [recvPayload EXCEPT ![s] = @ + amount]
      /\ s \notin recvDead
      /\ recvDead' \subseteq recvDead \cup {s}
  BY DEF OnReadable, sendVars, quicVars
<1>2. s \in recvDead' => FinReached(s, ReadOffset(s) + n)
  BY <1>1 DEF OnReadable
<1>3. incoming => n > 0 /\ recvPayload[s] = 0
  BY DEF OnReadable, Inv, StreamLag
<1>4. s \in recvDead' => /\ recvPayload'[s] = sendPayload[s] /\ emitted[s] = 1 + sendPayload[s]
                         /\ s \in finSent
  <2>1. sendPayload[s] \in Nat /\ recvPayload[s] \in Nat /\ recvPayload'[s] = recvPayload[s] + amount
    BY <1>0, <1>1
  <2> QED
    BY <1>2, <1>3, <2>1 DEF FinReached, ReadOffset
<1>5. EndSettled'
  BY <1>0, <1>1, <1>4 DEF ResetInv, EndSettled
<1> QED
  BY <1>1, <1>5 DEF ResetInv, FinDrained, ResetSettled

\* The reset arm of on_readable counts exactly what the sender was charged.
LEMMA OnResetSettles ==
  ASSUME Inv, ResetInv, NEW s \in Stream, OnReset(s)
  PROVE  ResetInv'
<1> DEFINE missing == IF role[s] = "wtdata" THEN Monus(Monus(emitted[s], 1), recvPayload[s]) ELSE 0
<1>0. /\ sendPayload \in [Stream -> Nat] /\ emitted \in [Stream -> Nat]
      /\ recvPayload \in [Stream -> Nat] /\ recvDead \subseteq Stream
  BY DEF Inv, TypeOK
<1>1. /\ UNCHANGED <<sendPayload, out, finSent, emitted, reset, stopSent, role>>
      /\ recvPayload' = [recvPayload EXCEPT ![s] = @ + missing]
      /\ s \in reset \ recvDead
      /\ recvDead' = recvDead \cup {s}
  BY DEF OnReset, sendVars, quicVars
<1>2. s \notin stopSent /\ role[s] = "wtdata" =>
        recvPayload'[s] = sendPayload[s] /\ emitted[s] = 1 + sendPayload[s]
  <2>1. role[s] = "wtdata" => recvPayload[s] + 1 <= emitted[s]
    BY DEF Inv, StreamLag
  <2>2. s \notin stopSent => sendPayload[s] = Monus(emitted[s], 1)
    BY <1>1 DEF ResetInv, ResetSettled
  <2>3. sendPayload[s] \in Nat /\ emitted[s] \in Nat /\ recvPayload[s] \in Nat
        /\ recvPayload'[s] = recvPayload[s] + missing
    BY <1>0, <1>1
  <2> QED
    BY <2>1, <2>2, <2>3 DEF Monus
<1>3. EndSettled'
  BY <1>0, <1>1, <1>2 DEF ResetInv, EndSettled
<1> QED
  BY <1>1, <1>3 DEF ResetInv, FinDrained, ResetSettled

\* Every step keeps the reset invariant.
LEMMA NextResetInv == Inv /\ ResetInv /\ [Next]_vars => ResetInv'
<1> SUFFICES ASSUME Inv, ResetInv, [Next]_vars PROVE ResetInv'
  OBVIOUS
<1> DEFINE settled == <<finSent, reset, stopSent, sendPayload, emitted, recvDead, role, recvPayload>>
<1>0. /\ sendPayload \in [Stream -> Nat] /\ emitted \in [Stream -> Nat]
      /\ out \in [Stream -> Nat] /\ reset \subseteq Stream
  BY DEF Inv, TypeOK
<1>1. CASE UNCHANGED <<settled, out>>
  BY <1>1 DEF ResetInv, FinDrained, ResetSettled, EndSettled
<1>2. ASSUME NEW s \in Stream, StreamWrite(s) PROVE ResetInv'
  <2>1. UNCHANGED settled /\ s \notin finSent /\ out' = [out EXCEPT ![s] = @ + 1]
    BY <1>2 DEF StreamWrite, recvVars, quicVars
  <2> QED
    BY <1>0, <2>1 DEF ResetInv, FinDrained, ResetSettled, EndSettled
<1>3. ASSUME NEW s \in Stream, Emit(s) PROVE ResetInv'
  <2>1. /\ UNCHANGED <<out, finSent, reset, stopSent, sendPayload, recvDead, role, recvPayload>>
        /\ s \notin reset /\ emitted[s] < 1 + sendPayload[s]
        /\ emitted' = [emitted EXCEPT ![s] = @ + 1]
    BY <1>3 DEF Emit, sendVars, recvVars
  <2>2. \A t \in recvDead \ stopSent : role[t] = "wtdata" => t # s
    BY <1>0, <2>1 DEF ResetInv, EndSettled
  <2> QED
    BY <1>0, <2>1, <2>2 DEF ResetInv, FinDrained, ResetSettled, EndSettled
<1>4. ASSUME NEW s \in Stream, RecvStopSending(s) PROVE ResetInv'
  <2>1. /\ UNCHANGED <<out, finSent, stopSent, sendPayload, emitted, recvDead, role, recvPayload>>
        /\ s \in stopSent /\ reset' = reset \cup {s}
    BY <1>4 DEF RecvStopSending, sendVars, recvVars
  <2> QED
    BY <2>1 DEF ResetInv, FinDrained, ResetSettled, EndSettled
<1>5. ASSUME NEW s \in Stream, StreamStopSending(s) PROVE ResetInv'
  <2>1. /\ UNCHANGED <<out, finSent, reset, sendPayload, emitted, role, recvPayload>>
        /\ stopSent' = stopSent \cup {s} /\ recvDead' = recvDead \cup {s}
    BY <1>5 DEF StreamStopSending, sendVars
  <2> QED
    BY <2>1 DEF ResetInv, FinDrained, ResetSettled, EndSettled
<1>6. ASSUME NEW s \in Stream, NEW n \in 0 .. MaxWrite + 1, OnReadable(s, n) PROVE ResetInv'
  <2>1. n \in Nat
    BY CreditAssumption
  <2> QED
    BY <1>6, <2>1, OnReadableSettles
<1>7. CASE SenderReady \/ ReceiverReady \/ RecvCapsule \/ FlushReceiver \/ UNCHANGED vars
  <2>1. UNCHANGED <<settled, out>>
    BY <1>7 DEF SenderReady, ReceiverReady, RecvCapsule, FlushReceiver, vars, sendVars, recvVars, quicVars
  <2> QED
    BY <1>1, <2>1
<1>8. ASSUME NEW k \in Kinds, OpenStream(k) PROVE ResetInv'
  <2>1. UNCHANGED <<settled, out>>
    BY <1>8 DEF OpenStream, recvVars, quicVars
  <2> QED
    BY <1>1, <2>1
<1>9. ASSUME NEW s \in Stream, StreamFin(s) PROVE ResetInv'
  <2>1. UNCHANGED <<settled, out>>
    BY <1>9 DEF StreamFin, recvVars, quicVars
  <2> QED
    BY <1>1, <2>1
<1>10. ASSUME NEW s \in Stream, StreamReset(s) PROVE ResetInv'
  BY <1>10, StreamResetSettles
<1>11. ASSUME NEW s \in Stream, OnReset(s) PROVE ResetInv'
  BY <1>11, OnResetSettles
<1>12. CASE Flush
  BY <1>12, FlushSettles
<1> QED
  BY <1>2, <1>3, <1>4, <1>5, <1>6, <1>7, <1>8, <1>9, <1>10, <1>11, <1>12 DEF Next

\* Both ends agree on what a reset stream cost: the bytes session.rs takes back on one side
\* are exactly those it does not charge on the other.
THEOREM ResetsAgree == Spec => []ResetAgreement
<1>1. Init => ResetInv
  BY InitResetInv
<1>2. Inv /\ ResetInv /\ [Next]_vars => ResetInv'
  BY NextResetInv
<1>3. ResetInv => ResetAgreement
  BY DEF ResetInv, EndSettled, ResetAgreement
<1> QED
  BY <1>1, <1>2, <1>3, Invariance, PTL DEF Spec
=============================================================================
