------------------------- MODULE ServerTableProofs -------------------------
(***************************************************************************)
(* The safety invariants of ServerTable, for any number of connection ids, *)
(* addresses and sessions and any limits: the tables of server.rs agree,   *)
(* and the sessions of server.ts hear exactly what those tables promise.   *)
(***************************************************************************)
EXTENDS ServerTable, FiniteSetTheorems, SequenceTheorems, WellFoundedInduction, TLAPS

\* What the thread's batches are made of.
SessionEvent == [type : {"Ready", "Closed", "Error"}, id : Id]
ServerEvent == [type : {"Listening", "ServerError", "ServerClosed"}, id : {0}]
Event == SessionEvent \cup ServerEvent

-----------------------------------------------------------------------------
(* Sequences: what flattening a sequence of messages keeps. *)

\* Induction over the naturals, for a set rather than a predicate.
LEMMA SetInduction ==
  ASSUME NEW S, 0 \in S, \A n \in Nat : n \in S => n + 1 \in S
  PROVE  Nat \subseteq S
<1> DEFINE R == OpToRel(<, Nat)
           T == Nat \ S
<1>1. ASSUME T # {} PROVE FALSE
  <2>1. IsWellFoundedOn(R, Nat) /\ T \subseteq Nat
    BY NatLessThanWellFounded
  <2> HIDE DEF R, T
  <2>2. PICK x \in T : \A y \in T : ~ (<<y, x>> \in R)
    BY <1>1, <2>1, WFMin
  <2>3. x \in Nat /\ x # 0 /\ x - 1 \in Nat
    BY DEF T
  <2>4. <<x - 1, x>> \in R
    BY <2>3 DEF R, OpToRel
  <2>5. x - 1 \in S
    BY <2>2, <2>3, <2>4 DEF T
  <2> QED
    BY <2>3, <2>5 DEF T
<1> QED
  BY <1>1

\* The recursive function FlattenSeq is defined with exists.
LEMMA FlattenUnfolds ==
  ASSUME NEW ss, Len(ss) \in Nat \ {0}
  PROVE  \E f : /\ f = [i \in 1 .. Len(ss) |-> IF i = 1 THEN ss[i] ELSE f[i - 1] \o ss[i]]
                /\ FlattenSeq(ss) = f[Len(ss)]
<1> DEFINE Is(g, n) == g = [i \in 1 .. n |-> IF i = 1 THEN ss[i] ELSE g[i - 1] \o ss[i]]
           S == {n \in Nat : \E g : Is(g, n)}
<1>1. 0 \in S
  <2> DEFINE g == [i \in 1 .. 0 |-> 0]
  <2>1. Is(g, 0)
    OBVIOUS
  <2> QED
    BY <2>1
<1>2. ASSUME NEW n \in Nat, n \in S PROVE n + 1 \in S
  <2>1. PICK g : Is(g, n)
    BY <1>2
  <2> DEFINE h == [i \in 1 .. n + 1 |-> IF i <= n THEN g[i] ELSE IF i = 1 THEN ss[i] ELSE g[n] \o ss[i]]
  <2>2. ASSUME NEW i \in 1 .. n + 1
        PROVE  h[i] = IF i = 1 THEN ss[i] ELSE h[i - 1] \o ss[i]
    <3>1. CASE i <= n
      <4> DEFINE e(m) == IF m = 1 THEN ss[m] ELSE g[m - 1] \o ss[m]
      <4>a. i \in 1 .. n
        BY <3>1
      <4>0. g = [m \in 1 .. n |-> e(m)]
        BY <2>1
      <4>1. g[i] = IF i = 1 THEN ss[i] ELSE g[i - 1] \o ss[i]
        <5>1. g[i] = e(i)
          <6> HIDE DEF e
          <6> QED
            BY <4>a, <4>0
        <5> QED
          BY <5>1
      <4>2. i = 1 \/ (i - 1 \in 1 .. n + 1 /\ i - 1 <= n)
        OBVIOUS
      <4> QED
        BY <3>1, <4>1, <4>2
    <3>2. CASE i = n + 1
      <4>1. i = 1 \/ (i - 1 \in 1 .. n + 1 /\ i - 1 = n /\ n <= n)
        BY <3>2
      <4> QED
        BY <3>2, <4>1
    <3> QED
      BY <3>1, <3>2
  <2>3. h = [i \in 1 .. n + 1 |-> h[i]]
    OBVIOUS
  <2>4. Is(h, n + 1)
    <3> HIDE DEF h
    <3> QED
      BY <2>2, <2>3
  <2> HIDE DEF h, Is
  <2> QED
    BY <2>4
<1>3. Len(ss) \in S
  <2> HIDE DEF S
  <2> QED
    BY <1>1, <1>2, SetInduction
<1>4. \E f : Is(f, Len(ss))
  BY <1>3
<1> DEFINE F == CHOOSE f : Is(f, Len(ss))
<1>5. Is(F, Len(ss))
  BY <1>4
<1>6. FlattenSeq(ss) = F[Len(ss)]
  BY DEF FlattenSeq
<1> HIDE DEF F
<1> QED
  BY <1>5, <1>6

\* A concatenation holds what its parts hold.
LEMMA ConcatContains ==
  ASSUME NEW u \in Seq(Event), NEW v \in Seq(Event), NEW x
  PROVE  Contains(u \o v, x) <=> Contains(u, x) \/ Contains(v, x)
<1>1. Len(u) \in Nat /\ Len(v) \in Nat
  BY LenProperties
<1>2. /\ Len(u \o v) = Len(u) + Len(v)
      /\ \A i \in 1 .. Len(u) + Len(v) : (u \o v)[i] = IF i <= Len(u) THEN u[i] ELSE v[i - Len(u)]
  BY ConcatProperties
<1>3. ASSUME NEW i \in 1 .. Len(u), u[i] = x PROVE Contains(u \o v, x)
  BY <1>1, <1>2, <1>3 DEF Contains
<1>4. ASSUME NEW i \in 1 .. Len(v), v[i] = x PROVE Contains(u \o v, x)
  <2>1. i + Len(u) \in 1 .. Len(u) + Len(v) /\ ~(i + Len(u) <= Len(u)) /\ (i + Len(u)) - Len(u) = i
    BY <1>1
  <2>2. (u \o v)[i + Len(u)] = x
    BY <1>2, <1>4, <2>1
  <2> QED
    BY <1>2, <2>1, <2>2 DEF Contains
<1>5. ASSUME NEW i \in 1 .. Len(u) + Len(v), (u \o v)[i] = x
      PROVE  Contains(u, x) \/ Contains(v, x)
  <2>1. CASE i <= Len(u)
    BY <1>1, <1>2, <1>5, <2>1 DEF Contains
  <2>2. CASE ~(i <= Len(u))
    <3>1. i - Len(u) \in 1 .. Len(v) /\ v[i - Len(u)] = x
      BY <1>1, <1>2, <1>5, <2>2
    <3> QED
      BY <3>1 DEF Contains
  <2> QED
    BY <2>1, <2>2
<1>6. Contains(u \o v, x) => Contains(u, x) \/ Contains(v, x)
  BY <1>2, <1>5 DEF Contains
<1>7. Contains(u, x) \/ Contains(v, x) => Contains(u \o v, x)
  BY <1>3, <1>4 DEF Contains
<1> QED
  BY <1>6, <1>7

\* No y comes before an x in s; x occurs at most once in s.
Before(s, x, y) == \A p, q \in 1 .. Len(s) : s[p] = x /\ s[q] = y => p <= q
Once(s, x) == Before(s, x, x)

\* A concatenation keeps x before y, unless the first part has a y and the second an x.
LEMMA ConcatBefore ==
  ASSUME NEW u \in Seq(Event), NEW v \in Seq(Event), NEW x, NEW y, Before(u, x, y), Before(v, x, y),
         ~(Contains(u, y) /\ Contains(v, x))
  PROVE  Before(u \o v, x, y)
<1>1. Len(u) \in Nat /\ Len(v) \in Nat
  BY LenProperties
<1>2. /\ Len(u \o v) = Len(u) + Len(v)
      /\ \A i \in 1 .. Len(u) + Len(v) : (u \o v)[i] = IF i <= Len(u) THEN u[i] ELSE v[i - Len(u)]
  BY ConcatProperties
<1>3. SUFFICES ASSUME NEW p \in 1 .. Len(u) + Len(v), NEW q \in 1 .. Len(u) + Len(v),
                      (u \o v)[p] = x, (u \o v)[q] = y
               PROVE  p <= q
  BY <1>2 DEF Before
<1>4. ASSUME NEW i \in 1 .. Len(u) + Len(v), NEW z, (u \o v)[i] = z
      PROVE  IF i <= Len(u) THEN i \in 1 .. Len(u) /\ u[i] = z /\ Contains(u, z)
                            ELSE i - Len(u) \in 1 .. Len(v) /\ v[i - Len(u)] = z /\ Contains(v, z)
  <2>1. CASE i <= Len(u)
    BY <1>1, <1>2, <1>4, <2>1 DEF Contains
  <2>2. CASE ~(i <= Len(u))
    <3>1. i - Len(u) \in 1 .. Len(v) /\ v[i - Len(u)] = z
      BY <1>1, <1>2, <1>4, <2>2
    <3> QED
      BY <2>2, <3>1 DEF Contains
  <2> QED
    BY <2>1, <2>2
<1>5. CASE p <= Len(u) /\ q <= Len(u)
  BY <1>3, <1>4, <1>5 DEF Before
<1>6. CASE ~(p <= Len(u)) /\ ~(q <= Len(u))
  <2>1. p - Len(u) <= q - Len(u)
    BY <1>3, <1>4, <1>6 DEF Before
  <2> QED
    BY <1>1, <2>1
<1>7. CASE p <= Len(u) /\ ~(q <= Len(u))
  BY <1>1, <1>7
<1>8. CASE ~(p <= Len(u)) /\ q <= Len(u)
  BY <1>3, <1>4, <1>8
<1> QED
  BY <1>5, <1>6, <1>7, <1>8

\* Flattening keeps the type, the elements and, for an element that occurs once, that.
LEMMA FlattenKeeps ==
  ASSUME NEW ss \in Seq(Seq(Event))
  PROVE  /\ FlattenSeq(ss) \in Seq(Event)
         /\ \A x : Contains(FlattenSeq(ss), x) <=> \E a \in 1 .. Len(ss) : Contains(ss[a], x)
<1>1. CASE Len(ss) = 0
  <2>1. ss = <<>> /\ FlattenSeq(ss) = ss
    BY <1>1, EmptySeq DEF FlattenSeq
  <2>2. Len(FlattenSeq(ss)) = 0
    BY <1>1, <2>1
  <2>3. FlattenSeq(ss) \in Seq(Event)
    BY <2>1, EmptySeq
  <2> QED
    BY <1>1, <2>2, <2>3 DEF Contains
<1>2. CASE Len(ss) # 0
  <2> DEFINE L == Len(ss)
  <2>0. L \in Nat \ {0} /\ \A i \in 1 .. L : ss[i] \in Seq(Event)
    BY <1>2, LenProperties
  <2>1. PICK f : /\ f = [i \in 1 .. L |-> IF i = 1 THEN ss[i] ELSE f[i - 1] \o ss[i]]
                 /\ FlattenSeq(ss) = f[L]
    BY <2>0, FlattenUnfolds
  <2> DEFINE Good(n) == /\ f[n] \in Seq(Event)
                        /\ \A x : Contains(f[n], x) <=> \E a \in 1 .. n : Contains(ss[a], x)
             S == {n \in Nat : n \in 1 .. L => Good(n)}
  <2>2. 0 \in S
    OBVIOUS
  <2>3. ASSUME NEW n \in Nat, n \in S PROVE n + 1 \in S
    <3>1. SUFFICES ASSUME n + 1 \in 1 .. L PROVE Good(n + 1)
      OBVIOUS
    <3>2. CASE n = 0
      <4>1. f[n + 1] = ss[1] /\ ss[1] \in Seq(Event)
        BY <2>0, <2>1, <3>1, <3>2
      <4>2. 1 .. n + 1 = {1}
        BY <3>2
      <4> QED
        BY <4>1, <4>2
    <3>3. CASE n # 0
      <4>1. n \in 1 .. L /\ Good(n)
        BY <2>0, <2>3, <3>1, <3>3
      <4>2. f[n + 1] = f[n] \o ss[n + 1] /\ ss[n + 1] \in Seq(Event)
        <5> DEFINE e(m) == IF m = 1 THEN ss[m] ELSE f[m - 1] \o ss[m]
        <5>1. f = [m \in 1 .. L |-> e(m)]
          BY <2>1
        <5>2. f[n + 1] = e(n + 1)
          <6> HIDE DEF e
          <6> QED
            BY <3>1, <5>1
        <5>3. n + 1 # 1 /\ (n + 1) - 1 = n
          BY <3>3
        <5>4. e(n + 1) = f[(n + 1) - 1] \o ss[n + 1]
          BY <5>3
        <5> QED
          BY <2>0, <3>1, <5>2, <5>3, <5>4
      <4>3. ASSUME NEW x
            PROVE  Contains(f[n + 1], x) <=> Contains(f[n], x) \/ Contains(ss[n + 1], x)
        BY <4>1, <4>2, ConcatContains
      <4>4. f[n + 1] \in Seq(Event)
        BY <4>1, <4>2, ConcatProperties
      <4>5. ASSUME NEW x
            PROVE  (\E a \in 1 .. n + 1 : Contains(ss[a], x))
                     <=> (\E a \in 1 .. n : Contains(ss[a], x)) \/ Contains(ss[n + 1], x)
        <5>1. 1 .. n + 1 = (1 .. n) \cup {n + 1}
          OBVIOUS
        <5> QED
          BY <5>1
      <4> QED
        BY <4>1, <4>3, <4>4, <4>5
    <3> QED
      BY <3>2, <3>3
  <2>4. L \in S
    <3> HIDE DEF S
    <3> QED
      BY <2>0, <2>2, <2>3, SetInduction
  <2>5. Good(L)
    BY <2>0, <2>4
  <2> QED
    BY <2>1, <2>5
<1> QED
  BY <1>1, <1>2

\* Flattening keeps x before y, when one sequence has all of them.
LEMMA FlattenBefore ==
  ASSUME NEW ss \in Seq(Seq(Event)), NEW x, NEW y,
         \A a \in 1 .. Len(ss) : Before(ss[a], x, y),
         \A a, b \in 1 .. Len(ss) : Contains(ss[a], x) /\ Contains(ss[b], y) => a = b
  PROVE  Before(FlattenSeq(ss), x, y)
<1>1. CASE Len(ss) = 0
  <2>1. FlattenSeq(ss) = ss
    BY <1>1 DEF FlattenSeq
  <2> QED
    BY <1>1, <2>1 DEF Before
<1>2. CASE Len(ss) # 0
  <2> DEFINE L == Len(ss)
  <2>0. L \in Nat \ {0} /\ \A i \in 1 .. L : ss[i] \in Seq(Event)
    BY <1>2, LenProperties
  <2>1. PICK f : /\ f = [i \in 1 .. L |-> IF i = 1 THEN ss[i] ELSE f[i - 1] \o ss[i]]
                 /\ FlattenSeq(ss) = f[L]
    BY <2>0, FlattenUnfolds
  <2> DEFINE Good(n) == /\ f[n] \in Seq(Event) /\ Before(f[n], x, y)
                        /\ Contains(f[n], y) => \E a \in 1 .. n : Contains(ss[a], y)
             S == {n \in Nat : n \in 1 .. L => Good(n)}
  <2>2. 0 \in S
    OBVIOUS
  <2>3. ASSUME NEW n \in Nat, n \in S PROVE n + 1 \in S
    <3>1. SUFFICES ASSUME n + 1 \in 1 .. L PROVE Good(n + 1)
      OBVIOUS
    <3>2. CASE n = 0
      <4>1. f[n + 1] = ss[1] /\ ss[1] \in Seq(Event) /\ Before(ss[1], x, y) /\ 1 \in 1 .. n + 1
        BY <2>0, <2>1, <3>1, <3>2
      <4> QED
        BY <4>1
    <3>3. CASE n # 0
      <4>1. n \in 1 .. L /\ Good(n)
        BY <2>0, <2>3, <3>1, <3>3
      <4>2. f[n + 1] = f[n] \o ss[n + 1] /\ ss[n + 1] \in Seq(Event)
        <5> DEFINE e(m) == IF m = 1 THEN ss[m] ELSE f[m - 1] \o ss[m]
        <5>1. f = [m \in 1 .. L |-> e(m)]
          BY <2>1
        <5>2. f[n + 1] = e(n + 1)
          <6> HIDE DEF e
          <6> QED
            BY <3>1, <5>1
        <5>3. n + 1 # 1 /\ (n + 1) - 1 = n
          BY <3>3
        <5>4. e(n + 1) = f[(n + 1) - 1] \o ss[n + 1]
          BY <5>3
        <5> QED
          BY <2>0, <3>1, <5>2, <5>3, <5>4
      <4>3. ~(Contains(f[n], y) /\ Contains(ss[n + 1], x))
        <5>1. ASSUME Contains(f[n], y), Contains(ss[n + 1], x) PROVE FALSE
          <6>1. PICK a \in 1 .. n : Contains(ss[a], y)
            BY <4>1, <5>1
          <6>2. a \in 1 .. L /\ a # n + 1
            BY <2>0, <3>1
          <6> QED
            BY <3>1, <5>1, <6>1, <6>2
        <5> QED
          BY <5>1
      <4>4. f[n + 1] \in Seq(Event)
        BY <4>1, <4>2, ConcatProperties
      <4>5. Before(f[n + 1], x, y)
        BY <3>1, <4>1, <4>2, <4>3, ConcatBefore
      <4>6. ASSUME Contains(f[n + 1], y) PROVE \E a \in 1 .. n + 1 : Contains(ss[a], y)
        <5>1. Contains(f[n], y) \/ Contains(ss[n + 1], y)
          BY <4>1, <4>2, <4>6, ConcatContains
        <5>2. 1 .. n + 1 = (1 .. n) \cup {n + 1}
          OBVIOUS
        <5> QED
          BY <4>1, <5>1, <5>2
      <4> QED
        BY <4>4, <4>5, <4>6
    <3> QED
      BY <3>2, <3>3
  <2>4. L \in S
    <3> HIDE DEF S
    <3> QED
      BY <2>0, <2>2, <2>3, SetInduction
  <2>5. Good(L)
    BY <2>0, <2>4
  <2> QED
    BY <2>1, <2>5
<1> QED
  BY <1>1, <1>2

\* SetToSeq lists every element of a finite set once.
LEMMA SetToSeqLists ==
  ASSUME NEW D, IsFiniteSet(D)
  PROVE  /\ Len(SetToSeq(D)) \in Nat
         /\ SetToSeq(D) \in [1 .. Len(SetToSeq(D)) -> D]
         /\ \A a, b \in 1 .. Len(SetToSeq(D)) : SetToSeq(D)[a] = SetToSeq(D)[b] => a = b
         /\ \A k \in D : \E a \in 1 .. Len(SetToSeq(D)) : SetToSeq(D)[a] = k
<1> DEFINE n == Cardinality(D)
<1>1. n \in Nat /\ ExistsBijection(1 .. n, D)
  BY FS_CardinalityType
<1>2. PICK f \in Bijection(1 .. n, D) : TRUE
  BY <1>1 DEF ExistsBijection
<1>3. f \in [1 .. n -> D] /\ IsInjective(f)
  BY <1>2 DEF Bijection, Injection
<1> DEFINE s == SetToSeq(D)
<1>4. s \in [1 .. n -> D] /\ IsInjective(s)
  BY <1>3 DEF SetToSeq
<1> HIDE DEF s, n
<1>5. s \in Injection(1 .. n, D)
  BY <1>4 DEF Injection
<1>6. IsFiniteSet(1 .. n) /\ Cardinality(1 .. n) = n
  BY <1>1, FS_Interval
<1>7. s \in Surjection(1 .. n, D)
  BY <1>5, <1>6, FS_Injection DEF n
<1>8. Len(s) = n
  BY <1>1, <1>4
<1>9. \A a, b \in 1 .. n : s[a] = s[b] => a = b
  BY <1>4 DEF IsInjective
<1>10. \A k \in D : \E a \in 1 .. n : s[a] = k
  BY <1>7 DEF Surjection
<1> QED
  BY <1>1, <1>4, <1>8, <1>9, <1>10 DEF s

\* The messages of the connections D, one connection after the other.
Gathered(D, g) == FlattenSeq([i \in 1 .. Len(SetToSeq(D)) |-> g[SetToSeq(D)[i]]])

\* Gathering keeps the type, the messages, and the order of two messages that only one
\* connection says.
LEMMA GatheredKeeps ==
  ASSUME NEW D, IsFiniteSet(D), NEW g \in [D -> Seq(Event)]
  PROVE  /\ Gathered(D, g) \in Seq(Event)
         /\ \A x : Contains(Gathered(D, g), x) <=> \E k \in D : Contains(g[k], x)
         /\ \A x, y : /\ \A k \in D : Before(g[k], x, y)
                      /\ \A k, l \in D : Contains(g[k], x) /\ Contains(g[l], y) => k = l
                      => Before(Gathered(D, g), x, y)
<1> DEFINE ks == SetToSeq(D)
           ss == [i \in 1 .. Len(ks) |-> g[ks[i]]]
<1>1. /\ Len(ks) \in Nat
      /\ ks \in [1 .. Len(ks) -> D]
      /\ \A a, b \in 1 .. Len(ks) : ks[a] = ks[b] => a = b
      /\ \A k \in D : \E a \in 1 .. Len(ks) : ks[a] = k
  BY SetToSeqLists
<1> HIDE DEF ks
<1>2. \A i \in 1 .. Len(ks) : ks[i] \in D /\ g[ks[i]] \in Seq(Event)
  BY <1>1
<1>3. ss \in [1 .. Len(ks) -> Seq(Event)]
  BY <1>2
<1>4. ss \in Seq(Seq(Event)) /\ Len(ss) = Len(ks)
  <2> HIDE DEF ss
  <2> QED
    BY <1>1, <1>3
<1>5. \A i \in 1 .. Len(ss) : ss[i] = g[ks[i]]
  BY <1>4
<1>6. Gathered(D, g) = FlattenSeq(ss)
  BY DEF Gathered, ks
<1> HIDE DEF ss
<1>7. Gathered(D, g) \in Seq(Event)
  BY <1>4, <1>6, FlattenKeeps
<1>8. ASSUME NEW x PROVE Contains(Gathered(D, g), x) <=> \E k \in D : Contains(g[k], x)
  <2>1. Contains(Gathered(D, g), x) <=> \E a \in 1 .. Len(ss) : Contains(ss[a], x)
    BY <1>4, <1>6, FlattenKeeps
  <2>2. (\E a \in 1 .. Len(ss) : Contains(ss[a], x)) => \E k \in D : Contains(g[k], x)
    BY <1>2, <1>4, <1>5
  <2>3. ASSUME NEW k \in D, Contains(g[k], x) PROVE \E a \in 1 .. Len(ss) : Contains(ss[a], x)
    BY <1>1, <1>4, <1>5, <2>3
  <2> QED
    BY <2>1, <2>2, <2>3
<1>9. ASSUME NEW x, NEW y, \A k \in D : Before(g[k], x, y),
             \A k, l \in D : Contains(g[k], x) /\ Contains(g[l], y) => k = l
      PROVE  Before(Gathered(D, g), x, y)
  <2>1. \A a \in 1 .. Len(ss) : Before(ss[a], x, y)
    BY <1>2, <1>4, <1>5, <1>9
  <2>2. \A a, b \in 1 .. Len(ss) : Contains(ss[a], x) /\ Contains(ss[b], y) => a = b
    BY <1>1, <1>2, <1>4, <1>5, <1>9
  <2> QED
    BY <1>4, <1>6, <2>1, <2>2, FlattenBefore
<1> QED
  BY <1>7, <1>8, <1>9

-----------------------------------------------------------------------------
(* One iteration of one connection. *)

\* A connection before the reaper has looked at it.
StepConn == [id : Id, addr : Addr, phase : {"connecting", "ready", "closed"}, closing : BOOLEAN,
             conn : {"open", "closing", "closed"}]

\* What ends a session.
Ending == {"rejected", "failed", "ended", "ready and ended", "ready and failed"}

\* What a session says in one iteration.
LEMMA MessagesOfSays ==
  ASSUME NEW c \in Conn, NEW o \in Outcome
  PROVE  /\ MessagesOf(c, o) \in Seq(Event)
         /\ \A x : Contains(MessagesOf(c, o), x) =>
                     \/ x = Msg("Ready", c.id) /\ o \in Readying
                     \/ x = Msg("Error", c.id)
                     \/ x = Msg("Closed", c.id) /\ o \in Ending
         /\ \A x : Once(MessagesOf(c, o), x)
         /\ Before(MessagesOf(c, o), Msg("Ready", c.id), Msg("Closed", c.id))
         /\ o \in Ending => Contains(MessagesOf(c, o), Msg("Closed", c.id))
<1>1. c.id \in Id
  BY DEF Conn
<1> DEFINE r == Msg("Ready", c.id)
           e == Msg("Error", c.id)
           d == Msg("Closed", c.id)
<1>2. r \in Event /\ e \in Event /\ d \in Event /\ e # d /\ r # d /\ r # e
  BY <1>1 DEF Msg, Event, SessionEvent
<1> DEFINE m == MessagesOf(c, o)
<1>3. CASE o \in {"nothing", "flushed"}
  <2>1. m = <<>>
    BY <1>3 DEF MessagesOf
  <2>2. m \in Seq(Event) /\ Len(m) = 0
    BY <2>1, EmptySeq
  <2> HIDE DEF m
  <2>3. (\A x : ~Contains(m, x)) /\ (\A x, y : Before(m, x, y))
    BY <2>2 DEF Contains, Before
  <2>4. o \notin Ending
    BY <1>3 DEF Ending
  <2> QED
    BY <2>2, <2>3, <2>4 DEF m, Once
<1>4. CASE o \in {"ready", "ended"}
  <2> DEFINE y == IF o = "ready" THEN r ELSE d
  <2>1. m = <<y>>
    BY <1>4 DEF MessagesOf
  <2>2. y \in Event
    BY <1>2
  <2>3. (o = "ready" => y = r /\ o \in Readying /\ o \notin Ending) /\ (o = "ended" => y = d /\ o \in Ending)
    BY DEF y, Readying, Ending
  <2> HIDE DEF m, y, r, e, d
  <2>4. m \in Seq(Event) /\ Len(m) = 1 /\ m[1] = y
    BY <2>1, <2>2
  <2>5. (\A x : Contains(m, x) <=> x = y) /\ (\A x, z : Before(m, x, z))
    BY <2>4 DEF Contains, Before
  <2> QED
    BY <1>4, <2>3, <2>4, <2>5 DEF m, r, d, Once
<1>5. CASE o \in {"rejected", "failed"}
  <2>1. m = <<e, d>> /\ o \in Ending
    BY <1>5 DEF MessagesOf, Ending
  <2> HIDE DEF m, r, e, d
  <2>2. m \in Seq(Event) /\ Len(m) = 2 /\ m[1] = e /\ m[2] = d
    BY <1>2, <2>1
  <2>3. 1 .. 2 = {1, 2}
    OBVIOUS
  <2>4. (\A x : Contains(m, x) <=> x = e \/ x = d) /\ (\A x : Once(m, x)) /\ Before(m, r, d)
    BY <1>2, <2>2, <2>3 DEF Contains, Once, Before
  <2> QED
    BY <2>1, <2>2, <2>4 DEF m, r, e, d
<1>6. CASE o = "ready and ended"
  <2>1. m = <<r, d>> /\ o \in Ending /\ o \in Readying
    BY <1>6 DEF MessagesOf, Ending, Readying
  <2> HIDE DEF m, r, e, d
  <2>2. m \in Seq(Event) /\ Len(m) = 2 /\ m[1] = r /\ m[2] = d
    BY <1>2, <2>1
  <2>3. 1 .. 2 = {1, 2}
    OBVIOUS
  <2>4. (\A x : Contains(m, x) <=> x = r \/ x = d) /\ (\A x : Once(m, x)) /\ Before(m, r, d)
    BY <1>2, <2>2, <2>3 DEF Contains, Once, Before
  <2> QED
    BY <2>1, <2>2, <2>4 DEF m, r, d
<1>7. CASE o = "ready and failed"
  <2>1. m = <<r, e, d>> /\ o \in Ending /\ o \in Readying
    BY <1>7 DEF MessagesOf, Ending, Readying
  <2> HIDE DEF m, r, e, d
  <2>2. m \in Seq(Event) /\ Len(m) = 3 /\ m[1] = r /\ m[2] = e /\ m[3] = d
    BY <1>2, <2>1
  <2>3. 1 .. 3 = {1, 2, 3}
    OBVIOUS
  <2>4. (\A x : Contains(m, x) <=> x = r \/ x = e \/ x = d) /\ (\A x : Once(m, x)) /\ Before(m, r, d)
    BY <1>2, <2>2, <2>3 DEF Contains, Once, Before
  <2> QED
    BY <2>1, <2>2, <2>4 DEF m, r, e, d
<1> QED
  BY <1>3, <1>4, <1>5, <1>6, <1>7 DEF Outcome

\* The reaper's last words.
LEMMA LastWordsSays ==
  ASSUME NEW c \in StepConn
  PROVE  /\ LastWords(c) \in Seq(Event)
         /\ \A x : Contains(LastWords(c), x) <=>
                     x = Msg("Closed", c.id) /\ Gone(c) /\ c.phase # "closed"
         /\ \A x : Once(LastWords(c), x)
<1> DEFINE y == Msg("Closed", c.id)
           m == LastWords(c)
<1>1. y \in Event
  BY DEF Msg, Event, SessionEvent, StepConn
<1>2. CASE Gone(c) /\ c.phase # "closed"
  <2>1. m = <<y>>
    BY <1>2 DEF LastWords, Gone
  <2> HIDE DEF m, y
  <2>2. m \in Seq(Event) /\ Len(m) = 1 /\ m[1] = y
    BY <1>1, <2>1
  <2> QED
    BY <1>2, <2>2 DEF m, y, Contains, Once, Before
<1>3. CASE ~(Gone(c) /\ c.phase # "closed")
  <2>1. m = <<>>
    BY <1>3 DEF LastWords, Gone
  <2> HIDE DEF m
  <2>2. m \in Seq(Event) /\ Len(m) = 0
    BY <2>1, EmptySeq
  <2> QED
    BY <1>3, <2>2 DEF m, Contains, Once, Before
<1> QED
  BY <1>2, <1>3

\* One iteration keeps the identity of a connection; it announces a session that was
\* connecting, and then stays or is reported ended as well, in that order; it reports the
\* end of a session that had not ended, once.
LEMMA StepSays ==
  ASSUME NEW c \in Conn, NEW st \in Steps(c)
  PROVE  /\ st.conn \in StepConn /\ st.conn.id = c.id /\ st.conn.addr = c.addr
         /\ st.said \in Seq(Event)
         /\ \A x : Contains(st.said, x) => x \in {Msg(t, c.id) : t \in {"Ready", "Error", "Closed"}}
         /\ \A x : Once(st.said, x)
         /\ Before(st.said, Msg("Ready", c.id), Msg("Closed", c.id))
         /\ Contains(st.said, Msg("Ready", c.id)) =>
              /\ c.phase = "connecting"
              /\ \/ st.conn.phase = "ready" /\ ~Gone(st.conn)
                 \/ Contains(st.said, Msg("Closed", c.id))
         /\ Contains(st.said, Msg("Closed", c.id)) => c.phase # "closed" /\ st.conn.phase = "closed"
         /\ c.phase = "ready" => st.conn.phase = "ready" \/ Contains(st.said, Msg("Closed", c.id))
         /\ c.phase = "closed" => st.conn.phase = "closed"
         /\ st.conn.phase = "connecting" => c.phase = "connecting"
<1>1. PICK net \in Net, o \in Outcome : Possible(c, net, o) /\ st = Step(c, net, o)
  BY DEF Steps
<1> DEFINE n == NetOf(c, net)
           a == SessionAfter(n, o)
           z == CloseEnded(a)
<1>2. st.conn = z /\ st.said = MessagesOf(c, o)
  BY <1>1 DEF Step
<1>3. c.conn \in {"open", "closing"} /\ c \in StepConn
  BY DEF Conn, StepConn
<1>4. /\ n \in StepConn /\ n.id = c.id /\ n.addr = c.addr /\ n.phase = c.phase
      /\ net # "expires" => n.conn # "closed"
  BY <1>3 DEF NetOf, Net, StepConn
<1>5. /\ a \in StepConn /\ a.id = c.id /\ a.addr = c.addr
      /\ a.phase = CASE o = "ready" -> "ready"
                     [] o \in Ending -> "closed"
                     [] OTHER -> c.phase
      /\ n.conn # "closed" => a.conn # "closed"
  <2> HIDE DEF n
  <2> QED
    BY <1>4 DEF SessionAfter, Outcome, StepConn, Ending
<1>6. /\ z \in StepConn /\ z.id = c.id /\ z.addr = c.addr /\ z.phase = a.phase
      /\ a.conn # "closed" => z.conn # "closed"
  <2> HIDE DEF n, a
  <2> QED
    BY <1>5 DEF CloseEnded, StepConn
<1> HIDE DEF n, a, z
<1>7. o \in Readying => c.phase = "connecting" /\ net # "expires"
  BY <1>1 DEF Possible, Outcome, Readying, Net
<1>8. o \in Ending => c.phase # "closed"
  BY <1>1 DEF Possible, Outcome, Readying, Ending, Net
<1>9. c.phase \in {"connecting", "ready", "closed"}
  BY DEF Conn
<1>10. Msg("Ready", c.id) # Msg("Closed", c.id) /\ Msg("Ready", c.id) # Msg("Error", c.id)
       /\ Msg("Closed", c.id) # Msg("Error", c.id)
  BY DEF Msg
<1>11. Contains(st.said, Msg("Ready", c.id)) => o \in Readying
  BY <1>2, <1>10, MessagesOfSays
<1>12. Contains(st.said, Msg("Closed", c.id)) => o \in Ending
  BY <1>2, <1>10, MessagesOfSays
<1>13. o \in Ending => Contains(st.said, Msg("Closed", c.id))
  BY <1>2, MessagesOfSays
<1>14. /\ st.said \in Seq(Event) /\ \A x : Once(st.said, x)
       /\ Before(st.said, Msg("Ready", c.id), Msg("Closed", c.id))
  BY <1>2, MessagesOfSays
<1>15. \A x : Contains(st.said, x) => x \in {Msg(t, c.id) : t \in {"Ready", "Error", "Closed"}}
  BY <1>2, MessagesOfSays
<1>16. o = "ready" => c.phase = "connecting" /\ st.conn.phase = "ready" /\ ~Gone(st.conn)
  <2>1. SUFFICES ASSUME o = "ready" PROVE c.phase = "connecting" /\ z.phase = "ready" /\ z.conn # "closed"
    BY <1>2 DEF Gone
  <2>2. c.phase = "connecting" /\ n.conn # "closed"
    BY <1>4, <1>7, <2>1 DEF Readying
  <2> QED
    BY <1>5, <1>6, <2>1, <2>2 DEF Ending
<1>17. o \in Ending => c.phase # "closed" /\ st.conn.phase = "closed"
  BY <1>2, <1>5, <1>6, <1>7, <1>8 DEF Ending
<1>18. o \in {"nothing", "flushed"} => st.conn.phase = c.phase
  BY <1>2, <1>5, <1>6 DEF Ending
<1>19. (o = "ready" \/ o \in {"nothing", "flushed"} \/ o \in Ending) /\ (o \in Readying => o = "ready" \/ o \in Ending)
  BY DEF Outcome, Ending, Readying
<1>20. st.conn \in StepConn /\ st.conn.id = c.id /\ st.conn.addr = c.addr
  BY <1>2, <1>6
<1>21. c.phase = "ready" => st.conn.phase = "ready" \/ Contains(st.said, Msg("Closed", c.id))
  BY <1>13, <1>16, <1>18, <1>19
<1>22. c.phase = "closed" => st.conn.phase = "closed"
  BY <1>16, <1>17, <1>18, <1>19
<1>23. st.conn.phase = "connecting" => c.phase = "connecting"
  BY <1>16, <1>17, <1>18, <1>19
<1>24. Contains(st.said, Msg("Ready", c.id)) =>
         /\ c.phase = "connecting"
         /\ \/ st.conn.phase = "ready" /\ ~Gone(st.conn)
            \/ Contains(st.said, Msg("Closed", c.id))
  BY <1>7, <1>11, <1>13, <1>16, <1>19
<1>25. Contains(st.said, Msg("Closed", c.id)) => c.phase # "closed" /\ st.conn.phase = "closed"
  BY <1>12, <1>17
<1> QED
  BY <1>14, <1>15, <1>20, <1>21, <1>22, <1>23, <1>24, <1>25, Zenon

-----------------------------------------------------------------------------
(***************************************************************************)
(* The inductive invariant                                                 *)
(***************************************************************************)

\* The thread's tables are finite, within their limit, typed, and agree.
Tables ==
  /\ IsFiniteSet(DOMAIN clients) /\ Cardinality(DOMAIN clients) <= MaxConnections
  /\ \A k \in DOMAIN clients : k \in Key /\ clients[k] \in Conn
  /\ nextId \in 1 .. MaxSessions + 1 /\ retried \subseteq Addr
  /\ TablesAgree

\* What the JavaScript thread keeps, and the batches on their way to it.
Status == {"none", "live", "done", "refused"}
Settled == {"pending", "resolved", "rejected"}
Server == [ready : Settled, closed : Settled, closeCalled : BOOLEAN, cancelled : BOOLEAN]

Sides ==
  /\ thread \in {"starting", "serving", "stopped"}
  /\ batches \in Seq(Seq(Event))
  /\ core \in [Id -> Status] /\ asked \subseteq Id
  /\ unread \in 0 .. MaxPending /\ server \in Server

\* The session's connection is there and has announced it.
Announces(i) == i \in DOMAIN sessions /\ clients[sessions[i]].phase = "ready"

\* A batch that ends session i.
Ends(b, i) == Contains(b, Msg("Closed", i)) \/ Contains(b, ServerMsg("ServerClosed"))

\* A session announced in a batch is still there, or is reported ended by that batch or
\* ended by a later one.
Followed ==
  \A i \in Id : \A b \in 1 .. Len(batches) :
    Contains(batches[b], Msg("Ready", i)) =>
      \/ Announces(i) \/ Contains(batches[b], Msg("Closed", i))
      \/ \E c \in b + 1 .. Len(batches) : Ends(batches[c], i)

\* A batch announces a session before it reports its end.
Ordered ==
  \A i \in Id : \A b \in 1 .. Len(batches) : Before(batches[b], Msg("Ready", i), Msg("Closed", i))

\* Session i has not been announced; session i has been reported ended, or is gone.
Fresh(i) == i >= nextId \/ (i \in DOMAIN sessions /\ clients[sessions[i]].phase = "connecting")
Ended(i) == i < nextId /\ (i \in DOMAIN sessions => clients[sessions[i]].phase = "closed")

\* What is on its way, and what JavaScript knows, is what the thread has said.
Heard ==
  \A i \in Id :
    /\ InFlight("Ready", i) => core[i] = "none" /\ ~Fresh(i)
    /\ core[i] # "none" => ~Fresh(i)
    /\ InFlight("Closed", i) => Ended(i)

\* Of every session, one Ready and one Closed at most are on their way.
Single ==
  \A i \in Id : \A t \in {"Ready", "Closed"} :
    \A b, c \in 1 .. Len(batches) :
      /\ Contains(batches[b], Msg(t, i)) /\ Contains(batches[c], Msg(t, i)) => b = c
      /\ Once(batches[b], Msg(t, i))

-----------------------------------------------------------------------------
(* One iteration of the thread. *)

\* A close command changes nothing else of a connection.
LEMMA CommandedKeeps ==
  ASSUME NEW k \in DOMAIN clients, clients[k] \in Conn
  PROVE  /\ Commanded(k) \in Conn
         /\ Commanded(k).id = clients[k].id /\ Commanded(k).addr = clients[k].addr
         /\ Commanded(k).phase = clients[k].phase
<1> DEFINE hit == \E n \in 1 .. Len(cmds) : cmds[n].id \in DOMAIN sessions /\ sessions[cmds[n].id] = k
           c == clients[k]
           v == c.closing \/ hit
<1>1. v \in BOOLEAN
  BY Zenon
<1>2. Commanded(k) = [c EXCEPT !.closing = v]
  BY DEF Commanded
<1> HIDE DEF c, v
<1>3. c \in Conn
  BY DEF c
<1>4. /\ [c EXCEPT !.closing = v] \in Conn /\ [c EXCEPT !.closing = v].id = c.id
      /\ [c EXCEPT !.closing = v].addr = c.addr /\ [c EXCEPT !.closing = v].phase = c.phase
  BY <1>1, <1>3 DEF Conn
<1> QED
  BY <1>2, <1>4 DEF c

\* The steps the connections take in one iteration.
Taken(step) == DOMAIN step = DOMAIN clients /\ \A k \in DOMAIN clients : step[k] \in Steps(Commanded(k))

SaidBy(step) == [k \in DOMAIN step |-> step[k].said]
LastOf(step) == [k \in DOMAIN step |-> LastWords(step[k].conn)]
Said(step) == Gathered(DOMAIN step, SaidBy(step)) \o Gathered(DOMAIN step, LastOf(step))

\* What a step makes of connection k, in terms of the connection before it.
Becomes(k, st) ==
  /\ st.conn \in StepConn /\ st.conn.id = clients[k].id /\ st.conn.addr = clients[k].addr
  /\ st.said \in Seq(Event)
  /\ \A x : Contains(st.said, x) => x \in {Msg(t, clients[k].id) : t \in {"Ready", "Error", "Closed"}}
  /\ \A x : Once(st.said, x)
  /\ Before(st.said, Msg("Ready", clients[k].id), Msg("Closed", clients[k].id))
  /\ Contains(st.said, Msg("Ready", clients[k].id)) =>
       /\ clients[k].phase = "connecting"
       /\ \/ st.conn.phase = "ready" /\ ~Gone(st.conn)
          \/ Contains(st.said, Msg("Closed", clients[k].id))
  /\ Contains(st.said, Msg("Closed", clients[k].id)) => clients[k].phase # "closed" /\ st.conn.phase = "closed"
  /\ clients[k].phase = "ready" => st.conn.phase = "ready" \/ Contains(st.said, Msg("Closed", clients[k].id))
  /\ clients[k].phase = "closed" => st.conn.phase = "closed"
  /\ st.conn.phase = "connecting" => clients[k].phase = "connecting"

\* Every connection of an iteration becomes what StepSays says of it.
LEMMA TakenBecomes ==
  ASSUME Tables, NEW step, Taken(step), NEW k \in DOMAIN clients
  PROVE  Becomes(k, step[k])
<1>1. clients[k] \in Conn /\ step[k] \in Steps(Commanded(k))
  BY DEF Tables, Taken
<1>2. /\ Commanded(k) \in Conn
      /\ Commanded(k).id = clients[k].id /\ Commanded(k).addr = clients[k].addr
      /\ Commanded(k).phase = clients[k].phase
  BY <1>1, CommandedKeeps
<1> DEFINE c == Commanded(k)
           st == step[k]
<1> HIDE DEF c, st
<1>3. c \in Conn /\ st \in Steps(c)
  BY <1>1, <1>2 DEF c, st
<1>4. /\ st.conn \in StepConn /\ st.conn.id = c.id /\ st.conn.addr = c.addr
      /\ st.said \in Seq(Event)
      /\ \A x : Contains(st.said, x) => x \in {Msg(t, c.id) : t \in {"Ready", "Error", "Closed"}}
      /\ \A x : Once(st.said, x)
      /\ Before(st.said, Msg("Ready", c.id), Msg("Closed", c.id))
      /\ Contains(st.said, Msg("Ready", c.id)) =>
           /\ c.phase = "connecting"
           /\ \/ st.conn.phase = "ready" /\ ~Gone(st.conn)
              \/ Contains(st.said, Msg("Closed", c.id))
      /\ Contains(st.said, Msg("Closed", c.id)) => c.phase # "closed" /\ st.conn.phase = "closed"
      /\ c.phase = "ready" => st.conn.phase = "ready" \/ Contains(st.said, Msg("Closed", c.id))
      /\ c.phase = "closed" => st.conn.phase = "closed"
      /\ st.conn.phase = "connecting" => c.phase = "connecting"
  BY <1>3, StepSays
<1>5. c.id = clients[k].id /\ c.addr = clients[k].addr /\ c.phase = clients[k].phase
  BY <1>2 DEF c
<1>6. Becomes(k, st)
  BY <1>4, <1>5, Zenon DEF Becomes
<1> QED
  BY <1>6 DEF st

\* A session id belongs to one connection.
LEMMA OneId ==
  ASSUME Tables, NEW k \in DOMAIN clients, NEW l \in DOMAIN clients, clients[k].id = clients[l].id
  PROVE  k = l
BY DEF Tables, TablesAgree

\* The batch of an iteration: its messages are typed; it announces sessions that were
\* connecting and stay or are then reported ended, reports the end of sessions that had
\* not ended and of every ready session it does not leave ready, and says nothing twice.
LEMMA SaidBatch ==
  ASSUME Tables, NEW step, Taken(step)
  PROVE  /\ Said(step) \in Seq(Event)
         /\ \A i \in Id : Contains(Said(step), Msg("Ready", i)) =>
              \E k \in DOMAIN clients : /\ clients[k].id = i /\ clients[k].phase = "connecting"
                                        /\ \/ step[k].conn.phase = "ready" /\ ~Gone(step[k].conn)
                                           \/ Contains(Said(step), Msg("Closed", i))
         /\ \A i \in Id : Contains(Said(step), Msg("Closed", i)) =>
              \E k \in DOMAIN clients : /\ clients[k].id = i /\ clients[k].phase # "closed"
                                        /\ step[k].conn.phase = "closed" \/ Gone(step[k].conn)
         /\ \A k \in DOMAIN clients : clients[k].phase = "ready" =>
              \/ Contains(Said(step), Msg("Closed", clients[k].id))
              \/ step[k].conn.phase = "ready" /\ ~Gone(step[k].conn)
         /\ \A i \in Id : \A t \in {"Ready", "Closed"} : Once(Said(step), Msg(t, i))
         /\ \A i \in Id : Before(Said(step), Msg("Ready", i), Msg("Closed", i))
<1> DEFINE D == DOMAIN clients
           g == SaidBy(step)
           h == LastOf(step)
           G == Gathered(D, g)
           H == Gathered(D, h)
<1>1. IsFiniteSet(D) /\ DOMAIN step = D /\ \A k \in D : Becomes(k, step[k])
  BY TakenBecomes DEF Tables, Taken
<1>2. ASSUME NEW k \in D
      PROVE  /\ g[k] = step[k].said /\ h[k] = LastWords(step[k].conn)
             /\ step[k].conn \in StepConn /\ step[k].conn.id = clients[k].id
             /\ g[k] \in Seq(Event) /\ h[k] \in Seq(Event)
  <2>1. g[k] = step[k].said /\ h[k] = LastWords(step[k].conn)
    BY <1>1 DEF SaidBy, LastOf
  <2>2. step[k].conn \in StepConn /\ step[k].conn.id = clients[k].id /\ step[k].said \in Seq(Event)
    BY <1>1 DEF Becomes
  <2> QED
    BY <2>1, <2>2, LastWordsSays
<1>3. g \in [D -> Seq(Event)] /\ h \in [D -> Seq(Event)]
  <2>1. g = [k \in D |-> g[k]] /\ h = [k \in D |-> h[k]]
    BY <1>1 DEF SaidBy, LastOf
  <2> HIDE DEF g, h
  <2> QED
    BY <1>2, <2>1
<1>4. Said(step) = G \o H
  BY <1>1 DEF Said
<1> HIDE DEF g, h
<1>5. /\ G \in Seq(Event) /\ \A x : Contains(G, x) <=> \E k \in D : Contains(g[k], x)
      /\ H \in Seq(Event) /\ \A x : Contains(H, x) <=> \E k \in D : Contains(h[k], x)
  BY <1>1, <1>3, GatheredKeeps
<1>6. ASSUME NEW x, NEW y, \A k \in D : Before(g[k], x, y),
             \A k, l \in D : Contains(g[k], x) /\ Contains(g[l], y) => k = l
      PROVE  Before(G, x, y)
  BY <1>1, <1>3, <1>6, GatheredKeeps
<1>7. ASSUME NEW x, NEW y, \A k \in D : Before(h[k], x, y),
             \A k, l \in D : Contains(h[k], x) /\ Contains(h[l], y) => k = l
      PROVE  Before(H, x, y)
  BY <1>1, <1>3, <1>7, GatheredKeeps
<1> HIDE DEF G, H
<1>8. Said(step) \in Seq(Event) /\ \A x : Contains(Said(step), x) <=> Contains(G, x) \/ Contains(H, x)
  BY <1>4, <1>5, ConcatContains, ConcatProperties
\* Which connection a message is about.
<1>9. ASSUME NEW k \in D, NEW t \in {"Ready", "Closed"}, NEW i \in Id, Contains(g[k], Msg(t, i))
      PROVE  clients[k].id = i
  <2>1. Msg(t, i) \in {Msg(u, clients[k].id) : u \in {"Ready", "Error", "Closed"}}
    BY <1>1, <1>2, <1>9 DEF Becomes
  <2> QED
    BY <2>1 DEF Msg
<1>10. ASSUME NEW k \in D, NEW t \in {"Ready", "Closed"}, NEW i \in Id, Contains(h[k], Msg(t, i))
       PROVE  /\ clients[k].id = i /\ t = "Closed"
              /\ Gone(step[k].conn) /\ step[k].conn.phase # "closed"
  <2>1. Msg(t, i) = Msg("Closed", step[k].conn.id) /\ Gone(step[k].conn) /\ step[k].conn.phase # "closed"
    BY <1>2, <1>10, LastWordsSays
  <2> QED
    BY <1>2, <2>1 DEF Msg
<1>11. ASSUME NEW i \in Id, Contains(Said(step), Msg("Ready", i))
       PROVE  \E k \in D : /\ clients[k].id = i /\ clients[k].phase = "connecting"
                           /\ \/ step[k].conn.phase = "ready" /\ ~Gone(step[k].conn)
                              \/ Contains(Said(step), Msg("Closed", i))
  <2>1. ~Contains(H, Msg("Ready", i))
    BY <1>5, <1>10
  <2>2. PICK k \in D : Contains(g[k], Msg("Ready", i))
    BY <1>5, <1>8, <1>11, <2>1
  <2>3. clients[k].id = i
    BY <1>9, <2>2
  <2>4. Contains(g[k], Msg("Closed", i)) => Contains(Said(step), Msg("Closed", i))
    BY <1>5, <1>8
  <2> QED
    BY <1>1, <1>2, <2>2, <2>3, <2>4 DEF Becomes
<1>12. ASSUME NEW i \in Id, Contains(Said(step), Msg("Closed", i))
       PROVE  \E k \in D : /\ clients[k].id = i /\ clients[k].phase # "closed"
                           /\ step[k].conn.phase = "closed" \/ Gone(step[k].conn)
  <2>1. CASE Contains(G, Msg("Closed", i))
    <3>1. PICK k \in D : Contains(g[k], Msg("Closed", i))
      BY <1>5, <2>1
    <3>2. clients[k].id = i
      BY <1>9, <3>1
    <3> QED
      BY <1>1, <1>2, <3>1, <3>2 DEF Becomes
  <2>2. CASE Contains(H, Msg("Closed", i))
    <3>1. PICK k \in D : Contains(h[k], Msg("Closed", i))
      BY <1>5, <2>2
    <3>2. clients[k].id = i /\ Gone(step[k].conn) /\ step[k].conn.phase # "closed"
      BY <1>10, <3>1
    <3> QED
      BY <1>1, <3>2 DEF Becomes
  <2> QED
    BY <1>8, <1>12, <2>1, <2>2
<1>13. ASSUME NEW k \in D, clients[k].phase = "ready"
       PROVE  \/ Contains(Said(step), Msg("Closed", clients[k].id))
              \/ step[k].conn.phase = "ready" /\ ~Gone(step[k].conn)
  <2>1. step[k].conn.phase = "ready" \/ Contains(g[k], Msg("Closed", clients[k].id))
    BY <1>1, <1>2, <1>13 DEF Becomes
  <2>2. ASSUME Gone(step[k].conn), step[k].conn.phase = "ready"
        PROVE  Contains(h[k], Msg("Closed", clients[k].id))
    BY <1>2, <2>2, LastWordsSays
  <2> QED
    BY <1>5, <1>8, <2>1, <2>2
<1>14. ASSUME NEW i \in Id, NEW t \in {"Ready", "Closed"} PROVE Once(Said(step), Msg(t, i))
  <2> DEFINE x == Msg(t, i)
  <2>1. Once(G, x)
    <3>1. \A k \in D : Once(g[k], x)
      BY <1>1, <1>2 DEF Becomes
    <3>2. \A k, l \in D : Contains(g[k], x) /\ Contains(g[l], x) => k = l
      BY <1>9, OneId
    <3> QED
      BY <1>6, <3>1, <3>2 DEF Once
  <2>2. Once(H, x)
    <3>1. \A k \in D : Once(h[k], x)
      BY <1>2, LastWordsSays
    <3>2. \A k, l \in D : Contains(h[k], x) /\ Contains(h[l], x) => k = l
      BY <1>10, OneId
    <3> QED
      BY <1>7, <3>1, <3>2 DEF Once
  <2>3. ASSUME Contains(G, x), Contains(H, x) PROVE FALSE
    <3>1. PICK k \in D : Contains(g[k], x)
      BY <1>5, <2>3
    <3>2. PICK l \in D : Contains(h[l], x)
      BY <1>5, <2>3
    <3>3. clients[k].id = i /\ clients[l].id = i /\ t = "Closed" /\ step[l].conn.phase # "closed"
      BY <1>9, <1>10, <3>1, <3>2
    <3>4. k = l
      BY <3>3, OneId
    <3>5. step[k].conn.phase = "closed"
      BY <1>1, <1>2, <3>1, <3>3 DEF Becomes
    <3> QED
      BY <3>3, <3>4, <3>5
  <2> HIDE DEF x
  <2>4. Once(G \o H, x)
    BY <1>5, <2>1, <2>2, <2>3, ConcatBefore DEF Once
  <2> QED
    BY <1>4, <2>4 DEF x
<1>15. ASSUME NEW i \in Id PROVE Before(Said(step), Msg("Ready", i), Msg("Closed", i))
  <2> DEFINE x == Msg("Ready", i)
             y == Msg("Closed", i)
  <2>1. ~Contains(H, x)
    BY <1>5, <1>10
  <2>2. ASSUME NEW k \in D PROVE Before(g[k], x, y) /\ Before(h[k], x, y)
    <3>1. ~Contains(h[k], x)
      BY <1>10
    <3>2. Before(h[k], x, y)
      BY <3>1 DEF Before, Contains
    <3>3. CASE Contains(g[k], x)
      <4>1. clients[k].id = i
        BY <1>9, <3>3
      <4> QED
        BY <1>1, <1>2, <3>2, <4>1 DEF Becomes
    <3>4. CASE ~Contains(g[k], x)
      BY <3>2, <3>4 DEF Before, Contains
    <3> QED
      BY <3>3, <3>4
  <2>3. \A k, l \in D : Contains(g[k], x) /\ Contains(g[l], y) => k = l
    BY <1>9, OneId
  <2>4. \A k, l \in D : Contains(h[k], x) /\ Contains(h[l], y) => k = l
    BY <1>10
  <2> HIDE DEF x, y
  <2>5. Before(G, x, y) /\ Before(H, x, y)
    BY <1>6, <1>7, <2>2, <2>3, <2>4
  <2>6. Before(G \o H, x, y)
    BY <1>5, <2>1, <2>5, ConcatBefore
  <2> QED
    BY <1>4, <2>6 DEF x, y
<1> QED
  BY <1>8, <1>11, <1>12, <1>13, <1>14, <1>15

-----------------------------------------------------------------------------
(* Batches that are added: what every action but JsBatch does to the invariant. *)

\* The thread schedules the batches of more behind those on their way.
Grown(more) ==
  /\ batches' \in Seq(Seq(Event))
  /\ Len(batches') = Len(batches) + Len(more)
  /\ \A b \in 1 .. Len(batches) : batches'[b] = batches[b]
  /\ \A m \in 1 .. Len(more) : batches'[Len(batches) + m] = more[m]

\* No batch is added.
LEMMA GrownByNone ==
  ASSUME batches \in Seq(Seq(Event)), batches' = batches
  PROVE  Grown(<<>>)
<1> DEFINE none == <<>>
<1>1. Len(none) = 0
  OBVIOUS
<1> HIDE DEF none
<1>2. Len(batches) \in Nat
  BY LenProperties
<1>3. Grown(none)
  BY <1>1, <1>2 DEF Grown
<1> QED
  BY <1>3 DEF none

\* Emit adds the batch, unless it is empty.
LEMMA GrownByEmit ==
  ASSUME batches \in Seq(Seq(Event)), NEW b \in Seq(Event), Emit(b)
  PROVE  \/ b = <<>> /\ batches' = batches
         \/ b # <<>> /\ Grown(<<b>>)
<1>1. CASE b = <<>>
  BY <1>1 DEF Emit
<1>2. CASE b # <<>>
  <2>1. batches' = Append(batches, b)
    BY <1>2 DEF Emit
  <2> DEFINE s == batches
             more == <<b>>
  <2>2. s \in Seq(Seq(Event))
    OBVIOUS
  <2> DEFINE S == Seq(Event)
  <2>3. b \in S /\ s \in Seq(S)
    OBVIOUS
  <2> HIDE DEF S, s
  <2>4. /\ Append(s, b) \in Seq(S) /\ Len(Append(s, b)) = Len(s) + 1
        /\ \A i \in 1 .. Len(s) : Append(s, b)[i] = s[i]
        /\ Append(s, b)[Len(s) + 1] = b
    BY <2>3, AppendProperties
  <2>5. Len(more) = 1 /\ more[1] = b
    OBVIOUS
  <2> HIDE DEF more
  <2>6. Grown(more)
    BY <2>1, <2>4, <2>5 DEF Grown, s, S
  <2> QED
    BY <1>2, <2>6 DEF more
<1> QED
  BY <1>1, <1>2

\* What is on its way afterwards was on its way, or has been added.
LEMMA GrownHolds ==
  ASSUME Sides, NEW more \in Seq(Seq(Event)), Grown(more)
  PROVE  /\ Len(batches) \in Nat /\ Len(more) \in Nat /\ Len(batches') \in Nat
         /\ \A c \in 1 .. Len(batches') :
              \/ c \in 1 .. Len(batches) /\ batches'[c] = batches[c]
              \/ /\ c - Len(batches) \in 1 .. Len(more) /\ batches'[c] = more[c - Len(batches)]
                 /\ c = Len(batches) + (c - Len(batches))
         /\ \A b \in 1 .. Len(batches) : b \in 1 .. Len(batches') /\ batches'[b] = batches[b]
         /\ \A m \in 1 .. Len(more) : /\ Len(batches) + m \in Len(batches) + 1 .. Len(batches')
                                      /\ Len(batches) + m \in 1 .. Len(batches')
                                      /\ batches'[Len(batches) + m] = more[m]
<1>1. Len(batches) \in Nat /\ Len(more) \in Nat
  BY LenProperties DEF Sides
<1>2. /\ Len(batches') = Len(batches) + Len(more)
      /\ \A b \in 1 .. Len(batches) : batches'[b] = batches[b]
      /\ \A m \in 1 .. Len(more) : batches'[Len(batches) + m] = more[m]
  BY DEF Grown
<1>3. ASSUME NEW c \in 1 .. Len(batches')
      PROVE  \/ c \in 1 .. Len(batches) /\ batches'[c] = batches[c]
             \/ /\ c - Len(batches) \in 1 .. Len(more) /\ batches'[c] = more[c - Len(batches)]
                /\ c = Len(batches) + (c - Len(batches))
  <2>1. CASE c <= Len(batches)
    BY <1>1, <1>2, <2>1
  <2>2. CASE ~(c <= Len(batches))
    <3>1. c - Len(batches) \in 1 .. Len(more) /\ c = Len(batches) + (c - Len(batches))
      BY <1>1, <1>2, <2>2
    <3> QED
      BY <1>2, <3>1
  <2> QED
    BY <2>1, <2>2
<1>4. Len(batches') \in Nat
  BY <1>1, <1>2
<1>5. \A b \in 1 .. Len(batches) : b \in 1 .. Len(batches') /\ batches'[b] = batches[b]
  BY <1>1, <1>2
<1>6. ASSUME NEW m \in 1 .. Len(more)
      PROVE  /\ Len(batches) + m \in Len(batches) + 1 .. Len(batches')
             /\ Len(batches) + m \in 1 .. Len(batches')
             /\ batches'[Len(batches) + m] = more[m]
  BY <1>1, <1>2
<1> HIDE <1>2
<1> QED
  BY <1>1, <1>3, <1>4, <1>5, <1>6

\* What is to be known of the batches an action adds, and of what it does to the tables
\* and to JavaScript's view: announced sessions were fresh, and stay or are then reported
\* ended, reported ends are true and new, an announced session is kept or ended by a
\* batch, and nothing is said twice.
Honest(more) ==
  /\ \A i \in Id : Announces(i) => Announces(i)' \/ \E m \in 1 .. Len(more) : Ends(more[m], i)
  /\ \A i \in Id : \A m \in 1 .. Len(more) :
       /\ Contains(more[m], Msg("Ready", i)) =>
            (Announces(i)' \/ Contains(more[m], Msg("Closed", i))) /\ Fresh(i) /\ ~Fresh(i)'
       /\ Before(more[m], Msg("Ready", i), Msg("Closed", i))
       /\ Contains(more[m], Msg("Closed", i)) => ~Ended(i) /\ Ended(i)'
  /\ \A i \in Id : (Fresh(i)' => Fresh(i)) /\ (Ended(i) => Ended(i)')
  /\ \A i \in Id : \A t \in {"Ready", "Closed"} : \A m, n \in 1 .. Len(more) :
       /\ Contains(more[m], Msg(t, i)) /\ Contains(more[n], Msg(t, i)) => m = n
       /\ Once(more[m], Msg(t, i))
  /\ \A i \in Id : /\ core'[i] = "live" => core[i] = "live"
                   /\ core'[i] = "none" <=> core[i] = "none"

\* Such batches keep every session accounted for.
LEMMA HonestAccounts ==
  ASSUME Sides, NEW more \in Seq(Seq(Event)), Grown(more), Honest(more), SessionAccounted, Followed,
         Ordered
  PROVE  SessionAccounted' /\ Followed' /\ Ordered'
<1> DEFINE n == Len(batches)
           s == batches'
<1>1. /\ n \in Nat /\ Len(more) \in Nat /\ Len(s) \in Nat
      /\ \A c \in 1 .. Len(s) :
           \/ c \in 1 .. n /\ s[c] = batches[c]
           \/ c - n \in 1 .. Len(more) /\ s[c] = more[c - n] /\ c = n + (c - n)
      /\ \A b \in 1 .. n : b \in 1 .. Len(s) /\ s[b] = batches[b]
      /\ \A m \in 1 .. Len(more) : n + m \in n + 1 .. Len(s) /\ n + m \in 1 .. Len(s) /\ s[n + m] = more[m]
  BY GrownHolds
<1>2. ASSUME NEW i \in Id, Announces(i)
      PROVE  Announces(i)' \/ \E c \in n + 1 .. Len(s) : Ends(s[c], i)
  BY <1>1, <1>2 DEF Honest
<1>3. ASSUME NEW i \in Id, core'[i] = "live"
      PROVE  Announces(i)' \/ \E c \in 1 .. Len(s) : Ends(s[c], i)
  <2>1. core[i] = "live"
    BY <1>3 DEF Honest
  <2>2. Announces(i) \/ \E c \in 1 .. n : Ends(batches[c], i)
    BY <2>1 DEF SessionAccounted, Announces, InFlight, Ends, ServerMsg
  <2>3. n + 1 .. Len(s) \subseteq 1 .. Len(s)
    BY <1>1
  <2> QED
    BY <1>1, <1>2, <2>2, <2>3
<1>4. SessionAccounted'
  BY <1>3 DEF SessionAccounted, Announces, InFlight, Ends, ServerMsg
<1>5. ASSUME NEW i \in Id, NEW b \in 1 .. Len(s), Contains(s[b], Msg("Ready", i))
      PROVE  \/ Announces(i)' \/ Contains(s[b], Msg("Closed", i))
             \/ \E c \in b + 1 .. Len(s) : Ends(s[c], i)
  <2>1. CASE b \in 1 .. n /\ s[b] = batches[b]
    <3>1. \/ Announces(i) \/ Contains(s[b], Msg("Closed", i))
          \/ \E c \in b + 1 .. n : Ends(batches[c], i)
      BY <1>5, <2>1 DEF Followed
    <3>2. n + 1 .. Len(s) \subseteq b + 1 .. Len(s)
      BY <1>1, <2>1
    <3>3. ASSUME NEW c \in b + 1 .. n, Ends(batches[c], i) PROVE c \in b + 1 .. Len(s) /\ Ends(s[c], i)
      <4>1. c \in 1 .. n
        BY <1>1, <2>1
      <4>2. s[c] = batches[c] /\ c \in 1 .. Len(s)
        BY <1>1, <4>1
      <4> QED
        BY <1>1, <3>3, <4>2
    <3> QED
      BY <1>2, <3>1, <3>2, <3>3
  <2>2. CASE b - n \in 1 .. Len(more) /\ s[b] = more[b - n]
    BY <1>5, <2>2 DEF Honest
  <2> QED
    BY <1>1, <2>1, <2>2
<1>6. Followed'
  BY <1>5 DEF Followed
<1>7. ASSUME NEW i \in Id, NEW b \in 1 .. Len(s) PROVE Before(s[b], Msg("Ready", i), Msg("Closed", i))
  BY <1>1 DEF Honest, Ordered
<1>8. Ordered'
  BY <1>7 DEF Ordered
<1> QED
  BY <1>4, <1>6, <1>8

\* Such batches keep what JavaScript hears true.
LEMMA HonestHeard ==
  ASSUME Sides, NEW more \in Seq(Seq(Event)), Grown(more), Honest(more), Heard, Single
  PROVE  Heard' /\ Single'
<1> DEFINE n == Len(batches)
           s == batches'
<1>1. /\ n \in Nat /\ Len(more) \in Nat /\ Len(s) \in Nat
      /\ \A c \in 1 .. Len(s) :
           \/ c \in 1 .. n /\ s[c] = batches[c]
           \/ c - n \in 1 .. Len(more) /\ s[c] = more[c - n] /\ c = n + (c - n)
      /\ \A b \in 1 .. n : b \in 1 .. Len(s) /\ s[b] = batches[b]
      /\ \A m \in 1 .. Len(more) : n + m \in n + 1 .. Len(s) /\ n + m \in 1 .. Len(s) /\ s[n + m] = more[m]
  BY GrownHolds
<1> DEFINE Old(c, x) == c \in 1 .. n /\ s[c] = batches[c] /\ Contains(batches[c], x)
           New(c, x) == c - n \in 1 .. Len(more) /\ s[c] = more[c - n] /\ c = n + (c - n) /\ Contains(more[c - n], x)
<1>2. ASSUME NEW x, NEW c \in 1 .. Len(s), Contains(s[c], x) PROVE Old(c, x) \/ New(c, x)
  BY <1>1, <1>2
\* A message is not both on its way and new.
<1>3. ASSUME NEW i \in Id, NEW t \in {"Ready", "Closed"}, NEW b, NEW c, Old(b, Msg(t, i)), New(c, Msg(t, i))
      PROVE  FALSE
  <2>1. InFlight(t, i)
    BY <1>3 DEF InFlight
  <2>2. CASE t = "Ready"
    BY <1>3, <2>1, <2>2 DEF Heard, Honest
  <2>3. CASE t = "Closed"
    BY <1>3, <2>1, <2>3 DEF Heard, Honest
  <2> QED
    BY <2>2, <2>3
<1>4. ASSUME NEW i \in Id, NEW c \in 1 .. Len(s), Contains(s[c], Msg("Ready", i))
      PROVE  core'[i] = "none" /\ ~Fresh(i)'
  <2>1. CASE Old(c, Msg("Ready", i))
    <3>1. InFlight("Ready", i)
      BY <2>1 DEF InFlight
    <3> QED
      BY <3>1 DEF Heard, Honest
  <2>2. CASE New(c, Msg("Ready", i))
    <3>1. Fresh(i) /\ ~Fresh(i)'
      BY <2>2 DEF Honest
    <3>2. core[i] = "none"
      BY <3>1 DEF Heard
    <3> QED
      BY <3>1, <3>2 DEF Honest
  <2> QED
    BY <1>2, <1>4, <2>1, <2>2
<1>5. ASSUME NEW i \in Id, core'[i] # "none" PROVE ~Fresh(i)'
  BY <1>5 DEF Heard, Honest
<1>6. ASSUME NEW i \in Id, NEW c \in 1 .. Len(s), Contains(s[c], Msg("Closed", i)) PROVE Ended(i)'
  <2>1. CASE Old(c, Msg("Closed", i))
    <3>1. InFlight("Closed", i)
      BY <2>1 DEF InFlight
    <3> QED
      BY <3>1 DEF Heard, Honest
  <2>2. CASE New(c, Msg("Closed", i))
    BY <2>2 DEF Honest
  <2> QED
    BY <1>2, <1>6, <2>1, <2>2
<1>7. Heard'
  BY <1>4, <1>5, <1>6 DEF Heard, InFlight
<1>8. ASSUME NEW i \in Id, NEW t \in {"Ready", "Closed"}, NEW b \in 1 .. Len(s), NEW c \in 1 .. Len(s),
             Contains(s[b], Msg(t, i)), Contains(s[c], Msg(t, i))
      PROVE  b = c
  <2>1. CASE Old(b, Msg(t, i)) /\ Old(c, Msg(t, i))
    BY <2>1 DEF Single
  <2>2. CASE New(b, Msg(t, i)) /\ New(c, Msg(t, i))
    <3>1. b - n = c - n
      BY <2>2 DEF Honest
    <3> QED
      BY <1>1, <3>1
  <2> QED
    BY <1>2, <1>3, <1>8, <2>1, <2>2
<1>9. ASSUME NEW i \in Id, NEW t \in {"Ready", "Closed"}, NEW b \in 1 .. Len(s)
      PROVE  Once(s[b], Msg(t, i))
  <2>1. CASE b \in 1 .. n /\ s[b] = batches[b]
    BY <2>1 DEF Single
  <2>2. CASE b - n \in 1 .. Len(more) /\ s[b] = more[b - n]
    BY <2>2 DEF Honest
  <2> QED
    BY <1>1, <2>1, <2>2
<1>10. Single'
  BY <1>8, <1>9 DEF Single
<1> QED
  BY <1>7, <1>10

-----------------------------------------------------------------------------
(* A batch that is handled. *)

CloseCmd == [type : {"Close"}, id : Id]
Js == [core : [Id -> Status], unread : 0 .. MaxPending, server : Server, cmds : Seq(CloseCmd)]

\* What one event makes of JavaScript's view of session i: it is live afterwards if it was
\* announced just now, or was live and the event does not end it; it is known afterwards
\* if it was known or is announced just now.
Moves(old, new, i, P(_)) ==
  /\ new[i] = "live" =>
       P(Msg("Ready", i)) \/ (old[i] = "live" /\ ~P(Msg("Closed", i)) /\ ~P(ServerMsg("ServerClosed")))
  /\ new[i] = "none" <=> old[i] = "none" /\ ~P(Msg("Ready", i))

\* The end of the server finishes every live session and changes nothing else.
LEMMA FinishAllKeeps ==
  ASSUME NEW j \in Js
  PROVE  /\ FinishAllSessions(j) \in Js
         /\ \A i \in Id : FinishAllSessions(j).core[i] = IF j.core[i] = "live" THEN "done" ELSE j.core[i]
<1> DEFINE c == [i \in Id |-> IF j.core[i] = "live" THEN "done" ELSE j.core[i]]
<1>1. j.core \in [Id -> Status]
  BY DEF Js
<1>2. c \in [Id -> Status] /\ \A i \in Id : c[i] = IF j.core[i] = "live" THEN "done" ELSE j.core[i]
  BY <1>1 DEF Status
<1>3. FinishAllSessions(j) = [j EXCEPT !.core = c]
  BY DEF FinishAllSessions
<1> HIDE DEF c
<1>4. [j EXCEPT !.core = c] \in Js /\ [j EXCEPT !.core = c].core = c
  BY <1>2 DEF Js
<1> QED
  BY <1>2, <1>3, <1>4

\* One event moves every session as Moves says.
LEMMA OnEventKeeps ==
  ASSUME NEW j \in Js, NEW ev \in Event
  PROVE  /\ OnEvent(j, ev) \in Js
         /\ \A i \in Id : Moves(j.core, OnEvent(j, ev).core, i, LAMBDA m : ev = m)
<1> DEFINE z == OnEvent(j, ev)
<1>0. /\ j.core \in [Id -> Status] /\ j.unread \in 0 .. MaxPending /\ j.server \in Server
      /\ j.cmds \in Seq(CloseCmd) /\ MaxPending \in Nat
  BY ServerAssumption DEF Js
<1>1. CASE ev.type = "Listening"
  <2> DEFINE v == Settle(j.server.ready, "resolved")
             s == [j.server EXCEPT !.ready = v]
  <2>1. s \in Server
    BY <1>0 DEF Server, Settle, Settled
  <2>2. z = [j EXCEPT !.server = s]
    BY <1>1 DEF OnEvent, Js
  <2> HIDE DEF s
  <2>3. [j EXCEPT !.server = s] \in Js /\ [j EXCEPT !.server = s].core = j.core
    BY <2>1 DEF Js
  <2> QED
    BY <1>1, <2>2, <2>3 DEF Moves, Msg, ServerMsg
<1>2. CASE ev.type = "ServerError"
  <2> DEFINE s == [j.server EXCEPT !.ready = Settle(j.server.ready, "rejected"),
                                   !.closed = Settle(j.server.closed, "rejected")]
             k == [j EXCEPT !.server = s]
  <2>1. s \in Server
    BY <1>0 DEF Server, Settle, Settled
  <2>2. z = FinishAllSessions(k)
    BY <1>2 DEF OnEvent, Js
  <2> HIDE DEF s
  <2>3. k \in Js /\ k.core = j.core
    BY <2>1 DEF Js
  <2> HIDE DEF k
  <2>4. /\ z \in Js
        /\ \A i \in Id : z.core[i] = IF j.core[i] = "live" THEN "done" ELSE j.core[i]
    BY <2>2, <2>3, FinishAllKeeps
  <2> HIDE DEF z
  <2>5. \A i \in Id : ev # Msg("Ready", i)
    BY <1>2 DEF Msg
  <2>6. ASSUME NEW i \in Id PROVE z.core[i] # "live" /\ (z.core[i] = "none" <=> j.core[i] = "none")
    BY <2>4
  <2> QED
    BY <2>4, <2>5, <2>6 DEF Moves, z
<1>3. CASE ev.type = "ServerClosed"
  <2> DEFINE s == [j.server EXCEPT !.closed = Settle(j.server.closed, "resolved")]
             k == [j EXCEPT !.server = s]
  <2>1. s \in Server
    BY <1>0 DEF Server, Settle, Settled
  <2>2. z = FinishAllSessions(k)
    BY <1>3 DEF OnEvent, Js
  <2> HIDE DEF s
  <2>3. k \in Js /\ k.core = j.core
    BY <2>1 DEF Js
  <2> HIDE DEF k
  <2>4. /\ z \in Js
        /\ \A i \in Id : z.core[i] = IF j.core[i] = "live" THEN "done" ELSE j.core[i]
    BY <2>2, <2>3, FinishAllKeeps
  <2> HIDE DEF z
  <2>5. \A i \in Id : ev # Msg("Ready", i)
    BY <1>3 DEF Msg
  <2>6. ASSUME NEW i \in Id PROVE z.core[i] # "live" /\ (z.core[i] = "none" <=> j.core[i] = "none")
    BY <2>4
  <2> QED
    BY <2>4, <2>5, <2>6 DEF Moves, z
<1>4. CASE ev.type \in {"Ready", "Closed", "Error"}
  <2>1. ev.id \in Id /\ ev = Msg(ev.type, ev.id)
    BY <1>4 DEF Event, SessionEvent, ServerEvent, Msg
  <2>2. \A t, u, i, k : Msg(t, i) = Msg(u, k) <=> t = u /\ i = k
    BY DEF Msg
  <2>3. ev # ServerMsg("ServerClosed")
    BY <1>4, <2>1, <2>2 DEF ServerMsg
  <2>4. \A i \in Id : ev = Msg("Ready", i) <=> ev.type = "Ready" /\ ev.id = i
    BY <2>1, <2>2
  <2>5. \A i \in Id : ev = Msg("Closed", i) <=> ev.type = "Closed" /\ ev.id = i
    BY <2>1, <2>2
  <2> DEFINE To(v) == [j.core EXCEPT ![ev.id] = v]
  <2>6. ASSUME NEW v \in Status
        PROVE  /\ To(v) \in [Id -> Status]
               /\ \A i \in Id : To(v)[i] = IF i = ev.id THEN v ELSE j.core[i]
    BY <1>0, <2>1
  <2> HIDE DEF To
  <2>7. CASE ev.type = "Ready" /\ Refuses(j)
    <3> DEFINE q == Append(j.cmds, Msg("Close", ev.id))
    <3>1. q \in Seq(CloseCmd)
      <4>1. Msg("Close", ev.id) \in CloseCmd
        BY <2>1 DEF Msg, CloseCmd
      <4> QED
        BY <1>0, <4>1, AppendProperties
    <3>2. z = [j EXCEPT !.core = To("refused"), !.cmds = q]
      BY <2>7 DEF OnEvent, To, Js
    <3> HIDE DEF q
    <3>3. z \in Js /\ z.core = To("refused")
      BY <2>6, <3>1, <3>2 DEF Js, Status
    <3> HIDE DEF z
    <3>4. \A i \in Id : z.core[i] = IF i = ev.id THEN "refused" ELSE j.core[i]
      BY <2>6, <3>3 DEF Status
    <3> QED
      BY <2>3, <2>4, <2>5, <2>7, <3>3, <3>4 DEF Moves, z
  <2>8. CASE ev.type = "Ready" /\ ~Refuses(j)
    <3>1. z = [j EXCEPT !.core = To("live"), !.unread = j.unread + 1]
      BY <2>8 DEF OnEvent, To, Js
    <3>2. j.unread + 1 \in 0 .. MaxPending
      BY <1>0, <2>8 DEF Refuses
    <3>3. z \in Js /\ z.core = To("live")
      BY <2>6, <3>1, <3>2 DEF Js, Status
    <3> HIDE DEF z
    <3>4. \A i \in Id : z.core[i] = IF i = ev.id THEN "live" ELSE j.core[i]
      BY <2>6, <3>3 DEF Status
    <3> QED
      BY <2>3, <2>4, <2>5, <2>8, <3>3, <3>4 DEF Moves, z
  <2>9. CASE ev.type # "Ready" /\ j.core[ev.id] = "live"
    <3>1. z = [j EXCEPT !.core = To("done")]
      BY <1>4, <2>9 DEF OnEvent, To, Js
    <3>2. z \in Js /\ z.core = To("done")
      BY <2>6, <3>1 DEF Js, Status
    <3> HIDE DEF z
    <3>3. \A i \in Id : z.core[i] = IF i = ev.id THEN "done" ELSE j.core[i]
      BY <2>6, <3>2 DEF Status
    <3> QED
      BY <2>3, <2>4, <2>5, <2>9, <3>2, <3>3 DEF Moves, z
  <2>10. CASE ev.type # "Ready" /\ j.core[ev.id] # "live"
    <3>1. z = j
      BY <1>4, <2>10 DEF OnEvent
    <3> QED
      BY <2>3, <2>4, <2>5, <2>10, <3>1 DEF Moves
  <2> QED
    BY <2>7, <2>8, <2>9, <2>10
<1>5. ev.type \in {"Listening", "ServerError", "ServerClosed", "Ready", "Closed", "Error"}
  BY DEF Event, SessionEvent, ServerEvent
<1> QED
  BY <1>1, <1>2, <1>3, <1>4, <1>5

\* The recursive function Handled is defined with exists.
LEMMA HandledUnfolds ==
  ASSUME NEW j, NEW events, Len(events) \in Nat
  PROVE  \E f : /\ f[0] = j
                /\ \A n \in 1 .. Len(events) : f[n] = OnEvent(f[n - 1], events[n])
                /\ Handled(j, events) = f[Len(events)]
<1> DEFINE e(g, m) == IF m = 0 THEN j ELSE OnEvent(g[m - 1], events[m])
           Is(g, n) == g = [m \in 0 .. n |-> e(g, m)]
           S == {n \in Nat : \E g : Is(g, n)}
<1>1. 0 \in S
  <2> DEFINE g == [m \in 0 .. 0 |-> j]
  <2>1. \A m \in 0 .. 0 : e(g, m) = j
    OBVIOUS
  <2>2. Is(g, 0)
    <3> HIDE DEF e
    <3> QED
      BY <2>1
  <2> HIDE DEF g, Is
  <2> QED
    BY <2>2
<1>2. ASSUME NEW n \in Nat, n \in S PROVE n + 1 \in S
  <2>1. PICK g : Is(g, n)
    BY <1>2
  <2> DEFINE h == [m \in 0 .. n + 1 |-> IF m <= n THEN g[m] ELSE OnEvent(g[n], events[m])]
  <2>2. ASSUME NEW m \in 0 .. n + 1 PROVE h[m] = e(h, m)
    <3>1. CASE m <= n
      <4>1. m \in 0 .. n
        BY <3>1
      <4>2. g[m] = e(g, m)
        <5> HIDE DEF e
        <5> QED
          BY <2>1, <4>1
      <4>3. m = 0 \/ (m - 1 \in 0 .. n + 1 /\ m - 1 <= n)
        BY <3>1
      <4> QED
        BY <3>1, <4>2, <4>3
    <3>2. CASE m = n + 1
      <4>1. m # 0 /\ m - 1 = n /\ n \in 0 .. n + 1 /\ n <= n /\ ~(m <= n)
        BY <3>2
      <4> QED
        BY <4>1
    <3> QED
      BY <3>1, <3>2
  <2>3. h = [m \in 0 .. n + 1 |-> h[m]]
    OBVIOUS
  <2>4. Is(h, n + 1)
    <3> HIDE DEF h, e
    <3> QED
      BY <2>2, <2>3
  <2> HIDE DEF h, Is
  <2> QED
    BY <2>4
<1>3. Len(events) \in S
  <2> HIDE DEF S
  <2> QED
    BY <1>1, <1>2, SetInduction
<1>4. \E g : Is(g, Len(events))
  BY <1>3
<1> DEFINE f == CHOOSE g : Is(g, Len(events))
<1>5. Is(f, Len(events))
  BY <1>4
<1>6. Handled(j, events) = f[Len(events)]
  BY DEF Handled
<1> HIDE DEF f
<1>7. \A m \in 0 .. Len(events) : f[m] = e(f, m)
  <2> HIDE DEF e
  <2> QED
    BY <1>5
<1>8. f[0] = j
  BY <1>7
<1>9. \A n \in 1 .. Len(events) : f[n] = OnEvent(f[n - 1], events[n])
  BY <1>7
<1> QED
  BY <1>6, <1>8, <1>9

\* A batch moves every session as its events do, taken together; a session whose Closed
\* comes after its Ready is not live afterwards.
LEMMA HandledKeeps ==
  ASSUME NEW j \in Js, NEW events \in Seq(Event)
  PROVE  /\ Handled(j, events) \in Js
         /\ \A i \in Id : Moves(j.core, Handled(j, events).core, i, LAMBDA m : Contains(events, m))
         /\ \A i \in Id : /\ Before(events, Msg("Ready", i), Msg("Closed", i))
                          /\ Contains(events, Msg("Closed", i))
                          => Handled(j, events).core[i] # "live"
<1> DEFINE L == Len(events)
<1>1. L \in Nat /\ \A n \in 1 .. L : events[n] \in Event
  BY LenProperties
<1>2. PICK f : /\ f[0] = j
               /\ \A n \in 1 .. L : f[n] = OnEvent(f[n - 1], events[n])
               /\ Handled(j, events) = f[L]
  BY <1>1, HandledUnfolds
<1> DEFINE Seen(n, m) == \E k \in 1 .. n : events[k] = m
           Alive(n, i) == \E k \in 1 .. n : /\ events[k] = Msg("Ready", i)
                                            /\ \A l \in k + 1 .. n : events[l] # Msg("Closed", i)
           Good(n) == /\ f[n] \in Js
                      /\ \A i \in Id :
                           /\ f[n].core[i] = "live" =>
                                \/ Alive(n, i)
                                \/ j.core[i] = "live" /\ ~Seen(n, Msg("Closed", i)) /\ ~Seen(n, ServerMsg("ServerClosed"))
                           /\ f[n].core[i] = "none" <=> j.core[i] = "none" /\ ~Seen(n, Msg("Ready", i))
           S == {n \in Nat : n \in 0 .. L => Good(n)}
<1>3. 0 \in S
  BY <1>2
<1>4. ASSUME NEW n \in Nat, n \in S PROVE n + 1 \in S
  <2>1. SUFFICES ASSUME n + 1 \in 0 .. L PROVE Good(n + 1)
    OBVIOUS
  <2>2. n \in 0 .. L /\ n + 1 \in 1 .. L /\ Good(n)
    BY <1>1, <1>4, <2>1
  <2> DEFINE ev == events[n + 1]
             a == f[n]
             z == f[n + 1]
  <2>3. z = OnEvent(a, ev) /\ ev \in Event /\ a \in Js
    <3>1. (n + 1) - 1 = n
      OBVIOUS
    <3>2. f[n + 1] = OnEvent(f[(n + 1) - 1], events[n + 1])
      BY <1>2, <2>2
    <3> QED
      BY <1>1, <2>2, <3>1, <3>2
  <2>4. \A m : Seen(n + 1, m) <=> Seen(n, m) \/ ev = m
    <3>1. 1 .. n + 1 = (1 .. n) \cup {n + 1}
      OBVIOUS
    <3> QED
      BY <3>1
  <2>5. \A i \in Id :
          /\ a.core[i] = "live" =>
               \/ Alive(n, i)
               \/ j.core[i] = "live" /\ ~Seen(n, Msg("Closed", i)) /\ ~Seen(n, ServerMsg("ServerClosed"))
          /\ a.core[i] = "none" <=> j.core[i] = "none" /\ ~Seen(n, Msg("Ready", i))
    BY <2>2
  <2>8. ASSUME NEW i \in Id, ev = Msg("Ready", i) PROVE Alive(n + 1, i)
    <3>1. n + 1 \in 1 .. n + 1 /\ \A l \in (n + 1) + 1 .. n + 1 : FALSE
      BY <1>1
    <3> QED
      BY <2>8, <3>1
  <2>9. ASSUME NEW i \in Id, Alive(n, i), ev # Msg("Closed", i) PROVE Alive(n + 1, i)
    <3>1. PICK k \in 1 .. n : /\ events[k] = Msg("Ready", i)
                              /\ \A l \in k + 1 .. n : events[l] # Msg("Closed", i)
      BY <2>9
    <3>2. k \in 1 .. n + 1 /\ \A l \in k + 1 .. n + 1 : l \in k + 1 .. n \/ l = n + 1
      OBVIOUS
    <3> QED
      BY <2>9, <3>1, <3>2
  <2> HIDE DEF a, ev, z, Seen, Alive
  <2>6. z \in Js /\ \A i \in Id : Moves(a.core, z.core, i, LAMBDA m : ev = m)
    BY <2>3, OnEventKeeps
  <2>7. ASSUME NEW i \in Id
        PROVE  /\ z.core[i] = "live" =>
                    \/ Alive(n + 1, i)
                    \/ j.core[i] = "live" /\ ~Seen(n + 1, Msg("Closed", i)) /\ ~Seen(n + 1, ServerMsg("ServerClosed"))
               /\ z.core[i] = "none" <=> j.core[i] = "none" /\ ~Seen(n + 1, Msg("Ready", i))
    <3>1. /\ z.core[i] = "live" => \/ ev = Msg("Ready", i)
                                   \/ a.core[i] = "live" /\ ev # Msg("Closed", i) /\ ev # ServerMsg("ServerClosed")
          /\ z.core[i] = "none" <=> a.core[i] = "none" /\ ev # Msg("Ready", i)
      BY <2>6 DEF Moves
    <3> QED
      BY <2>4, <2>5, <2>8, <2>9, <3>1
  <2> QED
    BY <2>6, <2>7 DEF z
<1>5. L \in S
  <2> HIDE DEF S
  <2> QED
    BY <1>1, <1>3, <1>4, SetInduction
<1>6. Good(L)
  BY <1>1, <1>5
<1>7. \A m : Seen(L, m) <=> Contains(events, m)
  BY DEF Contains
<1>8. \A i \in Id : Alive(L, i) => Seen(L, Msg("Ready", i))
  OBVIOUS
<1>9. ASSUME NEW i \in Id, Before(events, Msg("Ready", i), Msg("Closed", i)), Contains(events, Msg("Closed", i))
      PROVE  ~Alive(L, i)
  <2>1. PICK q \in 1 .. L : events[q] = Msg("Closed", i)
    BY <1>9 DEF Contains
  <2>2. ASSUME NEW k \in 1 .. L, events[k] = Msg("Ready", i) PROVE q \in k + 1 .. L
    <3>1. k <= q
      BY <1>9, <2>1, <2>2 DEF Before
    <3>2. k # q
      BY <2>1, <2>2 DEF Msg
    <3> QED
      BY <1>1, <3>1, <3>2
  <2> QED
    BY <2>1, <2>2
<1> HIDE DEF Seen, Alive
<1> QED
  BY <1>2, <1>6, <1>7, <1>8, <1>9 DEF Moves

\* The callback that handles a batch keeps the invariant.
LEMMA BatchHandled ==
  ASSUME Sides, SessionAccounted, Followed, Ordered, Heard, Single, JsBatch
  PROVE  Sides' /\ SessionAccounted' /\ Followed' /\ Ordered' /\ Heard' /\ Single'
<1> DEFINE H == Head(batches)
           T == Tail(batches)
           j == [core |-> core, unread |-> unread, server |-> server, cmds |-> <<>>]
           z == Handled(j, H)
           E == Seq(Event)
<1>1. batches \in Seq(E) /\ batches # <<>> /\ Len(batches) \in Nat
  BY LenProperties DEF Sides, JsBatch
<1>2. /\ H \in E /\ T \in Seq(E) /\ Len(T) = Len(batches) - 1
      /\ \A b \in 1 .. Len(T) : T[b] = batches[b + 1]
  <2> HIDE DEF E
  <2> QED
    BY <1>1, HeadTailProperties
<1>3. H = batches[1] /\ Len(batches) \in Nat \ {0}
  <2> HIDE DEF E
  <2> QED
    BY <1>1, EmptySeq
<1>4. /\ batches' = T /\ core' = z.core /\ unread' = z.unread /\ server' = z.server
      /\ UNCHANGED <<thread, clients, routing, sessions, nextId, retried, asked>>
  BY DEF JsBatch, tables
<1>5. j \in Js
  <2> DEFINE q == <<>>
  <2>1. q \in Seq(CloseCmd)
    BY EmptySeq
  <2> HIDE DEF q
  <2>2. [core |-> core, unread |-> unread, server |-> server, cmds |-> q] \in Js
    BY <2>1 DEF Js, Sides
  <2> QED
    BY <2>2 DEF q
<1> DEFINE old == core
<1>6. j.core = old
  OBVIOUS
<1> HIDE DEF j, H, T
<1>7. /\ z \in Js /\ \A i \in Id : Moves(old, z.core, i, LAMBDA m : Contains(H, m))
      /\ \A i \in Id : /\ Before(H, Msg("Ready", i), Msg("Closed", i)) /\ Contains(H, Msg("Closed", i))
                       => z.core[i] # "live"
  BY <1>2, <1>5, <1>6, HandledKeeps
<1> HIDE DEF z
<1>8. ASSUME NEW i \in Id
      PROVE  /\ core'[i] = "live" =>
                  \/ Contains(H, Msg("Ready", i))
                  \/ core[i] = "live" /\ ~Contains(H, Msg("Closed", i)) /\ ~Contains(H, ServerMsg("ServerClosed"))
             /\ core'[i] = "none" <=> core[i] = "none" /\ ~Contains(H, Msg("Ready", i))
             /\ core'[i] = "live" => ~Contains(H, Msg("Closed", i))
  <2>1. 1 \in 1 .. Len(batches) /\ H = batches[1]
    BY <1>3
  <2>2. Before(H, Msg("Ready", i), Msg("Closed", i))
    BY <2>1 DEF Ordered
  <2> QED
    BY <1>4, <1>7, <2>2 DEF Moves
<1>9. Sides'
  BY <1>2, <1>4, <1>7 DEF Sides, Js
\* What is behind the batch stays on its way.
<1>10. ASSUME NEW b \in 2 .. Len(batches)
       PROVE  b - 1 \in 1 .. Len(T) /\ T[b - 1] = batches[b]
  BY <1>1, <1>2
<1>11. ASSUME NEW b \in 1 .. Len(T)
       PROVE  b + 1 \in 1 .. Len(batches) /\ T[b] = batches[b + 1] /\ b + 1 # 1
  BY <1>1, <1>2
<1>12. ASSUME NEW i \in Id PROVE (Announces(i)' <=> Announces(i)) /\ (Fresh(i)' <=> Fresh(i)) /\ (Ended(i)' <=> Ended(i))
  BY <1>4 DEF Announces, Fresh, Ended
<1>13. ASSUME NEW i \in Id, core'[i] = "live"
       PROVE  Announces(i) \/ \E b \in 1 .. Len(T) : Ends(T[b], i)
  <2>1. CASE Contains(H, Msg("Ready", i))
    <3>1. Announces(i) \/ \E c \in 1 + 1 .. Len(batches) : Ends(batches[c], i)
      BY <1>3, <1>8, <1>13, <2>1 DEF Followed
    <3> QED
      BY <1>10, <3>1
  <2>2. CASE core[i] = "live" /\ ~Contains(H, Msg("Closed", i)) /\ ~Contains(H, ServerMsg("ServerClosed"))
    <3>1. Announces(i) \/ \E b \in 1 .. Len(batches) : Ends(batches[b], i)
      BY <2>2 DEF SessionAccounted, Announces, InFlight, Ends, ServerMsg
    <3>2. ~Ends(batches[1], i)
      BY <1>3, <2>2 DEF Ends
    <3>3. \A b \in 1 .. Len(batches) : b = 1 \/ b \in 2 .. Len(batches)
      BY <1>1
    <3> QED
      BY <1>10, <3>1, <3>2, <3>3
  <2> QED
    BY <1>8, <1>13, <2>1, <2>2
<1>14. SessionAccounted'
  <2>1. \A i \in Id : core'[i] = "live" => Announces(i)' \/ \E b \in 1 .. Len(batches') : Ends(batches'[b], i)
    BY <1>4, <1>12, <1>13
  <2> QED
    BY <2>1 DEF SessionAccounted, Announces, InFlight, Ends, ServerMsg
<1>15. ASSUME NEW i \in Id, NEW b \in 1 .. Len(T), Contains(T[b], Msg("Ready", i))
       PROVE  \/ Announces(i) \/ Contains(T[b], Msg("Closed", i))
              \/ \E c \in b + 1 .. Len(T) : Ends(T[c], i)
  <2>1. \/ Announces(i) \/ Contains(T[b], Msg("Closed", i))
        \/ \E c \in (b + 1) + 1 .. Len(batches) : Ends(batches[c], i)
    BY <1>11, <1>15 DEF Followed
  <2>2. ASSUME NEW c \in (b + 1) + 1 .. Len(batches)
        PROVE  c - 1 \in b + 1 .. Len(T) /\ T[c - 1] = batches[c]
    BY <1>1, <1>2, <1>10
  <2> QED
    BY <2>1, <2>2
<1>16. Followed'
  <2>1. \A i \in Id : \A b \in 1 .. Len(batches') : Contains(batches'[b], Msg("Ready", i)) =>
          \/ Announces(i)' \/ Contains(batches'[b], Msg("Closed", i))
          \/ \E c \in b + 1 .. Len(batches') : Ends(batches'[c], i)
    BY <1>4, <1>12, <1>15
  <2> QED
    BY <2>1 DEF Followed
<1>17. ASSUME NEW i \in Id, NEW t, NEW b \in 1 .. Len(T), Contains(T[b], Msg(t, i)) PROVE InFlight(t, i)
  BY <1>11, <1>17 DEF InFlight
<1>18. ASSUME NEW i \in Id, NEW b \in 1 .. Len(T), Contains(T[b], Msg("Ready", i))
       PROVE  core'[i] = "none" /\ ~Fresh(i)
  <2>1. core[i] = "none" /\ ~Fresh(i)
    BY <1>17, <1>18 DEF Heard
  <2>2. ~Contains(H, Msg("Ready", i))
    <3>1. 1 \in 1 .. Len(batches)
      BY <1>3
    <3> QED
      BY <1>3, <1>11, <1>18, <3>1 DEF Single
  <2> QED
    BY <1>8, <2>1, <2>2
<1>19. ASSUME NEW i \in Id, core'[i] # "none" PROVE ~Fresh(i)
  <2>1. CASE core[i] # "none"
    BY <2>1 DEF Heard
  <2>2. CASE Contains(H, Msg("Ready", i))
    <3>1. InFlight("Ready", i)
      BY <1>3, <2>2 DEF InFlight
    <3> QED
      BY <3>1 DEF Heard
  <2> QED
    BY <1>8, <1>19, <2>1, <2>2
<1>20. ASSUME NEW i \in Id, NEW b \in 1 .. Len(T), Contains(T[b], Msg("Closed", i)) PROVE Ended(i)
  BY <1>17, <1>20 DEF Heard
<1>21. Heard'
  <2>1. ASSUME NEW i \in Id
        PROVE  /\ InFlight("Ready", i)' => core'[i] = "none" /\ ~Fresh(i)'
               /\ core'[i] # "none" => ~Fresh(i)'
               /\ InFlight("Closed", i)' => Ended(i)'
    BY <1>4, <1>12, <1>18, <1>19, <1>20 DEF InFlight
  <2> QED
    BY <2>1 DEF Heard
<1>22. ASSUME NEW i \in Id, NEW t \in {"Ready", "Closed"}, NEW b \in 1 .. Len(T), NEW c \in 1 .. Len(T)
       PROVE  /\ Contains(T[b], Msg(t, i)) /\ Contains(T[c], Msg(t, i)) => b = c
              /\ Once(T[b], Msg(t, i))
  <2>1. /\ Contains(T[b], Msg(t, i)) /\ Contains(T[c], Msg(t, i)) => b + 1 = c + 1
        /\ Once(T[b], Msg(t, i))
    BY <1>11 DEF Single
  <2> QED
    BY <2>1
<1>23. Single'
  BY <1>4, <1>22 DEF Single
<1>24. Ordered'
  <2>1. \A i \in Id : \A b \in 1 .. Len(T) : Before(T[b], Msg("Ready", i), Msg("Closed", i))
    BY <1>11 DEF Ordered
  <2> QED
    BY <1>4, <2>1 DEF Ordered
<1> QED
  BY <1>9, <1>14, <1>16, <1>21, <1>23, <1>24

-----------------------------------------------------------------------------
(* The actions of the thread. *)

\* The connections an iteration leaves.
Left(step) == {k \in DOMAIN step : ~Gone(step[k].conn)}

\* An iteration is one step of every connection.
LEMMA DriveTakes ==
  ASSUME Tables, Drive
  PROVE  \E step : /\ Taken(step)
                   /\ clients' = [k \in Left(step) |-> step[k].conn]
                   /\ sessions' = SessionsOf(Left(step))
                   /\ routing' = Keep(routing, {k \in DOMAIN routing : routing[k] \in Left(step)})
                   /\ Emit(Said(step))
                   /\ UNCHANGED <<thread, nextId, retried, core, asked, unread, server>>
<1> DEFINE may == [k \in DOMAIN clients |-> Steps(Commanded(k))]
<1>1. PICK step \in [DOMAIN clients -> UNION {may[k] : k \in DOMAIN clients}] :
        (\A k \in DOMAIN clients : step[k] \in may[k]) /\ DriveWith(step)
  BY DEF Drive
<1>2. Taken(step)
  BY <1>1 DEF Taken
<1> DEFINE ks == SetToSeq(DOMAIN step)
<1>3. IsFiniteSet(DOMAIN step)
  BY <1>2 DEF Taken, Tables
<1>4. \A i \in 1 .. Len(ks) : ks[i] \in DOMAIN step
  BY <1>3, SetToSeqLists
<1>5. [i \in 1 .. Len(ks) |-> step[ks[i]].said] = [i \in 1 .. Len(ks) |-> SaidBy(step)[ks[i]]]
  <2> HIDE DEF ks
  <2>1. \A i \in 1 .. Len(ks) : SaidBy(step)[ks[i]] = step[ks[i]].said
    BY <1>4 DEF SaidBy
  <2> QED
    BY <2>1
<1>6. [i \in 1 .. Len(ks) |-> LastWords(step[ks[i]].conn)] = [i \in 1 .. Len(ks) |-> LastOf(step)[ks[i]]]
  <2> HIDE DEF ks
  <2>1. \A i \in 1 .. Len(ks) : LastOf(step)[ks[i]] = LastWords(step[ks[i]].conn)
    BY <1>4 DEF LastOf
  <2> QED
    BY <2>1
<1>7. Said(step) = FlattenSeq([i \in 1 .. Len(ks) |-> step[ks[i]].said])
                     \o FlattenSeq([i \in 1 .. Len(ks) |-> LastWords(step[ks[i]].conn)])
  BY <1>5, <1>6 DEF Said, Gathered
<1>8. /\ UNCHANGED <<thread, nextId, retried, core, asked, unread, server>>
      /\ clients' = [k \in Left(step) |-> step[k].conn]
      /\ sessions' = SessionsOf(Left(step))
      /\ routing' = Keep(routing, {k \in DOMAIN routing : routing[k] \in Left(step)})
  BY <1>1 DEF DriveWith, Left, jsVars
<1>9. Emit(Said(step))
  BY <1>1, <1>7 DEF DriveWith
<1> QED
  BY <1>2, <1>8, <1>9

\* An iteration keeps the tables.
LEMMA DriveTables ==
  ASSUME Tables, NEW step, Taken(step),
         clients' = [k \in Left(step) |-> step[k].conn], sessions' = SessionsOf(Left(step)),
         routing' = Keep(routing, {k \in DOMAIN routing : routing[k] \in Left(step)}),
         nextId' = nextId, retried' = retried
  PROVE  /\ Tables'
         /\ \A k \in DOMAIN clients : ~Gone(step[k].conn) =>
              /\ clients[k].id \in DOMAIN sessions' /\ sessions'[clients[k].id] = k
              /\ k \in DOMAIN clients' /\ clients'[k] = step[k].conn
         /\ \A i \in DOMAIN sessions' : \E k \in DOMAIN clients :
              /\ clients[k].id = i /\ ~Gone(step[k].conn) /\ sessions'[i] = k
              /\ i \in DOMAIN sessions /\ sessions[i] = k /\ clients'[k] = step[k].conn
<1> DEFINE D == DOMAIN clients
           L == Left(step)
<1>1. /\ IsFiniteSet(D) /\ Cardinality(D) <= MaxConnections /\ DOMAIN step = D
      /\ \A k \in D : k \in Key /\ clients[k] \in Conn
      /\ nextId \in 1 .. MaxSessions + 1 /\ retried \subseteq Addr
  BY DEF Tables, Taken
<1>2. /\ DOMAIN routing = D /\ \A k \in D : routing[k] = k
      /\ DOMAIN sessions = {clients[k].id : k \in D}
      /\ \A k \in D : sessions[clients[k].id] = k /\ clients[k].id < nextId
  BY DEF Tables, TablesAgree
<1>3. L \subseteq D /\ \A k \in D : k \in L <=> ~Gone(step[k].conn)
  BY <1>1 DEF Left
<1>4. ASSUME NEW k \in D
      PROVE  step[k].conn \in StepConn /\ step[k].conn.id = clients[k].id /\ step[k].conn.addr = clients[k].addr
  BY TakenBecomes DEF Becomes
<1> HIDE DEF L
<1>5. DOMAIN clients' = L /\ \A k \in L : clients'[k] = step[k].conn
  BY DEF L
<1>6. DOMAIN routing' = L /\ \A k \in L : routing'[k] = k
  <2>1. DOMAIN routing' = DOMAIN routing \cap {k \in DOMAIN routing : routing[k] \in L}
    BY DEF Keep, L
  <2>2. \A k \in DOMAIN routing' : routing'[k] = routing[k]
    BY DEF Keep, L
  <2>3. DOMAIN routing' = L
    <3>1. DOMAIN routing = D /\ L \subseteq D /\ \A k \in D : routing[k] = k
      BY <1>2, <1>3
    <3> HIDE DEF D
    <3> QED
      BY <2>1, <3>1
  <2> QED
    BY <1>2, <1>3, <2>2, <2>3
<1>7. /\ DOMAIN sessions' = {i \in DOMAIN sessions : sessions[i] \in L}
      /\ \A i \in DOMAIN sessions' : sessions'[i] = sessions[i]
  BY DEF SessionsOf, Keep, L
<1>8. ASSUME NEW k \in L
      PROVE  /\ k \in D /\ clients'[k].id = clients[k].id /\ clients'[k].addr = clients[k].addr
             /\ clients[k].id \in DOMAIN sessions' /\ sessions'[clients[k].id] = k
  BY <1>2, <1>3, <1>4, <1>5, <1>7
<1>9. ASSUME NEW i \in DOMAIN sessions'
      PROVE  \E k \in L : clients[k].id = i /\ sessions'[i] = k /\ i \in DOMAIN sessions /\ sessions[i] = k
  BY <1>2, <1>7
<1>10. IsFiniteSet(L) /\ Cardinality(L) <= MaxConnections
  <2>1. IsFiniteSet(L) /\ Cardinality(L) <= Cardinality(D)
    BY <1>1, <1>3, FS_Subset
  <2>2. Cardinality(L) \in Nat /\ Cardinality(D) \in Nat
    BY <1>1, <2>1, FS_CardinalityType
  <2> QED
    BY <1>1, <2>1, <2>2, ServerAssumption
<1>11. ASSUME NEW k \in L PROVE k \in Key /\ clients'[k] \in Conn
  <2>1. k \in Key /\ clients'[k] \in StepConn /\ clients'[k].conn # "closed"
    BY <1>1, <1>3, <1>4, <1>5 DEF Gone
  <2> QED
    BY <2>1 DEF StepConn, Conn
<1>12. TablesAgree'
  <2>1. DOMAIN sessions' = {clients'[k].id : k \in L}
    <3>1. ASSUME NEW i \in DOMAIN sessions' PROVE i \in {clients'[k].id : k \in L}
      <4>1. PICK k \in L : clients[k].id = i
        BY <1>9
      <4>2. clients'[k].id = i
        BY <1>8, <4>1
      <4> QED
        BY <4>2
    <3>2. ASSUME NEW k \in L PROVE clients'[k].id \in DOMAIN sessions'
      BY <1>8
    <3> QED
      BY <3>1, <3>2
  <2>2. DOMAIN routing' = DOMAIN clients' /\ \A k \in DOMAIN clients' : routing'[k] = k
    BY <1>5, <1>6
  <2>3. DOMAIN sessions' = {clients'[k].id : k \in DOMAIN clients'}
    BY <1>5, <2>1
  <2>4. \A k \in DOMAIN clients' : sessions'[clients'[k].id] = k /\ clients'[k].id < nextId'
    <3>1. nextId' = nextId
      OBVIOUS
    <3> QED
      BY <1>2, <1>5, <1>8, <3>1
  <2> QED
    BY <2>2, <2>3, <2>4 DEF TablesAgree
<1>13. Tables'
  <2>1. \A k \in DOMAIN clients' : k \in Key /\ clients'[k] \in Conn
    BY <1>5, <1>11
  <2>2. IsFiniteSet(DOMAIN clients') /\ Cardinality(DOMAIN clients') <= MaxConnections
    BY <1>5, <1>10
  <2> QED
    BY <1>1, <1>12, <2>1, <2>2 DEF Tables, Conn, Id
<1> QED
  BY <1>3, <1>5, <1>8, <1>9, <1>13

\* An iteration adds an honest batch.
LEMMA DriveHonest ==
  ASSUME Tables, Sides, Drive
  PROVE  Tables' /\ Sides' /\ \E more \in Seq(Seq(Event)) : Grown(more) /\ Honest(more)
<1>1. PICK step : /\ Taken(step)
                  /\ clients' = [k \in Left(step) |-> step[k].conn]
                  /\ sessions' = SessionsOf(Left(step))
                  /\ routing' = Keep(routing, {k \in DOMAIN routing : routing[k] \in Left(step)})
                  /\ Emit(Said(step))
                  /\ UNCHANGED <<thread, nextId, retried, core, asked, unread, server>>
  BY DriveTakes
<1> DEFINE D == DOMAIN clients
           B == Said(step)
<1>2. /\ Tables'
      /\ \A k \in D : ~Gone(step[k].conn) =>
           /\ clients[k].id \in DOMAIN sessions' /\ sessions'[clients[k].id] = k
           /\ k \in DOMAIN clients' /\ clients'[k] = step[k].conn
      /\ \A i \in DOMAIN sessions' : \E k \in D :
           /\ clients[k].id = i /\ ~Gone(step[k].conn) /\ sessions'[i] = k
           /\ i \in DOMAIN sessions /\ sessions[i] = k /\ clients'[k] = step[k].conn
  BY <1>1, DriveTables
<1>3. /\ B \in Seq(Event)
      /\ \A i \in Id : Contains(B, Msg("Ready", i)) =>
           \E k \in D : /\ clients[k].id = i /\ clients[k].phase = "connecting"
                        /\ \/ step[k].conn.phase = "ready" /\ ~Gone(step[k].conn)
                           \/ Contains(B, Msg("Closed", i))
      /\ \A i \in Id : Contains(B, Msg("Closed", i)) =>
           \E k \in D : /\ clients[k].id = i /\ clients[k].phase # "closed"
                        /\ step[k].conn.phase = "closed" \/ Gone(step[k].conn)
      /\ \A k \in D : clients[k].phase = "ready" =>
           \/ Contains(B, Msg("Closed", clients[k].id))
           \/ step[k].conn.phase = "ready" /\ ~Gone(step[k].conn)
      /\ \A i \in Id : \A t \in {"Ready", "Closed"} : Once(B, Msg(t, i))
      /\ \A i \in Id : Before(B, Msg("Ready", i), Msg("Closed", i))
  BY <1>1, SaidBatch
<1>4. ASSUME NEW k \in D
      PROVE  /\ clients[k].phase = "closed" => step[k].conn.phase = "closed"
             /\ step[k].conn.phase = "connecting" => clients[k].phase = "connecting"
  BY <1>1, TakenBecomes DEF Becomes
<1>5. /\ DOMAIN sessions = {clients[k].id : k \in D} /\ nextId' = nextId /\ nextId \in Nat
      /\ \A k \in D : sessions[clients[k].id] = k /\ clients[k].id < nextId /\ clients[k].id \in Id
  BY <1>1 DEF Tables, TablesAgree, Conn
<1> HIDE DEF B
<1>6. ASSUME NEW i \in Id PROVE (Fresh(i)' => Fresh(i)) /\ (Ended(i) => Ended(i)')
  BY <1>2, <1>4, <1>5 DEF Fresh, Ended
<1>7. ASSUME NEW i \in Id, Contains(B, Msg("Closed", i)) PROVE ~Ended(i) /\ Ended(i)'
  <2>1. PICK k \in D : /\ clients[k].id = i /\ clients[k].phase # "closed"
                       /\ step[k].conn.phase = "closed" \/ Gone(step[k].conn)
    BY <1>3, <1>7
  <2>2. i \in DOMAIN sessions /\ sessions[i] = k /\ i < nextId
    BY <1>5, <2>1
  <2>3. ASSUME i \in DOMAIN sessions' PROVE clients'[sessions'[i]].phase = "closed"
    BY <1>2, <2>1, <2>2, <2>3
  <2> QED
    BY <1>5, <2>1, <2>2, <2>3 DEF Ended
<1>8. ASSUME NEW i \in Id, Contains(B, Msg("Ready", i))
      PROVE  (Announces(i)' \/ Contains(B, Msg("Closed", i))) /\ Fresh(i) /\ ~Fresh(i)'
  <2>1. PICK k \in D : /\ clients[k].id = i /\ clients[k].phase = "connecting"
                       /\ \/ step[k].conn.phase = "ready" /\ ~Gone(step[k].conn)
                          \/ Contains(B, Msg("Closed", i))
    BY <1>3, <1>8
  <2>2. i \in DOMAIN sessions /\ sessions[i] = k /\ i < nextId
    BY <1>5, <2>1
  <2>3. Fresh(i)
    BY <2>1, <2>2 DEF Fresh
  <2>4. CASE step[k].conn.phase = "ready" /\ ~Gone(step[k].conn)
    <3>1. i \in DOMAIN sessions' /\ sessions'[i] = k /\ clients'[k].phase = "ready"
      BY <1>2, <2>1, <2>4
    <3> QED
      BY <1>5, <2>2, <2>3, <3>1 DEF Announces, Fresh, Id
  <2>5. CASE Contains(B, Msg("Closed", i))
    <3>1. Ended(i)'
      BY <1>7, <2>5
    <3>2. ~Fresh(i)'
      BY <1>5, <3>1 DEF Ended, Fresh, Id
    <3> QED
      BY <2>3, <2>5, <3>2
  <2> QED
    BY <2>1, <2>4, <2>5
<1>9. ASSUME NEW i \in Id, Announces(i) PROVE Announces(i)' \/ Contains(B, Msg("Closed", i))
  <2>1. PICK k \in D : clients[k].id = i /\ sessions[i] = k /\ clients[k].phase = "ready"
    BY <1>5, <1>9 DEF Announces
  <2> QED
    BY <1>2, <1>3, <2>1 DEF Announces
<1>10. CASE B = <<>> /\ batches' = batches
  <2> DEFINE more == <<>>
  <2>1. more \in Seq(Seq(Event)) /\ Len(more) = 0
    BY EmptySeq
  <2>2. Grown(more)
    BY <1>10, GrownByNone DEF Sides
  <2> HIDE DEF more
  <2>3. \A x : ~Contains(B, x)
    <3>1. Len(B) = 0
      BY <1>10
    <3> QED
      BY <3>1 DEF Contains
  <2>4. Honest(more)
    BY <1>1, <1>6, <1>9, <2>1, <2>3 DEF Honest
  <2>5. Sides'
    BY <1>1, <1>10 DEF Sides
  <2> QED
    BY <1>2, <2>1, <2>2, <2>4, <2>5
<1>11. CASE B # <<>> /\ Grown(<<B>>)
  <2> DEFINE more == <<B>>
  <2>1. more \in Seq(Seq(Event)) /\ Len(more) = 1 /\ more[1] = B
    BY <1>3
  <2>2. Grown(more)
    BY <1>11
  <2> HIDE DEF more
  <2>3. 1 .. Len(more) = {1}
    BY <2>1
  <2>4. Honest(more)
    BY <1>1, <1>3, <1>6, <1>7, <1>8, <1>9, <2>1, <2>3 DEF Honest, Ends
  <2>5. Sides'
    BY <1>1, <2>2 DEF Sides, Grown
  <2> QED
    BY <1>2, <2>1, <2>2, <2>4, <2>5
<1>12. Emit(B)
  BY <1>1 DEF B
<1> QED
  BY <1>3, <1>10, <1>11, <1>12, GrownByEmit DEF Sides

\* An accepted connection gets a key no table has and a session id no table has had.
LEMMA AcceptHonest ==
  ASSUME Tables, Sides, NEW k \in Key, NEW a \in Addr, Accept(k, a)
  PROVE  Tables' /\ Sides' /\ \E more \in Seq(Seq(Event)) : Grown(more) /\ Honest(more)
<1> DEFINE D == DOMAIN clients
           c == NewConn(nextId, a)
<1>1. /\ IsFiniteSet(D) /\ Cardinality(D) \in Nat /\ MaxConnections \in Nat /\ MaxSessions \in Nat
      /\ \A l \in D : l \in Key /\ clients[l] \in Conn
      /\ nextId \in 1 .. MaxSessions + 1 /\ retried \subseteq Addr
  BY ServerAssumption, FS_CardinalityType DEF Tables
<1>2. /\ DOMAIN routing = D /\ \A l \in D : routing[l] = l
      /\ DOMAIN sessions = {clients[l].id : l \in D}
      /\ \A l \in D : sessions[clients[l].id] = l /\ clients[l].id < nextId
  BY DEF Tables, TablesAgree
<1>3. /\ k \notin D /\ Cardinality(D) < MaxConnections /\ a \in retried /\ nextId \in Id
      /\ routing' = Put(routing, k, k) /\ sessions' = Put(sessions, nextId, k)
      /\ clients' = Put(clients, k, c) /\ nextId' = nextId + 1
      /\ UNCHANGED <<thread, retried, batches, core, asked, unread, server>>
  BY <1>2 DEF Accept, Admits, ValidToken, NewId, jsVars
<1>4. c \in Conn /\ c.id = nextId /\ c.addr = a /\ c.phase = "connecting"
  BY <1>3 DEF NewConn, Conn
<1>5. nextId \notin DOMAIN sessions /\ \A l \in D : clients[l].id # nextId
  BY <1>1, <1>2
<1> HIDE DEF c
<1>6. DOMAIN clients' = D \cup {k} /\ clients'[k] = c /\ \A l \in D : clients'[l] = clients[l]
  BY <1>3 DEF Put
<1>7. DOMAIN routing' = D \cup {k} /\ \A l \in D \cup {k} : routing'[l] = l
  BY <1>2, <1>3 DEF Put
<1>8. /\ DOMAIN sessions' = DOMAIN sessions \cup {nextId} /\ sessions'[nextId] = k
      /\ \A i \in DOMAIN sessions : sessions'[i] = sessions[i]
  BY <1>3, <1>5 DEF Put
<1>9. TablesAgree'
  <2>1. DOMAIN sessions' = {clients'[l].id : l \in D \cup {k}}
    <3>1. ASSUME NEW i \in DOMAIN sessions' PROVE i \in {clients'[l].id : l \in D \cup {k}}
      <4>1. CASE i = nextId
        BY <1>4, <1>6, <4>1
      <4>2. CASE i \in DOMAIN sessions
        <5>1. PICK l \in D : clients[l].id = i
          BY <1>2, <4>2
        <5>2. clients'[l].id = i
          BY <1>6, <5>1
        <5> QED
          BY <5>2
      <4> QED
        BY <1>8, <4>1, <4>2
    <3>2. ASSUME NEW l \in D \cup {k} PROVE clients'[l].id \in DOMAIN sessions'
      <4>1. CASE l = k
        BY <1>4, <1>6, <1>8, <4>1
      <4>2. CASE l \in D
        BY <1>2, <1>6, <1>8, <4>2
      <4> QED
        BY <4>1, <4>2
    <3> QED
      BY <3>1, <3>2
  <2>2. ASSUME NEW l \in D \cup {k} PROVE sessions'[clients'[l].id] = l /\ clients'[l].id < nextId'
    <3>1. CASE l = k
      BY <1>1, <1>3, <1>4, <1>6, <1>8, <3>1
    <3>2. CASE l \in D
      <4>1. clients'[l].id = clients[l].id /\ clients[l].id \in DOMAIN sessions /\ clients[l].id \in Int
        BY <1>1, <1>2, <1>6, <3>2 DEF Conn, Id
      <4> QED
        BY <1>1, <1>2, <1>3, <1>8, <3>2, <4>1
    <3> QED
      BY <3>1, <3>2
  <2> QED
    BY <1>6, <1>7, <2>1, <2>2 DEF TablesAgree
<1>10. IsFiniteSet(D \cup {k}) /\ Cardinality(D \cup {k}) <= MaxConnections
  <2>1. IsFiniteSet(D \cup {k}) /\ Cardinality(D \cup {k}) = Cardinality(D) + 1
    BY <1>1, <1>3, FS_AddElement
  <2> QED
    BY <1>1, <1>3, <2>1
<1>11. \A l \in DOMAIN clients' : l \in Key /\ clients'[l] \in Conn
  BY <1>1, <1>4, <1>6
<1>12. Tables'
  <2>1. nextId' \in 1 .. MaxSessions + 1
    BY <1>1, <1>3 DEF Id
  <2>2. IsFiniteSet(DOMAIN clients') /\ Cardinality(DOMAIN clients') <= MaxConnections
    BY <1>6, <1>10
  <2> QED
    BY <1>1, <1>3, <1>9, <1>11, <2>1, <2>2 DEF Tables, Conn, Id
<1>13. ASSUME NEW i \in Id
       PROVE  /\ Announces(i) => Announces(i)'
              /\ (Fresh(i)' => Fresh(i)) /\ (Ended(i) => Ended(i)')
  <2>1. \A l \in DOMAIN sessions : sessions[l] \in D
    BY <1>2
  <2>2. i \in DOMAIN sessions => i \in DOMAIN sessions' /\ clients'[sessions'[i]] = clients[sessions[i]]
    BY <1>6, <1>8, <2>1
  <2>3. i \in Int /\ nextId \in Int
    BY <1>1 DEF Id
  <2>4. i \in DOMAIN sessions' => i \in DOMAIN sessions \/ i = nextId
    BY <1>8
  <2>5. (i >= nextId' => i >= nextId) /\ (i < nextId => i < nextId' /\ i # nextId) /\ (i = nextId => i >= nextId)
    BY <1>3, <2>3
  <2> QED
    BY <2>2, <2>4, <2>5 DEF Announces, Fresh, Ended
<1> DEFINE more == <<>>
<1>14. more \in Seq(Seq(Event)) /\ Len(more) = 0
  BY EmptySeq
<1>15. Grown(more)
  BY <1>3, GrownByNone DEF Sides
<1> HIDE DEF more
<1>16. Honest(more)
  BY <1>3, <1>13, <1>14 DEF Honest
<1>17. Sides'
  BY <1>3 DEF Sides
<1> QED
  BY <1>12, <1>14, <1>15, <1>16, <1>17

\* A batch of server messages.
LEMMA ServerBatch ==
  ASSUME NEW b \in Seq(ServerEvent)
  PROVE  /\ b \in Seq(Event)
         /\ \A u \in {"Ready", "Closed"}, i \in Id : ~Contains(b, Msg(u, i)) /\ Once(b, Msg(u, i))
         /\ \A i \in Id : Before(b, Msg("Ready", i), Msg("Closed", i))
<1>1. b \in Seq(Event)
  BY SeqMonotonic DEF Event
<1>2. \A e \in 1 .. Len(b) : b[e] \in ServerEvent
  BY ElementOfSeq
<1>3. \A u \in {"Ready", "Closed"}, i \in Id : Msg(u, i) \notin ServerEvent
  BY DEF Msg, ServerEvent
<1> QED
  BY <1>1, <1>2, <1>3 DEF Contains, Once, Before

\* Batches about the server only are honest when the sessions they leave behind are ended
\* by them, or none is left behind.
LEMMA ServerOnlyHonest ==
  ASSUME NEW more \in Seq(Seq(ServerEvent)),
         \A i \in Id : Announces(i) => Announces(i)' \/ \E m \in 1 .. Len(more) : Ends(more[m], i),
         \A i \in Id : (Fresh(i)' => Fresh(i)) /\ (Ended(i) => Ended(i)'),
         \A i \in Id : /\ core'[i] = "live" => core[i] = "live"
                       /\ core'[i] = "none" <=> core[i] = "none"
  PROVE  more \in Seq(Seq(Event)) /\ Honest(more)
<1>1. \A m \in 1 .. Len(more) : more[m] \in Seq(ServerEvent)
  BY ElementOfSeq
<1>2. \A m \in 1 .. Len(more) : \A u \in {"Ready", "Closed"}, i \in Id :
        /\ ~Contains(more[m], Msg(u, i)) /\ Once(more[m], Msg(u, i))
        /\ Before(more[m], Msg("Ready", i), Msg("Closed", i))
  BY <1>1, ServerBatch
<1>3. more \in Seq(Seq(Event))
  <2>1. Seq(ServerEvent) \subseteq Seq(Event)
    BY ServerBatch
  <2> DEFINE S == Seq(ServerEvent)
             T == Seq(Event)
  <2>2. more \in Seq(S) /\ S \subseteq T
    BY <2>1
  <2> HIDE DEF S, T
  <2>3. more \in Seq(T)
    BY <2>2, SeqMonotonic
  <2> QED
    BY <2>3 DEF T
<1>4. Honest(more)
  BY <1>2 DEF Honest
<1> QED
  BY <1>3, <1>4

\* An action that adds no batch and leaves the tables alone.
LEMMA QuietHonest ==
  ASSUME Sides, UNCHANGED <<clients, sessions, nextId, batches>>,
         \A i \in Id : /\ core'[i] = "live" => core[i] = "live"
                       /\ core'[i] = "none" <=> core[i] = "none"
  PROVE  \E more \in Seq(Seq(Event)) : Grown(more) /\ Honest(more)
<1> DEFINE more == <<>>
<1>1. more \in Seq(Seq(Event)) /\ Len(more) = 0
  BY EmptySeq
<1>2. Grown(more)
  BY GrownByNone DEF Sides
<1> HIDE DEF more
<1>3. Honest(more)
  BY <1>1 DEF Honest, Announces, Fresh, Ended
<1> QED
  BY <1>1, <1>2, <1>3

\* The thread's start.
LEMMA ListenHonest ==
  ASSUME Sides, Listen
  PROVE  \E more \in Seq(Seq(Event)) : Grown(more) /\ Honest(more)
<1> DEFINE x == ServerMsg("Listening")
           b == <<x>>
           more == <<b>>
<1>1. x \in ServerEvent
  BY DEF ServerMsg, Msg, ServerEvent
<1>2. b \in Seq(ServerEvent) /\ b # <<>>
  <2> HIDE DEF x
  <2> QED
    BY <1>1
<1>3. Emit(b) /\ UNCHANGED <<clients, sessions, nextId, core>>
  BY DEF Listen, tables, jsVars
<1> HIDE DEF b
<1>4. more \in Seq(Seq(ServerEvent))
  BY <1>2
<1>5. Grown(more)
  BY <1>2, <1>3, ServerBatch, GrownByEmit DEF Sides
<1> HIDE DEF more
<1>6. more \in Seq(Seq(Event)) /\ Honest(more)
  <2>1. \A i \in Id : Announces(i) => Announces(i)' \/ \E m \in 1 .. Len(more) : Ends(more[m], i)
    BY <1>3 DEF Announces
  <2>2. \A i \in Id : (Fresh(i)' => Fresh(i)) /\ (Ended(i) => Ended(i)')
    BY <1>3 DEF Fresh, Ended
  <2>3. \A i \in Id : /\ core'[i] = "live" => core[i] = "live"
                      /\ core'[i] = "none" <=> core[i] = "none"
    BY <1>3
  <2> QED
    BY <1>4, <2>1, <2>2, <2>3, ServerOnlyHonest
<1> QED
  BY <1>5, <1>6

\* A thread that never started: the tables are what they were.
LEMMA SetupHonest ==
  ASSUME Sides, SetupFails
  PROVE  \E more \in Seq(Seq(Event)) : Grown(more) /\ Honest(more)
<1> DEFINE x == ServerMsg("ServerError")
           y == ServerMsg("ServerClosed")
           b == <<x>>
           d == <<y>>
           more == <<b, d>>
           E == Seq(Event)
<1>1. x \in ServerEvent /\ y \in ServerEvent
  BY DEF ServerMsg, Msg, ServerEvent
<1>2. b \in Seq(ServerEvent) /\ d \in Seq(ServerEvent)
  <2> HIDE DEF x, y
  <2> QED
    BY <1>1
<1>3. batches' = batches \o more /\ UNCHANGED <<clients, sessions, nextId, core>>
  BY DEF SetupFails, tables, jsVars
<1> HIDE DEF b, d
<1>4. more \in Seq(Seq(ServerEvent))
  BY <1>2
<1> HIDE DEF more
<1>5. more \in Seq(E) /\ Honest(more)
  <2>1. \A i \in Id : Announces(i) => Announces(i)' \/ \E m \in 1 .. Len(more) : Ends(more[m], i)
    BY <1>3 DEF Announces
  <2>2. \A i \in Id : (Fresh(i)' => Fresh(i)) /\ (Ended(i) => Ended(i)')
    BY <1>3 DEF Fresh, Ended
  <2>3. \A i \in Id : /\ core'[i] = "live" => core[i] = "live"
                      /\ core'[i] = "none" <=> core[i] = "none"
    BY <1>3
  <2> QED
    BY <1>4, <2>1, <2>2, <2>3, ServerOnlyHonest
<1>6. Grown(more)
  <2> DEFINE s == batches
  <2>1. s \in Seq(E)
    BY DEF Sides
  <2> HIDE DEF E, s
  <2>2. /\ s \o more \in Seq(E) /\ Len(s \o more) = Len(s) + Len(more)
        /\ \A i \in 1 .. Len(s) + Len(more) : (s \o more)[i] = IF i <= Len(s) THEN s[i] ELSE more[i - Len(s)]
        /\ Len(s) \in Nat /\ Len(more) \in Nat
    BY <1>5, <2>1, ConcatProperties, LenProperties
  <2>3. \A i \in 1 .. Len(s) : (s \o more)[i] = s[i]
    BY <2>2
  <2>4. ASSUME NEW m \in 1 .. Len(more) PROVE (s \o more)[Len(s) + m] = more[m]
    <3>1. Len(s) + m \in 1 .. Len(s) + Len(more) /\ ~(Len(s) + m <= Len(s)) /\ (Len(s) + m) - Len(s) = m
      BY <2>2
    <3> QED
      BY <2>2, <3>1
  <2> QED
    BY <1>3, <2>2, <2>3, <2>4 DEF Grown, s, E
<1> QED
  BY <1>5, <1>6 DEF E

\* A thread that ends: its last batch ends every session.
LEMMA StopHonest ==
  ASSUME Tables, Sides, NEW last \in Seq(ServerEvent), Contains(last, ServerMsg("ServerClosed")), Stop(last)
  PROVE  Tables' /\ Sides' /\ \E more \in Seq(Seq(Event)) : Grown(more) /\ Honest(more)
<1> DEFINE more == <<last>>
<1>1. last # <<>>
  <2>1. Len(last) # 0
    BY LenProperties DEF Contains
  <2> QED
    BY <2>1, EmptySeq
<1>2. /\ clients' = <<>> /\ routing' = <<>> /\ sessions' = <<>> /\ Emit(last) /\ thread' = "stopped"
      /\ UNCHANGED <<nextId, retried, core, asked, unread, server>>
  BY DEF Stop, jsVars
<1>3. DOMAIN clients' = {} /\ DOMAIN routing' = {} /\ DOMAIN sessions' = {}
  BY <1>2
<1>4. Tables'
  <2>1. IsFiniteSet({}) /\ Cardinality({}) = 0
    BY FS_EmptySet
  <2>2. 0 <= MaxConnections
    BY ServerAssumption
  <2>3. TablesAgree'
    BY <1>3 DEF TablesAgree
  <2> QED
    BY <1>2, <1>3, <2>1, <2>2, <2>3 DEF Tables, Conn, Id
<1>5. more \in Seq(Seq(ServerEvent)) /\ Len(more) = 1 /\ more[1] = last
  OBVIOUS
<1>6. Grown(more)
  BY <1>1, <1>2, ServerBatch, GrownByEmit DEF Sides
<1> HIDE DEF more
<1>7. more \in Seq(Seq(Event)) /\ Honest(more)
  <2>1. \A i \in Id : Announces(i) => Announces(i)' \/ \E m \in 1 .. Len(more) : Ends(more[m], i)
    BY <1>5 DEF Ends
  <2>2. \A i \in Id : (Fresh(i)' => Fresh(i)) /\ (Ended(i) => Ended(i)')
    BY <1>2, <1>3 DEF Fresh, Ended
  <2>3. \A i \in Id : /\ core'[i] = "live" => core[i] = "live"
                      /\ core'[i] = "none" <=> core[i] = "none"
    BY <1>2
  <2> QED
    BY <1>5, <2>1, <2>2, <2>3, ServerOnlyHonest
<1>8. Sides'
  BY <1>2, <1>6 DEF Sides, Grown
<1> QED
  BY <1>4, <1>6, <1>7, <1>8

\* The last batches of the thread tell of the server's end.
LEMMA FinalBatches ==
  LET y == ServerMsg("ServerClosed")
      x == ServerMsg("ServerError")
  IN  /\ <<y>> \in Seq(ServerEvent) /\ Contains(<<y>>, y)
      /\ <<x, y>> \in Seq(ServerEvent) /\ Contains(<<x, y>>, y)
<1> DEFINE y == ServerMsg("ServerClosed")
           x == ServerMsg("ServerError")
<1>1. x \in ServerEvent /\ y \in ServerEvent
  BY DEF ServerMsg, Msg, ServerEvent
<1> HIDE DEF x, y
<1> DEFINE a == <<y>>
           b == <<x, y>>
<1>2. a \in Seq(ServerEvent) /\ Len(a) = 1 /\ a[1] = y
  BY <1>1
<1>3. b \in Seq(ServerEvent) /\ Len(b) = 2 /\ b[2] = y
  BY <1>1
<1> HIDE DEF a, b
<1>4. Contains(a, y)
  BY <1>2 DEF Contains
<1>5. Contains(b, y)
  BY <1>3 DEF Contains
<1> QED
  BY <1>2, <1>3, <1>4, <1>5 DEF a, b, x, y

-----------------------------------------------------------------------------
(***************************************************************************)
(* Theorems                                                                *)
(***************************************************************************)
Inv == Tables /\ Sides /\ SessionAccounted /\ Followed /\ Ordered /\ Heard /\ Single

\* The invariant holds initially.
LEMMA InitInv == Init => Inv
<1> SUFFICES ASSUME Init PROVE Inv
  OBVIOUS
<1> USE DEF Init
<1>1. DOMAIN clients = {} /\ DOMAIN routing = {} /\ DOMAIN sessions = {}
  OBVIOUS
<1>2. Tables
  <2>1. IsFiniteSet({}) /\ Cardinality({}) = 0
    BY FS_EmptySet
  <2>2. 0 <= MaxConnections /\ 1 \in 1 .. MaxSessions + 1
    BY ServerAssumption
  <2> QED
    BY <1>1, <2>1, <2>2 DEF Tables, TablesAgree
<1>3. batches \in Seq(Seq(Event)) /\ Len(batches) = 0
  BY EmptySeq
<1>4. Sides
  <2>1. server \in Server
    BY DEF Server, Settled
  <2>2. core \in [Id -> Status]
    BY DEF Status
  <2>3. unread \in 0 .. MaxPending
    BY ServerAssumption
  <2> QED
    BY <1>3, <2>1, <2>2, <2>3 DEF Sides
<1>5. \A i \in Id : core[i] = "none"
  OBVIOUS
<1>6. SessionAccounted /\ Followed /\ Ordered /\ Heard /\ Single
  BY <1>3, <1>5 DEF SessionAccounted, Followed, Ordered, Heard, Single, InFlight
<1> QED
  BY <1>2, <1>4, <1>6 DEF Inv

\* Honest batches keep the invariant.
LEMMA HonestKeeps ==
  ASSUME Inv, Tables', Sides', \E more \in Seq(Seq(Event)) : Grown(more) /\ Honest(more)
  PROVE  Inv'
<1>1. PICK more \in Seq(Seq(Event)) : Grown(more) /\ Honest(more)
  OBVIOUS
<1>2. SessionAccounted' /\ Followed' /\ Ordered'
  BY <1>1, HonestAccounts DEF Inv
<1>3. Heard' /\ Single'
  BY <1>1, HonestHeard DEF Inv
<1> QED
  BY <1>2, <1>3 DEF Inv

\* Every step keeps the invariant.
LEMMA NextInv == Inv /\ [Next]_vars => Inv'
<1> SUFFICES ASSUME Inv, [Next]_vars PROVE Inv'
  OBVIOUS
<1>0. Tables /\ Sides /\ MaxPending \in Nat
  BY ServerAssumption DEF Inv
\* The tables, when only other variables change.
<1>a. ASSUME UNCHANGED <<clients, routing, sessions, nextId>>, retried \subseteq retried', retried' \subseteq Addr
      PROVE  Tables'
  <2>1. TablesAgree'
    BY <1>0, <1>a DEF Tables, TablesAgree
  <2> QED
    BY <1>0, <1>a, <2>1 DEF Tables, Conn, Id
<1>1. CASE Listen
  <2>1. Tables'
    BY <1>0, <1>1, <1>a DEF Listen, tables, Tables
  <2>2. \E more \in Seq(Seq(Event)) : Grown(more) /\ Honest(more)
    BY <1>0, <1>1, ListenHonest
  <2>3. Sides'
    BY <1>0, <1>1, <2>2 DEF Listen, jsVars, Sides, Grown
  <2> QED
    BY <2>1, <2>2, <2>3, HonestKeeps
<1>2. CASE SetupFails
  <2>1. Tables'
    BY <1>0, <1>2, <1>a DEF SetupFails, tables, Tables
  <2>2. \E more \in Seq(Seq(Event)) : Grown(more) /\ Honest(more)
    BY <1>0, <1>2, SetupHonest
  <2>3. Sides'
    BY <1>0, <1>2, <2>2 DEF SetupFails, jsVars, Sides, Grown
  <2> QED
    BY <2>1, <2>2, <2>3, HonestKeeps
<1>3. CASE Drive
  BY <1>0, <1>3, DriveHonest, HonestKeeps
<1>4. CASE ShutdownStep
  BY <1>0, <1>4, FinalBatches, StopHonest, HonestKeeps DEF ShutdownStep
<1>5. CASE Panic
  BY <1>0, <1>5, FinalBatches, StopHonest, HonestKeeps DEF Panic
<1>6. CASE JsBatch
  <2>1. Tables'
    BY <1>0, <1>6, <1>a DEF JsBatch, tables, Tables
  <2> QED
    BY <1>0, <1>6, <2>1, BatchHandled DEF Inv
<1>7. CASE Close
  <2>1. Tables'
    BY <1>0, <1>7, <1>a DEF Close, tables, Tables
  <2>2. UNCHANGED <<clients, sessions, nextId, batches, core, asked, unread, thread>>
    BY <1>7 DEF Close, tables
  <2>3. server' \in Server
    BY <1>0, <1>7 DEF Close, Sides, Server
  <2>4. Sides'
    BY <1>0, <2>2, <2>3 DEF Sides
  <2> QED
    BY <1>0, <2>1, <2>2, <2>4, QuietHonest, HonestKeeps
<1>8. CASE Take
  <2>1. Tables'
    BY <1>0, <1>8, <1>a DEF Take, tables, Tables
  <2>2. UNCHANGED <<clients, sessions, nextId, batches, core, asked, server, thread>>
    BY <1>8 DEF Take, tables
  <2>3. unread' \in 0 .. MaxPending
    BY <1>0, <1>8 DEF Take, Sides
  <2>4. Sides'
    BY <1>0, <2>2, <2>3 DEF Sides
  <2> QED
    BY <1>0, <2>1, <2>2, <2>4, QuietHonest, HonestKeeps
<1>9. CASE Cancel
  <2>1. Tables'
    BY <1>0, <1>9, <1>a DEF Cancel, tables, Tables
  <2>2. UNCHANGED <<clients, sessions, nextId, batches, core, asked, thread>>
    BY <1>9 DEF Cancel, tables
  <2>3. unread' \in 0 .. MaxPending /\ server' \in Server
    <3>1. unread' = 0 /\ server' = [server EXCEPT !.cancelled = TRUE]
      BY <1>9 DEF Cancel
    <3>2. server' \in Server
      BY <1>0, <3>1 DEF Sides, Server
    <3> QED
      BY <1>0, <3>1, <3>2
  <2>4. Sides'
    BY <1>0, <2>2, <2>3 DEF Sides
  <2> QED
    BY <1>0, <2>1, <2>2, <2>4, QuietHonest, HonestKeeps
<1>10. ASSUME NEW a \in Addr, Retry(a) PROVE Inv'
  <2>1. Tables'
    BY <1>0, <1>10, <1>a DEF Retry, tables, Tables
  <2>2. UNCHANGED <<clients, sessions, nextId, batches, core, asked, unread, server, thread>>
    BY <1>10 DEF Retry, tables, jsVars
  <2>3. Sides'
    BY <1>0, <2>2 DEF Sides
  <2> QED
    BY <1>0, <2>1, <2>2, <2>3, QuietHonest, HonestKeeps
<1>11. ASSUME NEW a \in Addr, NEW k \in Key, Accept(k, a) PROVE Inv'
  BY <1>0, <1>11, AcceptHonest, HonestKeeps
<1>12. ASSUME NEW i \in Id, CloseSession(i) PROVE Inv'
  <2>1. Tables'
    BY <1>0, <1>12, <1>a DEF CloseSession, tables, Tables
  <2>2. UNCHANGED <<clients, sessions, nextId, batches, unread, server, thread>> /\ asked' = asked \cup {i}
    BY <1>12 DEF CloseSession, tables
  <2>3. /\ core' \in [Id -> Status]
        /\ \A h \in Id : /\ core'[h] = "live" => core[h] = "live"
                         /\ core'[h] = "none" <=> core[h] = "none"
    BY <1>0, <1>12 DEF CloseSession, Sides, Status
  <2>4. Sides'
    BY <1>0, <2>2, <2>3 DEF Sides
  <2> QED
    BY <1>0, <2>1, <2>2, <2>3, <2>4, QuietHonest, HonestKeeps
<1>13. CASE UNCHANGED vars
  <2>1. UNCHANGED <<thread, clients, routing, sessions, nextId, retried, batches, core, asked, unread, server>>
    BY <1>13 DEF vars
  <2>2. Tables'
    BY <1>0, <1>a, <2>1 DEF Tables
  <2>3. Sides'
    BY <1>0, <2>1 DEF Sides
  <2> QED
    BY <1>0, <2>1, <2>2, <2>3, QuietHonest, HonestKeeps
<1> QED
  BY <1>1, <1>2, <1>3, <1>4, <1>5, <1>6, <1>7, <1>8, <1>9, <1>10, <1>11, <1>12, <1>13 DEF Next

\* The invariant holds in every reachable state.
LEMMA AlwaysInv == Spec => []Inv
  BY InitInv, NextInv, PTL DEF Spec

\* Every variable of the server keeps its type, and no connection that QUIC closed
\* survives the iteration that saw it.
THEOREM ServerTyped == Spec => []TypeOK
<1>1. Inv => TypeOK
  <2> SUFFICES ASSUME Inv PROVE TypeOK
    OBVIOUS
  <2>1. Tables /\ Sides /\ MaxPending \in Nat
    BY ServerAssumption DEF Inv
  <2>2. /\ \A k \in DOMAIN clients : k \in Key /\ clients[k] \in Conn
        /\ \A k \in DOMAIN routing : k \in Key /\ routing[k] \in Key
    BY <2>1 DEF Tables, TablesAgree
  <2>3. ASSUME NEW i \in DOMAIN sessions PROVE i \in Id /\ sessions[i] \in Key
    <3>1. PICK k \in DOMAIN clients : clients[k].id = i /\ sessions[i] = k
      BY <2>1 DEF Tables, TablesAgree
    <3> QED
      BY <2>2, <3>1 DEF Conn
  <2>4. unread \in Nat
    BY <2>1 DEF Sides
  <2>5. nextId \in 1 .. MaxSessions + 1 /\ retried \subseteq Addr
    BY <2>1 DEF Tables
  <2>6. /\ thread \in {"starting", "serving", "stopped"} /\ asked \subseteq Id
        /\ \A i \in Id : core[i] \in {"none", "live", "done", "refused"}
        /\ server \in [ready : {"pending", "resolved", "rejected"}, closed : {"pending", "resolved", "rejected"},
                       closeCalled : BOOLEAN, cancelled : BOOLEAN]
    BY <2>1 DEF Sides, Status, Server, Settled
  <2> QED
    BY <2>2, <2>3, <2>4, <2>5, <2>6 DEF TypeOK
<1> QED
  BY <1>1, AlwaysInv, PTL

\* The connection, routing and session tables of server.rs describe the same connections,
\* however connection ids are reused and connections reaped: no packet and no command
\* reaches another client's connection.
THEOREM ServerTablesAgree == Spec => []TablesAgree
<1>1. Inv => TablesAgree
  BY DEF Inv, Tables
<1> QED
  BY <1>1, AlwaysInv, PTL

\* MAX_CONNECTIONS bounds the thread's tables and MAX_PENDING_SESSIONS the queue of
\* incomingSessions, for any limits.
THEOREM ServerBounded == Spec => []Bounded
<1>1. Inv => Bounded
  <2>1. ASSUME Inv PROVE Cardinality(DOMAIN clients) <= MaxConnections /\ unread <= MaxPending
    BY <2>1, ServerAssumption DEF Inv, Tables, Sides
  <2> QED
    BY <2>1 DEF Bounded
<1> QED
  BY <1>1, AlwaysInv, PTL

\* A session the application holds hears of its end: its connection is there and has
\* announced it, or its Closed, or the server's, is on its way, across any interleaving
\* of iterations, reaping, shutdown, panic and callbacks.
THEOREM SessionsHearTheirEnd == Spec => []SessionAccounted
<1>1. Inv => SessionAccounted
  BY DEF Inv
<1> QED
  BY <1>1, AlwaysInv, PTL

\* Of every session id, at most one Ready and at most one Closed are ever on their way,
\* and no Ready for one that JavaScript has heard of.
THEOREM ServerAnnouncesOnce == Spec => []AnnouncedOnce
<1>1. Inv => AnnouncedOnce
  <2> SUFFICES ASSUME Inv, NEW i \in Id
               PROVE  LET At(type) == {p \in UNION {{b} \X (1 .. Len(batches[b])) : b \in 1 .. Len(batches)} :
                                         batches[p[1]][p[2]] = Msg(type, i)}
                      IN /\ Cardinality(At("Ready")) <= (IF core[i] = "none" THEN 1 ELSE 0)
                         /\ Cardinality(At("Closed")) <= 1
    BY DEF AnnouncedOnce
  <2> DEFINE At(type) == {p \in UNION {{b} \X (1 .. Len(batches[b])) : b \in 1 .. Len(batches)} :
                            batches[p[1]][p[2]] = Msg(type, i)}
  <2>1. ASSUME NEW t \in {"Ready", "Closed"} PROVE Cardinality(At(t)) <= 1 /\ (At(t) # {} => InFlight(t, i))
    <3>1. ASSUME NEW p \in At(t)
          PROVE  /\ p[1] \in 1 .. Len(batches) /\ p[2] \in 1 .. Len(batches[p[1]]) /\ p = <<p[1], p[2]>>
                 /\ batches[p[1]][p[2]] = Msg(t, i) /\ Contains(batches[p[1]], Msg(t, i))
      BY DEF Contains
    <3>2. ASSUME NEW p \in At(t), NEW q \in At(t) PROVE p = q
      <4>1. p[1] = q[1]
        BY <3>1 DEF Inv, Single
      <4>2. p[2] = q[2]
        BY <3>1, <4>1 DEF Inv, Single, Once, Before
      <4> QED
        BY <3>1, <4>1, <4>2
    <3> DEFINE S == At(t)
    <3>3. (\A p, q \in S : p = q) /\ (S # {} => InFlight(t, i))
      BY <3>1, <3>2 DEF InFlight
    <3> HIDE DEF S
    <3>4. S = {} \/ \E p : S = {p}
      BY <3>3
    <3>5. Cardinality(S) <= 1
      <4>1. CASE S = {}
        BY <4>1, FS_EmptySet
      <4>2. ASSUME NEW p, S = {p} PROVE Cardinality(S) = 1
        BY <4>2, FS_Singleton
      <4> QED
        BY <3>4, <4>1, <4>2
    <3> QED
      BY <3>3, <3>5 DEF S
  <2>2. core[i] # "none" => At("Ready") = {}
    BY <2>1 DEF Inv, Heard
  <2>3. Cardinality({}) = 0
    BY FS_EmptySet
  <2> HIDE DEF At
  <2>4. Cardinality(At("Ready")) <= (IF core[i] = "none" THEN 1 ELSE 0)
    BY <2>1, <2>2, <2>3
  <2>5. Cardinality(At("Closed")) <= 1
    BY <2>1
  <2> QED
    BY <2>4, <2>5 DEF At
<1> QED
  BY <1>1, AlwaysInv, PTL
=============================================================================
