-------------------------- MODULE StreamBridgeProofs --------------------------
(***************************************************************************)
(* The safety invariants of StreamBridge, for any number of streams, any   *)
(* length of the queues and any high-water marks: nothing that crosses     *)
(* between the driver thread and the JavaScript thread is lost, and what   *)
(* ends, ends completely.                                                  *)
(***************************************************************************)
EXTENDS StreamBridge, FiniteSetTheorems, SequenceTheorems, WellFoundedInduction, TLAPS

\* What crosses the bridge: events of a stream, of a request and of the session, and
\* commands likewise.
Recv == {"StreamData", "StreamFinished", "StreamReset"}
OfStream == Recv \cup {"Stream", "StreamOpened", "WriteAck", "StreamStopSending"}
Event == [type : OfStream, stream : Stream]
           \cup [type : {"Answer"}, stream : Request]
           \cup [type : {"Datagram", "Closed"}, stream : {"session"}]
ToStream == {"OpenStream", "Write", "Fin", "ResetStream", "StopSending", "Pause", "Resume"}
Command == [type : ToStream, stream : Stream]
             \cup [type : Request \cup {"Shutdown"}, stream : {"session"}]

\* q holds an item of one of the types about s.
Has(q, types, s) == \E i \in 1 .. Len(q) : q[i].type \in types /\ q[i].stream = s

\* How often q holds x.
Count(q, x) == Cardinality({i \in DOMAIN q : q[i] = x})

\* In q, no item of the later types about s follows one of the earlier types.
Never(q, earlier, later, s) ==
  \A i, k \in 1 .. Len(q) :
    i < k /\ q[i].stream = s /\ q[k].stream = s /\ q[i].type \in earlier => q[k].type \notin later

-----------------------------------------------------------------------------
(* Sequences of items. *)

\* Induction over the naturals, for a set rather than a predicate.
LEMMA SetInduction ==
  ASSUME NEW S, 0 \in S, \A n \in Nat : n \in S => n + 1 \in S
  PROVE  Nat \subseteq S
<1> DEFINE R == OpToRel(<, Nat)
           T == Nat \ S
<1>1. ASSUME T # {} PROVE FALSE
  <2>1. IsWellFoundedOn(R, Nat) /\ T \subseteq Nat
    BY NatLessThanWellFounded
  <2> HIDE DEF R, T
  <2>2. PICK x \in T : \A y \in T : ~ (<<y, x>> \in R)
    BY <1>1, <2>1, WFMin
  <2>3. x \in Nat /\ x # 0 /\ x - 1 \in Nat
    BY DEF T
  <2>4. <<x - 1, x>> \in R
    BY <2>3 DEF R, OpToRel
  <2>5. x - 1 \in S
    BY <2>2, <2>3, <2>4 DEF T
  <2> QED
    BY <2>3, <2>5 DEF T
<1> QED
  BY <1>1

\* Concatenation is associative.
LEMMA Associative ==
  ASSUME NEW X, NEW u, NEW v, NEW x, u \in Seq(X), v \in Seq(X), x \in Seq(X)
  PROVE  (u \o v) \o x = u \o (v \o x)
<1>1. u \in Seq(X) /\ v \in Seq(X) /\ x \in Seq(X)
  OBVIOUS
<1> QED
  BY <1>1, ConcatAssociative

\* What begins with u and goes on with something of Seq(Y) may go on with more of it.
After(u, Y) == {u \o b : b \in Seq(Y)}

\* Going on: a sequence goes on with nothing, and with whatever more is appended to it.
LEMMA GoesOn ==
  ASSUME NEW X, NEW Y, Y \subseteq X, NEW u, u \in Seq(X)
  PROVE  /\ u \in After(u, Y)
         /\ \A p, x : p \in After(u, Y) /\ x \in Seq(Y) => p \o x \in After(u, Y)
<1>1. u \in After(u, Y)
  <2>1. u = u \o <<>> /\ <<>> \in Seq(Y)
    OBVIOUS
  <2> QED
    BY <2>1 DEF After
<1>2. ASSUME NEW p, NEW x, p \in After(u, Y), x \in Seq(Y)
      PROVE  p \o x \in After(u, Y)
  <2>1. PICK b \in Seq(Y) : p = u \o b
    BY <1>2 DEF After
  <2>2. u \in Seq(X) /\ b \in Seq(X) /\ x \in Seq(X)
    BY <1>2, SeqMonotonic
  <2>3. (u \o b) \o x = u \o (b \o x)
    BY <2>2, ConcatAssociative
  <2>4. b \o x \in Seq(Y)
    BY <1>2, ConcatProperties
  <2>5. u \o (b \o x) \in After(u, Y)
    BY <2>4 DEF After
  <2> QED
    BY <2>1, <2>3, <2>5
<1> QED
  BY <1>1, <1>2

\* The empty sequence and a sequence of one item.
LEMMA NoItem ==
  ASSUME NEW T, NEW U, NEW s, NEW x
  PROVE  ~Has(<<>>, T, s) /\ Count(<<>>, x) = 0 /\ Never(<<>>, T, U, s)
<1>1. Len(<<>>) = 0 /\ 1 .. 0 = {} /\ DOMAIN <<>> = {}
  OBVIOUS
<1>2. {i \in DOMAIN <<>> : <<>>[i] = x} = {}
  BY <1>1
<1> QED
  BY <1>1, <1>2, FS_EmptySet DEF Has, Count, Never

\* What Has, Count and Never say of a queue of one item.
LEMMA OneItem ==
  ASSUME NEW T, NEW U, NEW s, NEW x, NEW y
  PROVE  /\ Has(<<x>>, T, s) <=> x.type \in T /\ x.stream = s
         /\ Count(<<x>>, y) = IF x = y THEN 1 ELSE 0
         /\ Never(<<x>>, T, U, s)
<1>1. Len(<<x>>) = 1 /\ DOMAIN <<x>> = {1} /\ <<x>>[1] = x /\ 1 .. 1 = {1}
  OBVIOUS
<1>2. Has(<<x>>, T, s) <=> x.type \in T /\ x.stream = s
  BY <1>1 DEF Has
<1>3. Count(<<x>>, y) = IF x = y THEN 1 ELSE 0
  <2>1. {i \in DOMAIN <<x>> : <<x>>[i] = y} = IF x = y THEN {1} ELSE {}
    BY <1>1
  <2> QED
    BY <2>1, FS_EmptySet, FS_Singleton DEF Count
<1>4. Never(<<x>>, T, U, s)
  BY <1>1 DEF Never
<1> QED
  BY <1>2, <1>3, <1>4

\* What a sequence has, the concatenation has.
LEMMA HasConcat ==
  ASSUME NEW X, NEW u \in Seq(X), NEW v \in Seq(X), NEW T, NEW s
  PROVE  Has(u \o v, T, s) <=> Has(u, T, s) \/ Has(v, T, s)
<1>1. Len(u) \in Nat /\ Len(v) \in Nat
  BY LenProperties
<1>2. /\ Len(u \o v) = Len(u) + Len(v)
      /\ \A i \in 1 .. Len(u) + Len(v) : (u \o v)[i] = IF i <= Len(u) THEN u[i] ELSE v[i - Len(u)]
  BY ConcatProperties
<1>3. ASSUME NEW i \in 1 .. Len(u), u[i].type \in T, u[i].stream = s PROVE Has(u \o v, T, s)
  BY <1>1, <1>2, <1>3 DEF Has
<1>4. ASSUME NEW i \in 1 .. Len(v), v[i].type \in T, v[i].stream = s PROVE Has(u \o v, T, s)
  <2>1. i + Len(u) \in 1 .. Len(u) + Len(v) /\ ~(i + Len(u) <= Len(u)) /\ (i + Len(u)) - Len(u) = i
    BY <1>1
  <2>2. (u \o v)[i + Len(u)] = v[i]
    BY <1>2, <2>1
  <2> QED
    BY <1>2, <1>4, <2>1, <2>2 DEF Has
<1>5. ASSUME NEW i \in 1 .. Len(u) + Len(v), (u \o v)[i].type \in T, (u \o v)[i].stream = s
      PROVE  Has(u, T, s) \/ Has(v, T, s)
  <2>1. CASE i <= Len(u)
    <3>1. i \in 1 .. Len(u) /\ (u \o v)[i] = u[i]
      BY <1>1, <1>2, <2>1
    <3> QED
      BY <1>5, <3>1 DEF Has
  <2>2. CASE ~(i <= Len(u))
    <3>1. i - Len(u) \in 1 .. Len(v) /\ (u \o v)[i] = v[i - Len(u)]
      BY <1>1, <1>2, <2>2
    <3> QED
      BY <1>5, <3>1 DEF Has
  <2> QED
    BY <2>1, <2>2
<1>6. Has(u \o v, T, s) => Has(u, T, s) \/ Has(v, T, s)
  BY <1>2, <1>5 DEF Has
<1>7. Has(u, T, s) \/ Has(v, T, s) => Has(u \o v, T, s)
  BY <1>3, <1>4 DEF Has
<1> QED
  BY <1>6, <1>7

\* Counts are finite, and add up.
LEMMA CountIsNat ==
  ASSUME NEW X, NEW u \in Seq(X), NEW x
  PROVE  /\ Count(u, x) \in Nat
         /\ IsFiniteSet({i \in DOMAIN u : u[i] = x})
         /\ Count(u, x) > 0 <=> \E i \in 1 .. Len(u) : u[i] = x
<1>1. Len(u) \in Nat /\ DOMAIN u = 1 .. Len(u)
  BY LenProperties
<1> DEFINE A == {i \in DOMAIN u : u[i] = x}
<1>2. IsFiniteSet(1 .. Len(u))
  BY <1>1, FS_Interval
<1>3. A \in SUBSET (1 .. Len(u))
  BY <1>1
<1>4. IsFiniteSet(A) /\ Cardinality(A) \in Nat
  <2> HIDE DEF A
  <2> QED
    BY <1>2, <1>3, FS_Subset, FS_CardinalityType
<1>5. Cardinality(A) = 0 <=> A = {}
  <2> HIDE DEF A
  <2> QED
    BY <1>4, FS_EmptySet
<1>6. A # {} <=> \E i \in 1 .. Len(u) : u[i] = x
  BY <1>1
<1> QED
  BY <1>4, <1>5, <1>6 DEF Count

\* A queue holds an item as often as its two parts together.
LEMMA CountConcat ==
  ASSUME NEW X, NEW u \in Seq(X), NEW v \in Seq(X), NEW x
  PROVE  Count(u \o v, x) = Count(u, x) + Count(v, x)
<1>1. Len(u) \in Nat /\ Len(v) \in Nat /\ DOMAIN u = 1 .. Len(u) /\ DOMAIN v = 1 .. Len(v)
  BY LenProperties
<1>2. /\ u \o v \in Seq(X) /\ Len(u \o v) = Len(u) + Len(v)
      /\ \A i \in 1 .. Len(u) + Len(v) : (u \o v)[i] = IF i <= Len(u) THEN u[i] ELSE v[i - Len(u)]
  BY ConcatProperties
<1>3. DOMAIN (u \o v) = 1 .. Len(u) + Len(v)
  BY <1>2, LenProperties
<1> DEFINE A == {i \in DOMAIN u : u[i] = x}
           B == {i \in DOMAIN v : v[i] = x}
           C == {i \in DOMAIN (u \o v) : (u \o v)[i] = x}
           D == {i \in C : i > Len(u)}
<1>4. IsFiniteSet(A) /\ IsFiniteSet(B) /\ Cardinality(A) \in Nat /\ Cardinality(B) \in Nat
  BY CountIsNat, FS_CardinalityType
<1>5. C = A \cup D /\ A \cap D = {}
  <2>1. \A i \in C : i > Len(u) \/ i \in A
    BY <1>1, <1>2, <1>3
  <2>2. \A i \in A : i \in C /\ ~(i > Len(u))
    BY <1>1, <1>2, <1>3
  <2> QED
    BY <2>1, <2>2
<1>6. ExistsBijection(B, D)
  <2> DEFINE f == [i \in B |-> i + Len(u)]
  <2>1. \A i \in B : i + Len(u) \in D
    <3> TAKE i \in B
    <3>1. i + Len(u) \in 1 .. Len(u) + Len(v) /\ ~(i + Len(u) <= Len(u)) /\ (i + Len(u)) - Len(u) = i
      BY <1>1
    <3>2. (u \o v)[i + Len(u)] = x
      BY <1>2, <3>1
    <3> QED
      BY <1>1, <1>3, <3>1, <3>2
  <2>2. \A k \in D : \E i \in B : i + Len(u) = k
    <3> TAKE k \in D
    <3>1. k - Len(u) \in 1 .. Len(v) /\ v[k - Len(u)] = x /\ (k - Len(u)) + Len(u) = k
      BY <1>1, <1>2, <1>3
    <3> QED
      BY <1>1, <3>1
  <2>3. f \in [B -> D]
    <3> HIDE DEF B, D
    <3> QED
      BY <2>1
  <2>4. \A a, b \in B : f[a] = f[b] => a = b
    BY <1>1
  <2>5. f \in Injection(B, D)
    BY <2>3, <2>4, Zenon DEF Injection, IsInjective
  <2>6. f \in Surjection(B, D)
    <3>1. \A k \in D : \E i \in B : f[i] = k
      <4> HIDE DEF D
      <4> QED
        BY <2>2
    <3> QED
      BY <2>3, <3>1, Zenon DEF Surjection
  <2> QED
    BY <2>5, <2>6, Zenon DEF ExistsBijection, Bijection
<1>7. IsFiniteSet(D) /\ Cardinality(D) = Cardinality(B)
  <2> HIDE DEF B, D
  <2> QED
    BY <1>4, <1>6, FS_Bijection
<1>8. Cardinality(C) = Cardinality(A) + Cardinality(D) - Cardinality(A \cap D)
  <2> HIDE DEF A, C, D
  <2> QED
    BY <1>4, <1>5, <1>7, FS_Union
<1>9. Cardinality(A \cap D) = 0
  BY <1>5, FS_EmptySet
<1>10. /\ Count(u, x) = Cardinality(A) /\ Count(v, x) = Cardinality(B)
       /\ Count(u \o v, x) = Cardinality(C)
  BY DEF Count
<1> HIDE DEF A, B, C, D
<1> QED
  BY <1>4, <1>7, <1>8, <1>9, <1>10

\* An order within two sequences and between them is one of the concatenation.
LEMMA NeverConcat ==
  ASSUME NEW X, NEW u \in Seq(X), NEW v \in Seq(X), NEW T, NEW U, NEW s,
         Never(u, T, U, s), Never(v, T, U, s), ~(Has(u, T, s) /\ Has(v, U, s))
  PROVE  Never(u \o v, T, U, s)
<1>1. Len(u) \in Nat /\ Len(v) \in Nat
  BY LenProperties
<1>2. /\ Len(u \o v) = Len(u) + Len(v)
      /\ \A i \in 1 .. Len(u) + Len(v) : (u \o v)[i] = IF i <= Len(u) THEN u[i] ELSE v[i - Len(u)]
  BY ConcatProperties
<1>3. SUFFICES ASSUME NEW i \in 1 .. Len(u) + Len(v), NEW k \in 1 .. Len(u) + Len(v), i < k,
                      (u \o v)[i].stream = s, (u \o v)[k].stream = s,
                      (u \o v)[i].type \in T, (u \o v)[k].type \in U
               PROVE  FALSE
  BY <1>2 DEF Never
<1>4. ASSUME NEW m \in 1 .. Len(u) + Len(v)
      PROVE  IF m <= Len(u) THEN m \in 1 .. Len(u) /\ (u \o v)[m] = u[m]
                            ELSE m - Len(u) \in 1 .. Len(v) /\ (u \o v)[m] = v[m - Len(u)]
  BY <1>1, <1>2
<1>5. CASE k <= Len(u)
  BY <1>1, <1>3, <1>4, <1>5 DEF Never
<1>6. CASE ~(i <= Len(u))
  <2>1. i - Len(u) < k - Len(u) /\ ~(k <= Len(u))
    BY <1>1, <1>3, <1>6
  <2> QED
    BY <1>3, <1>4, <1>6, <2>1 DEF Never
<1>7. CASE i <= Len(u) /\ ~(k <= Len(u))
  BY <1>3, <1>4, <1>7 DEF Has
<1> QED
  BY <1>5, <1>6, <1>7

\* What follows the first item.
LEMMA NeverRest ==
  ASSUME NEW X, NEW x \in X, NEW v \in Seq(X), NEW T, NEW U, NEW s, Never(<<x>> \o v, T, U, s)
  PROVE  /\ Never(v, T, U, s)
         /\ x.type \in T /\ x.stream = s => ~Has(v, U, s)
<1> DEFINE u == <<x>>
<1>1. u \in Seq(X) /\ Len(u) = 1 /\ u[1] = x
  OBVIOUS
<1>2. Len(v) \in Nat
  BY LenProperties
<1>3. /\ Len(u \o v) = 1 + Len(v)
      /\ (u \o v)[1] = x
      /\ \A i \in 1 .. Len(v) : (u \o v)[i + 1] = v[i]
  <2> HIDE DEF u
  <2>1. /\ Len(u \o v) = Len(u) + Len(v)
        /\ \A i \in 1 .. Len(u) + Len(v) : (u \o v)[i] = IF i <= Len(u) THEN u[i] ELSE v[i - Len(u)]
    BY <1>1, ConcatProperties
  <2>2. 1 \in 1 .. 1 + Len(v)
    BY <1>2
  <2>3. \A i \in 1 .. Len(v) : i + 1 \in 1 .. 1 + Len(v) /\ ~(i + 1 <= 1) /\ (i + 1) - 1 = i
    BY <1>2
  <2> QED
    BY <1>1, <2>1, <2>2, <2>3
<1> HIDE DEF u
<1>4. \A i \in 1 .. Len(v) : i + 1 \in 1 .. 1 + Len(v) /\ 1 < i + 1
  BY <1>2
<1>5. 1 \in 1 .. 1 + Len(v)
  BY <1>2
<1>6. Never(u \o v, T, U, s)
  BY DEF u
<1>7. Never(v, T, U, s)
  <2>1. SUFFICES ASSUME NEW i \in 1 .. Len(v), NEW k \in 1 .. Len(v), i < k,
                        v[i].stream = s, v[k].stream = s, v[i].type \in T
                 PROVE  v[k].type \notin U
    BY DEF Never
  <2>2. i + 1 < k + 1
    BY <2>1
  <2> QED
    BY <1>3, <1>4, <1>6, <2>1, <2>2 DEF Never
<1>8. ASSUME x.type \in T, x.stream = s, NEW k \in 1 .. Len(v), v[k].type \in U, v[k].stream = s
      PROVE  FALSE
  BY <1>3, <1>4, <1>5, <1>6, <1>8 DEF Never
<1> QED
  BY <1>7, <1>8 DEF Has

\* One more of a sum may be counted with any of its terms: a datagram leaves the batch to be
\* read, queued or dropped.
LEMMA OneMoreOfThree ==
  ASSUME NEW l \in Nat, NEW m \in Nat, NEW n \in Nat, NEW a \in Nat, NEW total,
         total = l + m + n + (a + 1)
  PROVE  /\ total = (l + 1) + m + n + a
         /\ total = l + (m + 1) + n + a
         /\ total = l + m + (n + 1) + a
OBVIOUS

\* Counting an item in a run of n equal items: n times if it is the one, else none.
LEMMA CountOfRun ==
  ASSUME NEW X, NEW x \in X, NEW n \in Nat, NEW y
  PROVE  Count([i \in 1 .. n |-> x], y) = IF x = y THEN n ELSE 0
<1> DEFINE r == [i \in 1 .. n |-> x]
<1>1. DOMAIN r = 1 .. n /\ \A i \in 1 .. n : r[i] = x
  OBVIOUS
<1> HIDE DEF r
<1>2. {i \in DOMAIN r : r[i] = y} = IF x = y THEN 1 .. n ELSE {}
  BY <1>1
<1>3. Cardinality(1 .. n) = n
  BY FS_Interval
<1>4. Count(r, y) = IF x = y THEN n ELSE 0
  BY <1>2, <1>3, FS_EmptySet DEF Count
<1> QED
  BY <1>4 DEF r

\* A run of n equal items: its items are one item, and it holds no pair of others.
LEMMA RunOfItems ==
  ASSUME NEW X, NEW x \in X, NEW n \in Nat, NEW T, NEW U, NEW s
  PROVE  LET r == [i \in 1 .. n |-> x] IN
         /\ r \in Seq(X) /\ Len(r) = n
         /\ Has(r, T, s) <=> n > 0 /\ x.type \in T /\ x.stream = s
         /\ x.type \notin T \/ x.type \notin U => Never(r, T, U, s)
<1> DEFINE r == [i \in 1 .. n |-> x]
<1>1. r \in Seq(X) /\ Len(r) = n /\ DOMAIN r = 1 .. n /\ \A i \in 1 .. n : r[i] = x
  OBVIOUS
<1> HIDE DEF r
<1>2. Has(r, T, s) <=> n > 0 /\ x.type \in T /\ x.stream = s
  <2>1. n > 0 => 1 \in 1 .. n
    OBVIOUS
  <2> QED
    BY <1>1, <2>1 DEF Has
<1>3. x.type \notin T \/ x.type \notin U => Never(r, T, U, s)
  BY <1>1 DEF Never
<1> QED
  BY <1>1, <1>2, <1>3 DEF r

-----------------------------------------------------------------------------
(***************************************************************************)
(* The invariant of one stream s: its entry e in the driver, QUIC's n, its *)
(* streams j, the events w on their way to j, the commands c on their way  *)
(* to e; over: core.closed; ended: closed; running: alive.                 *)
(***************************************************************************)

Entry == [present : BOOLEAN, wanted : BOOLEAN, out : Nat, finQueued : BOOLEAN,
          finSent : BOOLEAN, dead : BOOLEAN, paused : BOOLEAN, taken : Nat]
Quic == [buffered : Nat, sent : 0 .. MaxChunks, fin : BOOLEAN, reset : BOOLEAN, stop : BOOLEAN,
         credit : BOOLEAN, room : 0 .. 1, known : BOOLEAN]
Whatwg == [open : {"idle", "requested", "resolved", "live", "rejected"}, recv : BOOLEAN,
           send : BOOLEAN, queue : Nat, got : Nat, asked : BOOLEAN,
           readable : {"none", "open", "closed", "errored", "cancelled"},
           pending : Nat, writes : 0 .. MaxWrites, writing : BOOLEAN, closeCalled : BOOLEAN,
           writable : {"none", "open", "closed", "errored"}]

\* Until its constructors run, a stream is as it was made; its receive sink is registered
\* as long as its readable is open.
Shaped(j) ==
  /\ j.queue <= j.got
  /\ j.recv = (j.readable = "open")
  /\ j.open # "live" => j = [NewJs EXCEPT !.open = j.open]

\* A stream of ours: an open is where the promise says it is, and QUIC knows nothing of
\* the stream before its StreamOpened was emitted.
Opening(s, e, n, j, w, c, over, ended) ==
  /\ ~Has(w, {"Stream"}, s)
  /\ ~n.known => n.sent = 0 /\ ~n.fin /\ ~n.reset
  /\ n.known => e.present \/ e.dead \/ ended
  /\ j.open = "requested" => ~over
  /\ j.open = "requested" /\ (e.present \/ e.dead \/ n.known \/ Has(w, Recv, s))
       => Has(w, {"StreamOpened"}, s)
  /\ Never(w, Recv, {"StreamOpened"}, s)
  /\ j.open = "idle" => ~e.wanted /\ ~Has(c, {"OpenStream"}, s) /\ e = NewNat /\ ~n.known
                        /\ ~Has(w, OfStream, s)
  /\ j.open # "live" => ~Has(c, ToStream \ {"OpenStream"}, s)
  /\ Has(c, {"OpenStream"}, s) => e = NewNat
  /\ e.wanted => e = [NewNat EXCEPT !.wanted = TRUE]
  /\ Has(c, {"OpenStream"}, s) \/ e.wanted
       => ~n.known /\ ~Has(w, OfStream, s) /\ j.open \in {"requested", "rejected"}
  /\ Never(c, ToStream, {"OpenStream"}, s)

\* A stream of the peer: it is announced once, before anything else is said of it, and
\* until JavaScript hears of it nothing has been done with it.
Unannounced(e, ended) == ~e.present /\ ~e.dead /\ ~ended

Announced(s, e, j, w, c, over, ended) ==
  /\ j.open \in {"idle", "live"} /\ ~e.wanted
  /\ ~Has(c, {"OpenStream"}, s) /\ ~Has(w, {"StreamOpened"}, s)
  /\ Unannounced(e, ended) => e = NewNat /\ j = NewJs /\ ~Has(w, OfStream, s) /\ ~Has(c, ToStream, s)
  /\ Has(w, {"Stream"}, s) => j = NewJs /\ ~Has(c, ToStream, s)
  /\ Never(w, OfStream, {"Stream"}, s)
  /\ over => j.readable # "open"

\* A stream whose constructors may still run.
Coming(s, e, j, w, ended) ==
  IF s \in LocalStreams THEN j.open \in {"idle", "requested", "resolved"}
  ELSE Unannounced(e, ended) \/ Has(w, {"Stream"}, s)

\* The chunks of a stream, on their way from the peer to the application.
Conveyed(s, e, n, j, w, over, ended) ==
  LET chunks == Count(w, Item("StreamData", s)) IN
  /\ e.taken + n.buffered = n.sent
  /\ j.got + chunks <= e.taken
  /\ ~over /\ (j.readable = "open" \/ Coming(s, e, j, w, ended)) => e.taken = j.got + chunks
  /\ Has(w, {"StreamFinished"}, s) => n.fin /\ e.taken = n.sent /\ (e.dead \/ ended)
  /\ Never(w, {"StreamFinished"}, {"StreamData"}, s)
  /\ j.readable = "closed" => n.fin /\ j.got = n.sent

\* The writes of a stream, on their way to QUIC, and their acknowledgements.
Written(s, e, j, w, c, over, running) ==
  /\ e.out + Count(c, Item("Write", s)) + j.pending <= j.writes
  /\ j.writing => ~over
  /\ j.writing /\ running => e.out > 0 \/ Has(w, {"WriteAck"}, s) \/ Has(c, {"Write"}, s)
  /\ Has(c, {"ResetStream"}, s) => ~j.writing /\ j.writable # "open"

Good(s, e, n, j, w, c, over, ended, running) ==
  /\ e \in Entry /\ n \in Quic /\ j \in Whatwg
  /\ Shaped(j)
  /\ s \in LocalStreams => Opening(s, e, n, j, w, c, over, ended)
  /\ s \in PeerStreams => Announced(s, e, j, w, c, over, ended)
  /\ Conveyed(s, e, n, j, w, over, ended)
  /\ Written(s, e, j, w, c, over, running)

-----------------------------------------------------------------------------
(***************************************************************************)
(* The invariant of the session: its requests, its datagrams and its end.  *)
(***************************************************************************)

Core == [closed : BOOLEAN, incoming : 0 .. MaxIncoming, cancelled : BOOLEAN,
         requests : [Request -> {"idle", "pending", "settled"}],
         readable : {"open", "closed", "cancelled"}, queue : 0 .. DgramHighWater,
         asked : BOOLEAN, got : Nat, dropped : Nat]
Dgrams == [sent : Nat, buffered : Nat, taken : Nat]

Session(k, d, w, c, running) ==
  /\ k \in Core /\ d \in Dgrams
  /\ ~running => k.closed
  /\ Has(c, {"Shutdown"}, "session") => k.closed
  /\ ~k.closed => d.taken = k.got + k.queue + k.dropped + Count(w, Item("Datagram", "session"))
  /\ \A r \in Request : k.requests[r] = "pending" =>
       /\ ~k.closed
       /\ Has(w, {"Answer"}, r) \/ Has(c, {r}, "session")

\* A stream is never announced to the application in the batch that brings data for it.
Parted(b, s) == ~(Has(b, {"StreamOpened"}, s) /\ Has(b, Recv, s))

Inv ==
  /\ nat \in [Stream -> Entry] /\ net \in [Stream -> Quic] /\ js \in [Stream -> Whatwg]
  /\ closed \in BOOLEAN /\ closing \in BOOLEAN /\ alive \in BOOLEAN
  /\ stage \in {"poll", "low", "high"}
  /\ cmds \in Seq(Command) /\ batches \in Seq(Seq(Event)) /\ evs \in Seq(Event)
  /\ stage = "poll" => evs = <<>>
  /\ Session(core, dgram, InTransit, cmds, alive)
  /\ \A s \in Stream :
       /\ Good(s, nat[s], net[s], js[s], InTransit, cmds, core.closed, closed, alive)
       /\ js[s].open # "resolved"
       /\ \A i \in 1 .. Len(batches) : Parted(batches[i], s)
       /\ ~Has(evs, Recv, s)
       /\ s \in LocalStreams /\ Has(evs, {"StreamOpened"}, s) => ~net[s].known

-----------------------------------------------------------------------------
(* What the invariant of a stream sees of a queue, and how that changes at both ends of *)
(* the queue.                                                                           *)

EventsGrow(z, w, r, s) ==
  /\ Has(z, {"Stream"}, s) <=> Has(w, {"Stream"}, s) \/ Has(r, {"Stream"}, s)
  /\ Has(z, {"StreamOpened"}, s) <=> Has(w, {"StreamOpened"}, s) \/ Has(r, {"StreamOpened"}, s)
  /\ Has(z, {"StreamFinished"}, s) <=> Has(w, {"StreamFinished"}, s) \/ Has(r, {"StreamFinished"}, s)
  /\ Has(z, {"WriteAck"}, s) <=> Has(w, {"WriteAck"}, s) \/ Has(r, {"WriteAck"}, s)
  /\ Has(z, Recv, s) <=> Has(w, Recv, s) \/ Has(r, Recv, s)
  /\ Has(z, OfStream, s) <=> Has(w, OfStream, s) \/ Has(r, OfStream, s)
  /\ Count(z, Item("StreamData", s)) = Count(w, Item("StreamData", s)) + Count(r, Item("StreamData", s))
  /\ Count(w, Item("StreamData", s)) \in Nat /\ Count(r, Item("StreamData", s)) \in Nat

CommandsGrow(z, c, r, s) ==
  /\ Has(z, {"OpenStream"}, s) <=> Has(c, {"OpenStream"}, s) \/ Has(r, {"OpenStream"}, s)
  /\ Has(z, {"Write"}, s) <=> Has(c, {"Write"}, s) \/ Has(r, {"Write"}, s)
  /\ Has(z, {"ResetStream"}, s) <=> Has(c, {"ResetStream"}, s) \/ Has(r, {"ResetStream"}, s)
  /\ Has(z, ToStream, s) <=> Has(c, ToStream, s) \/ Has(r, ToStream, s)
  /\ Has(z, ToStream \ {"OpenStream"}, s)
       <=> Has(c, ToStream \ {"OpenStream"}, s) \/ Has(r, ToStream \ {"OpenStream"}, s)
  /\ Count(z, Item("Write", s)) = Count(c, Item("Write", s)) + Count(r, Item("Write", s))
  /\ Count(c, Item("Write", s)) \in Nat /\ Count(r, Item("Write", s)) \in Nat

\* Appending events to a queue of events grows it by what was appended.
LEMMA EventsConcat ==
  ASSUME NEW w \in Seq(Event), NEW r \in Seq(Event), NEW s
  PROVE  EventsGrow(w \o r, w, r, s) /\ w \o r \in Seq(Event)
<1> DEFINE X == Event
<1>1. w \in Seq(X) /\ r \in Seq(X)
  OBVIOUS
<1> HIDE DEF X
<1>2. \A T : Has(w \o r, T, s) <=> Has(w, T, s) \/ Has(r, T, s)
  BY <1>1, HasConcat
<1>3. \A x : Count(w \o r, x) = Count(w, x) + Count(r, x) /\ Count(w, x) \in Nat /\ Count(r, x) \in Nat
  BY <1>1, CountConcat, CountIsNat
<1>4. w \o r \in Seq(X)
  BY <1>1, ConcatProperties
<1> QED
  BY <1>2, <1>3, <1>4 DEF EventsGrow, X

\* Appending commands to a queue of commands grows it by what was appended.
LEMMA CommandsConcat ==
  ASSUME NEW c \in Seq(Command), NEW r \in Seq(Command), NEW s
  PROVE  CommandsGrow(c \o r, c, r, s) /\ c \o r \in Seq(Command)
<1> DEFINE X == Command
<1>1. c \in Seq(X) /\ r \in Seq(X)
  OBVIOUS
<1> HIDE DEF X
<1>2. \A T : Has(c \o r, T, s) <=> Has(c, T, s) \/ Has(r, T, s)
  BY <1>1, HasConcat
<1>3. \A x : Count(c \o r, x) = Count(c, x) + Count(r, x) /\ Count(c, x) \in Nat /\ Count(r, x) \in Nat
  BY <1>1, CountConcat, CountIsNat
<1>4. c \o r \in Seq(X)
  BY <1>1, ConcatProperties
<1> QED
  BY <1>2, <1>3, <1>4 DEF CommandsGrow, X

\* Of a smaller set of types a queue holds less.
LEMMA HasLess ==
  ASSUME NEW q, NEW s
  PROVE  /\ ~Has(q, OfStream, s) => /\ ~Has(q, {"Stream"}, s) /\ ~Has(q, {"StreamOpened"}, s)
                                    /\ ~Has(q, {"StreamFinished"}, s) /\ ~Has(q, {"WriteAck"}, s)
                                    /\ ~Has(q, Recv, s)
         /\ ~Has(q, Recv, s) => ~Has(q, {"StreamFinished"}, s) /\ ~Has(q, {"StreamData"}, s)
         /\ ~Has(q, ToStream, s) => /\ ~Has(q, {"OpenStream"}, s) /\ ~Has(q, {"Write"}, s)
                                    /\ ~Has(q, {"ResetStream"}, s)
                                    /\ ~Has(q, ToStream \ {"OpenStream"}, s)
         /\ Has(q, ToStream, s) => Has(q, {"OpenStream"}, s) \/ Has(q, ToStream \ {"OpenStream"}, s)
         /\ ~Has(q, ToStream \ {"OpenStream"}, s) => ~Has(q, {"Write"}, s) /\ ~Has(q, {"ResetStream"}, s)
BY DEF Has, OfStream, Recv, ToStream

\* A queue that does not hold a type counts none of it, and conversely.
LEMMA CountHas ==
  ASSUME NEW q, NEW s, NEW t
  PROVE  /\ q \in Seq(Event) => (Has(q, {t}, s) <=> Count(q, Item(t, s)) > 0)
         /\ q \in Seq(Command) => (Has(q, {t}, s) <=> Count(q, Item(t, s)) > 0)
<1>1. \A x \in Event \cup Command : x = Item(t, s) <=> x.type = t /\ x.stream = s
  <2>1. \A x \in Event \cup Command : x = [type |-> x.type, stream |-> x.stream]
    BY DEF Event, Command
  <2> QED
    BY <2>1 DEF Item
<1>2. ASSUME NEW X, X = Event \/ X = Command, q \in Seq(X)
      PROVE  Has(q, {t}, s) <=> Count(q, Item(t, s)) > 0
  <2>1. Count(q, Item(t, s)) > 0 <=> \E i \in 1 .. Len(q) : q[i] = Item(t, s)
    BY <1>2, CountIsNat
  <2>2. \A i \in 1 .. Len(q) : q[i] \in X
    BY <1>2, ElementOfSeq
  <2>3. \A i \in 1 .. Len(q) : q[i] = Item(t, s) <=> q[i].type = t /\ q[i].stream = s
    BY <1>1, <1>2, <2>2
  <2> QED
    BY <2>1, <2>3 DEF Has
<1> QED
  BY <1>2

\* Events about other streams change nothing for s.
LEMMA ForeignEvents ==
  ASSUME NEW s, NEW e, NEW n, NEW j, NEW w \in Seq(Event), NEW c, NEW over, NEW ended, NEW running,
         Good(s, e, n, j, w, c, over, ended, running),
         NEW r \in Seq(Event), ~Has(r, OfStream, s)
  PROVE  Good(s, e, n, j, w \o r, c, over, ended, running)
<1> DEFINE z == w \o r
<1>1. EventsGrow(z, w, r, s)
  BY EventsConcat
<1>2. /\ ~Has(r, {"Stream"}, s) /\ ~Has(r, {"StreamOpened"}, s) /\ ~Has(r, {"StreamFinished"}, s)
      /\ ~Has(r, {"WriteAck"}, s) /\ ~Has(r, Recv, s) /\ ~Has(r, {"StreamData"}, s)
  BY HasLess
<1>3. Count(r, Item("StreamData", s)) = 0
  BY <1>1, <1>2, CountHas DEF EventsGrow
<1>4. \A T, U \in SUBSET OfStream : Never(w, T, U, s) => Never(z, T, U, s)
  <2> TAKE T, U \in SUBSET OfStream
  <2>1. ~Has(r, U, s) /\ Never(r, T, U, s)
    BY DEF Has, Never
  <2> QED
    BY <2>1, NeverConcat
<1>5. /\ Never(w, Recv, {"StreamOpened"}, s) => Never(z, Recv, {"StreamOpened"}, s)
      /\ Never(w, OfStream, {"Stream"}, s) => Never(z, OfStream, {"Stream"}, s)
      /\ Never(w, {"StreamFinished"}, {"StreamData"}, s) => Never(z, {"StreamFinished"}, {"StreamData"}, s)
  <2>1. Recv \in SUBSET OfStream /\ {"StreamOpened"} \in SUBSET OfStream /\ {"Stream"} \in SUBSET OfStream
        /\ {"StreamFinished"} \in SUBSET OfStream /\ {"StreamData"} \in SUBSET OfStream
        /\ OfStream \in SUBSET OfStream
    BY DEF Recv, OfStream
  <2> QED
    BY <1>4, <2>1
<1> HIDE DEF z
<1>6. s \in LocalStreams => Opening(s, e, n, j, z, c, over, ended)
  BY <1>1, <1>2, <1>5 DEF Good, Opening, EventsGrow
<1>7. s \in PeerStreams => Announced(s, e, j, z, c, over, ended)
  BY <1>1, <1>2, <1>5 DEF Good, Announced, EventsGrow
<1>8. Conveyed(s, e, n, j, z, over, ended)
  BY <1>1, <1>2, <1>3, <1>5 DEF Good, Conveyed, EventsGrow, Coming
<1>9. Written(s, e, j, z, c, over, running)
  BY <1>1, <1>2 DEF Good, Written, EventsGrow
<1> QED
  BY <1>6, <1>7, <1>8, <1>9 DEF Good, z

\* What a step of one stream says is about that stream only.
Own(s) == [type : OfStream, stream : {s}]
OwnCommand(s) == [type : ToStream, stream : {s}]

\* Items of one stream are events, or commands, and say nothing about another stream or
\* the session.
LEMMA OwnItems ==
  ASSUME NEW s \in Stream
  PROVE  /\ \A q \in Seq(Own(s)) :
              /\ q \in Seq(Event)
              /\ \A t : t # s => ~Has(q, OfStream, t)
              /\ \A k : ~Has(q, {"Answer"}, k) /\ ~Has(q, {"Datagram"}, k)
         /\ \A q \in Seq(OwnCommand(s)) :
              /\ q \in Seq(Command)
              /\ \A t : t # s => ~Has(q, ToStream, t)
              /\ \A k : \A T : T \cap ToStream = {} => ~Has(q, T, k)
<1>1. ASSUME NEW q \in Seq(Own(s))
      PROVE  /\ q \in Seq(Event)
             /\ \A t : t # s => ~Has(q, OfStream, t)
             /\ \A k : ~Has(q, {"Answer"}, k) /\ ~Has(q, {"Datagram"}, k)
  <2>1. Own(s) \subseteq Event
    BY DEF Own, Event
  <2>2. \A i \in 1 .. Len(q) : q[i].type \in OfStream /\ q[i].stream = s
    <3> DEFINE X == Own(s)
    <3>1. q \in Seq(X) /\ \A x \in X : x.type \in OfStream /\ x.stream = s
      BY DEF Own
    <3> HIDE DEF X
    <3> QED
      BY <3>1, ElementOfSeq
  <2>3. "Answer" \notin OfStream /\ "Datagram" \notin OfStream
    BY DEF OfStream, Recv
  <2>4. q \in Seq(Event)
    BY <2>1, SeqMonotonic
  <2>5. \A t : t # s => ~Has(q, OfStream, t)
    BY <2>2 DEF Has
  <2> QED
    BY <2>2, <2>3, <2>4, <2>5 DEF Has
<1>2. ASSUME NEW q \in Seq(OwnCommand(s))
      PROVE  /\ q \in Seq(Command)
             /\ \A t : t # s => ~Has(q, ToStream, t)
             /\ \A k : \A T : T \cap ToStream = {} => ~Has(q, T, k)
  <2>1. OwnCommand(s) \subseteq Command
    BY DEF OwnCommand, Command
  <2>2. \A i \in 1 .. Len(q) : q[i].type \in ToStream /\ q[i].stream = s
    <3> DEFINE X == OwnCommand(s)
    <3>1. q \in Seq(X) /\ \A x \in X : x.type \in ToStream /\ x.stream = s
      BY DEF OwnCommand
    <3> HIDE DEF X
    <3> QED
      BY <3>1, ElementOfSeq
  <2>3. q \in Seq(Command)
    BY <2>1, SeqMonotonic
  <2>4. \A t : t # s => ~Has(q, ToStream, t)
    BY <2>2 DEF Has
  <2> QED
    BY <2>2, <2>3, <2>4 DEF Has
<1> QED
  BY <1>1, <1>2

\* One event, or a run of equal events, of a stream.
LEMMA OneEvent ==
  ASSUME NEW s \in Stream, NEW t \in OfStream
  PROVE  /\ <<Item(t, s)>> \in Seq(Own(s))
         /\ \A T : Has(<<Item(t, s)>>, T, s) <=> t \in T
         /\ \A T, U : Never(<<Item(t, s)>>, T, U, s)
<1> DEFINE x == Item(t, s)
<1>1. x.type = t /\ x.stream = s /\ x \in Own(s)
  BY DEF Item, Own
<1> HIDE DEF x
<1>2. \A T : Has(<<x>>, T, s) <=> x.type \in T /\ x.stream = s
  BY OneItem
<1>3. \A T, U : Never(<<x>>, T, U, s)
  BY OneItem
<1>4. <<x>> \in Seq(Own(s))
  BY <1>1
<1> QED
  BY <1>1, <1>2, <1>3, <1>4 DEF x

\* A run of n equal events of a stream: their type, and that they keep their order.
LEMMA EventRun ==
  ASSUME NEW s \in Stream, NEW t \in OfStream, NEW n \in Nat
  PROVE  LET r == [i \in 1 .. n |-> Item(t, s)] IN
         /\ r \in Seq(Own(s))
         /\ \A T : Has(r, T, s) <=> n > 0 /\ t \in T
         /\ \A T, U : t \notin T \/ t \notin U => Never(r, T, U, s)
<1> DEFINE x == Item(t, s)
           X == Own(s)
           r == [i \in 1 .. n |-> x]
<1>1. x.type = t /\ x.stream = s /\ x \in X
  BY DEF Item, Own
<1> HIDE DEF x, X
<1>2. ASSUME NEW T, NEW U
      PROVE  /\ r \in Seq(X)
             /\ Has(r, T, s) <=> n > 0 /\ x.type \in T /\ x.stream = s
             /\ x.type \notin T \/ x.type \notin U => Never(r, T, U, s)
  BY <1>1, RunOfItems
<1> HIDE DEF r
<1>3. r \in Seq(X)
  BY <1>2
<1> QED
  BY <1>1, <1>2, <1>3 DEF r, x, X

\* Commands to other streams change nothing for s.
LEMMA ForeignCommands ==
  ASSUME NEW s, NEW e, NEW n, NEW j, NEW w, NEW c \in Seq(Command), NEW over, NEW ended, NEW running,
         Good(s, e, n, j, w, c, over, ended, running),
         NEW r \in Seq(Command), ~Has(r, ToStream, s)
  PROVE  Good(s, e, n, j, w, c \o r, over, ended, running)
<1> DEFINE z == c \o r
<1>1. CommandsGrow(z, c, r, s)
  BY CommandsConcat
<1>2. /\ ~Has(r, {"OpenStream"}, s) /\ ~Has(r, {"Write"}, s) /\ ~Has(r, {"ResetStream"}, s)
      /\ ~Has(r, ToStream \ {"OpenStream"}, s)
  BY HasLess
<1>3. Count(r, Item("Write", s)) = 0
  BY <1>1, <1>2, CountHas DEF CommandsGrow
<1>4. Never(c, ToStream, {"OpenStream"}, s) => Never(z, ToStream, {"OpenStream"}, s)
  <2>1. Never(r, ToStream, {"OpenStream"}, s)
    BY DEF Has, Never
  <2> QED
    BY <1>2, <2>1, NeverConcat
<1> HIDE DEF z
<1>6. s \in LocalStreams => Opening(s, e, n, j, w, z, over, ended)
  BY <1>1, <1>2, <1>4 DEF Good, Opening, CommandsGrow
<1>7. s \in PeerStreams => Announced(s, e, j, w, z, over, ended)
  BY <1>1, <1>2 DEF Good, Announced, CommandsGrow
<1>9. Written(s, e, j, w, z, over, running)
  BY <1>1, <1>2, <1>3 DEF Good, Written, CommandsGrow
<1> QED
  BY <1>6, <1>7, <1>9 DEF Good, z

\* Once the driver is gone, its channel takes no more commands.
LEMMA CommandsLost ==
  ASSUME NEW s, NEW e, NEW n, NEW j, NEW w, NEW c \in Seq(Command), NEW r \in Seq(Command),
         NEW over, NEW ended, Good(s, e, n, j, w, c \o r, over, ended, FALSE)
  PROVE  Good(s, e, n, j, w, c, over, ended, FALSE)
<1> DEFINE z == c \o r
<1>1. CommandsGrow(z, c, r, s)
  BY CommandsConcat
<1>2. Never(z, ToStream, {"OpenStream"}, s) => Never(c, ToStream, {"OpenStream"}, s)
  <2>1. Len(c) \in Nat /\ Len(r) \in Nat
    BY LenProperties
  <2>2. Len(z) = Len(c) + Len(r) /\ \A i \in 1 .. Len(c) : z[i] = c[i] /\ i \in 1 .. Len(z)
    BY <2>1, ConcatProperties
  <2> QED
    BY <2>2 DEF Never
<1> HIDE DEF z
<1>3. s \in LocalStreams => Opening(s, e, n, j, w, c, over, ended)
  BY <1>1, <1>2 DEF Good, Opening, CommandsGrow, z
<1>4. s \in PeerStreams => Announced(s, e, j, w, c, over, ended)
  BY <1>1 DEF Good, Announced, CommandsGrow, z
<1>5. Written(s, e, j, w, c, over, FALSE)
  <2>1. e.out \in Nat /\ j.pending \in Nat /\ j.writes \in Nat
    BY DEF Good, Entry, Whatwg
  <2> QED
    BY <1>1, <2>1 DEF Good, Written, CommandsGrow, z
<1> QED
  BY <1>3, <1>4, <1>5 DEF Good

-----------------------------------------------------------------------------
(* The driver thread. *)

\* A waiting open is released, or waits on.
LEMMA ReleaseGood ==
  ASSUME NEW s \in Stream, NEW e, NEW n, NEW j, NEW w \in Seq(Event), NEW c, NEW over, NEW running,
         Good(s, e, n, j, w, c, over, closed, running)
  PROVE  LET p == Release(s, e) IN
         /\ p.items \in Seq(Own(s)) /\ ~Has(p.items, Recv, s) /\ ~Has(p.items, {"Stream"}, s)
         /\ Has(p.items, {"StreamOpened"}, s) => ~n.known
         /\ p.entry.out = e.out /\ p.entry.taken = e.taken
         /\ Good(s, p.entry, n, j, w \o p.items, c, over, closed, running)
<1> DEFINE p == Release(s, e)
<1>1. CASE p = Quiet(e)
  <2>1. p.items = <<>> /\ p.entry = e
    BY <1>1 DEF Quiet, Step
  <2>2. <<>> \in Seq(Own(s)) /\ w \o <<>> = w
    OBVIOUS
  <2>3. ~Has(<<>>, Recv, s) /\ ~Has(<<>>, {"Stream"}, s) /\ ~Has(<<>>, {"StreamOpened"}, s)
    BY NoItem
  <2> HIDE DEF p
  <2> QED
    BY <2>1, <2>2, <2>3 DEF p
<1>2. CASE p # Quiet(e)
  <2> DEFINE f == [e EXCEPT !.wanted = FALSE, !.present = TRUE]
             x == Item("StreamOpened", s)
             r == <<x>>
             z == w \o r
  <2>1. e.wanted /\ ~closed /\ p = Step(f, r)
    BY <1>2 DEF Release
  <2>2. e \in Entry
    BY DEF Good
  <2>3. f \in Entry /\ f.present /\ ~f.wanted /\ f.out = e.out /\ f.taken = e.taken /\ f.dead = e.dead
    BY <2>2 DEF Entry
  <2> HIDE DEF f
  <2>4. s \notin PeerStreams /\ s \in LocalStreams
    BY <2>1 DEF Good, Announced, Stream
  <2>5. Opening(s, e, n, j, w, c, over, closed)
    BY <2>4 DEF Good
  <2>6. /\ ~n.known /\ ~Has(w, OfStream, s) /\ ~Has(w, Recv, s)
        /\ j.open # "idle" /\ ~Has(c, {"OpenStream"}, s)
    BY <2>1, <2>5, HasLess DEF Opening, NewNat
  <2>7. x.type = "StreamOpened" /\ x.stream = s /\ x \in Own(s)
    BY DEF Item, Own, OfStream
  <2> HIDE DEF x
  <2>8. r \in Seq(Own(s))
    BY <2>7
  <2>9. /\ ~Has(r, {"Stream"}, s) /\ Has(r, {"StreamOpened"}, s) /\ ~Has(r, {"StreamFinished"}, s)
        /\ ~Has(r, {"WriteAck"}, s) /\ ~Has(r, Recv, s) /\ ~Has(r, {"StreamData"}, s)
        /\ Never(r, Recv, {"StreamOpened"}, s) /\ Never(r, {"StreamFinished"}, {"StreamData"}, s)
    <3>1. \A T : Has(r, T, s) <=> x.type \in T /\ x.stream = s
      BY OneItem
    <3>2. \A T, U : Never(r, T, U, s)
      BY OneItem
    <3> HIDE DEF r
    <3> QED
      BY <2>7, <3>1, <3>2 DEF Recv
  <2>10. r \in Seq(Event)
    BY <2>8, OwnItems
  <2> HIDE DEF r
  <2>11. EventsGrow(z, w, r, s) /\ Count(r, Item("StreamData", s)) = 0
    BY <2>9, <2>10, EventsConcat, CountHas DEF EventsGrow
  <2>12. /\ Never(z, Recv, {"StreamOpened"}, s)
         /\ Never(w, {"StreamFinished"}, {"StreamData"}, s) => Never(z, {"StreamFinished"}, {"StreamData"}, s)
    BY <2>5, <2>6, <2>9, <2>10, NeverConcat DEF Opening
  <2> HIDE DEF z
  <2>13. Opening(s, f, n, j, z, c, over, closed)
    BY <2>3, <2>5, <2>6, <2>9, <2>11, <2>12 DEF Opening, EventsGrow
  <2>14. Conveyed(s, f, n, j, z, over, closed)
    BY <2>3, <2>4, <2>9, <2>11, <2>12 DEF Good, Conveyed, EventsGrow, Coming
  <2>15. Written(s, f, j, z, c, over, running)
    BY <2>3, <2>9, <2>11 DEF Good, Written, EventsGrow
  <2>16. Good(s, f, n, j, z, c, over, closed, running)
    BY <2>3, <2>4, <2>13, <2>14, <2>15 DEF Good
  <2>17. p.items = r /\ p.entry = f
    BY <2>1 DEF Step
  <2> HIDE DEF p
  <2> QED
    BY <2>3, <2>6, <2>8, <2>9, <2>16, <2>17 DEF p, z
<1> QED
  BY <1>1, <1>2

\* An entry that classify_new made, and one whose stream has ended.
Fresh == [NewNat EXCEPT !.present = TRUE]
Dead(e) == [e EXCEPT !.dead = TRUE]
Ending(end, s, e) == IF e.present THEN <<Item(end, s)>> ELSE <<>>

\* classify_new: a stream of the peer is announced.
LEMMA AnnounceGood ==
  ASSUME NEW s \in PeerStreams, NEW e, NEW n, NEW j, NEW w \in Seq(Event), NEW c, NEW over, NEW ended,
         NEW running, Good(s, e, n, j, w, c, over, ended, running), Unannounced(e, ended)
  PROVE  Good(s, Fresh, n, j, w \o <<Item("Stream", s)>>, c, over, ended, running)
<1> DEFINE f == Fresh
           x == Item("Stream", s)
           r == <<x>>
           z == w \o r
<1>1. /\ f \in Entry /\ f.present /\ ~f.wanted /\ ~f.dead
      /\ f.out = NewNat.out /\ f.taken = NewNat.taken
  BY DEF Entry, NewNat, Fresh
<1> HIDE DEF f
<1>2. s \notin LocalStreams /\ s \in Stream
  BY BridgeAssumption DEF Stream
<1>3. /\ Announced(s, e, j, w, c, over, ended)
      /\ e = NewNat /\ j = NewJs /\ ~Has(w, OfStream, s) /\ ~Has(c, ToStream, s)
  BY DEF Good, Announced
<1>4. x.type = "Stream" /\ x.stream = s /\ x \in Own(s)
  BY DEF Item, Own, OfStream
<1> HIDE DEF x
<1>5. r \in Seq(Own(s)) /\ r \in Seq(Event)
  <2>1. r \in Seq(Own(s))
    BY <1>4
  <2> QED
    BY <1>2, <2>1, OwnItems
<1>6. /\ Has(r, {"Stream"}, s) /\ ~Has(r, {"StreamOpened"}, s) /\ ~Has(r, {"StreamFinished"}, s)
      /\ ~Has(r, {"WriteAck"}, s) /\ ~Has(r, Recv, s) /\ ~Has(r, {"StreamData"}, s)
      /\ \A T, U : Never(r, T, U, s)
  <2>1. \A T : Has(r, T, s) <=> x.type \in T /\ x.stream = s
    BY OneItem
  <2>2. \A T, U : Never(r, T, U, s)
    BY OneItem
  <2> HIDE DEF r
  <2> QED
    BY <1>4, <2>1, <2>2 DEF Recv
<1> HIDE DEF r
<1>7. EventsGrow(z, w, r, s) /\ Count(r, Item("StreamData", s)) = 0
  BY <1>5, <1>6, EventsConcat, CountHas DEF EventsGrow
<1>8. ~Has(w, {"StreamFinished"}, s)
  BY <1>3, HasLess
<1>9. Never(z, OfStream, {"Stream"}, s) /\ Never(z, {"StreamFinished"}, {"StreamData"}, s)
  <2>1. Never(w, OfStream, {"Stream"}, s) /\ Never(w, {"StreamFinished"}, {"StreamData"}, s)
    BY <1>3 DEF Good, Announced, Conveyed
  <2> QED
    BY <1>3, <1>5, <1>6, <1>8, <2>1, NeverConcat
<1> HIDE DEF z
<1>10. Announced(s, f, j, z, c, over, ended)
  BY <1>1, <1>3, <1>6, <1>7, <1>9 DEF Announced, EventsGrow, Unannounced
<1>11. Conveyed(s, f, n, j, z, over, ended)
  BY <1>1, <1>2, <1>3, <1>6, <1>7, <1>8, <1>9 DEF Good, Conveyed, EventsGrow, Coming
<1>12. Written(s, f, j, z, c, over, running)
  BY <1>1, <1>3, <1>6, <1>7 DEF Good, Written, EventsGrow
<1>13. Good(s, f, n, j, z, c, over, ended, running)
  BY <1>1, <1>2, <1>10, <1>11, <1>12 DEF Good
<1> QED
  BY <1>1, <1>3, <1>5, <1>6, <1>13 DEF f, r, x, z

\* process_recv: k chunks are taken from QUIC.
LEMMA ChunksGood ==
  ASSUME NEW s \in Stream, NEW e, NEW n, NEW j, NEW w \in Seq(Event), NEW c, NEW over, NEW ended,
         NEW running, Good(s, e, n, j, w, c, over, ended, running), e.present, ~e.dead, ~ended,
         NEW k \in 0 .. n.buffered
  PROVE  LET f == [e EXCEPT !.taken = @ + k]
             m == [n EXCEPT !.buffered = @ - k]
             r == Chunks(s, k)
         IN /\ r \in Seq(Own(s)) /\ ~Has(r, {"StreamOpened"}, s) /\ ~Has(r, {"Stream"}, s)
            /\ Good(s, f, m, j, w \o r, c, over, ended, running)
<1> DEFINE f == [e EXCEPT !.taken = @ + k]
           m == [n EXCEPT !.buffered = @ - k]
           x == Item("StreamData", s)
           r == [i \in 1 .. k |-> x]
           z == w \o r
<1>1. e \in Entry /\ n \in Quic /\ n.buffered \in Nat /\ k \in Nat /\ n.buffered - k \in Nat
  BY DEF Good, Quic
<1>2. /\ f \in Entry /\ f.present = e.present /\ f.wanted = e.wanted /\ f.dead = e.dead
      /\ f.out = e.out /\ f.taken = e.taken + k
  <2>1. e.taken + k \in Nat
    BY <1>1 DEF Entry
  <2> DEFINE taken == e.taken + k
  <2>2. f = [e EXCEPT !.taken = taken] /\ taken \in Nat
    BY <2>1
  <2> HIDE DEF taken, f
  <2>3. f \in Entry /\ f.taken = taken
    BY <1>1, <2>2 DEF Entry
  <2>4. f.present = e.present /\ f.wanted = e.wanted /\ f.dead = e.dead /\ f.out = e.out
    BY <1>1, <2>2 DEF Entry
  <2> QED
    BY <2>3, <2>4 DEF taken
<1>3. /\ m \in Quic /\ m.sent = n.sent /\ m.fin = n.fin /\ m.reset = n.reset /\ m.known = n.known
      /\ m.buffered = n.buffered - k
  BY <1>1 DEF Quic
<1> HIDE DEF f, m
<1>4. x.type = "StreamData" /\ x.stream = s /\ x \in Own(s)
  BY DEF Item, Own, OfStream, Recv
<1>5. /\ r \in Seq(Own(s))
      /\ Count(r, Item("StreamData", s)) = k
      /\ \A T : Has(r, T, s) <=> k > 0 /\ x.type \in T /\ x.stream = s
      /\ \A T, U : x.type \notin T \/ x.type \notin U => Never(r, T, U, s)
  <2>1. x = Item("StreamData", s)
    OBVIOUS
  <2> DEFINE X == Own(s)
  <2>2. x \in X
    BY <1>4
  <2> HIDE DEF X, x
  <2>3. /\ r \in Seq(X) /\ \A y : Count(r, y) = IF x = y THEN k ELSE 0
        /\ \A T : Has(r, T, s) <=> k > 0 /\ x.type \in T /\ x.stream = s
        /\ \A T, U : x.type \notin T \/ x.type \notin U => Never(r, T, U, s)
    <3>1. \A T, U : /\ r \in Seq(X)
                    /\ Has(r, T, s) <=> k > 0 /\ x.type \in T /\ x.stream = s
                    /\ x.type \notin T \/ x.type \notin U => Never(r, T, U, s)
      BY <1>1, <2>2, RunOfItems
    <3>2. \A y : Count(r, y) = IF x = y THEN k ELSE 0
      BY <1>1, <2>2, CountOfRun
    <3> HIDE DEF r
    <3> QED
      BY <3>1, <3>2
  <2> QED
    BY <2>1, <2>3 DEF X
<1> HIDE DEF x, r
<1>6. /\ ~Has(r, {"Stream"}, s) /\ ~Has(r, {"StreamOpened"}, s) /\ ~Has(r, {"StreamFinished"}, s)
      /\ ~Has(r, {"WriteAck"}, s)
      /\ Never(r, Recv, {"StreamOpened"}, s) /\ Never(r, OfStream, {"Stream"}, s)
      /\ Never(r, {"StreamFinished"}, {"StreamData"}, s)
  BY <1>4, <1>5
<1>7. r \in Seq(Event)
  BY <1>5, OwnItems
<1>8. EventsGrow(z, w, r, s)
  BY <1>7, EventsConcat
<1>9. ~Has(w, {"StreamFinished"}, s)
  BY DEF Good, Conveyed
<1>10. /\ Never(w, Recv, {"StreamOpened"}, s) => Never(z, Recv, {"StreamOpened"}, s)
       /\ Never(w, OfStream, {"Stream"}, s) => Never(z, OfStream, {"Stream"}, s)
       /\ Never(w, {"StreamFinished"}, {"StreamData"}, s) => Never(z, {"StreamFinished"}, {"StreamData"}, s)
  BY <1>6, <1>7, <1>9, NeverConcat
<1> HIDE DEF z
<1>11. s \in LocalStreams => Opening(s, f, m, j, z, c, over, ended)
  <2>1. SUFFICES ASSUME s \in LocalStreams PROVE Opening(s, f, m, j, z, c, over, ended)
    OBVIOUS
  <2>2. Opening(s, e, n, j, w, c, over, ended)
    BY <2>1 DEF Good
  <2>3. e # NewNat /\ ~e.wanted
    BY <2>2 DEF Opening, NewNat
  <2> QED
    BY <1>2, <1>3, <1>6, <1>8, <1>10, <2>2, <2>3 DEF Opening, EventsGrow
<1>12. s \in PeerStreams => Announced(s, f, j, z, c, over, ended)
  BY <1>2, <1>6, <1>8, <1>10 DEF Good, Announced, EventsGrow, Unannounced
<1>13. Conveyed(s, f, m, j, z, over, ended)
  <2>1. e.taken \in Nat /\ j.got \in Nat /\ n.sent \in Nat
    BY DEF Good, Entry, Whatwg, Quic
  <2>2. Coming(s, f, j, z, ended) = Coming(s, e, j, w, ended)
    BY <1>2, <1>6, <1>8 DEF Coming, EventsGrow, Unannounced
  <2> DEFINE old == Count(w, Item("StreamData", s))
             new == Count(z, Item("StreamData", s))
  <2>3. old \in Nat /\ new = old + k
    BY <1>5, <1>8 DEF EventsGrow
  <2>4. /\ e.taken + n.buffered = n.sent
        /\ j.got + old <= e.taken
        /\ ~over /\ (j.readable = "open" \/ Coming(s, e, j, w, ended)) => e.taken = j.got + old
        /\ Never(w, {"StreamFinished"}, {"StreamData"}, s)
        /\ j.readable = "closed" => n.fin /\ j.got = n.sent
    BY DEF Good, Conveyed
  <2> HIDE DEF old, new
  <2>5. f.taken + m.buffered = m.sent /\ j.got + new <= f.taken
    <3>1. f.taken = e.taken + k /\ m.buffered = n.buffered - k /\ m.sent = n.sent
      BY <1>2, <1>3
    <3>2. e.taken + n.buffered = n.sent /\ j.got + old <= e.taken /\ new = old + k
      BY <2>3, <2>4
    <3>3. n.buffered \in Nat /\ k \in Nat /\ e.taken \in Nat /\ j.got \in Nat /\ old \in Nat
      BY <1>1, <2>1, <2>3
    <3> DEFINE taken == e.taken
               buffered == n.buffered
               got == j.got
    <3>4. /\ (taken + k) + (buffered - k) = taken + buffered
          /\ got + old <= taken => got + (old + k) <= taken + k
      <4>1. taken \in Nat /\ buffered \in Nat /\ got \in Nat
        BY <3>3
      <4> HIDE DEF taken, buffered, got
      <4> QED
        BY <3>3, <4>1
    <3> QED
      BY <3>1, <3>2, <3>4
  <2>6. ~over /\ (j.readable = "open" \/ Coming(s, f, j, z, ended)) => f.taken = j.got + new
    BY <1>1, <1>2, <2>1, <2>2, <2>3, <2>4
  <2>7. ~Has(z, {"StreamFinished"}, s)
    BY <1>6, <1>8, <1>9 DEF EventsGrow
  <2> QED
    BY <1>3, <1>10, <2>4, <2>5, <2>6, <2>7 DEF Conveyed, new
<1>14. Written(s, f, j, z, c, over, running)
  BY <1>2, <1>6, <1>8 DEF Good, Written, EventsGrow
<1>15. Good(s, f, m, j, z, c, over, ended, running)
  BY <1>2, <1>3, <1>11, <1>12, <1>13, <1>14 DEF Good
<1>16. r = Chunks(s, k)
  BY DEF r, x, Chunks
<1> QED
  BY <1>5, <1>6, <1>15, <1>16 DEF f, m, z

\* process_recv: the FIN or the reset that ends a stream.
LEMMA EndGood ==
  ASSUME NEW s \in Stream, NEW e, NEW n, NEW j, NEW w \in Seq(Event), NEW c, NEW over, NEW ended,
         NEW running, Good(s, e, n, j, w, c, over, ended, running), ~e.dead, ~ended,
         n.reset \/ n.fin, ~n.reset => n.buffered = 0,
         NEW end \in {"StreamReset", "StreamFinished"}, end = "StreamFinished" => ~n.reset
  PROVE  LET r == Ending(end, s, e) IN
         /\ r \in Seq(Own(s)) /\ ~Has(r, {"StreamOpened"}, s)
         /\ Good(s, Dead(e), n, j, w \o r, c, over, ended, running)
<1> DEFINE f == Dead(e)
           r == Ending(end, s, e)
           z == w \o r
<1>1. e \in Entry /\ n \in Quic /\ n.buffered \in Nat
  BY DEF Good, Quic
<1>2. /\ f \in Entry /\ f.present = e.present /\ f.wanted = e.wanted /\ f.dead
      /\ f.out = e.out /\ f.taken = e.taken
  BY <1>1 DEF Entry, Dead
<1> HIDE DEF f
<1>3. end \in OfStream
  BY DEF OfStream, Recv
<1>4. /\ r \in Seq(Own(s))
      /\ ~Has(r, {"Stream"}, s) /\ ~Has(r, {"StreamOpened"}, s) /\ ~Has(r, {"WriteAck"}, s)
      /\ ~Has(r, {"StreamData"}, s)
      /\ Has(r, Recv, s) \/ Has(r, OfStream, s) => e.present
      /\ Has(r, {"StreamFinished"}, s) => ~n.reset
      /\ \A T, U : Never(r, T, U, s)
  <2>1. CASE e.present
    <3>1. /\ r = <<Item(end, s)>> /\ <<Item(end, s)>> \in Seq(Own(s))
          /\ \A T : Has(<<Item(end, s)>>, T, s) <=> end \in T
          /\ \A T, U : Never(<<Item(end, s)>>, T, U, s)
      BY <1>3, <2>1, OneEvent DEF Ending
    <3> HIDE DEF r
    <3> QED
      BY <2>1, <3>1
  <2>2. CASE ~e.present
    <3>1. r = <<>> /\ <<>> \in Seq(Own(s))
      BY <2>2 DEF Ending
    <3>2. \A T : ~Has(<<>>, T, s)
      BY NoItem
    <3>3. \A T, U : Never(<<>>, T, U, s)
      BY NoItem
    <3> HIDE DEF r
    <3> QED
      BY <3>1, <3>2, <3>3
  <2> QED
    BY <2>1, <2>2
<1> HIDE DEF r
<1>5. r \in Seq(Event)
  BY <1>4, OwnItems
<1>6. EventsGrow(z, w, r, s) /\ Count(r, Item("StreamData", s)) = 0
  <2>1. EventsGrow(z, w, r, s)
    BY <1>5, EventsConcat
  <2>2. ~(Count(r, Item("StreamData", s)) > 0)
    BY <1>4, <1>5, CountHas
  <2> QED
    BY <2>1, <2>2 DEF EventsGrow
<1>7. /\ Never(w, Recv, {"StreamOpened"}, s) => Never(z, Recv, {"StreamOpened"}, s)
      /\ Never(w, OfStream, {"Stream"}, s) => Never(z, OfStream, {"Stream"}, s)
      /\ Never(w, {"StreamFinished"}, {"StreamData"}, s) => Never(z, {"StreamFinished"}, {"StreamData"}, s)
  BY <1>4, <1>5, NeverConcat
<1> HIDE DEF z
<1>8. s \in LocalStreams => Opening(s, f, n, j, z, c, over, ended)
  <2>1. SUFFICES ASSUME s \in LocalStreams PROVE Opening(s, f, n, j, z, c, over, ended)
    OBVIOUS
  <2>2. Opening(s, e, n, j, w, c, over, ended)
    BY <2>1 DEF Good
  <2>3. n.known /\ e.present
    BY <2>2 DEF Opening
  <2>4. e # NewNat /\ ~e.wanted
    BY <2>2, <2>3 DEF Opening, NewNat
  <2> QED
    BY <1>2, <1>4, <1>6, <1>7, <2>2, <2>3, <2>4 DEF Opening, EventsGrow
<1>9. s \in PeerStreams => Announced(s, f, j, z, c, over, ended)
  BY <1>2, <1>4, <1>6, <1>7 DEF Good, Announced, EventsGrow, Unannounced
<1>10. Conveyed(s, f, n, j, z, over, ended)
  <2>1. Coming(s, f, j, z, ended) => Coming(s, e, j, w, ended)
    BY <1>2, <1>4, <1>6 DEF Coming, EventsGrow, Unannounced
  <2>2. e.taken \in Nat /\ n.sent \in Nat
    BY <1>1 DEF Entry, Quic
  <2>3. ~n.reset => n.fin /\ e.taken = n.sent
    BY <1>1, <2>2 DEF Good, Conveyed
  <2>4. Has(z, {"StreamFinished"}, s) => n.fin /\ e.taken = n.sent
    BY <1>4, <1>6, <2>3 DEF Good, Conveyed, EventsGrow
  <2>5. Count(z, Item("StreamData", s)) = Count(w, Item("StreamData", s))
    BY <1>6 DEF EventsGrow
  <2> QED
    BY <1>2, <1>7, <2>1, <2>4, <2>5 DEF Good, Conveyed
<1>11. Written(s, f, j, z, c, over, running)
  BY <1>2, <1>4, <1>6 DEF Good, Written, EventsGrow
<1>12. Good(s, f, n, j, z, c, over, ended, running)
  BY <1>2, <1>8, <1>9, <1>10, <1>11 DEF Good
<1> QED
  BY <1>4, <1>12 DEF f, r, z

\* Everything that on_readable does for one stream.
LEMMA OnReadableGood ==
  ASSUME NEW s \in Stream, net[s] \in Quic, s \in Readable, ~closed, NEW e, NEW j, NEW w \in Seq(Event),
         NEW c, NEW over, NEW running, Good(s, e, net[s], j, w, c, over, closed, running)
  PROVE  LET p == OnReadable(s, e)
             m == [net[s] EXCEPT !.buffered = @ - (p.entry.taken - e.taken)]
         IN /\ p.items \in Seq(Own(s)) /\ ~Has(p.items, {"StreamOpened"}, s)
            /\ p.entry.out = e.out
            /\ s \in LocalStreams => net[s].known
            /\ Good(s, p.entry, m, j, w \o p.items, c, over, closed, running)
<1> DEFINE n == net[s]
           p == OnReadable(s, e)
           m == [n EXCEPT !.buffered = @ - (p.entry.taken - e.taken)]
<1>1. n \in Quic /\ e \in Entry /\ n.buffered \in Nat /\ e.taken \in Nat
  BY DEF Good, Quic, Entry
<1>6. Good(s, e, n, j, w, c, over, closed, running)
  OBVIOUS
<1>2. e.taken + n.buffered = n.sent
  BY DEF Good, Conveyed
<1>3. s \in LocalStreams => n.known /\ (e.present \/ e.dead)
  <2>1. n.sent > 0 \/ n.fin \/ n.reset
    BY <1>1, <1>2 DEF Readable
  <2> QED
    BY <2>1 DEF Good, Opening
<1>4. CASE Withheld(e)
  <2>1. p.items = <<>> /\ p.entry = e
    BY <1>4 DEF OnReadable, Quiet, Step
  <2>2. n.buffered - (e.taken - e.taken) = n.buffered
    BY <1>1
  <2>3. n = [n EXCEPT !.buffered = n.buffered]
    BY <1>1 DEF Quic
  <2>4. m = n
    BY <2>1, <2>2, <2>3
  <2>5. <<>> \in Seq(Own(s)) /\ w \o <<>> = w
    OBVIOUS
  <2>6. ~Has(<<>>, {"StreamOpened"}, s)
    BY NoItem
  <2> HIDE DEF p, m
  <2>7. Good(s, p.entry, m, j, w \o p.items, c, over, closed, running)
    BY <2>1, <2>4, <2>5
  <2> QED
    BY <1>3, <2>1, <2>5, <2>6, <2>7 DEF p, m
<1>5. CASE ~Withheld(e)
  <2> DEFINE known == Classified(s, e)
             a == Announcement(s, e)
             wa == w \o a
             k == IF n.reset THEN 0 ELSE n.buffered
             b == Chunks(s, k)
             wb == wa \o b
             f == [known EXCEPT !.taken = @ + k]
             g == Dead(f)
             h == [known EXCEPT !.taken = @ + k, !.dead = @ \/ n.reset \/ n.fin]
             end == IF n.reset THEN "StreamReset" ELSE "StreamFinished"
             d == IF (n.reset \/ n.fin) /\ known.present THEN <<Item(end, s)>> ELSE <<>>
             mb == [n EXCEPT !.buffered = @ - k]
  <2>1. ~e.dead
    BY <1>5 DEF Withheld
  <2>2. /\ a \in Seq(Own(s)) /\ ~Has(a, {"StreamOpened"}, s)
        /\ known \in Entry /\ known.taken = e.taken /\ known.out = e.out /\ ~known.dead
        /\ ~n.reset => known.present
        /\ Good(s, known, n, j, wa, c, over, closed, running)
    <3>1. CASE Announces(s, e)
      <4>1. ~e.present /\ s \in PeerStreams /\ Unannounced(e, closed)
        BY <1>3, <2>1, <3>1 DEF Announces, Unannounced, Stream
      <4> DEFINE told == <<Item("Stream", s)>>
      <4>2. known = Fresh /\ a = told
        BY <3>1 DEF Classified, Announcement, Fresh
      <4>3. known.taken = NewNat.taken /\ known.out = NewNat.out /\ ~known.dead /\ known.present
        BY <4>2 DEF NewNat, Fresh
      <4> HIDE DEF known, a, n, p, m
      <4>4. /\ e = NewNat /\ Fresh \in Entry /\ told \in Seq(Own(s)) /\ ~Has(told, {"StreamOpened"}, s)
            /\ Good(s, Fresh, n, j, w \o told, c, over, closed, running)
        <5>1. Good(s, e, n, j, w, c, over, closed, running) /\ Unannounced(e, closed) /\ s \in PeerStreams
          BY <1>6, <4>1
        <5>2. w \in Seq(Event)
          OBVIOUS
        <5>3. e = NewNat
          BY <4>1 DEF Good, Announced
        <5>4. Good(s, Fresh, n, j, w \o told, c, over, closed, running)
          BY <5>1, <5>2, AnnounceGood
        <5>5. Fresh \in Entry
          BY <5>4 DEF Good
        <5>6. "Stream" \in OfStream
          BY DEF OfStream
        <5>7. told \in Seq(Own(s)) /\ ~Has(told, {"StreamOpened"}, s)
          BY <5>6, OneEvent
        <5> HIDE DEF told
        <5> QED
          BY <5>3, <5>4, <5>5, <5>7
      <4> HIDE DEF told
      <4> QED
        BY <4>2, <4>3, <4>4
    <3>2. CASE ~Announces(s, e)
      <4>1. known = e /\ a = <<>>
        BY <3>2 DEF Classified, Announcement
      <4>2. a \in Seq(Own(s)) /\ w \o a = w
        BY <4>1
      <4>3. ~Has(a, {"StreamOpened"}, s)
        BY <4>1, NoItem
      <4>4. ~n.reset => e.present
        BY <3>2 DEF Announces
      <4> HIDE DEF known, a
      <4> QED
        BY <1>1, <2>1, <4>1, <4>2, <4>3, <4>4
    <3> QED
      BY <3>1, <3>2
  <2> HIDE DEF known, a
  <2>3. wa \in Seq(Event)
    BY <2>2, OwnItems, EventsConcat
  <2> HIDE DEF wa
  <2>4. /\ b \in Seq(Own(s)) /\ ~Has(b, {"StreamOpened"}, s)
        /\ Good(s, f, mb, j, wb, c, over, closed, running)
    <3>1. CASE n.reset
      <4>1. k = 0 /\ b = <<>>
        BY <3>1 DEF Chunks
      <4>2. known.taken + 0 = known.taken /\ n.buffered - 0 = n.buffered
        BY <1>1, <2>2 DEF Entry
      <4>3. f = known
        <5>1. f = [known EXCEPT !.taken = known.taken]
          BY <4>1, <4>2
        <5> QED
          BY <2>2, <5>1 DEF Entry
      <4>4. mb = n
        <5>1. mb = [n EXCEPT !.buffered = n.buffered]
          BY <4>1, <4>2
        <5> QED
          BY <1>1, <5>1 DEF Quic
      <4>5. b \in Seq(Own(s)) /\ wb = wa
        <5>1. wa \o <<>> = wa
          BY <2>3
        <5>2. b = <<>> /\ <<>> \in Seq(Own(s))
          BY <4>1
        <5> HIDE DEF b
        <5> QED
          BY <5>1, <5>2
      <4>6. ~Has(b, {"StreamOpened"}, s)
        BY <4>1, NoItem
      <4> HIDE DEF f, mb, b, wb
      <4> QED
        BY <2>2, <4>3, <4>4, <4>5, <4>6
    <3>2. CASE ~n.reset
      <4>1. k = n.buffered /\ k \in 0 .. n.buffered
        BY <1>1, <3>2
      <4>2. known.present /\ ~known.dead
        BY <2>2, <3>2
      <4> HIDE DEF k, p, m, n, h, d, g
      <4> QED
        BY <2>2, <2>3, <4>1, <4>2, ChunksGood
    <3> QED
      BY <3>1, <3>2
  <2>5. wb \in Seq(Event)
    <3> HIDE DEF b
    <3> QED
      BY <2>3, <2>4, OwnItems, EventsConcat
  <2>6. k \in Nat /\ f \in Entry /\ f.taken = e.taken + k /\ f.out = e.out /\ ~f.dead
        /\ f.present = known.present
    <3>1. k \in Nat
      BY <1>1
    <3>2. f \in Entry
      <4> HIDE DEF f, mb, wb
      <4> QED
        BY <2>4 DEF Good
    <3> HIDE DEF k
    <3>3. f.taken = known.taken + k
      BY <2>2 DEF Entry
    <3>4. f.out = known.out /\ f.dead = known.dead /\ f.present = known.present
      BY <2>2 DEF Entry
    <3> HIDE DEF f
    <3> QED
      BY <2>2, <3>1, <3>2, <3>3, <3>4
  <2>7. mb \in Quic /\ mb.buffered = n.buffered - k /\ mb.reset = n.reset /\ mb.fin = n.fin
    <3>1. mb \in Quic
      <4> HIDE DEF f, mb, wb
      <4> QED
        BY <2>4 DEF Good
    <3> HIDE DEF k
    <3> QED
      BY <1>1, <3>1 DEF Quic
  <2>8. p.entry = h /\ p.items = a \o b \o d
    BY <1>5 DEF OnReadable, Step, known, a
  <2> DEFINE t == IF n.reset \/ n.fin THEN g ELSE f
  <2>9. h = t
    <3>1. h = [known EXCEPT !.taken = known.taken + k, !.dead = known.dead \/ n.reset \/ n.fin]
      OBVIOUS
    <3> HIDE DEF k, h
    <3>2. CASE n.reset \/ n.fin
      <4>1. (known.dead \/ n.reset \/ n.fin) = TRUE
        BY <3>2
      <4>2. h = [known EXCEPT !.taken = known.taken + k, !.dead = TRUE]
        BY <3>1, <4>1
      <4>3. g = [known EXCEPT !.taken = known.taken + k, !.dead = TRUE]
        BY <2>2 DEF Entry, Dead
      <4> QED
        BY <3>2, <4>2, <4>3
    <3>3. CASE ~(n.reset \/ n.fin)
      <4>1. (known.dead \/ n.reset \/ n.fin) = FALSE
        BY <2>2, <3>3
      <4>2. h = [known EXCEPT !.taken = known.taken + k, !.dead = FALSE]
        BY <3>1, <4>1
      <4>3. known.dead = FALSE
        BY <2>2
      <4>4. f = [known EXCEPT !.taken = known.taken + k, !.dead = FALSE]
        BY <2>2, <4>3 DEF Entry
      <4> QED
        BY <3>3, <4>2, <4>4
    <3> QED
      BY <3>2, <3>3
  <2>10. /\ d \in Seq(Own(s)) /\ ~Has(d, {"StreamOpened"}, s)
         /\ Good(s, t, mb, j, wb \o d, c, over, closed, running)
    <3>1. CASE n.reset \/ n.fin
      <4>1. d = (IF f.present THEN <<Item(end, s)>> ELSE <<>>) /\ t = g
        BY <2>6, <3>1
      <4>2. ~mb.reset => mb.buffered = 0
        BY <1>1, <2>7
      <4>3. /\ end \in {"StreamReset", "StreamFinished"}
            /\ end = "StreamFinished" => ~mb.reset
            /\ mb.reset \/ mb.fin
        BY <2>7, <3>1
      <4> DEFINE told == Ending(end, s, f)
      <4> HIDE DEF d, wb, mb, f, end, t, p, m, n, h
      <4>4. /\ told \in Seq(Own(s)) /\ ~Has(told, {"StreamOpened"}, s)
            /\ Good(s, g, mb, j, wb \o told, c, over, closed, running)
        <5>1. /\ Good(s, f, mb, j, wb, c, over, closed, running) /\ wb \in Seq(Event)
              /\ ~f.dead /\ ~closed
          BY <2>4, <2>5, <2>6
        <5> QED
          BY <4>2, <4>3, <5>1, EndGood
      <4> HIDE DEF told, g
      <4> QED
        BY <4>1, <4>4 DEF told, Ending
    <3>2. CASE ~(n.reset \/ n.fin)
      <4>1. d = <<>> /\ t = f
        BY <3>2
      <4> HIDE DEF wb, mb, f, t
      <4>2. d \in Seq(Own(s)) /\ wb \o d = wb
        BY <2>5, <4>1
      <4>3. ~Has(d, {"StreamOpened"}, s)
        BY <4>1, NoItem
      <4> HIDE DEF d
      <4> QED
        BY <2>4, <4>1, <4>2, <4>3
    <3> QED
      BY <3>1, <3>2
  <2>11. t.taken = e.taken + k /\ t.out = e.out
    <3> HIDE DEF k
    <3>1. f.taken = e.taken + k /\ f.out = e.out /\ f \in Entry
      BY <2>6
    <3> HIDE DEF f
    <3>2. g.taken = f.taken /\ g.out = f.out
      BY <3>1 DEF Entry, Dead
    <3> QED
      BY <3>1, <3>2
  <2>12. m = mb
    <3>1. p.entry.taken - e.taken = k
      <4> HIDE DEF p, k, t, h
      <4> QED
        BY <1>1, <2>6, <2>8, <2>9, <2>11
    <3> QED
      BY <3>1
  <2>13. /\ wb \o d = w \o p.items
         /\ p.items \in Seq(Own(s)) /\ ~Has(p.items, {"StreamOpened"}, s)
    <3> DEFINE X == Own(s)
    <3>1. a \in Seq(X) /\ b \in Seq(X) /\ d \in Seq(X)
      BY <2>2, <2>4, <2>10
    <3> HIDE DEF X, b, d
    <3>2. a \o b \in Seq(X) /\ (a \o b) \o d \in Seq(X)
      BY <3>1, ConcatProperties
    <3>3. ~Has((a \o b) \o d, {"StreamOpened"}, s)
      BY <2>2, <2>4, <2>10, <3>1, <3>2, HasConcat
    <3> DEFINE Y == Event
    <3>4. a \in Seq(Y) /\ b \in Seq(Y) /\ d \in Seq(Y) /\ w \in Seq(Y) /\ a \o b \in Seq(Y)
      BY <3>1, <3>2, OwnItems DEF X
    <3> HIDE DEF Y
    <3>5. (w \o a) \o b = w \o (a \o b)
      <4>1. w \in Seq(Y)
        BY <3>4
      <4>2. a \in Seq(Y)
        BY <3>4
      <4>3. b \in Seq(Y)
        BY <3>4
      <4> QED
        BY <4>1, <4>2, <4>3, Associative
    <3> DEFINE ab == a \o b
    <3> HIDE DEF ab
    <3>6. ab \in Seq(Y)
      BY <3>4 DEF ab
    <3>7. (w \o ab) \o d = w \o (ab \o d)
      <4>1. w \in Seq(Y) /\ ab \in Seq(Y) /\ d \in Seq(Y)
        BY <3>4, <3>6
      <4> QED
        BY ONLY <4>1, Associative
    <3> HIDE DEF p
    <3> QED
      BY <2>8, <3>2, <3>3, <3>5, <3>7 DEF X, wa, ab
  <2> HIDE DEF p, t, h, m, mb, wb, d
  <2>14. Good(s, p.entry, m, j, w \o p.items, c, over, closed, running)
    BY <2>8, <2>9, <2>10, <2>12, <2>13
  <2> QED
    BY <1>3, <2>8, <2>9, <2>11, <2>13, <2>14 DEF p, m
<1> QED
  BY <1>4, <1>5

-----------------------------------------------------------------------------
(* Flattening a sequence of sequences. *)

\* The recursive function FlattenSeq is defined with exists.
LEMMA FlattenUnfolds ==
  ASSUME NEW ss, Len(ss) \in Nat \ {0}
  PROVE  \E f : /\ f = [i \in 1 .. Len(ss) |-> IF i = 1 THEN ss[i] ELSE f[i - 1] \o ss[i]]
                /\ FlattenSeq(ss) = f[Len(ss)]
<1> DEFINE Is(g, n) == g = [i \in 1 .. n |-> IF i = 1 THEN ss[i] ELSE g[i - 1] \o ss[i]]
           S == {n \in Nat : \E g : Is(g, n)}
<1>1. 0 \in S
  <2> DEFINE g == [i \in 1 .. 0 |-> 0]
  <2>1. Is(g, 0)
    OBVIOUS
  <2> QED
    BY <2>1
<1>2. ASSUME NEW n \in Nat, n \in S PROVE n + 1 \in S
  <2>1. PICK g : Is(g, n)
    BY <1>2
  <2> DEFINE h == [i \in 1 .. n + 1 |-> IF i <= n THEN g[i] ELSE IF i = 1 THEN ss[i] ELSE g[n] \o ss[i]]
  <2>2. ASSUME NEW i \in 1 .. n + 1
        PROVE  h[i] = IF i = 1 THEN ss[i] ELSE h[i - 1] \o ss[i]
    <3>1. CASE i <= n
      <4> DEFINE e(m) == IF m = 1 THEN ss[m] ELSE g[m - 1] \o ss[m]
      <4>0. i \in 1 .. n
        BY <3>1
      <4>1. g = [m \in 1 .. n |-> e(m)]
        BY <2>1
      <4>2. g[i] = IF i = 1 THEN ss[i] ELSE g[i - 1] \o ss[i]
        <5>1. g[i] = e(i)
          <6> HIDE DEF e
          <6> QED
            BY <4>0, <4>1
        <5> QED
          BY <5>1
      <4>3. i = 1 \/ (i - 1 \in 1 .. n + 1 /\ i - 1 <= n)
        OBVIOUS
      <4> QED
        BY <3>1, <4>2, <4>3
    <3>2. CASE i = n + 1
      <4>1. i = 1 \/ (i - 1 \in 1 .. n + 1 /\ i - 1 = n /\ n <= n)
        BY <3>2
      <4> QED
        BY <3>2, <4>1
    <3> QED
      BY <3>1, <3>2
  <2>3. h = [i \in 1 .. n + 1 |-> h[i]]
    OBVIOUS
  <2>4. Is(h, n + 1)
    <3> HIDE DEF h
    <3> QED
      BY <2>2, <2>3
  <2> HIDE DEF h, Is
  <2> QED
    BY <2>4
<1>3. Len(ss) \in S
  <2> HIDE DEF S
  <2> QED
    BY <1>1, <1>2, SetInduction
<1>4. \E f : Is(f, Len(ss))
  BY <1>3
<1> DEFINE F == CHOOSE f : Is(f, Len(ss))
<1>5. Is(F, Len(ss))
  BY <1>4
<1>6. FlattenSeq(ss) = F[Len(ss)]
  BY DEF FlattenSeq
<1> HIDE DEF F
<1> QED
  BY <1>5, <1>6

\* p[i] is the concatenation of the first i members of ss.
Sums(p, ss) ==
  p[0] = <<>> /\ \A i \in 1 .. Len(ss) : p[i] = p[i - 1] \o ss[i]

\* FlattenSeq is the last of the partial concatenations of its argument.
LEMMA FlattenSums ==
  ASSUME NEW X, NEW ss \in Seq(Seq(X))
  PROVE  \E p \in [0 .. Len(ss) -> Seq(X)] : Sums(p, ss) /\ FlattenSeq(ss) = p[Len(ss)]
<1> DEFINE L == Len(ss)
<1>1. L \in Nat /\ \A i \in 1 .. L : ss[i] \in Seq(X)
  BY LenProperties, ElementOfSeq
<1> HIDE DEF L
<1>2. CASE L = 0
  <2> DEFINE p == [i \in 0 .. 0 |-> <<>>]
  <2>1. ss = <<>>
    BY <1>2, EmptySeq DEF L
  <2>2. FlattenSeq(ss) = <<>>
    BY <1>2, <2>1 DEF FlattenSeq, L
  <2>3. p \in [0 .. L -> Seq(X)] /\ p[0] = <<>> /\ 1 .. L = {}
    BY <1>2
  <2> HIDE DEF p
  <2> QED
    BY <1>2, <2>2, <2>3 DEF Sums, L
<1>3. CASE L # 0
  <2>1. PICK f : /\ f = [i \in 1 .. L |-> IF i = 1 THEN ss[i] ELSE f[i - 1] \o ss[i]]
                 /\ FlattenSeq(ss) = f[L]
    BY <1>1, <1>3, FlattenUnfolds DEF L
  <2> DEFINE e(i) == IF i = 1 THEN ss[i] ELSE f[i - 1] \o ss[i]
             p == [i \in 0 .. L |-> IF i = 0 THEN <<>> ELSE f[i]]
             S == {i \in Nat : i <= L => p[i] \in Seq(X)}
  <2>2. \A i \in 1 .. L : f[i] = IF i = 1 THEN ss[i] ELSE f[i - 1] \o ss[i]
    <3>1. f = [i \in 1 .. L |-> e(i)]
      BY <2>1
    <3>2. \A i \in 1 .. L : f[i] = e(i)
      <4> HIDE DEF e
      <4> QED
        BY <3>1
    <3> QED
      BY <3>2
  <2>3. p[0] = <<>> /\ \A i \in 1 .. L : p[i] = f[i]
    BY <1>1
  <2>4. ASSUME NEW i \in 1 .. L PROVE p[i] = p[i - 1] \o ss[i]
    <3>1. CASE i = 1
      <4>1. <<>> \o ss[1] = ss[1]
        BY <1>1, <3>1
      <4>2. p[1] = ss[1]
        BY <2>2, <2>3, <3>1
      <4>3. p[i - 1] = <<>> /\ p[i] = p[1] /\ ss[i] = ss[1]
        BY <2>3, <3>1
      <4> HIDE DEF p
      <4> QED
        BY <4>1, <4>2, <4>3
    <3>2. CASE i # 1
      <4>1. i - 1 \in 1 .. L
        BY <1>1, <3>2
      <4>2. p[i] = f[i] /\ p[i - 1] = f[i - 1]
        BY <2>3, <4>1
      <4>3. f[i] = f[i - 1] \o ss[i]
        BY <2>2, <3>2
      <4> HIDE DEF p
      <4> QED
        BY <4>2, <4>3
    <3> QED
      BY <3>1, <3>2
  <2>5. DOMAIN p = 0 .. L /\ p = [i \in 0 .. L |-> p[i]]
    OBVIOUS
  <2>6. FlattenSeq(ss) = p[L]
    BY <1>1, <1>3, <2>1, <2>3
  <2> HIDE DEF p
  <2>7. 0 \in S
    <3>1. <<>> \in Seq(X)
      OBVIOUS
    <3> QED
      BY <2>3, <3>1
  <2>8. ASSUME NEW i \in Nat, i \in S PROVE i + 1 \in S
    <3>1. SUFFICES ASSUME i + 1 <= L PROVE p[i + 1] \in Seq(X)
      OBVIOUS
    <3>2. i + 1 \in 1 .. L /\ (i + 1) - 1 = i /\ i <= L
      BY <1>1, <3>1
    <3>3. p[i + 1] = p[i] \o ss[i + 1]
      BY <2>4, <3>2
    <3>4. p[i] \in Seq(X) /\ ss[i + 1] \in Seq(X)
      BY <1>1, <2>8, <3>2
    <3> QED
      BY <3>3, <3>4, ConcatProperties
  <2>9. Nat \subseteq S
    <3> HIDE DEF S
    <3> QED
      BY <2>7, <2>8, SetInduction
  <2>10. p \in [0 .. L -> Seq(X)]
    BY <1>1, <2>5, <2>9
  <2> QED
    BY <2>3, <2>4, <2>6, <2>10 DEF Sums, L
<1> QED
  BY <1>2, <1>3

\* Members of a smaller set give a concatenation of that set.
LEMMA FlattenTyped ==
  ASSUME NEW X, NEW ss \in Seq(Seq(X))
  PROVE  FlattenSeq(ss) \in Seq(X)
<1>1. Len(ss) \in 0 .. Len(ss)
  BY LenProperties
<1> QED
  BY <1>1, FlattenSums

\* A batch appended is a batch that follows; the first batch is what comes first.
LEMMA FlattenAppend ==
  ASSUME NEW X, NEW ss \in Seq(Seq(X)), NEW b \in Seq(X)
  PROVE  FlattenSeq(Append(ss, b)) = FlattenSeq(ss) \o b
<1> DEFINE L == Len(ss)
           tt == Append(ss, b)
<1>1. L \in Nat
  BY LenProperties
<1>2. /\ tt \in Seq(Seq(X)) /\ Len(tt) = L + 1
      /\ \A i \in 1 .. L : tt[i] = ss[i]
      /\ tt[L + 1] = b
  <2> DEFINE Y == Seq(X)
  <2>1. ss \in Seq(Y) /\ b \in Y
    OBVIOUS
  <2> HIDE DEF Y
  <2>2. /\ tt \in Seq(Y) /\ Len(tt) = L + 1
        /\ \A i \in 1 .. L : tt[i] = ss[i]
        /\ tt[L + 1] = b
    BY <2>1, AppendProperties
  <2> QED
    BY <2>2 DEF Y
<1> HIDE DEF tt, L
<1>3. PICK p \in [0 .. L -> Seq(X)] : Sums(p, ss) /\ FlattenSeq(ss) = p[L]
  BY FlattenSums DEF L
<1>4. PICK q \in [0 .. L + 1 -> Seq(X)] : Sums(q, tt) /\ FlattenSeq(tt) = q[L + 1]
  BY <1>2, FlattenSums
<1> DEFINE S == {i \in Nat : i <= L => p[i] = q[i]}
<1>5. 0 \in S
  BY <1>3, <1>4 DEF Sums
<1>6. ASSUME NEW i \in Nat, i \in S PROVE i + 1 \in S
  <2>1. SUFFICES ASSUME i + 1 <= L PROVE p[i + 1] = q[i + 1]
    OBVIOUS
  <2>2. i + 1 \in 1 .. L /\ i + 1 \in 1 .. L + 1 /\ (i + 1) - 1 = i /\ i <= L
    BY <1>1, <2>1
  <2>3. p[i + 1] = p[i] \o ss[i + 1] /\ q[i + 1] = q[i] \o tt[i + 1]
    BY <1>2, <1>3, <1>4, <2>2 DEF Sums, L
  <2> QED
    BY <1>2, <1>6, <2>2, <2>3
<1>7. Nat \subseteq S
  <2> HIDE DEF S
  <2> QED
    BY <1>5, <1>6, SetInduction
<1>8. q[L + 1] = q[L] \o b
  <2>1. L + 1 \in 1 .. L + 1 /\ (L + 1) - 1 = L
    BY <1>1
  <2> QED
    BY <1>2, <1>4, <2>1 DEF Sums
<1>9. p[L] = q[L]
  <2>1. L \in S /\ L <= L
    BY <1>1, <1>7
  <2> QED
    BY <2>1
<1> QED
  BY <1>3, <1>4, <1>8, <1>9 DEF tt

\* Flattening batches begins with the oldest: what JsBatch removes is the head of what is
\* in transit.
LEMMA FlattenHead ==
  ASSUME NEW X, NEW ss \in Seq(Seq(X)), ss # <<>>
  PROVE  FlattenSeq(ss) = Head(ss) \o FlattenSeq(Tail(ss))
<1> DEFINE L == Len(ss)
           tt == Tail(ss)
<1>1. L \in Nat /\ L # 0 /\ \A i \in 1 .. L : ss[i] \in Seq(X)
  BY LenProperties, EmptySeq, ElementOfSeq
<1>2. /\ tt \in Seq(Seq(X)) /\ Len(tt) = L - 1
      /\ \A i \in 1 .. L - 1 : tt[i] = ss[i + 1]
      /\ Head(ss) = ss[1]
  <2> DEFINE Y == Seq(X)
  <2>1. ss \in Seq(Y)
    OBVIOUS
  <2> HIDE DEF Y
  <2>2. /\ tt \in Seq(Y) /\ Len(tt) = L - 1
        /\ \A i \in 1 .. L - 1 : tt[i] = ss[i + 1]
        /\ Head(ss) = ss[1]
    BY <1>1, <2>1, HeadTailProperties
  <2> QED
    BY <2>2 DEF Y
<1> HIDE DEF tt, L
<1>3. PICK p \in [0 .. L -> Seq(X)] : Sums(p, ss) /\ FlattenSeq(ss) = p[L]
  BY FlattenSums DEF L
<1>4. PICK q \in [0 .. L - 1 -> Seq(X)] : Sums(q, tt) /\ FlattenSeq(tt) = q[L - 1]
  <2>1. \E q \in [0 .. Len(tt) -> Seq(X)] : Sums(q, tt) /\ FlattenSeq(tt) = q[Len(tt)]
    BY <1>2, FlattenSums
  <2> QED
    BY <1>2, <2>1
<1> DEFINE S == {i \in Nat : i <= L - 1 => p[i + 1] = ss[1] \o q[i]}
<1>5. 0 \in S
  <2>1. 1 \in 1 .. L /\ 1 - 1 = 0
    BY <1>1
  <2>2. p[1] = p[0] \o ss[1] /\ p[0] = <<>> /\ q[0] = <<>> /\ ss[1] \in Seq(X)
    BY <1>1, <1>3, <1>4, <2>1 DEF Sums, L
  <2>3. <<>> \o ss[1] = ss[1] /\ ss[1] \o <<>> = ss[1]
    BY <2>2
  <2>4. p[0 + 1] = ss[1] \o q[0]
    BY <2>2, <2>3
  <2> QED
    BY <2>4
<1>6. ASSUME NEW i \in Nat, i \in S PROVE i + 1 \in S
  <2>0. i + 1 \in Nat
    OBVIOUS
  <2>1. SUFFICES ASSUME i + 1 <= L - 1 PROVE p[(i + 1) + 1] = ss[1] \o q[i + 1]
    BY <2>0
  <2>2. /\ i + 1 \in 1 .. L - 1 /\ (i + 1) + 1 \in 1 .. L /\ (i + 1) - 1 = i /\ i <= L - 1
        /\ ((i + 1) + 1) - 1 = i + 1 /\ 1 \in 1 .. L /\ i \in 0 .. L - 1
    BY <1>1, <2>1
  <2>3. p[(i + 1) + 1] = p[i + 1] \o ss[(i + 1) + 1] /\ q[i + 1] = q[i] \o tt[i + 1]
    BY <1>2, <1>3, <1>4, <2>2 DEF Sums, L
  <2>4. p[i + 1] = ss[1] \o q[i] /\ tt[i + 1] = ss[(i + 1) + 1]
    BY <1>2, <1>6, <2>2
  <2>5. ss[1] \in Seq(X) /\ q[i] \in Seq(X) /\ tt[i + 1] \in Seq(X)
    BY <1>1, <1>4, <2>2, <2>4
  <2>6. (ss[1] \o q[i]) \o tt[i + 1] = ss[1] \o (q[i] \o tt[i + 1])
    <3> DEFINE u == ss[1]
               v == q[i]
               x == tt[i + 1]
    <3>1. u \in Seq(X) /\ v \in Seq(X) /\ x \in Seq(X)
      BY <2>5
    <3> HIDE DEF u, v, x
    <3>2. (u \o v) \o x = u \o (v \o x)
      BY ONLY <3>1, Associative
    <3> QED
      BY <3>2 DEF u, v, x
  <2> QED
    BY <2>3, <2>4, <2>6
<1>7. Nat \subseteq S
  <2> HIDE DEF S
  <2> QED
    BY <1>5, <1>6, SetInduction
<1>8. p[L] = ss[1] \o q[L - 1]
  <2>1. L - 1 \in Nat /\ (L - 1) + 1 = L /\ L - 1 <= L - 1
    BY <1>1
  <2>2. L - 1 \in S
    BY <1>7, <2>1
  <2>3. p[(L - 1) + 1] = ss[1] \o q[L - 1]
    BY <2>1, <2>2
  <2> QED
    BY <2>1, <2>3
<1> QED
  BY <1>2, <1>3, <1>4, <1>8 DEF tt

\* m, between two sequences of Y.
Enclosed(a, m, b) == (a \o m) \o b
Between(m, Y) == {Enclosed(a, m, b) : a \in Seq(Y), b \in Seq(Y)}

\* When all but the k-th member are of a smaller set, the k-th lies between two sequences
\* of that set.
LEMMA FlattenSplits ==
  ASSUME NEW X, NEW ss \in Seq(Seq(X)), NEW Y \in SUBSET X, NEW k \in 1 .. Len(ss),
         \A i \in 1 .. Len(ss) : i # k => ss[i] \in Seq(Y)
  PROVE  FlattenSeq(ss) \in Between(ss[k], Y)
<1> DEFINE L == Len(ss)
<1>1. L \in Nat /\ k \in 1 .. L /\ \A i \in 1 .. L : ss[i] \in Seq(X)
  BY LenProperties, ElementOfSeq
<1>0. \A i \in 1 .. L : i # k => ss[i] \in Seq(Y)
  OBVIOUS
<1> HIDE DEF L
<1>2. PICK p \in [0 .. L -> Seq(X)] : Sums(p, ss) /\ FlattenSeq(ss) = p[L]
  BY FlattenSums DEF L
<1> DEFINE a == p[k - 1]
           S == {i \in Nat : i <= k - 1 => p[i] \in Seq(Y)}
           u == p[k]
           T == {i \in Nat : i + k <= L => p[i + k] \in After(u, Y)}
<1>3. 0 \in S
  <2>1. p[0] = <<>> /\ <<>> \in Seq(Y)
    BY <1>2 DEF Sums
  <2> QED
    BY <2>1
<1>4. ASSUME NEW i \in Nat, i \in S PROVE i + 1 \in S
  <2>1. SUFFICES ASSUME i + 1 <= k - 1 PROVE p[i + 1] \in Seq(Y)
    OBVIOUS
  <2>2. i + 1 \in 1 .. L /\ (i + 1) - 1 = i /\ i <= k - 1 /\ i + 1 # k
    BY <1>1, <2>1
  <2>3. p[i + 1] = p[i] \o ss[i + 1] /\ p[i] \in Seq(Y) /\ ss[i + 1] \in Seq(Y)
    BY <1>0, <1>2, <1>4, <2>2 DEF Sums, L
  <2> QED
    BY <2>3, ConcatProperties
<1>5. a \in Seq(Y)
  <2>1. Nat \subseteq S
    <3> HIDE DEF S
    <3> QED
      BY <1>3, <1>4, SetInduction
  <2>2. k - 1 \in Nat /\ k - 1 <= k - 1
    BY <1>1
  <2> QED
    BY <2>1, <2>2
<1>6. u \in Seq(X) /\ u = a \o ss[k]
  <2>1. k \in 1 .. L /\ k \in 0 .. L
    BY <1>1
  <2>2. p[k] = p[k - 1] \o ss[k]
    BY <1>2, <2>1 DEF Sums, L
  <2>3. p[k] \in Seq(X)
    BY <1>2, <2>1
  <2> QED
    BY <2>2, <2>3
<1>7. u \in After(u, Y) /\ \A q, x : q \in After(u, Y) /\ x \in Seq(Y) => q \o x \in After(u, Y)
  <2>1. u \in Seq(X) /\ Y \subseteq X
    BY <1>6
  <2> HIDE DEF u
  <2> QED
    BY <2>1, GoesOn
<1>8. 0 \in T
  <2>1. p[0 + k] = u
    BY <1>1
  <2> QED
    BY <1>7, <2>1
<1>9. ASSUME NEW i \in Nat, i \in T PROVE i + 1 \in T
  <2>1. i + 1 \in Nat
    OBVIOUS
  <2>2. SUFFICES ASSUME (i + 1) + k <= L PROVE p[(i + 1) + k] \in After(u, Y)
    BY <2>1
  <2> DEFINE m == (i + 1) + k
  <2>3. m \in 1 .. L /\ m - 1 = i + k /\ i + k <= L /\ m # k
    BY <1>1, <2>2
  <2>4. p[i + k] \in After(u, Y)
    BY <1>9, <2>3
  <2>5. p[m] = p[m - 1] \o ss[m] /\ ss[m] \in Seq(Y)
    BY <1>0, <1>2, <2>3 DEF Sums, L
  <2> HIDE DEF u, m
  <2> QED
    BY <1>7, <2>3, <2>4, <2>5 DEF m
<1>10. p[L] \in After(u, Y)
  <2>1. Nat \subseteq T
    <3> HIDE DEF T
    <3> QED
      BY <1>8, <1>9, SetInduction
  <2>2. L - k \in Nat /\ (L - k) + k = L /\ L <= L
    BY <1>1
  <2>3. L - k \in T
    BY <2>1, <2>2
  <2>4. p[(L - k) + k] \in After(u, Y)
    BY <2>2, <2>3
  <2> QED
    BY <2>2, <2>4
<1>11. \E b \in Seq(Y) : p[L] = u \o b
  BY <1>10 DEF After
<1> HIDE DEF a, u
<1> QED
  <2>1. PICK b \in Seq(Y) : p[L] = u \o b
    BY <1>11
  <2> DEFINE m == ss[k]
  <2>2. u = a \o m
    BY <1>6
  <2> HIDE DEF m
  <2>3. Enclosed(a, m, b) \in Between(m, Y)
    BY <1>5 DEF Between
  <2>4. FlattenSeq(ss) = Enclosed(a, m, b)
    BY <1>2, <2>1, <2>2 DEF Enclosed
  <2> QED
    BY <2>3, <2>4 DEF m

\* What the steps of several streams tell: each stream's own items, among those of others.
LEMMA ToldSplits ==
  ASSUME NEW R \in SUBSET Stream, NEW order \in SetToSeqs(R), NEW steps, NEW X, NEW Y, Y \subseteq X,
         NEW s, \A t \in R : steps[t].items \in Seq(X),
         \A t \in R : t # s => steps[t].items \in Seq(Y)
  PROVE  /\ Told(steps, order) \in Seq(X)
         /\ s \notin R => Told(steps, order) \in Seq(Y)
         /\ s \in R => Told(steps, order) \in Between(steps[s].items, Y)
<1> DEFINE K == Cardinality(R)
           D == 1 .. K
           ss == [i \in D |-> steps[order[i]].items]
<1>1. IsFiniteSet(R) /\ K \in Nat
  BY BridgeAssumption, FS_Subset, FS_CardinalityType
<1>2. order \in [D -> R] /\ \A i, j \in D : i # j => order[i] # order[j]
  BY DEF SetToSeqs
<1>3. \A t \in R : \E i \in D : order[i] = t
  <2>1. order \in Injection(D, R)
    BY <1>2 DEF Injection, IsInjective
  <2>2. Cardinality(D) = K
    <3> HIDE DEF K
    <3>1. 0 \in Int /\ 1 \in Int /\ K \in Int
      BY <1>1
    <3>2. Cardinality(1 .. K) = IF 1 > K THEN 0 ELSE K - 1 + 1
      BY <3>1, FS_Interval
    <3> QED
      BY <1>1, <3>2
  <2> HIDE DEF D
  <2>3. order \in Surjection(D, R)
    BY <1>1, <2>1, <2>2, FS_Injection
  <2> QED
    BY <2>3 DEF Surjection
<1>4. DOMAIN order = D
  BY <1>2
<1>5. Told(steps, order) = FlattenSeq(ss)
  BY <1>4 DEF Told
<1> HIDE DEF K
<1>6. ss \in Seq(Seq(X)) /\ Len(ss) = K /\ \A i \in D : ss[i] = steps[order[i]].items
  <2> DEFINE W == Seq(X)
  <2>1. \A i \in D : steps[order[i]].items \in W
    BY <1>2
  <2> HIDE DEF W
  <2>2. ss \in Seq(W) /\ Len(ss) = K
    BY <1>1, <2>1
  <2> QED
    BY <2>2 DEF W
<1> HIDE DEF ss
<1>7. FlattenSeq(ss) \in Seq(X)
  BY <1>6, FlattenTyped
<1>8. ASSUME s \notin R PROVE FlattenSeq(ss) \in Seq(Y)
  <2>1. \A i \in 1 .. Len(ss) : ss[i] \in Seq(Y)
    <3>1. SUFFICES ASSUME NEW i \in D PROVE ss[i] \in Seq(Y)
      BY <1>6
    <3>2. order[i] \in R /\ order[i] # s
      BY <1>2, <1>8
    <3>3. steps[order[i]].items \in Seq(Y)
      BY <3>2
    <3> QED
      BY <1>6, <3>3
  <2>2. ss = [i \in 1 .. Len(ss) |-> ss[i]] /\ Len(ss) \in Nat
    <3> DEFINE W == Seq(X)
    <3>1. ss \in Seq(W)
      BY <1>6
    <3> HIDE DEF W
    <3> QED
      BY <3>1, LenProperties
  <2> DEFINE W == Seq(Y)
             L == Len(ss)
  <2>3. \A i \in 1 .. L : ss[i] \in W
    BY <2>1
  <2>4. ss = [i \in 1 .. L |-> ss[i]] /\ L \in Nat
    BY <2>2
  <2> HIDE DEF W, L
  <2>5. ss \in Seq(W)
    BY <2>3, <2>4
  <2> QED
    BY <2>5, FlattenTyped DEF W
<1>9. ASSUME s \in R PROVE FlattenSeq(ss) \in Between(steps[s].items, Y)
  <2>1. PICK k \in D : order[k] = s
    BY <1>3, <1>9
  <2>2. k \in 1 .. Len(ss) /\ ss[k] = steps[s].items
    BY <1>6, <2>1
  <2>3. \A i \in 1 .. Len(ss) : i # k => ss[i] \in Seq(Y)
    BY <1>2, <1>6, <2>1
  <2>4. Y \in SUBSET X
    OBVIOUS
  <2> QED
    BY <1>6, <2>2, <2>3, <2>4, FlattenSplits
<1> QED
  BY <1>5, <1>7, <1>8, <1>9

-----------------------------------------------------------------------------
(* The driver thread, once the streams are read. *)

\* Queued writes leave an entry, and are acknowledged.
LEMMA AckedGood ==
  ASSUME NEW s \in Stream, NEW e, NEW n, NEW j, NEW w \in Seq(Event), NEW c \in Seq(Command),
         NEW over, NEW ended, NEW running, Good(s, e, n, j, w, c, over, ended, running), e.present,
         NEW f \in Entry, f.present, f.wanted = e.wanted, f.dead = e.dead, f.taken = e.taken,
         f.out <= e.out, NEW r \in Seq(Own(s)), ~Has(r, Recv, s), ~Has(r, {"Stream"}, s),
         ~Has(r, {"StreamOpened"}, s), f.out = e.out \/ Has(r, {"WriteAck"}, s)
  PROVE  Good(s, f, n, j, w \o r, c, over, ended, running)
<1> DEFINE z == w \o r
<1>1. r \in Seq(Event)
  BY OwnItems
<1>2. ~Has(r, {"StreamFinished"}, s) /\ ~Has(r, {"StreamData"}, s)
  BY HasLess
<1>3. EventsGrow(z, w, r, s)
  BY <1>1, EventsConcat
<1>4. Count(r, Item("StreamData", s)) = 0
  <2>1. ~(Count(r, Item("StreamData", s)) > 0)
    BY <1>1, <1>2, CountHas
  <2> QED
    BY <1>3, <2>1 DEF EventsGrow
<1>5. /\ Never(w, Recv, {"StreamOpened"}, s) => Never(z, Recv, {"StreamOpened"}, s)
      /\ Never(w, OfStream, {"Stream"}, s) => Never(z, OfStream, {"Stream"}, s)
      /\ Never(w, {"StreamFinished"}, {"StreamData"}, s) => Never(z, {"StreamFinished"}, {"StreamData"}, s)
  <2>1. /\ Never(r, Recv, {"StreamOpened"}, s) /\ Never(r, OfStream, {"Stream"}, s)
        /\ Never(r, {"StreamFinished"}, {"StreamData"}, s)
    BY <1>2 DEF Has, Never
  <2> QED
    BY <1>1, <1>2, <2>1, NeverConcat
<1> HIDE DEF z
<1>6. e # NewNat
  BY DEF NewNat
<1>7. s \in LocalStreams => Opening(s, f, n, j, z, c, over, ended)
  <2>1. SUFFICES ASSUME s \in LocalStreams PROVE Opening(s, f, n, j, z, c, over, ended)
    OBVIOUS
  <2>2. Opening(s, e, n, j, w, c, over, ended)
    BY <2>1 DEF Good
  <2>3. ~e.wanted
    BY <2>2 DEF Opening, NewNat
  <2> QED
    BY <1>2, <1>3, <1>5, <1>6, <2>2, <2>3 DEF Opening, EventsGrow
<1>8. s \in PeerStreams => Announced(s, f, j, z, c, over, ended)
  BY <1>2, <1>3, <1>5, <1>6 DEF Good, Announced, EventsGrow, Unannounced
<1>9. Conveyed(s, f, n, j, z, over, ended)
  <2>1. Coming(s, f, j, z, ended) = Coming(s, e, j, w, ended)
    BY <1>3 DEF Coming, EventsGrow, Unannounced
  <2>2. Count(z, Item("StreamData", s)) = Count(w, Item("StreamData", s))
    BY <1>3, <1>4 DEF EventsGrow
  <2> QED
    BY <1>2, <1>3, <1>5, <2>1, <2>2 DEF Good, Conveyed, EventsGrow
<1>10. Written(s, f, j, z, c, over, running)
  <2>1. e.out \in Nat /\ f.out \in Nat /\ j.pending \in Nat /\ j.writes \in Nat
    <3>1. MaxWrites \in Nat
      BY BridgeAssumption
    <3> QED
      BY <3>1 DEF Good, Entry, Whatwg
  <2> DEFINE queued == Count(c, Item("Write", s))
  <2>2. e.out + queued + j.pending <= j.writes
    BY DEF Good, Written
  <2>5. queued \in Nat
    <3> DEFINE X == Command
    <3>1. c \in Seq(X)
      OBVIOUS
    <3> HIDE DEF X
    <3> QED
      BY <3>1, CountIsNat
  <2> HIDE DEF queued
  <2>3. f.out + queued + j.pending <= j.writes
    BY <2>1, <2>2, <2>5
  <2>4. j.writing /\ running => f.out > 0 \/ Has(z, {"WriteAck"}, s) \/ Has(c, {"Write"}, s)
    BY <1>3 DEF Good, Written, EventsGrow
  <2> QED
    BY <2>3, <2>4 DEF Good, Written, queued
<1> QED
  BY <1>7, <1>8, <1>9, <1>10 DEF Good, z

\* flush_stream keeps the invariant, and takes no more than QUIC has room for.
LEMMA FlushStreamGood ==
  ASSUME NEW s \in Stream, net[s].room \in 0 .. 1, NEW e, NEW n, NEW j, NEW w \in Seq(Event),
         NEW c \in Seq(Command), NEW over, NEW ended, NEW running, Good(s, e, n, j, w, c, over, ended, running)
  PROVE  LET p == FlushStream(s, e) IN
         /\ p.items \in Seq(Own(s)) /\ ~Has(p.items, Recv, s) /\ ~Has(p.items, {"StreamOpened"}, s)
         /\ p.entry.taken = e.taken
         /\ net[s].stop \/ e.out - p.entry.out \in 0 .. net[s].room
         /\ Good(s, p.entry, n, j, w \o p.items, c, over, ended, running)
<1> DEFINE p == FlushStream(s, e)
           m == Fits(s, e)
<1>1. e \in Entry /\ e.out \in Nat
  BY DEF Good, Entry
<1>2. "WriteAck" \in OfStream /\ "StreamStopSending" \in OfStream
      /\ "WriteAck" \notin Recv /\ "StreamStopSending" \notin Recv
  BY DEF OfStream, Recv
<1>3. ASSUME NEW k \in Nat
      PROVE  /\ Acks(s, k) \in Seq(Own(s)) /\ ~Has(Acks(s, k), Recv, s)
             /\ ~Has(Acks(s, k), {"Stream"}, s) /\ ~Has(Acks(s, k), {"StreamOpened"}, s)
             /\ Has(Acks(s, k), {"WriteAck"}, s) <=> k > 0
  <2> DEFINE r == [i \in 1 .. k |-> Item("WriteAck", s)]
  <2>1. /\ r \in Seq(Own(s))
        /\ \A T : Has(r, T, s) <=> k > 0 /\ "WriteAck" \in T
    <3>1. ASSUME NEW T
          PROVE  r \in Seq(Own(s)) /\ (Has(r, T, s) <=> k > 0 /\ "WriteAck" \in T)
      BY <1>2, EventRun
    <3> HIDE DEF r
    <3> QED
      BY <3>1
  <2>2. r = Acks(s, k)
    BY DEF Acks
  <2> HIDE DEF r
  <2> QED
    BY <1>2, <2>1, <2>2
<1>4. CASE ~e.present
  <2>1. p.items = <<>> /\ p.entry = e
    BY <1>4 DEF FlushStream, Quiet, Step
  <2>2. <<>> \in Seq(Own(s)) /\ w \o <<>> = w
    OBVIOUS
  <2>3. ~Has(<<>>, Recv, s) /\ ~Has(<<>>, {"StreamOpened"}, s)
    BY NoItem
  <2>4. e.out - e.out = 0 /\ 0 \in 0 .. net[s].room
    BY <1>1
  <2> HIDE DEF p
  <2> QED
    BY <2>1, <2>2, <2>3, <2>4 DEF p
<1>5. CASE e.present /\ net[s].stop /\ m > 0
  <2>0. e.out > 0
    BY <1>1, <1>5 DEF Fits
  <2> DEFINE f == [e EXCEPT !.out = 0, !.finSent = TRUE]
             q == <<Item("StreamStopSending", s)>>
             a == Acks(s, e.out)
             r == q \o a
  <2>1. p.entry = f /\ p.items = r
    BY <1>5 DEF FlushStream, Step
  <2>2. /\ f \in Entry /\ f.present /\ f.wanted = e.wanted /\ f.dead = e.dead
        /\ f.taken = e.taken /\ f.out = 0
    BY <1>1, <1>5 DEF Entry
  <2> HIDE DEF f
  <2>3. q \in Seq(Own(s)) /\ \A T : Has(q, T, s) <=> "StreamStopSending" \in T
    BY <1>2, OneEvent
  <2>4. /\ a \in Seq(Own(s)) /\ ~Has(a, Recv, s) /\ ~Has(a, {"Stream"}, s)
        /\ ~Has(a, {"StreamOpened"}, s) /\ Has(a, {"WriteAck"}, s)
    BY <1>1, <1>3, <2>0
  <2> HIDE DEF q, a
  <2> DEFINE X == Own(s)
  <2>5. q \in Seq(X) /\ a \in Seq(X)
    BY <2>3, <2>4
  <2> HIDE DEF X
  <2>6. r \in Seq(X) /\ \A T : Has(r, T, s) <=> Has(q, T, s) \/ Has(a, T, s)
    BY <2>5, ConcatProperties, HasConcat
  <2> HIDE DEF r
  <2>7. r \in Seq(Own(s))
    BY <2>6 DEF X
  <2>8. /\ ~Has(r, Recv, s) /\ ~Has(r, {"Stream"}, s) /\ ~Has(r, {"StreamOpened"}, s)
        /\ Has(r, {"WriteAck"}, s)
    BY <1>2, <2>3, <2>4, <2>6
  <2>9. Good(s, f, n, j, w \o r, c, over, ended, running)
    BY <1>1, <1>5, <2>2, <2>7, <2>8, AckedGood
  <2> HIDE DEF p
  <2> QED
    BY <1>5, <2>1, <2>2, <2>7, <2>8, <2>9 DEF p
<1>6. CASE e.present /\ ~(net[s].stop /\ m > 0)
  <2> DEFINE f == [e EXCEPT !.out = @ - m,
                            !.finSent = @ \/ (e.finQueued /\ m = e.out /\ ~net[s].stop)]
             r == Acks(s, m)
  <2>1. p.entry = f /\ p.items = r
    BY <1>6 DEF FlushStream, Step
  <2>2. m \in Nat /\ m <= e.out /\ e.out - m \in Nat /\ m <= net[s].room
    BY <1>1 DEF Fits
  <2> HIDE DEF m
  <2>3. /\ f \in Entry /\ f.present /\ f.wanted = e.wanted /\ f.dead = e.dead
        /\ f.taken = e.taken /\ f.out = e.out - m
    <3> DEFINE out == e.out - m
               sent == e.finSent \/ (e.finQueued /\ m = e.out /\ ~net[s].stop)
    <3>1. out \in Nat /\ sent \in BOOLEAN /\ f = [e EXCEPT !.out = out, !.finSent = sent]
      BY <1>1, <2>2 DEF Entry
    <3> HIDE DEF out, sent, f
    <3>2. f \in Entry /\ f.out = out
      BY <1>1, <3>1 DEF Entry
    <3>3. f.present = e.present /\ f.wanted = e.wanted
      BY <1>1, <3>1 DEF Entry
    <3>4. f.dead = e.dead /\ f.taken = e.taken
      BY <1>1, <3>1 DEF Entry
    <3> QED
      BY <1>6, <3>2, <3>3, <3>4 DEF out
  <2> HIDE DEF f
  <2>4. /\ r \in Seq(Own(s)) /\ ~Has(r, Recv, s) /\ ~Has(r, {"Stream"}, s)
        /\ ~Has(r, {"StreamOpened"}, s) /\ (Has(r, {"WriteAck"}, s) <=> m > 0)
    BY <1>3, <2>2
  <2> HIDE DEF r
  <2>5. f.out <= e.out /\ (f.out = e.out \/ Has(r, {"WriteAck"}, s))
    BY <1>1, <2>2, <2>3, <2>4
  <2>6. Good(s, f, n, j, w \o r, c, over, ended, running)
    BY <1>6, <2>3, <2>4, <2>5, AckedGood
  <2>7. e.out - f.out \in 0 .. net[s].room
    BY <1>1, <2>2, <2>3
  <2> HIDE DEF p
  <2> QED
    BY <2>1, <2>3, <2>4, <2>6, <2>7 DEF p
<1> QED
  BY <1>4, <1>5, <1>6

\* The session closes: every stream that the driver has is dead.
LEMMA ClosingGood ==
  ASSUME NEW s \in Stream, NEW e, NEW n, NEW j, NEW w, NEW c, NEW over, NEW ended,
         NEW running, Good(s, e, n, j, w, c, over, ended, running)
  PROVE  LET f == [e EXCEPT !.dead = e.present] IN
         f.taken = e.taken /\ f.out = e.out /\ Good(s, f, n, j, w, c, over, TRUE, running)
<1> DEFINE f == [e EXCEPT !.dead = e.present]
<1>1. e \in Entry
  BY DEF Good
<1>2. /\ f \in Entry /\ f.present = e.present /\ f.wanted = e.wanted /\ f.dead = e.present
      /\ f.out = e.out /\ f.taken = e.taken
  BY <1>1 DEF Entry
<1>3. e = NewNat \/ e = [NewNat EXCEPT !.wanted = TRUE] => f = e
  <2>1. e = NewNat \/ e = [NewNat EXCEPT !.wanted = TRUE] => e.present = FALSE /\ e.dead = FALSE
    BY DEF NewNat
  <2>2. e.present = FALSE /\ e.dead = FALSE => f = e
    BY <1>1 DEF Entry
  <2> HIDE DEF f
  <2> QED
    BY <2>1, <2>2
<1> HIDE DEF f
<1>4. s \in LocalStreams => Opening(s, f, n, j, w, c, over, TRUE)
  <2>1. SUFFICES ASSUME s \in LocalStreams PROVE Opening(s, f, n, j, w, c, over, TRUE)
    OBVIOUS
  <2>2. Opening(s, e, n, j, w, c, over, ended)
    BY <2>1 DEF Good
  <2> QED
    BY <1>2, <1>3, <2>2 DEF Opening
<1>5. s \in PeerStreams => Announced(s, f, j, w, c, over, TRUE)
  BY <1>2 DEF Good, Announced, Unannounced
<1>6. Conveyed(s, f, n, j, w, over, TRUE)
  <2>1. Coming(s, f, j, w, TRUE) => Coming(s, e, j, w, ended)
    BY DEF Coming, Unannounced
  <2> QED
    BY <1>2, <2>1 DEF Good, Conveyed
<1>7. Written(s, f, j, w, c, over, running)
  BY <1>2 DEF Good, Written
<1> QED
  BY <1>2, <1>4, <1>5, <1>6, <1>7 DEF Good, f

\* retain(), and a stream that becomes known to the peer.
LEMMA PruneGood ==
  ASSUME NEW s \in Stream, NEW e, NEW n, NEW j, NEW w, NEW c, NEW over, NEW ended,
         NEW running, Good(s, e, n, j, w, c, over, ended, running), NEW m \in Quic,
         m.buffered = n.buffered, m.sent = n.sent, m.fin = n.fin, m.reset = n.reset,
         m.known = (n.known \/ Prune(e).present)
  PROVE  /\ Prune(e).taken = e.taken /\ Prune(e).out = e.out
         /\ Good(s, Prune(e), m, j, w, c, over, ended, running)
<1> DEFINE f == Prune(e)
<1>1. e \in Entry /\ n \in Quic
  BY DEF Good
<1>2. /\ f \in Entry /\ f.wanted = e.wanted /\ f.dead = e.dead /\ f.out = e.out /\ f.taken = e.taken
  BY <1>1 DEF Entry, Prune
<1>3. /\ f.present => e.present
      /\ e.present => f.present \/ f.dead
      /\ ~e.dead => f = e
  BY <1>1 DEF Entry, Prune
<1> HIDE DEF f
<1>4. s \in LocalStreams => Opening(s, f, m, j, w, c, over, ended)
  <2>1. SUFFICES ASSUME s \in LocalStreams PROVE Opening(s, f, m, j, w, c, over, ended)
    OBVIOUS
  <2>2. Opening(s, e, n, j, w, c, over, ended)
    BY <2>1 DEF Good
  <2>3. m.known <=> n.known \/ f.present
    BY DEF f
  <2>4. e = NewNat \/ e.wanted => f = e /\ ~f.present /\ ~e.dead
    BY <1>3, <2>2 DEF Opening, NewNat
  <2> QED
    BY <1>2, <1>3, <2>2, <2>3, <2>4 DEF Opening
<1>5. s \in PeerStreams => Announced(s, f, j, w, c, over, ended)
  BY <1>2, <1>3 DEF Good, Announced, Unannounced
<1>6. Conveyed(s, f, m, j, w, over, ended)
  <2>1. Coming(s, f, j, w, ended) => Coming(s, e, j, w, ended)
    BY <1>2, <1>3 DEF Coming, Unannounced
  <2> QED
    BY <1>2, <2>1 DEF Good, Conveyed
<1>7. Written(s, f, j, w, c, over, running)
  BY <1>2 DEF Good, Written
<1> QED
  BY <1>2, <1>4, <1>5, <1>6, <1>7 DEF Good, f

-----------------------------------------------------------------------------
(* What is told of a stream, among what is told of others. *)

\* q is m, between sequences of X with no item of the types T about s.
Surrounded(q, m, s, X, T) ==
  \E a, b \in Seq(X) : q = Enclosed(a, m, b) /\ ~Has(a, T, s) /\ ~Has(b, T, s)

\* What several streams tell in one order: of each, its own items in one piece.
LEMMA ToldItems ==
  ASSUME NEW R \in SUBSET Stream, NEW order \in SetToSeqs(R), NEW steps, NEW T, NEW X,
         [type : T, stream : Stream] \subseteq X,
         \A t \in R : steps[t].items \in Seq([type : T, stream : {t}])
  PROVE  /\ Told(steps, order) \in Seq([type : T, stream : Stream])
         /\ \A s : s \notin R => ~Has(Told(steps, order), T, s)
         /\ \A s \in R : Surrounded(Told(steps, order), steps[s].items, s, X, T)
<1> DEFINE q == Told(steps, order)
           All == [type : T, stream : Stream]
<1>1. \A t \in R : steps[t].items \in Seq(All)
  <2>1. \A t \in R : [type : T, stream : {t}] \subseteq All
    OBVIOUS
  <2> HIDE DEF All
  <2> QED
    BY <2>1, SeqMonotonic
<1>2. ASSUME NEW s
      PROVE  /\ q \in Seq(All)
             /\ s \notin R => ~Has(q, T, s)
             /\ s \in R => Surrounded(q, steps[s].items, s, X, T)
  <2> DEFINE Y == {x \in All : x.stream # s}
  <2>1. Y \subseteq All /\ \A x \in Y : x.stream # s
    OBVIOUS
  <2>2. \A t \in R : t # s => steps[t].items \in Seq(Y)
    <3>1. \A t \in R : t # s => [type : T, stream : {t}] \subseteq Y
      OBVIOUS
    <3> HIDE DEF Y
    <3> QED
      BY <3>1, SeqMonotonic
  <2> HIDE DEF Y, All, q
  <2>3. /\ q \in Seq(All)
        /\ s \notin R => q \in Seq(Y)
        /\ s \in R => q \in Between(steps[s].items, Y)
    BY <1>1, <2>1, <2>2, ToldSplits DEF q
  <2>4. ASSUME NEW u \in Seq(Y) PROVE ~Has(u, T, s)
    BY <2>1, ElementOfSeq DEF Has
  <2>5. ASSUME s \in R PROVE Surrounded(q, steps[s].items, s, X, T)
    <3>1. PICK a, b \in Seq(Y) : q = Enclosed(a, steps[s].items, b)
      BY <2>3, <2>5 DEF Between
    <3>2. Y \subseteq X
      BY <2>1 DEF All
    <3>3. a \in Seq(X) /\ b \in Seq(X)
      BY <3>2, SeqMonotonic
    <3> QED
      BY <2>4, <3>1, <3>3 DEF Surrounded
  <2> QED
    BY <2>3, <2>4, <2>5
<1> HIDE DEF q
<1> QED
  BY <1>2 DEF q, All

\* What all streams tell, those with nothing to tell left out of the order.
LEMMA TellersTold ==
  ASSUME NEW steps, NEW order \in Orders(steps), NEW T, NEW X, [type : T, stream : Stream] \subseteq X,
         \A t \in Stream : steps[t].items \in Seq([type : T, stream : {t}])
  PROVE  /\ Told(steps, order) \in Seq([type : T, stream : Stream])
         /\ \A s \in Stream : steps[s].items = <<>> => ~Has(Told(steps, order), T, s)
         /\ \A s \in Stream : Surrounded(Told(steps, order), steps[s].items, s, X, T)
<1> DEFINE q == Told(steps, order)
           R == Tellers(steps)
           All == [type : T, stream : Stream]
<1>1. R \in SUBSET Stream /\ order \in SetToSeqs(R)
  BY DEF Tellers, Orders
<1>2. \A s \in Stream : s \in R <=> steps[s].items # <<>>
  BY DEF Tellers
<1> HIDE DEF R
<1>3. /\ q \in Seq(All)
      /\ \A s : s \notin R => ~Has(q, T, s)
      /\ \A s \in R : Surrounded(q, steps[s].items, s, X, T)
  BY <1>1, ToldItems
<1> HIDE DEF q
<1>4. q \in Seq(X)
  <2> HIDE DEF All
  <2>1. All \subseteq X
    BY DEF All
  <2> QED
    BY <1>3, <2>1, SeqMonotonic
<1>5. ASSUME NEW s \in Stream, s \notin R
      PROVE  Surrounded(q, steps[s].items, s, X, T)
  <2>1. ~Has(q, T, s) /\ ~Has(<<>>, T, s)
    BY <1>3, <1>5, NoItem
  <2>2. q \o <<>> = q /\ <<>> \in Seq(X)
    BY <1>4
  <2>3. q = Enclosed(q, <<>>, <<>>)
    BY <2>2 DEF Enclosed
  <2>4. Surrounded(q, <<>>, s, X, T)
    BY <1>4, <2>1, <2>2, <2>3 DEF Surrounded
  <2> QED
    BY <1>2, <1>5, <2>4
<1> QED
  BY <1>2, <1>3, <1>5 DEF q, All

\* The same of events, and of commands.
LEMMA ToldEvents ==
  ASSUME NEW steps, NEW order \in Orders(steps), \A t \in Stream : steps[t].items \in Seq(Own(t))
  PROVE  LET q == Told(steps, order) IN
         /\ q \in Seq(Event)
         /\ \A k : ~Has(q, {"Answer"}, k) /\ ~Has(q, {"Datagram"}, k)
         /\ \A s \in Stream : steps[s].items = <<>> => ~Has(q, OfStream, s)
         /\ \A s \in Stream : Surrounded(q, steps[s].items, s, Event, OfStream)
<1> DEFINE q == Told(steps, order)
           All == [type : OfStream, stream : Stream]
<1>1. All \subseteq Event
  BY DEF Event
<1>2. \A t \in Stream : steps[t].items \in Seq([type : OfStream, stream : {t}])
  BY DEF Own
<1>3. /\ q \in Seq(All)
      /\ \A s \in Stream : steps[s].items = <<>> => ~Has(q, OfStream, s)
      /\ \A s \in Stream : Surrounded(q, steps[s].items, s, Event, OfStream)
  <2>1. [type : OfStream, stream : Stream] \subseteq Event
    BY <1>1
  <2> QED
    BY <1>2, <2>1, TellersTold
<1>4. \A x \in All : x.type \notin {"Answer", "Datagram"}
  BY DEF OfStream, Recv
<1> HIDE DEF q, All
<1>5. q \in Seq(Event)
  BY <1>1, <1>3, SeqMonotonic
<1>6. \A k : ~Has(q, {"Answer"}, k) /\ ~Has(q, {"Datagram"}, k)
  BY <1>3, <1>4, ElementOfSeq DEF Has
<1> QED
  BY <1>3, <1>5, <1>6 DEF q

\* TellersTold, for the commands that the streams issue at the end of a turn.
LEMMA ToldCommands ==
  ASSUME NEW steps, NEW order \in Orders(steps),
         \A t \in Stream : steps[t].items \in Seq(OwnCommand(t))
  PROVE  LET q == Told(steps, order) IN
         /\ q \in Seq(Command)
         /\ \A k : \A T : T \cap ToStream = {} => ~Has(q, T, k)
         /\ \A s \in Stream : Surrounded(q, steps[s].items, s, Command, ToStream)
<1> DEFINE q == Told(steps, order)
           All == [type : ToStream, stream : Stream]
<1>1. All \subseteq Command
  BY DEF Command
<1>2. \A t \in Stream : steps[t].items \in Seq([type : ToStream, stream : {t}])
  BY DEF OwnCommand
<1>3. /\ q \in Seq(All)
      /\ \A s \in Stream : Surrounded(q, steps[s].items, s, Command, ToStream)
  <2>1. [type : ToStream, stream : Stream] \subseteq Command
    BY <1>1
  <2> QED
    BY <1>2, <2>1, TellersTold
<1>4. \A x \in All : x.type \in ToStream
  OBVIOUS
<1> HIDE DEF q, All
<1>5. q \in Seq(Command)
  BY <1>1, <1>3, SeqMonotonic
<1>6. \A k : \A T : T \cap ToStream = {} => ~Has(q, T, k)
  BY <1>3, <1>4, ElementOfSeq DEF Has
<1> QED
  BY <1>3, <1>5, <1>6 DEF q

\* What is surrounded says of s what it surrounds says.
LEMMA SurroundedHas ==
  ASSUME NEW X, NEW q, NEW m \in Seq(X), NEW s, NEW T, Surrounded(q, m, s, X, T),
         NEW U \in SUBSET T
  PROVE  Has(q, U, s) <=> Has(m, U, s)
<1>1. PICK a, b \in Seq(X) : q = Enclosed(a, m, b) /\ ~Has(a, T, s) /\ ~Has(b, T, s)
  BY DEF Surrounded
<1>2. ~Has(a, U, s) /\ ~Has(b, U, s)
  BY <1>1 DEF Has
<1>3. a \o m \in Seq(X)
  BY ConcatProperties
<1>4. Has(a \o m, U, s) <=> Has(a, U, s) \/ Has(m, U, s)
  BY HasConcat
<1> DEFINE u == a \o m
<1>5. u \in Seq(X) /\ (Has(u, U, s) <=> Has(m, U, s)) /\ q = u \o b
  BY <1>1, <1>2, <1>3, <1>4 DEF Enclosed
<1> HIDE DEF u
<1>6. Has(u \o b, U, s) <=> Has(u, U, s) \/ Has(b, U, s)
  BY <1>5, HasConcat
<1> QED
  BY <1>2, <1>5, <1>6

\* What is enclosed follows a queue piece by piece.
Piecewise(w, a, m, b) == w \o Enclosed(a, m, b) = ((w \o a) \o m) \o b

\* Appending a, m and b enclosed is appending them one by one.
LEMMA EnclosedAfter ==
  ASSUME NEW X, NEW w, NEW a, NEW m, NEW b,
         w \in Seq(X) /\ a \in Seq(X) /\ m \in Seq(X) /\ b \in Seq(X)
  PROVE  Piecewise(w, a, m, b)
<1> DEFINE am == a \o m
<1>1. am \in Seq(X)
  BY ConcatProperties
<1>2. (w \o a) \o m = w \o am
  BY Associative
<1> HIDE DEF am
<1>3. w \in Seq(X) /\ am \in Seq(X) /\ b \in Seq(X)
  BY <1>1
<1>4. (w \o am) \o b = w \o (am \o b)
  BY ONLY <1>3, Associative
<1>5. Enclosed(a, m, b) = am \o b
  BY DEF Enclosed, am
<1> QED
  BY <1>2, <1>4, <1>5 DEF Piecewise

\* A step of a stream that keeps its invariant keeps it among the events of others.
LEMMA AmongEvents ==
  ASSUME NEW s, NEW e, NEW n, NEW j, NEW w \in Seq(Event), NEW c, NEW over, NEW ended, NEW running,
         Good(s, e, n, j, w, c, over, ended, running), NEW f, NEW k, NEW m \in Seq(Event),
         \A v \in Seq(Event) : Good(s, e, n, j, v, c, over, ended, running)
                                 => Good(s, f, k, j, v \o m, c, over, ended, running),
         NEW q, Surrounded(q, m, s, Event, OfStream)
  PROVE  Good(s, f, k, j, w \o q, c, over, ended, running)
<1>1. PICK a, b \in Seq(Event) : q = Enclosed(a, m, b) /\ ~Has(a, OfStream, s) /\ ~Has(b, OfStream, s)
  BY DEF Surrounded
<1> DEFINE X == Event
           v1 == w \o a
           v2 == v1 \o m
           v3 == v2 \o b
<1>2. /\ w \in Seq(X) /\ a \in Seq(X) /\ m \in Seq(X) /\ b \in Seq(X)
  OBVIOUS
<1>3. Good(s, e, n, j, v1, c, over, ended, running)
  BY <1>1, ForeignEvents
<1> HIDE DEF X
<1>4. v1 \in Seq(X)
  BY <1>2, ConcatProperties
<1> HIDE DEF v1
<1>5. v2 \in Seq(X)
  BY <1>2, <1>4, ConcatProperties
<1>6. Good(s, f, k, j, v2, c, over, ended, running)
  BY <1>3, <1>4 DEF X
<1> HIDE DEF v2
<1>7. Good(s, f, k, j, v3, c, over, ended, running)
  BY <1>1, <1>5, <1>6, ForeignEvents DEF X
<1>8. v3 = w \o q
  <2>1. Piecewise(w, a, m, b)
    BY <1>2, EnclosedAfter
  <2> QED
    BY <1>1, <2>1 DEF v1, v2, Piecewise
<1> HIDE DEF v3
<1> QED
  BY <1>7, <1>8

\* The same of commands.
LEMMA AmongCommands ==
  ASSUME NEW s, NEW e, NEW n, NEW j, NEW w, NEW c \in Seq(Command), NEW over, NEW ended, NEW running,
         Good(s, e, n, j, w, c, over, ended, running), NEW k, NEW m \in Seq(Command),
         \A v \in Seq(Command) : Good(s, e, n, j, w, v, over, ended, running)
                                   => Good(s, e, n, k, w, v \o m, over, ended, running),
         NEW q, Surrounded(q, m, s, Command, ToStream)
  PROVE  Good(s, e, n, k, w, c \o q, over, ended, running)
<1>1. PICK a, b \in Seq(Command) : q = Enclosed(a, m, b) /\ ~Has(a, ToStream, s) /\ ~Has(b, ToStream, s)
  BY DEF Surrounded
<1> DEFINE X == Command
           v1 == c \o a
           v2 == v1 \o m
           v3 == v2 \o b
<1>2. /\ c \in Seq(X) /\ a \in Seq(X) /\ m \in Seq(X) /\ b \in Seq(X)
  OBVIOUS
<1>3. Good(s, e, n, j, w, v1, over, ended, running)
  BY <1>1, ForeignCommands
<1> HIDE DEF X
<1>4. v1 \in Seq(X)
  BY <1>2, ConcatProperties
<1> HIDE DEF v1
<1>5. v2 \in Seq(X)
  BY <1>2, <1>4, ConcatProperties
<1>6. Good(s, e, n, k, w, v2, over, ended, running)
  BY <1>3, <1>4 DEF X
<1> HIDE DEF v2
<1>7. Good(s, e, n, k, w, v3, over, ended, running)
  BY <1>1, <1>5, <1>6, ForeignCommands DEF X
<1>8. v3 = c \o q
  <2>1. Piecewise(c, a, m, b)
    BY <1>2, EnclosedAfter
  <2> QED
    BY <1>1, <2>1 DEF v1, v2, Piecewise
<1> HIDE DEF v3
<1> QED
  BY <1>7, <1>8

-----------------------------------------------------------------------------
(* DriverRun, for all streams at once: w is what is on its way before a stage, over is  *)
(* core.closed.                                                                         *)

\* What QUIC still has once the entry went from before to after.
Left(n, before, after) == [n EXCEPT !.buffered = @ - (after.taken - before.taken)]

\* The queues are typed, and nothing about requests or datagrams is in r.
OfStreams(r) ==
  r \in Seq(Event) /\ \A k : ~Has(r, {"Answer"}, k) /\ ~Has(r, {"Datagram"}, k)

\* Step 4: the streams are read in some order.
LEMMA ReadingGood ==
  ASSUME net \in [Stream -> Quic], NEW w \in Seq(Event), NEW reads \in Readings, NEW over,
         NEW order \in Orders(ReadAll(reads)),
         \A s \in Stream : Good(s, nat[s], net[s], js[s], w, cmds, over, closed, alive)
  PROVE  /\ OfStreams(Told(ReadAll(reads), order))
         /\ \A s \in Stream :
              LET f == ReadAll(reads)[s].entry
                  r == Told(ReadAll(reads), order)
              IN /\ ~Has(r, {"StreamOpened"}, s) /\ f.out = nat[s].out
                 /\ Has(r, Recv, s) /\ s \in LocalStreams => net[s].known
                 /\ Good(s, f, Left(net[s], nat[s], f), js[s], w \o r, cmds, over, closed, alive)
<1> DEFINE read == ReadAll(reads)
           r == Told(read, order)
           all == \A s \in Stream : Good(s, nat[s], net[s], js[s], w, cmds, over, closed, alive)
<1>1. reads \in SUBSET Stream /\ (reads # {} => ~closed /\ reads \subseteq Readable)
  BY DEF Readings, Readable
<1>2. all
  OBVIOUS
<1>3. /\ \A s \in reads : read[s] = OnReadable(s, nat[s])
      /\ \A s \in Stream \ reads : read[s] = Quiet(nat[s])
  BY <1>1 DEF ReadAll
<1> HIDE DEF read, all
<1>4. ASSUME NEW s \in reads, NEW v \in Seq(Event),
             Good(s, nat[s], net[s], js[s], v, cmds, over, closed, alive)
      PROVE  LET p == read[s] IN
             /\ p.items \in Seq(Own(s)) /\ ~Has(p.items, {"StreamOpened"}, s)
             /\ p.entry.out = nat[s].out
             /\ s \in LocalStreams => net[s].known
             /\ Good(s, p.entry, Left(net[s], nat[s], p.entry), js[s], v \o p.items, cmds, over,
                     closed, alive)
  <2>1. s \in Stream /\ s \in Readable /\ ~closed /\ net[s] \in Quic
    BY <1>1
  <2> DEFINE e == nat[s]
             p == OnReadable(s, e)
             m == [net[s] EXCEPT !.buffered = @ - (p.entry.taken - e.taken)]
  <2>2. read[s] = p
    BY <1>3
  <2>3. m = Left(net[s], nat[s], p.entry)
    BY DEF Left
  <2>4. Good(s, e, net[s], js[s], v, cmds, over, closed, alive)
    BY <1>4
  <2> HIDE DEF e
  <2>5. /\ p.items \in Seq(Own(s)) /\ ~Has(p.items, {"StreamOpened"}, s)
        /\ p.entry.out = e.out
        /\ s \in LocalStreams => net[s].known
        /\ Good(s, p.entry, m, js[s], v \o p.items, cmds, over, closed, alive)
    BY <2>1, <2>4, OnReadableGood
  <2> HIDE DEF p, m
  <2> QED
    BY <2>2, <2>3, <2>5 DEF e
<1>5. \A s \in reads : read[s].items \in Seq(Own(s))
  BY <1>1, <1>2, <1>4 DEF all
<1>6. /\ r \in Seq(Event)
      /\ \A k : ~Has(r, {"Answer"}, k) /\ ~Has(r, {"Datagram"}, k)
      /\ \A s \in Stream \ reads : ~Has(r, OfStream, s)
      /\ \A s \in reads : Surrounded(r, read[s].items, s, Event, OfStream)
  <2>1. \A s \in Stream \ reads : read[s].items = <<>>
    <3>1. ASSUME NEW s \in Stream \ reads PROVE read[s].items = <<>>
      <4>1. read[s] = Quiet(nat[s])
        BY <1>3
      <4>2. Quiet(nat[s]).items = <<>>
        BY DEF Quiet, Step
      <4> QED
        BY <4>1, <4>2
    <3> QED
      BY <3>1
  <2>2. \A s \in Stream : read[s].items \in Seq(Own(s))
    <3>1. \A s \in Stream : <<>> \in Seq(Own(s))
      OBVIOUS
    <3> QED
      BY <1>5, <2>1, <3>1
  <2>3. order \in Orders(read)
    BY DEF read
  <2> QED
    BY <1>1, <2>1, <2>2, <2>3, ToldEvents
<1> HIDE DEF r
<1>7. ASSUME NEW s \in Stream
      PROVE  LET f == read[s].entry IN
             /\ ~Has(r, {"StreamOpened"}, s) /\ f.out = nat[s].out
             /\ Has(r, Recv, s) /\ s \in LocalStreams => net[s].known
             /\ Good(s, f, Left(net[s], nat[s], f), js[s], w \o r, cmds, over, closed, alive)
  <2> DEFINE f == read[s].entry
             i == read[s].items
             m == Left(net[s], nat[s], f)
  <2>1. Good(s, nat[s], net[s], js[s], w, cmds, over, closed, alive)
    BY <1>2 DEF all
  <2>2. CASE s \in reads
    <3>1. i \in Seq(Own(s)) /\ i \in Seq(Event)
      BY <1>5, <2>2, OwnItems
    <3>2. /\ ~Has(i, {"StreamOpened"}, s) /\ f.out = nat[s].out
          /\ s \in LocalStreams => net[s].known
      BY <1>4, <2>1, <2>2
    <3>3. \A v \in Seq(Event) : Good(s, nat[s], net[s], js[s], v, cmds, over, closed, alive)
                                  => Good(s, f, m, js[s], v \o i, cmds, over, closed, alive)
      BY <1>4, <2>2
    <3>4. Surrounded(r, i, s, Event, OfStream)
      BY <1>6, <2>2
    <3> HIDE DEF f, i, m
    <3>5. Good(s, f, m, js[s], w \o r, cmds, over, closed, alive)
      BY <2>1, <3>1, <3>3, <3>4, AmongEvents
    <3>6. {"StreamOpened"} \in SUBSET OfStream
      BY DEF OfStream
    <3>7. ~Has(r, {"StreamOpened"}, s)
      BY <3>1, <3>2, <3>4, <3>6, SurroundedHas
    <3> QED
      BY <3>2, <3>5, <3>7 DEF f, m
  <2>3. CASE s \notin reads
    <3>1. f = nat[s]
      <4>1. read[s] = Quiet(nat[s])
        BY <1>3, <2>3
      <4>2. Quiet(nat[s]).entry = nat[s]
        BY DEF Quiet, Step
      <4> QED
        BY <4>1, <4>2
    <3>2. ~Has(r, OfStream, s)
      BY <1>6, <2>3
    <3>3. ~Has(r, {"StreamOpened"}, s) /\ ~Has(r, Recv, s)
      BY <3>2, HasLess
    <3>4. Good(s, nat[s], net[s], js[s], w \o r, cmds, over, closed, alive)
      BY <1>6, <2>1, <3>2, ForeignEvents
    <3>5. Left(net[s], nat[s], nat[s]) = net[s]
      <4>1. nat[s].taken \in Nat /\ net[s] \in Quic /\ net[s].buffered \in Nat
        BY <2>1 DEF Good, Entry, Quic
      <4>2. net[s].buffered - (nat[s].taken - nat[s].taken) = net[s].buffered
        BY <4>1
      <4>3. Left(net[s], nat[s], nat[s]) = [net[s] EXCEPT !.buffered = net[s].buffered]
        BY <4>2 DEF Left
      <4> QED
        BY <4>1, <4>3 DEF Quic
    <3> QED
      BY <3>1, <3>3, <3>4, <3>5
  <2> QED
    BY <2>2, <2>3
<1> QED
  BY <1>6, <1>7 DEF r, read, OfStreams

\* When the step of every stream keeps the stream's invariant, all steps together do.
LEMMA StepsGood ==
  ASSUME NEW w \in Seq(Event), NEW st, NEW m, NEW over, NEW ended,
         NEW steps, NEW order \in Orders(steps), \A s \in Stream : steps[s].items \in Seq(Own(s)),
         \A s \in Stream : Good(s, st[s], m[s], js[s], w, cmds, over, ended, alive),
         \A s \in Stream : \A v \in Seq(Event) :
            Good(s, st[s], m[s], js[s], v, cmds, over, ended, alive)
              => Good(s, steps[s].entry, m[s], js[s], v \o steps[s].items, cmds, over, ended, alive)
  PROVE  LET r == Told(steps, order) IN
         /\ OfStreams(r)
         /\ \A s \in Stream : \A U \in SUBSET OfStream : Has(r, U, s) <=> Has(steps[s].items, U, s)
         /\ \A s \in Stream :
              Good(s, steps[s].entry, m[s], js[s], w \o r, cmds, over, ended, alive)
<1> DEFINE r == Told(steps, order)
<1>1. /\ r \in Seq(Event)
      /\ \A k : ~Has(r, {"Answer"}, k) /\ ~Has(r, {"Datagram"}, k)
      /\ \A s \in Stream : Surrounded(r, steps[s].items, s, Event, OfStream)
  BY ToldEvents
<1> HIDE DEF r
<1>2. ASSUME NEW s \in Stream
      PROVE  /\ \A U \in SUBSET OfStream : Has(r, U, s) <=> Has(steps[s].items, U, s)
             /\ Good(s, steps[s].entry, m[s], js[s], w \o r, cmds, over, ended, alive)
  <2> DEFINE i == steps[s].items
             e == st[s]
             f == steps[s].entry
             k == m[s]
  <2>1. i \in Seq(Event)
    <3>1. i \in Seq(Own(s))
      OBVIOUS
    <3> HIDE DEF i
    <3> QED
      BY <3>1, OwnItems
  <2>2. Surrounded(r, i, s, Event, OfStream)
    BY <1>1
  <2>3. Good(s, e, k, js[s], w, cmds, over, ended, alive)
    OBVIOUS
  <2>4. \A v \in Seq(Event) : Good(s, e, k, js[s], v, cmds, over, ended, alive)
                                => Good(s, f, k, js[s], v \o i, cmds, over, ended, alive)
    OBVIOUS
  <2> HIDE DEF i, e, f, k
  <2>5. \A U \in SUBSET OfStream : Has(r, U, s) <=> Has(i, U, s)
    BY <2>1, <2>2, SurroundedHas
  <2>6. Good(s, f, k, js[s], w \o r, cmds, over, ended, alive)
    BY <2>1, <2>2, <2>3, <2>4, AmongEvents
  <2> QED
    BY <2>5, <2>6 DEF i, f, k
<1> QED
  BY <1>1, <1>2 DEF r, OfStreams

\* The invariant of all streams, when the driver's entries are st and QUIC's are m.
AllGood(st, m, w, over, ended) ==
  \A s \in Stream : Good(s, st[s], m[s], js[s], w, cmds, over, ended, alive)

\* WtSession.closed after the iteration.
Ended == closed \/ Ends

\* Step 5: the session is closed, or the waiting opens are released.
LEMMA ReadyGood ==
  ASSUME NEW w \in Seq(Event), NEW st, NEW order \in Orders(CloseOrRelease(st)), NEW m, NEW over,
         closed \in BOOLEAN, closing \in BOOLEAN, AllGood(st, m, w, over, closed)
  PROVE  LET r == Told(CloseOrRelease(st), order) IN
         /\ OfStreams(r)
         /\ \A s \in Stream :
              LET f == CloseOrRelease(st)[s].entry IN
              /\ ~Has(r, Recv, s)
              /\ Has(r, {"StreamOpened"}, s) => ~m[s].known
              /\ f.out = st[s].out /\ f.taken = st[s].taken
              /\ Good(s, f, m[s], js[s], w \o r, cmds, over, Ended, alive)
<1> DEFINE ready == CloseOrRelease(st)
           r == Told(ready, order)
           dead == [s \in Stream |-> IF Ends THEN [st[s] EXCEPT !.dead = st[s].present] ELSE st[s]]
           ended == Ended
           all == \A s \in Stream : Good(s, st[s], m[s], js[s], w, cmds, over, closed, alive)
<1>0. all
  BY DEF AllGood
<1>1. \A s \in Stream : /\ Ends => ready[s] = Quiet(dead[s])
                        /\ ~Ends => ready[s] = Release(s, st[s]) /\ dead[s] = st[s]
  BY DEF CloseOrRelease
<1>2. \A s \in Stream : Ends => dead[s] = [st[s] EXCEPT !.dead = st[s].present]
  OBVIOUS
<1>3. /\ ended \in BOOLEAN /\ (~Ends => ended = closed) /\ (Ends => ended = TRUE)
      /\ order \in Orders(ready)
  BY DEF Ends, Ended
<1> HIDE DEF ready, dead, all, ended
<1>4. ASSUME NEW s \in Stream
      PROVE  /\ Good(s, dead[s], m[s], js[s], w, cmds, over, ended, alive)
             /\ dead[s].out = st[s].out /\ dead[s].taken = st[s].taken
  <2>1. Good(s, st[s], m[s], js[s], w, cmds, over, closed, alive)
    BY <1>0 DEF all
  <2>2. CASE Ends
    <3> DEFINE e == st[s]
               f == [e EXCEPT !.dead = e.present]
               k == m[s]
    <3>1. dead[s] = f
      BY <1>2, <2>2
    <3>2. Good(s, e, k, js[s], w, cmds, over, closed, alive)
      BY <2>1
    <3> HIDE DEF e, k
    <3>3. f.taken = e.taken /\ f.out = e.out /\ Good(s, f, k, js[s], w, cmds, over, TRUE, alive)
      BY <3>2, ClosingGood
    <3> HIDE DEF f
    <3> QED
      BY <1>3, <2>2, <3>1, <3>3 DEF e, k
  <2>3. CASE ~Ends
    BY <1>1, <1>3, <2>1, <2>3
  <2> QED
    BY <2>2, <2>3
<1>5. ASSUME NEW s \in Stream, NEW v \in Seq(Event),
             Good(s, dead[s], m[s], js[s], v, cmds, over, ended, alive)
      PROVE  LET p == ready[s] IN
             /\ p.items \in Seq(Own(s)) /\ ~Has(p.items, Recv, s)
             /\ Has(p.items, {"StreamOpened"}, s) => ~m[s].known
             /\ p.entry.out = dead[s].out /\ p.entry.taken = dead[s].taken
             /\ Good(s, p.entry, m[s], js[s], v \o p.items, cmds, over, ended, alive)
  <2>1. CASE Ends
    <3>1. ready[s].items = <<>> /\ ready[s].entry = dead[s]
      <4>1. ready[s] = Quiet(dead[s])
        BY <1>1, <2>1
      <4>2. Quiet(dead[s]).items = <<>> /\ Quiet(dead[s]).entry = dead[s]
        BY DEF Quiet, Step
      <4> QED
        BY <4>1, <4>2
    <3>2. <<>> \in Seq(Own(s)) /\ v \o <<>> = v
      OBVIOUS
    <3>3. ~Has(<<>>, Recv, s) /\ ~Has(<<>>, {"StreamOpened"}, s)
      BY NoItem
    <3> QED
      BY <1>5, <3>1, <3>2, <3>3
  <2>2. CASE ~Ends
    <3> DEFINE e == st[s]
               k == m[s]
               p == Release(s, e)
    <3>1. ready[s] = p /\ dead[s] = e
      BY <1>1, <2>2
    <3>2. Good(s, e, k, js[s], v, cmds, over, closed, alive)
      BY <1>3, <1>5, <2>2, <3>1
    <3> HIDE DEF e, k
    <3>3. /\ p.items \in Seq(Own(s)) /\ ~Has(p.items, Recv, s)
          /\ Has(p.items, {"StreamOpened"}, s) => ~k.known
          /\ p.entry.out = e.out /\ p.entry.taken = e.taken
          /\ Good(s, p.entry, k, js[s], v \o p.items, cmds, over, closed, alive)
      BY <3>2, ReleaseGood
    <3> HIDE DEF p
    <3> QED
      BY <1>3, <2>2, <3>1, <3>3 DEF k
  <2> QED
    BY <2>1, <2>2
<1>6. \A s \in Stream : /\ ready[s].items \in Seq(Own(s)) /\ ~Has(ready[s].items, Recv, s)
                        /\ Has(ready[s].items, {"StreamOpened"}, s) => ~m[s].known
                        /\ ready[s].entry.out = dead[s].out /\ ready[s].entry.taken = dead[s].taken
  BY <1>4, <1>5
<1>7. /\ OfStreams(r)
      /\ \A s \in Stream : \A U \in SUBSET OfStream : Has(r, U, s) <=> Has(ready[s].items, U, s)
      /\ \A s \in Stream :
           Good(s, ready[s].entry, m[s], js[s], w \o r, cmds, over, ended, alive)
  <2>1. \A s \in Stream : Good(s, dead[s], m[s], js[s], w, cmds, over, ended, alive)
    BY <1>4
  <2>2. \A s \in Stream : \A v \in Seq(Event) :
            Good(s, dead[s], m[s], js[s], v, cmds, over, ended, alive)
              => Good(s, ready[s].entry, m[s], js[s], v \o ready[s].items, cmds, over, ended, alive)
    BY <1>5
  <2> QED
    BY <1>3, <1>6, <2>1, <2>2, StepsGood
<1>8. Recv \in SUBSET OfStream /\ {"StreamOpened"} \in SUBSET OfStream
  BY DEF OfStream
<1> HIDE DEF r
<1> QED
  BY <1>4, <1>6, <1>7, <1>8 DEF r, ready, ended

\* What QUIC holds after an iteration, field by field.
LEMMA AfterReadFields ==
  ASSUME NEW n \in Quic, NEW e, NEW f, e.taken \in Nat, f.taken \in Nat, e.out \in Nat, f.out \in Nat,
         n.buffered - (f.taken - e.taken) \in Nat, f.present \in BOOLEAN,
         n.stop \/ e.out - f.out \in 0 .. n.room
  PROVE  LET m == AfterRead(n, e, f) IN
         /\ m \in Quic
         /\ m.buffered = n.buffered - (f.taken - e.taken)
         /\ m.sent = n.sent /\ m.fin = n.fin /\ m.reset = n.reset
         /\ m.known = (n.known \/ f.present)
<1> DEFINE buffered == n.buffered - (f.taken - e.taken)
           spent == IF e.out > f.out /\ ~n.stop THEN e.out - f.out ELSE 0
           room == n.room - spent
           known == n.known \/ f.present
           m == [n EXCEPT !.buffered = buffered, !.room = room, !.known = known]
<1>1. AfterRead(n, e, f) = m
  BY DEF AfterRead
<1>2. buffered \in Nat
  OBVIOUS
<1>3. room \in 0 .. 1
  <2>1. n.room \in 0 .. 1 /\ n.stop \in BOOLEAN
    BY DEF Quic
  <2>2. spent \in 0 .. n.room
    BY <2>1
  <2> HIDE DEF spent
  <2> QED
    BY <2>1, <2>2
<1>4. known \in BOOLEAN
  BY DEF Quic
<1> HIDE DEF buffered, room, known, m
<1>5. m \in Quic /\ m.buffered = buffered /\ m.known = known
  BY <1>2, <1>3, <1>4 DEF m, Quic
<1>6. m.sent = n.sent /\ m.fin = n.fin /\ m.reset = n.reset
  BY DEF m, Quic
<1> QED
  BY <1>1, <1>5, <1>6 DEF buffered, known

\* Step 6: every stream is flushed, and finished entries go.
LEMMA FlushedGood ==
  ASSUME net \in [Stream -> Quic], nat \in [Stream -> Entry], cmds \in Seq(Command),
         NEW w \in Seq(Event), NEW st, NEW order \in Orders(FlushAll(st)), NEW m, NEW over, NEW ended,
         \A s \in Stream : Good(s, st[s], m[s], js[s], w, cmds, over, ended, alive),
         \A s \in Stream : m[s] = Left(net[s], nat[s], st[s]) /\ st[s].out = nat[s].out
  PROVE  LET r == Told(FlushAll(st), order) IN
         /\ OfStreams(r)
         /\ \A s \in Stream :
              LET f == Prune(FlushAll(st)[s].entry) IN
              /\ ~Has(r, Recv, s) /\ ~Has(r, {"StreamOpened"}, s)
              /\ Good(s, f, AfterRead(net[s], nat[s], f), js[s], w \o r, cmds, over, ended, alive)
<1> DEFINE flushed == FlushAll(st)
           r == Told(flushed, order)
           all == \A s \in Stream : Good(s, st[s], m[s], js[s], w, cmds, over, ended, alive)
           left == \A s \in Stream : m[s] = Left(net[s], nat[s], st[s]) /\ st[s].out = nat[s].out
<1>1. all /\ left
  OBVIOUS
<1>2. order \in Orders(flushed) /\ \A s \in Stream : flushed[s] = FlushStream(s, st[s])
  BY DEF FlushAll
<1> HIDE DEF flushed, all, left
<1>3. ASSUME NEW s \in Stream, NEW v \in Seq(Event),
             Good(s, st[s], m[s], js[s], v, cmds, over, ended, alive)
      PROVE  LET p == flushed[s] IN
             /\ p.items \in Seq(Own(s)) /\ ~Has(p.items, Recv, s) /\ ~Has(p.items, {"StreamOpened"}, s)
             /\ p.entry.taken = st[s].taken
             /\ net[s].stop \/ st[s].out - p.entry.out \in 0 .. net[s].room
             /\ Good(s, p.entry, m[s], js[s], v \o p.items, cmds, over, ended, alive)
  <2> DEFINE e == st[s]
             k == m[s]
             p == FlushStream(s, e)
  <2>1. flushed[s] = p
    BY <1>2
  <2>2. Good(s, e, k, js[s], v, cmds, over, ended, alive)
    BY <1>3
  <2>3. net[s] \in Quic
    OBVIOUS
  <2>4. net[s].room \in 0 .. 1
    BY <2>3 DEF Quic
  <2> HIDE DEF e, k
  <2>5. /\ p.items \in Seq(Own(s)) /\ ~Has(p.items, Recv, s) /\ ~Has(p.items, {"StreamOpened"}, s)
        /\ p.entry.taken = e.taken
        /\ net[s].stop \/ e.out - p.entry.out \in 0 .. net[s].room
        /\ Good(s, p.entry, k, js[s], v \o p.items, cmds, over, ended, alive)
    BY <2>2, <2>4, FlushStreamGood
  <2> HIDE DEF p
  <2> QED
    BY <2>1, <2>5 DEF e, k
<1>4. \A s \in Stream :
         /\ flushed[s].items \in Seq(Own(s)) /\ ~Has(flushed[s].items, Recv, s)
         /\ ~Has(flushed[s].items, {"StreamOpened"}, s)
         /\ flushed[s].entry.taken = st[s].taken
         /\ net[s].stop \/ st[s].out - flushed[s].entry.out \in 0 .. net[s].room
  BY <1>1, <1>3 DEF all
<1>5. /\ OfStreams(r)
      /\ \A s \in Stream : \A U \in SUBSET OfStream : Has(r, U, s) <=> Has(flushed[s].items, U, s)
      /\ \A s \in Stream :
           Good(s, flushed[s].entry, m[s], js[s], w \o r, cmds, over, ended, alive)
  <2>1. \A s \in Stream : Good(s, st[s], m[s], js[s], w, cmds, over, ended, alive)
    BY <1>1 DEF all
  <2>2. \A s \in Stream : \A v \in Seq(Event) :
            Good(s, st[s], m[s], js[s], v, cmds, over, ended, alive)
              => Good(s, flushed[s].entry, m[s], js[s], v \o flushed[s].items, cmds, over, ended, alive)
    BY <1>3
  <2> QED
    BY <1>2, <1>4, <2>1, <2>2, StepsGood
<1>6. Recv \in SUBSET OfStream /\ {"StreamOpened"} \in SUBSET OfStream
  BY DEF OfStream
<1> HIDE DEF r
<1>7. ASSUME NEW s \in Stream
      PROVE  LET f == Prune(flushed[s].entry) IN
             Good(s, f, AfterRead(net[s], nat[s], f), js[s], w \o r, cmds, over, ended, alive)
  <2> DEFINE e == flushed[s].entry
             f == Prune(e)
             k == m[s]
             n == AfterRead(net[s], nat[s], f)
             z == w \o r
  <2>1. Good(s, e, k, js[s], z, cmds, over, ended, alive)
    BY <1>5
  <2>2. net[s] \in Quic /\ nat[s] \in Entry
    OBVIOUS
  <2>3. k = Left(net[s], nat[s], st[s]) /\ st[s].out = nat[s].out
    BY <1>1 DEF left
  <2>4. e.taken = st[s].taken /\ (net[s].stop \/ nat[s].out - e.out \in 0 .. net[s].room)
    BY <1>4, <2>3
  <2> HIDE DEF e, k, z
  <2>5. e \in Entry /\ k \in Quic
    BY <2>1 DEF Good
  <2>6. f \in Entry /\ f.taken = e.taken /\ f.out = e.out
    BY <2>5 DEF Prune, Entry
  <2>7. /\ k.buffered = net[s].buffered - (e.taken - nat[s].taken)
        /\ k.sent = net[s].sent /\ k.fin = net[s].fin /\ k.reset = net[s].reset /\ k.known = net[s].known
    BY <2>2, <2>3, <2>4 DEF Left, Quic
  <2>8. /\ n \in Quic
        /\ n.buffered = net[s].buffered - (f.taken - nat[s].taken)
        /\ n.sent = net[s].sent /\ n.fin = net[s].fin /\ n.reset = net[s].reset
        /\ n.known = (net[s].known \/ f.present)
    <3>1. /\ nat[s].taken \in Nat /\ f.taken \in Nat /\ nat[s].out \in Nat /\ f.out \in Nat
          /\ f.present \in BOOLEAN
      BY <2>2, <2>6 DEF Entry
    <3>2. net[s].buffered - (f.taken - nat[s].taken) \in Nat
      BY <2>5, <2>6, <2>7 DEF Quic
    <3>3. net[s].stop \/ nat[s].out - f.out \in 0 .. net[s].room
      BY <2>4, <2>6
    <3> HIDE DEF f
    <3> QED
      BY <2>2, <3>1, <3>2, <3>3, AfterReadFields
  <2> HIDE DEF n
  <2>9. /\ n.buffered = k.buffered /\ n.sent = k.sent /\ n.fin = k.fin /\ n.reset = k.reset
        /\ n.known = (k.known \/ Prune(e).present)
    BY <2>6, <2>7, <2>8
  <2>10. Good(s, Prune(e), n, js[s], z, cmds, over, ended, alive)
    BY <2>1, <2>8, <2>9, PruneGood
  <2> QED
    BY <2>10 DEF n, e, z
<1> QED
  BY <1>4, <1>5, <1>6, <1>7 DEF r, flushed

\* The events of an iteration that are not about a stream.
DatagramEvents == [i \in 1 .. OnDatagrams |-> Item("Datagram", "session")]
ClosedEvents == IF Ends THEN <<Item("Closed", "session")>> ELSE <<>>

\* An iteration's events of the session: only datagrams it took, and Closed.
LEMMA SessionEvents ==
  ASSUME dgram \in Dgrams
  PROVE  /\ OnDatagrams \in 0 .. dgram.buffered
         /\ DatagramEvents \in Seq(Event) /\ ClosedEvents \in Seq(Event)
         /\ \A s \in Stream : ~Has(DatagramEvents, OfStream, s) /\ ~Has(ClosedEvents, OfStream, s)
         /\ Count(DatagramEvents, Item("Datagram", "session")) = OnDatagrams
         /\ OfStreams(ClosedEvents)
<1>1. OnDatagrams \in 0 .. dgram.buffered /\ OnDatagrams \in Nat
  BY DEF OnDatagrams, Dgrams
<1> DEFINE x == Item("Datagram", "session")
           y == Item("Closed", "session")
           X == Event
           r == [i \in 1 .. OnDatagrams |-> x]
<1>2. /\ x.type = "Datagram" /\ x \in X /\ y.type = "Closed" /\ y \in X
      /\ "Datagram" \notin OfStream /\ "Closed" \notin OfStream
  BY DEF Item, Event, OfStream, Recv
<1> HIDE DEF x, y, X
<1>3. /\ r \in Seq(X) /\ \A s : ~Has(r, OfStream, s) /\ Count(r, x) = OnDatagrams
  <2>1. ASSUME NEW s
        PROVE  /\ r \in Seq(X)
               /\ Has(r, OfStream, s) <=> OnDatagrams > 0 /\ x.type \in OfStream /\ x.stream = s
    BY <1>1, <1>2, RunOfItems
  <2>2. Count(r, x) = OnDatagrams
    BY <1>1, <1>2, CountOfRun
  <2> HIDE DEF r
  <2> QED
    BY <1>2, <2>1, <2>2
<1>4. /\ <<y>> \in Seq(X) /\ <<>> \in Seq(X)
      /\ \A T, s : ~Has(<<>>, T, s)
      /\ \A T, s : Has(<<y>>, T, s) <=> y.type \in T /\ y.stream = s
  <2>1. <<y>> \in Seq(X) /\ <<>> \in Seq(X)
    BY <1>2
  <2> QED
    BY <2>1, NoItem, OneItem
<1>5. ClosedEvents \in Seq(X) /\ \A T, s : "Closed" \notin T => ~Has(ClosedEvents, T, s)
  BY <1>2, <1>4 DEF ClosedEvents, y
<1>6. DatagramEvents = r
  BY DEF DatagramEvents, r, x
<1> HIDE DEF r
<1> QED
  BY <1>1, <1>2, <1>3, <1>5, <1>6 DEF X, x, OfStreams

\* Steps 4 to 6 in their order, up to the end of the batch.
LEMMA StagesGood ==
  ASSUME Inv, NEW reads \in Readings, NEW reading \in Orders(ReadAll(reads)),
         NEW opening \in Orders(CloseOrRelease(Entries(ReadAll(reads)))),
         NEW flushing \in Orders(FlushAll(Entries(CloseOrRelease(Entries(ReadAll(reads))))))
  PROVE  LET read == ReadAll(reads)
             ready == CloseOrRelease(Entries(read))
             flushed == FlushAll(Entries(ready))
             r1 == Told(read, reading)
             r2 == Told(ready, opening)
             r3 == Told(flushed, flushing)
             w == ((((InTransit \o DatagramEvents) \o r1) \o ClosedEvents) \o r2) \o r3
         IN /\ OfStreams(r1) /\ OfStreams(r2) /\ OfStreams(r3)
            /\ \A s \in Stream :
                 LET f == Prune(flushed[s].entry) IN
                 /\ ~Has(r1, {"StreamOpened"}, s) /\ ~Has(r2, Recv, s)
                 /\ ~Has(r3, Recv, s) /\ ~Has(r3, {"StreamOpened"}, s)
                 /\ Has(r1, Recv, s) /\ s \in LocalStreams => net[s].known
                 /\ Has(r2, {"StreamOpened"}, s) => ~net[s].known
                 /\ Good(s, f, AfterRead(net[s], nat[s], f), js[s], w, cmds, core.closed,
                         Ended, alive)
<1> DEFINE read == ReadAll(reads)
           ready == CloseOrRelease(Entries(read))
           flushed == FlushAll(Entries(ready))
           r1 == Told(read, reading)
           r2 == Told(ready, opening)
           r3 == Told(flushed, flushing)
           w0 == InTransit
           w1 == w0 \o DatagramEvents
           w2 == w1 \o r1
           w3 == w2 \o ClosedEvents
           w4 == w3 \o r2
           w5 == w4 \o r3
           over == core.closed
           m == [s \in Stream |-> Left(net[s], nat[s], read[s].entry)]
           st1 == Entries(read)
           st2 == Entries(ready)
           ended == Ended
<1>0. opening \in Orders(CloseOrRelease(st1)) /\ flushing \in Orders(FlushAll(st2))
  OBVIOUS
<1>1. /\ net \in [Stream -> Quic] /\ nat \in [Stream -> Entry] /\ cmds \in Seq(Command)
      /\ closed \in BOOLEAN /\ closing \in BOOLEAN /\ dgram \in Dgrams
  BY DEF Inv, Session
<1>2. w0 \in Seq(Event)
  <2> DEFINE X == Event
  <2>1. batches \in Seq(Seq(X)) /\ evs \in Seq(X)
    BY DEF Inv
  <2> HIDE DEF X
  <2>2. FlattenSeq(batches) \in Seq(X)
    BY <2>1, FlattenTyped
  <2> QED
    BY <2>1, <2>2, ConcatProperties DEF InTransit, X
<1>3. \A s \in Stream : Good(s, nat[s], net[s], js[s], w0, cmds, over, closed, alive)
  BY DEF Inv
<1>4. /\ DatagramEvents \in Seq(Event) /\ ClosedEvents \in Seq(Event)
      /\ \A s \in Stream : ~Has(DatagramEvents, OfStream, s) /\ ~Has(ClosedEvents, OfStream, s)
  BY <1>1, SessionEvents
<1> HIDE DEF w0, over
<1>5. w1 \in Seq(Event) /\ \A s \in Stream : Good(s, nat[s], net[s], js[s], w1, cmds, over, closed, alive)
  <2>1. w1 \in Seq(Event)
    BY <1>2, <1>4, EventsConcat
  <2>2. \A s \in Stream : Good(s, nat[s], net[s], js[s], w1, cmds, over, closed, alive)
    BY <1>2, <1>3, <1>4, ForeignEvents
  <2> QED
    BY <2>1, <2>2
<1> HIDE DEF w1
<1>6. /\ OfStreams(r1)
      /\ \A s \in Stream :
            /\ ~Has(r1, {"StreamOpened"}, s) /\ read[s].entry.out = nat[s].out
            /\ Has(r1, Recv, s) /\ s \in LocalStreams => net[s].known
            /\ Good(s, read[s].entry, m[s], js[s], w2, cmds, over, closed, alive)
  <2>1. /\ OfStreams(r1)
        /\ \A s \in Stream :
              LET f == read[s].entry IN
              /\ ~Has(r1, {"StreamOpened"}, s) /\ f.out = nat[s].out
              /\ Has(r1, Recv, s) /\ s \in LocalStreams => net[s].known
              /\ Good(s, f, Left(net[s], nat[s], f), js[s], w2, cmds, over, closed, alive)
    BY <1>1, <1>5, ReadingGood
  <2>2. \A s \in Stream : m[s] = Left(net[s], nat[s], read[s].entry)
    OBVIOUS
  <2> HIDE DEF read, r1, w2, m
  <2> QED
    BY <2>1, <2>2
<1>7. \A s \in Stream : m[s] = Left(net[s], nat[s], read[s].entry) /\ st1[s] = read[s].entry
  BY DEF Entries
<1> HIDE DEF read, r1, m, st1
<1>8. w2 \in Seq(Event)
  BY <1>5, <1>6, EventsConcat DEF OfStreams
<1> HIDE DEF w2
<1>9. w3 \in Seq(Event) /\ \A s \in Stream : Good(s, st1[s], m[s], js[s], w3, cmds, over, closed, alive)
  <2>1. w3 \in Seq(Event)
    BY <1>4, <1>8, EventsConcat
  <2>2. \A s \in Stream : Good(s, st1[s], m[s], js[s], w3, cmds, over, closed, alive)
    <3> TAKE s \in Stream
    <3> DEFINE e == st1[s]
               k == m[s]
    <3>1. Good(s, e, k, js[s], w2, cmds, over, closed, alive)
      BY <1>6, <1>7
    <3> HIDE DEF e, k
    <3>2. Good(s, e, k, js[s], w3, cmds, over, closed, alive)
      BY <1>4, <1>8, <3>1, ForeignEvents
    <3> QED
      BY <3>2 DEF e, k
  <2> QED
    BY <2>1, <2>2
<1> HIDE DEF w3
<1>10. ready = CloseOrRelease(st1)
  BY DEF st1
<1>11. /\ OfStreams(r2)
       /\ \A s \in Stream :
            LET f == ready[s].entry IN
            /\ ~Has(r2, Recv, s)
            /\ Has(r2, {"StreamOpened"}, s) => ~m[s].known
            /\ f.out = st1[s].out /\ f.taken = st1[s].taken
            /\ Good(s, f, m[s], js[s], w4, cmds, over, ended, alive)
  <2> DEFINE rdy == CloseOrRelease(st1)
             q == Told(rdy, opening)
  <2>0. w3 \in Seq(Event) /\ closed \in BOOLEAN /\ closing \in BOOLEAN
    BY <1>1, <1>9
  <2>3. AllGood(st1, m, w3, over, closed)
    BY <1>9 DEF AllGood
  <2>1. /\ OfStreams(q)
        /\ \A s \in Stream :
            LET f == rdy[s].entry IN
            /\ ~Has(q, Recv, s)
            /\ Has(q, {"StreamOpened"}, s) => ~m[s].known
            /\ f.out = st1[s].out /\ f.taken = st1[s].taken
            /\ Good(s, f, m[s], js[s], w3 \o q, cmds, over, ended, alive)
    BY <1>0, <2>0, <2>3, ReadyGood DEF ended
  <2>2. rdy = ready /\ q = r2
    BY <1>10
  <2> HIDE DEF rdy, q, ready, r2
  <2> QED
    BY <2>1, <2>2
<1>12. \A s \in Stream : st2[s] = ready[s].entry
  BY DEF Entries
<1> HIDE DEF ready, r2, st2, ended
<1>13. w4 \in Seq(Event)
  BY <1>9, <1>11, EventsConcat DEF OfStreams
<1> HIDE DEF w4
<1>14. \A s \in Stream : /\ Good(s, st2[s], m[s], js[s], w4, cmds, over, ended, alive)
                         /\ m[s] = Left(net[s], nat[s], st2[s]) /\ st2[s].out = nat[s].out
  <2> TAKE s \in Stream
  <2>1. st2[s].taken = read[s].entry.taken /\ st2[s].out = nat[s].out
    BY <1>6, <1>7, <1>11, <1>12
  <2>2. m[s] = Left(net[s], nat[s], st2[s])
    BY <1>7, <2>1 DEF Left
  <2>3. Good(s, st2[s], m[s], js[s], w4, cmds, over, ended, alive)
    BY <1>11, <1>12
  <2> QED
    BY <2>1, <2>2, <2>3
<1>15. flushed = FlushAll(st2)
  BY DEF st2
<1>16. /\ OfStreams(r3)
       /\ \A s \in Stream :
            LET f == Prune(flushed[s].entry) IN
            /\ ~Has(r3, Recv, s) /\ ~Has(r3, {"StreamOpened"}, s)
            /\ Good(s, f, AfterRead(net[s], nat[s], f), js[s], w5, cmds, over, ended, alive)
  <2> DEFINE fl == FlushAll(st2)
             q == Told(fl, flushing)
  <2>1. \A s \in Stream : Good(s, st2[s], m[s], js[s], w4, cmds, over, ended, alive)
    BY <1>14
  <2>2. \A s \in Stream : m[s] = Left(net[s], nat[s], st2[s]) /\ st2[s].out = nat[s].out
    BY <1>14
  <2>3. /\ OfStreams(q)
        /\ \A s \in Stream :
            LET f == Prune(fl[s].entry) IN
            /\ ~Has(q, Recv, s) /\ ~Has(q, {"StreamOpened"}, s)
            /\ Good(s, f, AfterRead(net[s], nat[s], f), js[s], w4 \o q, cmds, over, ended, alive)
    BY <1>0, <1>1, <1>13, <2>1, <2>2, FlushedGood
  <2>4. fl = flushed /\ q = r3
    BY <1>15
  <2> HIDE DEF fl, q, flushed, r3
  <2> QED
    BY <2>3, <2>4
<1>17. \A s \in Stream : m[s].known = net[s].known
  <2> SUFFICES ASSUME NEW s \in Stream PROVE m[s].known = net[s].known
    OBVIOUS
  <2>1. net[s] \in Quic
    BY <1>1
  <2> QED
    BY <1>7, <2>1 DEF Left, Quic
<1> HIDE DEF flushed, r3, w5
<1>18. /\ OfStreams(r1) /\ OfStreams(r2) /\ OfStreams(r3)
       /\ \A s \in Stream :
            LET f == Prune(flushed[s].entry) IN
            /\ ~Has(r1, {"StreamOpened"}, s) /\ ~Has(r2, Recv, s)
            /\ ~Has(r3, Recv, s) /\ ~Has(r3, {"StreamOpened"}, s)
            /\ Has(r1, Recv, s) /\ s \in LocalStreams => net[s].known
            /\ Has(r2, {"StreamOpened"}, s) => ~net[s].known
            /\ Good(s, f, AfterRead(net[s], nat[s], f), js[s], w5, cmds, over, ended, alive)
  BY <1>6, <1>11, <1>16, <1>17
<1> QED
  BY <1>18 DEF read, ready, flushed, st1, st2, r1, r2, r3, w5, w4, w3, w2, w1, w0, over, ended

\* Events of streams do not concern the session; datagrams are counted.
LEMMA SessionForeign ==
  ASSUME NEW k, NEW d, NEW w \in Seq(Event), NEW c, NEW running, Session(k, d, w, c, running),
         NEW r, OfStreams(r)
  PROVE  Session(k, d, w \o r, c, running)
<1> DEFINE X == Event
           x == Item("Datagram", "session")
           z == w \o r
<1>1. w \in Seq(X) /\ r \in Seq(X)
  BY DEF OfStreams
<1>2. ~(Count(r, x) > 0)
  BY CountHas DEF OfStreams
<1> HIDE DEF X
<1>3. /\ \A T, s : Has(z, T, s) <=> Has(w, T, s) \/ Has(r, T, s)
      /\ Count(z, x) = Count(w, x) + Count(r, x)
      /\ Count(w, x) \in Nat /\ Count(r, x) \in Nat
  BY <1>1, HasConcat, CountConcat, CountIsNat
<1>4. Count(z, x) = Count(w, x)
  BY <1>2, <1>3
<1> HIDE DEF z, x
<1> QED
  BY <1>3, <1>4 DEF Session, x, z

\* on_datagrams moves datagrams from QUIC to the queue of events and loses none.
LEMMA SessionDatagrams ==
  ASSUME NEW w \in Seq(Event), NEW k, NEW c, NEW running, Session(k, dgram, w, c, running)
  PROVE  Session(k, [dgram EXCEPT !.buffered = @ - OnDatagrams, !.taken = @ + OnDatagrams],
                 w \o DatagramEvents, c, running)
<1> DEFINE X == Event
           x == Item("Datagram", "session")
           r == DatagramEvents
           z == w \o r
           buffered == dgram.buffered - OnDatagrams
           taken == dgram.taken + OnDatagrams
           d == [dgram EXCEPT !.buffered = buffered, !.taken = taken]
<1>1. dgram \in Dgrams
  BY DEF Session
<1>2. /\ r \in Seq(X) /\ w \in Seq(X) /\ Count(r, x) = OnDatagrams /\ OnDatagrams \in 0 .. dgram.buffered
  BY <1>1, SessionEvents
<1> HIDE DEF X, r
<1>3. /\ \A T, s : Has(z, T, s) <=> Has(w, T, s) \/ Has(r, T, s)
      /\ Count(z, x) = Count(w, x) + OnDatagrams
      /\ Count(w, x) \in Nat
  BY <1>2, HasConcat, CountConcat, CountIsNat
<1>4. d \in Dgrams /\ d.taken = dgram.taken + OnDatagrams /\ dgram.taken \in Nat /\ OnDatagrams \in Nat
  <2>1. buffered \in Nat /\ taken \in Nat /\ dgram.taken \in Nat /\ OnDatagrams \in Nat
    BY <1>1, <1>2 DEF Dgrams
  <2> HIDE DEF buffered, taken
  <2>2. d \in Dgrams /\ d.taken = taken
    BY <1>1, <2>1 DEF Dgrams
  <2> QED
    BY <2>1, <2>2 DEF taken
<1> HIDE DEF z, x, d
<1>5. ~k.closed => d.taken = k.got + k.queue + k.dropped + Count(z, x)
  <2>1. SUFFICES ASSUME ~k.closed PROVE d.taken = k.got + k.queue + k.dropped + Count(z, x)
    OBVIOUS
  <2>2. dgram.taken = k.got + k.queue + k.dropped + Count(w, x)
    BY <2>1 DEF Session, x
  <2>3. k.got \in Nat /\ k.queue \in Int /\ k.dropped \in Nat
    BY DEF Session, Core
  <2> QED
    BY <1>3, <1>4, <2>2, <2>3
<1>6. Session(k, d, z, c, running)
  BY <1>3, <1>4, <1>5 DEF Session, x
<1> QED
  BY <1>6 DEF d, z, r, buffered, taken

\* The events of an iteration, appended one after the other to those on their way.
Grown(w, a, b) == w \o (a \o b) = (w \o a) \o b

\* Appending two parts at once or one after the other is the same.
LEMMA Growing ==
  ASSUME NEW X, NEW w, NEW a, NEW b, w \in Seq(X) /\ a \in Seq(X) /\ b \in Seq(X)
  PROVE  Grown(w, a, b) /\ a \o b \in Seq(X)
BY Associative DEF Grown

BatchFollows(w, a, b, c, d, e, f) ==
  w \o (((((a \o b) \o c) \o d) \o e) \o f) = (((((w \o a) \o b) \o c) \o d) \o e) \o f

\* q has what its parts have.
BatchHas(q, a, b, c, d, e, f) ==
  \A T, s : Has(q, T, s) <=> \/ Has(a, T, s) \/ Has(b, T, s) \/ Has(c, T, s)
                             \/ Has(d, T, s) \/ Has(e, T, s) \/ Has(f, T, s)

\* The same for the six parts of a batch that DriverRun emits.
LEMMA BatchGrows ==
  ASSUME NEW X, NEW w, NEW a, NEW b, NEW c, NEW d, NEW e, NEW f,
         w \in Seq(X) /\ a \in Seq(X) /\ b \in Seq(X) /\ c \in Seq(X),
         d \in Seq(X) /\ e \in Seq(X) /\ f \in Seq(X)
  PROVE  LET q == ((((a \o b) \o c) \o d) \o e) \o f IN
         /\ q \in Seq(X)
         /\ BatchFollows(w, a, b, c, d, e, f)
         /\ BatchHas(q, a, b, c, d, e, f)
<1> DEFINE q1 == a \o b
           q2 == q1 \o c
           q3 == q2 \o d
           q4 == q3 \o e
           q5 == q4 \o f
<1>1. /\ q1 \in Seq(X) /\ Grown(w, a, b)
      /\ \A T, s : Has(q1, T, s) <=> Has(a, T, s) \/ Has(b, T, s)
  BY Growing, HasConcat
<1> HIDE DEF q1
<1>2. /\ q2 \in Seq(X) /\ Grown(w, q1, c)
      /\ \A T, s : Has(q2, T, s) <=> Has(q1, T, s) \/ Has(c, T, s)
  BY <1>1, Growing, HasConcat
<1> HIDE DEF q2
<1>3. /\ q3 \in Seq(X) /\ Grown(w, q2, d)
      /\ \A T, s : Has(q3, T, s) <=> Has(q2, T, s) \/ Has(d, T, s)
  BY <1>2, Growing, HasConcat
<1> HIDE DEF q3
<1>4. /\ q4 \in Seq(X) /\ Grown(w, q3, e)
      /\ \A T, s : Has(q4, T, s) <=> Has(q3, T, s) \/ Has(e, T, s)
  BY <1>3, Growing, HasConcat
<1> HIDE DEF q4
<1>5. /\ q5 \in Seq(X) /\ Grown(w, q4, f)
      /\ \A T, s : Has(q5, T, s) <=> Has(q4, T, s) \/ Has(f, T, s)
  BY <1>4, Growing, HasConcat
<1> HIDE DEF q5
<1>6. \A T, s : Has(q5, T, s) <=> \/ Has(a, T, s) \/ Has(b, T, s) \/ Has(c, T, s)
                                  \/ Has(d, T, s) \/ Has(e, T, s) \/ Has(f, T, s)
  BY <1>1, <1>2, <1>3, <1>4, <1>5
<1>7. /\ w \o q1 = (w \o a) \o b
      /\ w \o q2 = (w \o q1) \o c
      /\ w \o q3 = (w \o q2) \o d
      /\ w \o q4 = (w \o q3) \o e
      /\ w \o q5 = (w \o q4) \o f
  BY <1>1, <1>2, <1>3, <1>4, <1>5 DEF Grown, q1, q2, q3, q4, q5
<1> DEFINE p0 == (w \o a) \o b
           p1 == w \o q1
           p2 == w \o q2
           p3 == w \o q3
           p4 == w \o q4
           p5 == w \o q5
<1>8. p1 = p0 /\ p2 = p1 \o c /\ p3 = p2 \o d /\ p4 = p3 \o e /\ p5 = p4 \o f
  BY <1>7
<1> HIDE DEF p0, p1, p2, p3, p4
<1>9. p5 = (((p0 \o c) \o d) \o e) \o f
  BY <1>8
<1> HIDE DEF p5
<1> QED
  BY <1>5, <1>6, <1>9 DEF q1, q2, q3, q4, q5, p0, p5, BatchFollows, BatchHas

\* No iteration announces an opened stream together with data for it.
LEMMA RunParted ==
  ASSUME Inv, NEW s \in Stream, NEW q, NEW r1, NEW r2, NEW r3,
         \A T, t : Has(q, T, t) <=> \/ Has(evs, T, t) \/ Has(DatagramEvents, T, t) \/ Has(r1, T, t)
                                    \/ Has(ClosedEvents, T, t) \/ Has(r2, T, t) \/ Has(r3, T, t),
         ~Has(r1, {"StreamOpened"}, s), ~Has(r2, Recv, s),
         ~Has(r3, Recv, s) /\ ~Has(r3, {"StreamOpened"}, s),
         Has(r1, Recv, s) /\ s \in LocalStreams => net[s].known,
         Has(r2, {"StreamOpened"}, s) => ~net[s].known,
         s \in PeerStreams => ~Has(q, {"StreamOpened"}, s)
  PROVE  Parted(q, s)
<1>1. /\ ~Has(evs, Recv, s)
      /\ s \in LocalStreams /\ Has(evs, {"StreamOpened"}, s) => ~net[s].known
  BY DEF Inv
<1>2. dgram \in Dgrams
  BY DEF Inv, Session
<1>3. ~Has(DatagramEvents, OfStream, s) /\ ~Has(ClosedEvents, OfStream, s)
  BY <1>2, SessionEvents
<1>4. /\ ~Has(DatagramEvents, Recv, s) /\ ~Has(ClosedEvents, Recv, s)
      /\ ~Has(DatagramEvents, {"StreamOpened"}, s) /\ ~Has(ClosedEvents, {"StreamOpened"}, s)
  BY <1>3, HasLess
<1>5. s \in LocalStreams \/ s \in PeerStreams
  BY DEF Stream
<1>6. Has(q, Recv, s) => Has(r1, Recv, s)
  BY <1>1, <1>4
<1>7. Has(q, {"StreamOpened"}, s) => Has(evs, {"StreamOpened"}, s) \/ Has(r2, {"StreamOpened"}, s)
  BY <1>4
<1>8. ASSUME Has(q, {"StreamOpened"}, s), Has(q, Recv, s) PROVE FALSE
  BY <1>1, <1>5, <1>6, <1>7, <1>8
<1> QED
  BY <1>8 DEF Parted

\* What DriverRun does, when it takes the streams in these orders.
Emits(after, ev) ==
  /\ nat' = after
  /\ net' = [s \in Stream |-> AfterRead(net[s], nat[s], after[s])]
  /\ batches' = IF ev = <<>> THEN batches ELSE Append(batches, ev)

Iteration(reads, reading, opening, flushing) ==
  LET read == ReadAll(reads)
      ready == CloseOrRelease(Entries(read))
      flushed == FlushAll(Entries(ready))
  IN Emits([s \in Stream |-> Prune(flushed[s].entry)],
           evs \o DatagramEvents \o Told(read, reading) \o ClosedEvents
               \o Told(ready, opening) \o Told(flushed, flushing))

\* Steps 4 to 6 of an iteration keep the invariant.
LEMMA RunGood ==
  Inv /\ DriverRun => Inv'
<1> SUFFICES ASSUME Inv, DriverRun PROVE Inv'
  OBVIOUS
<1>0. PICK reads \in Readings :
        \E reading \in Orders(ReadAll(reads)),
           opening \in Orders(CloseOrRelease(Entries(ReadAll(reads)))),
           flushing \in Orders(FlushAll(Entries(CloseOrRelease(Entries(ReadAll(reads)))))) :
           Iteration(reads, reading, opening, flushing)
  <2>1. PICK reads \in Readings :
        \E read \in {ReadAll(reads)} :
        \E ready \in {CloseOrRelease(Entries(read))} :
        \E flushed \in {FlushAll(Entries(ready))} :
        \E after \in {[s \in Stream |-> Prune(flushed[s].entry)]} :
        \E reading \in Orders(read), opening \in Orders(ready), flushing \in Orders(flushed) :
        \E ev \in {evs \o DatagramEvents \o Told(read, reading) \o ClosedEvents
                       \o Told(ready, opening) \o Told(flushed, flushing)} : Emits(after, ev)
    BY DEF DriverRun, Emits, DatagramEvents, ClosedEvents
  <2>2. PICK read \in {ReadAll(reads)} :
        \E ready \in {CloseOrRelease(Entries(read))} :
        \E flushed \in {FlushAll(Entries(ready))} :
        \E after \in {[s \in Stream |-> Prune(flushed[s].entry)]} :
        \E reading \in Orders(read), opening \in Orders(ready), flushing \in Orders(flushed) :
        \E ev \in {evs \o DatagramEvents \o Told(read, reading) \o ClosedEvents
                       \o Told(ready, opening) \o Told(flushed, flushing)} : Emits(after, ev)
    BY <2>1
  <2>3. PICK ready \in {CloseOrRelease(Entries(read))} :
        \E flushed \in {FlushAll(Entries(ready))} :
        \E after \in {[s \in Stream |-> Prune(flushed[s].entry)]} :
        \E reading \in Orders(read), opening \in Orders(ready), flushing \in Orders(flushed) :
        \E ev \in {evs \o DatagramEvents \o Told(read, reading) \o ClosedEvents
                       \o Told(ready, opening) \o Told(flushed, flushing)} : Emits(after, ev)
    BY <2>2
  <2>4. PICK flushed \in {FlushAll(Entries(ready))} :
        \E after \in {[s \in Stream |-> Prune(flushed[s].entry)]} :
        \E reading \in Orders(read), opening \in Orders(ready), flushing \in Orders(flushed) :
        \E ev \in {evs \o DatagramEvents \o Told(read, reading) \o ClosedEvents
                       \o Told(ready, opening) \o Told(flushed, flushing)} : Emits(after, ev)
    BY <2>3
  <2>5. PICK after \in {[s \in Stream |-> Prune(flushed[s].entry)]} :
        \E reading \in Orders(read), opening \in Orders(ready), flushing \in Orders(flushed) :
        \E ev \in {evs \o DatagramEvents \o Told(read, reading) \o ClosedEvents
                       \o Told(ready, opening) \o Told(flushed, flushing)} : Emits(after, ev)
    BY <2>4
  <2>6. PICK reading \in Orders(read), opening \in Orders(ready), flushing \in Orders(flushed) :
        Emits(after, evs \o DatagramEvents \o Told(read, reading) \o ClosedEvents
                         \o Told(ready, opening) \o Told(flushed, flushing))
    BY <2>5
  <2>7. read = ReadAll(reads)
    OBVIOUS
  <2>8. ready = CloseOrRelease(Entries(ReadAll(reads)))
    BY <2>7
  <2>9. flushed = FlushAll(Entries(CloseOrRelease(Entries(ReadAll(reads)))))
    BY <2>8
  <2>10. after = [s \in Stream |->
                   Prune(FlushAll(Entries(CloseOrRelease(Entries(ReadAll(reads)))))[s].entry)]
    BY <2>9
  <2>11. Iteration(reads, reading, opening, flushing)
    BY <2>6, <2>7, <2>8, <2>9, <2>10 DEF Iteration
  <2> QED
    BY <2>7, <2>8, <2>9, <2>11
<1>1. PICK reading \in Orders(ReadAll(reads)),
           opening \in Orders(CloseOrRelease(Entries(ReadAll(reads)))),
           flushing \in Orders(FlushAll(Entries(CloseOrRelease(Entries(ReadAll(reads)))))) :
           Iteration(reads, reading, opening, flushing)
  BY <1>0
<1> DEFINE read == ReadAll(reads)
           ready == CloseOrRelease(Entries(read))
           flushed == FlushAll(Entries(ready))
           r1 == Told(read, reading)
           r2 == Told(ready, opening)
           r3 == Told(flushed, flushing)
           after == [s \in Stream |-> Prune(flushed[s].entry)]
           d == DatagramEvents
           c == ClosedEvents
           ev == ((((evs \o d) \o r1) \o c) \o r2) \o r3
           F == FlattenSeq(batches)
           w == (((((F \o evs) \o d) \o r1) \o c) \o r2) \o r3
<1>2. /\ nat' = after
      /\ net' = [s \in Stream |-> AfterRead(net[s], nat[s], after[s])]
      /\ batches' = IF ev = <<>> THEN batches ELSE Append(batches, ev)
  BY <1>1 DEF Iteration, Emits
<1>3. /\ closed' = Ended /\ evs' = <<>> /\ stage' = "poll"
      /\ dgram' = [dgram EXCEPT !.buffered = @ - OnDatagrams, !.taken = @ + OnDatagrams]
      /\ js' = js /\ core' = core /\ closing' = closing /\ alive' = alive /\ cmds' = cmds
  BY DEF DriverRun, Ended
<1>4. /\ OfStreams(r1) /\ OfStreams(r2) /\ OfStreams(r3)
      /\ \A s \in Stream :
           LET f == Prune(flushed[s].entry) IN
           /\ ~Has(r1, {"StreamOpened"}, s) /\ ~Has(r2, Recv, s)
           /\ ~Has(r3, Recv, s) /\ ~Has(r3, {"StreamOpened"}, s)
           /\ Has(r1, Recv, s) /\ s \in LocalStreams => net[s].known
           /\ Has(r2, {"StreamOpened"}, s) => ~net[s].known
           /\ Good(s, f, AfterRead(net[s], nat[s], f), js[s], w, cmds, core.closed, Ended, alive)
  BY StagesGood DEF InTransit
<1> DEFINE n1 == [s \in Stream |-> AfterRead(net[s], nat[s], after[s])]
<1>5. ASSUME NEW s \in Stream
      PROVE  /\ ~Has(r1, {"StreamOpened"}, s) /\ ~Has(r2, Recv, s)
             /\ ~Has(r3, Recv, s) /\ ~Has(r3, {"StreamOpened"}, s)
             /\ Has(r1, Recv, s) /\ s \in LocalStreams => net[s].known
             /\ Has(r2, {"StreamOpened"}, s) => ~net[s].known
             /\ Good(s, after[s], n1[s], js[s], w, cmds, core.closed, Ended, alive)
  <2> DEFINE f == Prune(flushed[s].entry)
             k == AfterRead(net[s], nat[s], f)
  <2>1. after[s] = f /\ n1[s] = k
    OBVIOUS
  <2>2. /\ ~Has(r1, {"StreamOpened"}, s) /\ ~Has(r2, Recv, s)
        /\ ~Has(r3, Recv, s) /\ ~Has(r3, {"StreamOpened"}, s)
        /\ Has(r1, Recv, s) /\ s \in LocalStreams => net[s].known
        /\ Has(r2, {"StreamOpened"}, s) => ~net[s].known
        /\ Good(s, f, k, js[s], w, cmds, core.closed, Ended, alive)
    BY <1>4
  <2> HIDE DEF f, k, after, n1, r1, r2, r3, w
  <2> QED
    BY <2>1, <2>2
<1> DEFINE X == Event
<1>6. /\ batches \in Seq(Seq(X)) /\ evs \in Seq(X) /\ d \in Seq(X) /\ c \in Seq(X)
      /\ r1 \in Seq(X) /\ r2 \in Seq(X) /\ r3 \in Seq(X)
  <2>1. dgram \in Dgrams
    BY DEF Inv, Session
  <2>2. d \in Seq(X) /\ c \in Seq(X)
    BY <2>1, SessionEvents
  <2> HIDE DEF r1, r2, r3, d, c
  <2> QED
    BY <1>4, <2>2 DEF Inv, OfStreams
<1>7. after = [s \in Stream |-> after[s]] /\ n1 = [s \in Stream |-> n1[s]] /\ nat' = after /\ net' = n1
  BY <1>2
<1>8. InTransit = F \o evs
  BY DEF InTransit
<1> HIDE DEF X, d, c, r1, r2, r3, after, n1
<1>9. F \in Seq(X)
  BY <1>6, FlattenTyped
<1> HIDE DEF F
<1> DEFINE e0 == evs
<1>21. e0 \in Seq(X)
  BY <1>6
<1> HIDE DEF e0
<1>10. /\ ev \in Seq(X)
       /\ F \o ev = w
       /\ \A T, s : Has(ev, T, s) <=> \/ Has(evs, T, s) \/ Has(d, T, s) \/ Has(r1, T, s)
                                      \/ Has(c, T, s) \/ Has(r2, T, s) \/ Has(r3, T, s)
  <2> DEFINE q == ((((e0 \o d) \o r1) \o c) \o r2) \o r3
  <2>1. F \in Seq(X) /\ e0 \in Seq(X) /\ d \in Seq(X) /\ r1 \in Seq(X)
    BY <1>6, <1>9, <1>21
  <2>2. c \in Seq(X) /\ r2 \in Seq(X) /\ r3 \in Seq(X)
    BY <1>6
  <2>3. q \in Seq(X)
    BY ONLY <2>1, <2>2, BatchGrows
  <2>4. BatchFollows(F, e0, d, r1, c, r2, r3)
    BY ONLY <2>1, <2>2, BatchGrows
  <2>5. BatchHas(q, e0, d, r1, c, r2, r3)
    BY ONLY <2>1, <2>2, BatchGrows
  <2> QED
    BY <2>3, <2>4, <2>5 DEF e0, BatchFollows, BatchHas
<1> HIDE DEF ev
<1>11. batches' \in Seq(Seq(X)) /\ InTransit' = w
  <2>1. InTransit' = FlattenSeq(batches') \o <<>>
    BY <1>3 DEF InTransit
  <2>2. CASE ev = <<>>
    <3>1. batches' = batches /\ F \o <<>> = w
      BY <1>2, <1>10, <2>2
    <3>2. InTransit' = F \o <<>>
      BY <2>1, <3>1 DEF F
    <3> HIDE DEF w
    <3> QED
      BY <1>6, <3>1, <3>2
  <2>3. CASE ev # <<>>
    <3>1. batches' = Append(batches, ev)
      BY <1>2, <2>3
    <3>2. batches' \in Seq(Seq(X))
      <4> DEFINE Y == Seq(X)
      <4>1. batches \in Seq(Y) /\ ev \in Y
        BY <1>6, <1>10
      <4> HIDE DEF Y
      <4>2. Append(batches, ev) \in Seq(Y)
        BY <4>1, AppendProperties
      <4> QED
        BY <3>1, <4>2 DEF Y
    <3>3. FlattenSeq(batches') = F \o ev
      BY <1>6, <1>10, <3>1, FlattenAppend DEF F
    <3>4. FlattenSeq(batches') = w
      BY <1>10, <3>3
    <3>5. FlattenSeq(batches') \in Seq(X)
      BY <3>2, FlattenTyped
    <3> DEFINE G == FlattenSeq(batches')
    <3> HIDE DEF G, w
    <3>6. G \o <<>> = G
      BY <3>5 DEF G
    <3> QED
      BY <2>1, <3>2, <3>4, <3>6 DEF G
  <2> QED
    BY <2>2, <2>3
<1>12. ASSUME NEW s \in Stream PROVE Parted(ev, s)
  <2>1. s \in PeerStreams => ~Has(ev, {"StreamOpened"}, s)
    <3>1. SUFFICES ASSUME s \in PeerStreams PROVE ~Has(ev, {"StreamOpened"}, s)
      OBVIOUS
    <3>2. ~Has(F \o ev, {"StreamOpened"}, s)
      <4>1. Good(s, after[s], n1[s], js[s], F \o ev, cmds, core.closed, Ended, alive)
        BY <1>5, <1>10
      <4> QED
        BY <3>1, <4>1 DEF Good, Announced
    <3> QED
      BY <1>9, <1>10, <3>2, HasConcat
  <2> QED
    BY <1>5, <1>10, <2>1, RunParted DEF d, c
<1>13. \A i \in 1 .. Len(batches') : \A s \in Stream : Parted(batches'[i], s)
  <2>1. \A i \in 1 .. Len(batches) : \A s \in Stream : Parted(batches[i], s)
    BY DEF Inv
  <2>2. CASE ev = <<>>
    BY <1>2, <2>1, <2>2
  <2>3. CASE ev # <<>>
    <3> DEFINE Y == Seq(X)
    <3>1. batches \in Seq(Y) /\ ev \in Y
      BY <1>6, <1>10
    <3> HIDE DEF Y
    <3>2. /\ Len(Append(batches, ev)) = Len(batches) + 1 /\ Len(batches) \in Nat
          /\ \A i \in 1 .. Len(batches) : Append(batches, ev)[i] = batches[i]
          /\ Append(batches, ev)[Len(batches) + 1] = ev
      BY <3>1, AppendProperties, LenProperties
    <3>3. batches' = Append(batches, ev)
      BY <1>2, <2>3
    <3>4. \A i \in 1 .. Len(batches) + 1 : i \in 1 .. Len(batches) \/ i = Len(batches) + 1
      BY <3>2
    <3> QED
      BY <1>12, <2>1, <3>2, <3>3, <3>4
  <2> QED
    BY <2>2, <2>3
<1>14. Session(core, dgram', w, cmds, alive)
  <2> DEFINE u0 == F \o evs
             u1 == u0 \o d
             u2 == u1 \o r1
             u3 == u2 \o c
             u4 == u3 \o r2
             dg == [dgram EXCEPT !.buffered = @ - OnDatagrams, !.taken = @ + OnDatagrams]
  <2>1. Session(core, dgram, u0, cmds, alive) /\ u0 \in Seq(Event)
    BY <1>6, <1>8, <1>9, ConcatProperties DEF Inv, X
  <2> HIDE DEF u0
  <2>2. Session(core, dg, u1, cmds, alive)
    BY <2>1, SessionDatagrams DEF d
  <2>3. u1 \in Seq(Event)
    BY <1>6, <2>1, EventsConcat DEF X
  <2> HIDE DEF u1, dg
  <2>4. Session(core, dg, u2, cmds, alive) /\ u2 \in Seq(Event)
    BY <1>4, <2>2, <2>3, SessionForeign, EventsConcat DEF OfStreams
  <2> HIDE DEF u2
  <2>5. OfStreams(c)
    <3>1. dgram \in Dgrams
      BY DEF Inv, Session
    <3> QED
      BY <3>1, SessionEvents DEF c
  <2>6. Session(core, dg, u3, cmds, alive) /\ u3 \in Seq(Event)
    BY <2>4, <2>5, SessionForeign, EventsConcat DEF OfStreams
  <2> HIDE DEF u3
  <2>7. Session(core, dg, u4, cmds, alive) /\ u4 \in Seq(Event)
    BY <1>4, <2>6, SessionForeign, EventsConcat DEF OfStreams
  <2> HIDE DEF u4
  <2>8. Session(core, dg, u4 \o r3, cmds, alive)
    BY <1>4, <2>7, SessionForeign
  <2>9. dgram' = dg
    BY <1>3 DEF dg
  <2> QED
    BY <2>8, <2>9 DEF u4, u3, u2, u1, u0
<1> HIDE DEF w
<1>15. nat' \in [Stream -> Entry] /\ net' \in [Stream -> Quic]
  <2>1. \A s \in Stream : after[s] \in Entry /\ n1[s] \in Quic
    BY <1>5 DEF Good
  <2> QED
    BY <1>7, <2>1
<1>16. closed' \in BOOLEAN /\ closing' \in BOOLEAN /\ alive' \in BOOLEAN /\ js' \in [Stream -> Whatwg]
       /\ cmds' \in Seq(Command)
  BY <1>3 DEF Inv, Ended, Ends
<1>17. \A s \in Stream :
          /\ Good(s, nat'[s], net'[s], js'[s], w, cmds', core'.closed, closed', alive')
          /\ js'[s].open # "resolved"
  BY <1>3, <1>5, <1>7 DEF Inv
<1>18. \A s : ~Has(<<>>, Recv, s) /\ ~Has(<<>>, {"StreamOpened"}, s)
  BY NoItem
<1>19. Session(core', dgram', w, cmds', alive')
  BY <1>3, <1>14
<1>20. evs' = <<>> /\ evs' \in Seq(Event) /\ stage' \in {"poll", "low", "high"} /\ batches' \in Seq(Seq(Event))
  BY <1>3, <1>11 DEF X
<1> QED
  BY <1>11, <1>13, <1>15, <1>16, <1>17, <1>18, <1>19, <1>20 DEF Inv

-----------------------------------------------------------------------------
(* DriverWake: the commands, one after the other. *)

\* A command to another stream goes.
LEMMA ForeignHead ==
  ASSUME NEW s, NEW e, NEW n, NEW j, NEW w, NEW x \in Command, NEW c \in Seq(Command), NEW over,
         NEW ended, NEW running, Good(s, e, n, j, w, <<x>> \o c, over, ended, running),
         x.type \notin ToStream \/ x.stream # s
  PROVE  Good(s, e, n, j, w, c, over, ended, running)
<1> DEFINE u == <<x>>
           z == u \o c
<1>1. u \in Seq(Command) /\ ~Has(u, ToStream, s)
  <2>1. Has(u, ToStream, s) <=> x.type \in ToStream /\ x.stream = s
    BY OneItem
  <2>2. u \in Seq(Command)
    OBVIOUS
  <2> HIDE DEF u
  <2> QED
    BY <2>1, <2>2
<1>2. Never(z, ToStream, {"OpenStream"}, s) => Never(c, ToStream, {"OpenStream"}, s)
  <2> DEFINE X == Command
  <2>1. x \in X /\ c \in Seq(X)
    OBVIOUS
  <2> HIDE DEF X
  <2> QED
    BY <2>1, NeverRest
<1> HIDE DEF u
<1>3. CommandsGrow(z, u, c, s)
  BY <1>1, CommandsConcat
<1>4. /\ ~Has(u, {"OpenStream"}, s) /\ ~Has(u, {"Write"}, s) /\ ~Has(u, {"ResetStream"}, s)
      /\ ~Has(u, ToStream \ {"OpenStream"}, s)
  BY <1>1, HasLess
<1>5. Count(u, Item("Write", s)) = 0
  BY <1>1, <1>3, <1>4, CountHas DEF CommandsGrow
<1>6. Good(s, e, n, j, w, z, over, ended, running)
  BY DEF u
<1> HIDE DEF z
<1>7. s \in LocalStreams => Opening(s, e, n, j, w, c, over, ended)
  BY <1>1, <1>2, <1>3, <1>4, <1>6 DEF Good, Opening, CommandsGrow
<1>8. s \in PeerStreams => Announced(s, e, j, w, c, over, ended)
  BY <1>1, <1>3, <1>4, <1>6 DEF Good, Announced, CommandsGrow
<1>9. Written(s, e, j, w, c, over, running)
  BY <1>3, <1>4, <1>5, <1>6 DEF Good, Written, CommandsGrow
<1> QED
  BY <1>6, <1>7, <1>8, <1>9 DEF Good

\* What the queue z of commands, with a command t to s at its head, says of the rest c.
HeadGone(t, s, z, c) ==
  /\ Has(z, {"OpenStream"}, s) <=> t = "OpenStream" \/ Has(c, {"OpenStream"}, s)
  /\ Has(z, {"Write"}, s) <=> t = "Write" \/ Has(c, {"Write"}, s)
  /\ Has(z, {"ResetStream"}, s) <=> t = "ResetStream" \/ Has(c, {"ResetStream"}, s)
  /\ Has(z, ToStream, s)
  /\ Has(z, ToStream \ {"OpenStream"}, s) <=> t # "OpenStream" \/ Has(c, ToStream \ {"OpenStream"}, s)
  /\ Count(z, Item("Write", s)) = Count(c, Item("Write", s)) + (IF t = "Write" THEN 1 ELSE 0)
  /\ Count(c, Item("Write", s)) \in Nat
  /\ Never(z, ToStream, {"OpenStream"}, s)
       => Never(c, ToStream, {"OpenStream"}, s) /\ ~Has(c, {"OpenStream"}, s)

\* Taking a command for s off the channel removes it and nothing else.
LEMMA OwnHead ==
  ASSUME NEW s, NEW t \in ToStream, NEW c \in Seq(Command), Item(t, s) \in Command
  PROVE  HeadGone(t, s, <<Item(t, s)>> \o c, c)
<1> DEFINE x == Item(t, s)
           u == <<x>>
           z == u \o c
           y == Item("Write", s)
<1>1. x.type = t /\ x.stream = s /\ x \in Command /\ (x = y <=> t = "Write")
  BY DEF Item
<1> HIDE DEF x, y
<1>2. u \in Seq(Command)
  BY <1>1
<1>3. \A T : Has(u, T, s) <=> t \in T
  BY <1>1, OneItem
<1>4. Count(u, y) = IF t = "Write" THEN 1 ELSE 0
  BY <1>1, OneItem
<1>5. Never(z, ToStream, {"OpenStream"}, s)
        => Never(c, ToStream, {"OpenStream"}, s) /\ ~Has(c, {"OpenStream"}, s)
  <2> DEFINE X == Command
  <2>1. x \in X /\ c \in Seq(X)
    BY <1>1
  <2> HIDE DEF X
  <2> QED
    BY <1>1, <2>1, NeverRest
<1> HIDE DEF u
<1>6. CommandsGrow(z, u, c, s)
  BY <1>2, CommandsConcat
<1> HIDE DEF z
<1>7. /\ Has(z, {"OpenStream"}, s) <=> t = "OpenStream" \/ Has(c, {"OpenStream"}, s)
      /\ Has(z, {"Write"}, s) <=> t = "Write" \/ Has(c, {"Write"}, s)
      /\ Has(z, {"ResetStream"}, s) <=> t = "ResetStream" \/ Has(c, {"ResetStream"}, s)
      /\ Has(z, ToStream, s)
      /\ Has(z, ToStream \ {"OpenStream"}, s) <=> t # "OpenStream" \/ Has(c, ToStream \ {"OpenStream"}, s)
  BY <1>3, <1>6 DEF CommandsGrow
<1>8. /\ Count(z, y) = Count(c, y) + (IF t = "Write" THEN 1 ELSE 0)
      /\ Count(c, y) \in Nat
  BY <1>4, <1>6 DEF CommandsGrow, y
<1> QED
  BY <1>5, <1>7, <1>8 DEF x, u, z, y, HeadGone

\* OpenStream: the open waits, until it is released.
LEMMA WantedGood ==
  ASSUME NEW s \in Stream, NEW e, NEW n, NEW j, NEW w, NEW c \in Seq(Command), NEW over, NEW ended,
         NEW running, Item("OpenStream", s) \in Command,
         Good(s, e, n, j, w, <<Item("OpenStream", s)>> \o c, over, ended, running)
  PROVE  /\ e = NewNat /\ ~n.known
         /\ Good(s, [e EXCEPT !.wanted = TRUE], n, j, w, c, over, ended, running)
<1> DEFINE z == <<Item("OpenStream", s)>> \o c
           y == Item("Write", s)
           f == [e EXCEPT !.wanted = TRUE]
<1>0. HeadGone("OpenStream", s, z, c)
  <2>1. "OpenStream" \in ToStream
    BY DEF ToStream
  <2> QED
    BY <2>1, OwnHead
<1>2. Good(s, e, n, j, w, z, over, ended, running)
  OBVIOUS
<1> HIDE DEF z
<1>1. /\ Has(z, {"OpenStream"}, s)
      /\ Has(z, {"Write"}, s) <=> Has(c, {"Write"}, s)
      /\ Has(z, {"ResetStream"}, s) <=> Has(c, {"ResetStream"}, s)
      /\ Has(z, ToStream, s)
      /\ Has(z, ToStream \ {"OpenStream"}, s) <=> Has(c, ToStream \ {"OpenStream"}, s)
      /\ Count(z, y) = Count(c, y) /\ Count(c, y) \in Nat
      /\ Never(z, ToStream, {"OpenStream"}, s)
           => Never(c, ToStream, {"OpenStream"}, s) /\ ~Has(c, {"OpenStream"}, s)
  BY <1>0 DEF HeadGone
<1>3. s \in LocalStreams /\ s \notin PeerStreams
  BY <1>1, <1>2, BridgeAssumption DEF Good, Announced, Stream
<1>4. Opening(s, e, n, j, w, z, over, ended)
  BY <1>2, <1>3 DEF Good
<1>5. e = NewNat /\ ~n.known /\ ~Has(w, OfStream, s) /\ j.open \in {"requested", "rejected"}
      /\ ~Has(c, {"OpenStream"}, s) /\ Never(c, ToStream, {"OpenStream"}, s)
  BY <1>1, <1>4 DEF Opening
<1>6. /\ f \in Entry /\ f.wanted /\ f.present = FALSE /\ f.dead = FALSE /\ f.out = e.out /\ f.taken = e.taken
      /\ f = [NewNat EXCEPT !.wanted = TRUE]
  BY <1>5 DEF NewNat, Entry
<1>7. e.present = FALSE /\ e.dead = FALSE
  BY <1>5 DEF NewNat
<1> HIDE DEF f
<1>8. Opening(s, f, n, j, w, c, over, ended)
  BY <1>1, <1>4, <1>5, <1>6, <1>7 DEF Opening
<1>9. Conveyed(s, f, n, j, w, over, ended)
  BY <1>2, <1>3, <1>6, <1>7 DEF Good, Conveyed, Coming
<1>10. Written(s, f, j, w, c, over, running)
  BY <1>1, <1>2, <1>6 DEF Good, Written, y
<1>11. Good(s, f, n, j, w, c, over, ended, running)
  BY <1>2, <1>3, <1>6, <1>8, <1>9, <1>10 DEF Good
<1> QED
  BY <1>5, <1>11 DEF f

\* A command to a stream that has an entry.
LEMMA ObeyedGood ==
  ASSUME NEW s \in Stream, NEW e, NEW n, NEW j, NEW w, NEW c \in Seq(Command), NEW over, NEW ended,
         NEW running, NEW t \in ToStream \ {"OpenStream"}, Item(t, s) \in Command, e.present,
         Good(s, e, n, j, w, <<Item(t, s)>> \o c, over, ended, running)
  PROVE  Good(s, Obeyed(t, e), n, j, w, c, over, ended, running)
<1> DEFINE z == <<Item(t, s)>> \o c
           f == Obeyed(t, e)
           y == Item("Write", s)
<1>1. HeadGone(t, s, z, c)
  BY OwnHead
<1>2. Good(s, e, n, j, w, z, over, ended, running)
  OBVIOUS
<1> HIDE DEF z
<1>3. e \in Entry /\ e.present = TRUE
  BY <1>2 DEF Good, Entry
<1>4. /\ f \in Entry /\ f.present = TRUE /\ f.wanted = e.wanted /\ f.taken = e.taken
      /\ e.dead => f.dead
      /\ f.out = IF t = "Write" THEN e.out + 1 ELSE IF t = "ResetStream" THEN 0 ELSE e.out
  <2>1. CASE t = "Write"
    <3> DEFINE out == e.out + 1
    <3>1. f = [e EXCEPT !.out = out] /\ out \in Nat
      BY <1>3, <2>1 DEF Obeyed, Entry
    <3> HIDE DEF f, out
    <3>2. f \in Entry /\ f.present = TRUE /\ f.wanted = e.wanted
      BY <1>3, <3>1 DEF Entry
    <3>3. f.taken = e.taken /\ f.dead = e.dead /\ f.out = out
      BY <1>3, <3>1 DEF Entry
    <3> QED
      BY <2>1, <3>2, <3>3 DEF out
  <2>2. CASE t = "ResetStream"
    <3>1. f = [e EXCEPT !.out = 0, !.finSent = TRUE]
      BY <2>2 DEF Obeyed
    <3> HIDE DEF f
    <3>2. f \in Entry /\ f.present = TRUE /\ f.wanted = e.wanted
      BY <1>3, <3>1 DEF Entry
    <3>3. f.taken = e.taken /\ f.dead = e.dead /\ f.out = 0
      BY <1>3, <3>1 DEF Entry
    <3> QED
      BY <2>2, <3>2, <3>3
  <2>3. CASE t \notin {"Write", "ResetStream"}
    <3>1. t \in {"Fin", "StopSending", "Pause", "Resume"}
      BY <2>3 DEF ToStream
    <3>2. \/ f = [e EXCEPT !.finQueued = TRUE]
          \/ f = [e EXCEPT !.dead = TRUE]
          \/ f = [e EXCEPT !.paused = TRUE]
          \/ f = [e EXCEPT !.paused = FALSE]
      BY <3>1 DEF Obeyed
    <3> HIDE DEF f
    <3>3. f \in Entry /\ f.present = TRUE /\ f.wanted = e.wanted
      BY <1>3, <3>2 DEF Entry
    <3>4. f.taken = e.taken /\ (e.dead => f.dead) /\ f.out = e.out
      BY <1>3, <3>2 DEF Entry
    <3> QED
      BY <2>3, <3>3, <3>4
  <2> QED
    BY <2>1, <2>2, <2>3
<1> HIDE DEF f
<1>5. s \in LocalStreams => Opening(s, f, n, j, w, c, over, ended)
  <2>1. SUFFICES ASSUME s \in LocalStreams PROVE Opening(s, f, n, j, w, c, over, ended)
    OBVIOUS
  <2>2. Opening(s, e, n, j, w, z, over, ended)
    BY <1>2, <2>1 DEF Good
  <2>3. /\ j.open = "live" /\ ~Has(c, {"OpenStream"}, s) /\ Never(c, ToStream, {"OpenStream"}, s)
        /\ ~e.wanted
    <3>1. e # NewNat /\ e # [NewNat EXCEPT !.wanted = TRUE]
      BY <1>3 DEF NewNat
    <3>2. ~Has(z, ToStream \ {"OpenStream"}, s) => FALSE
      BY <1>1 DEF HeadGone
    <3>3. j.open = "live" /\ ~e.wanted
      BY <2>2, <3>1, <3>2 DEF Opening
    <3> QED
      BY <1>1, <2>2, <3>3 DEF Opening, HeadGone
  <2> QED
    BY <1>3, <1>4, <2>2, <2>3 DEF Opening
<1>6. s \in PeerStreams => Announced(s, f, j, w, c, over, ended)
  BY <1>1, <1>2, <1>3, <1>4 DEF Good, Announced, Unannounced, HeadGone
<1>7. Conveyed(s, f, n, j, w, over, ended)
  <2>1. Coming(s, f, j, w, ended) = Coming(s, e, j, w, ended)
    BY <1>3, <1>4 DEF Coming, Unannounced
  <2> QED
    BY <1>2, <1>4, <2>1 DEF Good, Conveyed
<1>8. Written(s, f, j, w, c, over, running)
  <2>1. /\ e.out \in Nat /\ f.out \in Nat /\ j.pending \in Nat /\ j.writes \in Nat
    BY <1>2, <1>3, <1>4 DEF Good, Whatwg, Entry
  <2> DEFINE old == Count(z, y)
             new == Count(c, y)
  <2>2. old = new + (IF t = "Write" THEN 1 ELSE 0) /\ new \in Nat
    BY <1>1 DEF HeadGone
  <2>3. e.out + old + j.pending <= j.writes
    BY <1>2 DEF Good, Written
  <2> HIDE DEF old, new
  <2>4. f.out + new + j.pending <= j.writes
    <3> DEFINE one == IF t = "Write" THEN 1 ELSE 0
               out == e.out
               pending == j.pending
               writes == j.writes
    <3>1. out \in Nat /\ pending \in Nat /\ writes \in Nat /\ new \in Nat /\ one \in Nat
      BY <2>1, <2>2
    <3>3. out + (new + one) + pending <= writes
      <4>1. old = new + one
        BY <2>2
      <4> HIDE DEF one
      <4> QED
        BY <2>3, <4>1
    <3> DEFINE sent == f.out
    <3>4. sent \in Nat /\ sent <= out + one
      <4>1. sent \in {out, out + 1, 0} /\ (t # "Write" => sent \in {out, 0})
        BY <1>4
      <4> HIDE DEF out, sent
      <4> QED
        BY <3>1, <4>1
    <3> HIDE DEF one, out, pending, writes, sent
    <3>2. (out + one) + new + pending <= writes
      BY <3>1, <3>3
    <3>5. sent + new + pending <= writes
      BY <3>1, <3>2, <3>4
    <3> QED
      BY <3>5 DEF pending, writes, sent
  <2>5. j.writing /\ running => f.out > 0 \/ Has(w, {"WriteAck"}, s) \/ Has(c, {"Write"}, s)
    <3>1. SUFFICES ASSUME j.writing, running
                   PROVE  f.out > 0 \/ Has(w, {"WriteAck"}, s) \/ Has(c, {"Write"}, s)
      OBVIOUS
    <3>2. e.out > 0 \/ Has(w, {"WriteAck"}, s) \/ Has(z, {"Write"}, s)
      BY <1>2, <3>1 DEF Good, Written
    <3>3. t # "ResetStream"
      BY <1>1, <1>2, <3>1 DEF Good, Written, HeadGone
    <3>4. t = "Write" => f.out > 0
      BY <1>4, <2>1
    <3>5. t # "Write" => f.out = e.out /\ (Has(z, {"Write"}, s) <=> Has(c, {"Write"}, s))
      BY <1>1, <1>4, <3>3 DEF HeadGone
    <3> QED
      BY <3>2, <3>4, <3>5
  <2>6. Has(c, {"ResetStream"}, s) => Has(z, {"ResetStream"}, s)
    BY <1>1 DEF HeadGone
  <2>7. /\ j.writing => ~over
        /\ Has(z, {"ResetStream"}, s) => ~j.writing /\ j.writable # "open"
    BY <1>2 DEF Good, Written
  <2> QED
    BY <2>4, <2>5, <2>6, <2>7 DEF Written, new, y
<1>9. Good(s, f, n, j, w, c, over, ended, running)
  BY <1>2, <1>4, <1>5, <1>6, <1>7, <1>8 DEF Good
<1> QED
  BY <1>9 DEF f

\* A command to a stream that has no entry: only a write is answered.
LEMMA GoneGood ==
  ASSUME NEW s \in Stream, NEW e, NEW n, NEW j, NEW w \in Seq(Event), NEW c \in Seq(Command), NEW over,
         NEW ended, NEW running, NEW t \in ToStream \ {"OpenStream"}, Item(t, s) \in Command,
         NEW r \in Seq(Own(s)), Has(r, {"WriteAck"}, s) <=> t = "Write",
         ~Has(r, Recv, s), ~Has(r, {"Stream"}, s), ~Has(r, {"StreamOpened"}, s),
         Good(s, e, n, j, w, <<Item(t, s)>> \o c, over, ended, running)
  PROVE  Good(s, e, n, j, w \o r, c, over, ended, running)
<1> DEFINE z == <<Item(t, s)>> \o c
           v == w \o r
           y == Item("Write", s)
<1>1. HeadGone(t, s, z, c)
  BY OwnHead
<1>2. Good(s, e, n, j, w, z, over, ended, running)
  OBVIOUS
<1> HIDE DEF z
<1>3. r \in Seq(Event)
  BY OwnItems
<1>4. ~Has(r, {"StreamFinished"}, s) /\ ~Has(r, {"StreamData"}, s)
  BY HasLess
<1>5. EventsGrow(v, w, r, s) /\ Count(r, Item("StreamData", s)) = 0
  BY <1>3, <1>4, EventsConcat, CountHas DEF EventsGrow
<1>6. /\ Never(w, Recv, {"StreamOpened"}, s) => Never(v, Recv, {"StreamOpened"}, s)
      /\ Never(w, OfStream, {"Stream"}, s) => Never(v, OfStream, {"Stream"}, s)
      /\ Never(w, {"StreamFinished"}, {"StreamData"}, s) => Never(v, {"StreamFinished"}, {"StreamData"}, s)
  <2>1. /\ Never(r, Recv, {"StreamOpened"}, s) /\ Never(r, OfStream, {"Stream"}, s)
        /\ Never(r, {"StreamFinished"}, {"StreamData"}, s)
    BY <1>4 DEF Never, Has
  <2> QED
    BY <1>3, <1>4, <2>1, NeverConcat
<1> HIDE DEF v
<1>7. s \in LocalStreams => Opening(s, e, n, j, v, c, over, ended)
  <2>1. SUFFICES ASSUME s \in LocalStreams PROVE Opening(s, e, n, j, v, c, over, ended)
    OBVIOUS
  <2>2. Opening(s, e, n, j, w, z, over, ended)
    BY <1>2, <2>1 DEF Good
  <2>3. j.open = "live" /\ ~e.wanted
    BY <1>1, <2>2 DEF Opening, HeadGone
  <2>4. ~Has(c, {"OpenStream"}, s) /\ Never(c, ToStream, {"OpenStream"}, s)
    BY <1>1, <2>2 DEF Opening, HeadGone
  <2> QED
    BY <1>5, <1>6, <2>2, <2>3, <2>4 DEF Opening, EventsGrow
<1>8. s \in PeerStreams => Announced(s, e, j, v, c, over, ended)
  BY <1>1, <1>2, <1>5, <1>6 DEF Good, Announced, HeadGone, EventsGrow
<1>9. Conveyed(s, e, n, j, v, over, ended)
  BY <1>2, <1>4, <1>5, <1>6 DEF Good, Conveyed, EventsGrow, Coming
<1>10. Written(s, e, j, v, c, over, running)
  <2>1. e.out \in Nat /\ j.pending \in Nat /\ j.writes \in Nat
    BY <1>2 DEF Good, Whatwg, Entry
  <2> DEFINE old == Count(z, y)
             new == Count(c, y)
  <2>2. old = new + (IF t = "Write" THEN 1 ELSE 0) /\ new \in Nat
    BY <1>1 DEF HeadGone
  <2>3. e.out + old + j.pending <= j.writes
    BY <1>2 DEF Good, Written
  <2> HIDE DEF old, new
  <2>4. e.out + new + j.pending <= j.writes
    BY <2>1, <2>2, <2>3
  <2> QED
    BY <1>1, <1>2, <1>5, <2>4 DEF Good, Written, HeadGone, EventsGrow, new, y
<1> QED
  BY <1>2, <1>7, <1>8, <1>9, <1>10 DEF Good, v

\* A command to a stream.
LEMMA CommandedGood ==
  ASSUME NEW s \in Stream, NEW e, NEW n, NEW j, NEW w \in Seq(Event), NEW c \in Seq(Command), NEW over,
         NEW running, NEW x \in Command, x.type \in ToStream, x.stream = s,
         Good(s, e, n, j, w, <<x>> \o c, over, closed, running)
  PROVE  LET p == Commanded(x, e) IN
         /\ p.items \in Seq(Own(s)) /\ ~Has(p.items, Recv, s)
         /\ Has(p.items, {"StreamOpened"}, s) => ~n.known
         /\ Good(s, p.entry, n, j, w \o p.items, c, over, closed, running)
<1> DEFINE p == Commanded(x, e)
           t == x.type
<1>1. x = Item(t, s)
  <2>1. x = [type |-> x.type, stream |-> x.stream]
    BY DEF Command
  <2> QED
    BY <2>1 DEF Item
<1>2. t \in ToStream /\ Item(t, s) \in Command /\ Good(s, e, n, j, w, <<Item(t, s)>> \o c, over, closed, running)
  BY <1>1
<1>3. \A T : ~Has(<<>>, T, s)
  BY NoItem
<1>4. <<>> \in Seq(Own(s)) /\ w \o <<>> = w
  OBVIOUS
<1>5. CASE t = "OpenStream"
  <2> DEFINE f == [e EXCEPT !.wanted = TRUE]
             q == Release(s, f)
  <2>1. p = q
    BY <1>5 DEF Commanded
  <2>2. ~n.known /\ Good(s, f, n, j, w, c, over, closed, running)
    BY <1>2, <1>5, WantedGood
  <2> HIDE DEF f
  <2>3. /\ q.items \in Seq(Own(s)) /\ ~Has(q.items, Recv, s)
        /\ Good(s, q.entry, n, j, w \o q.items, c, over, closed, running)
    BY <2>2, ReleaseGood
  <2> HIDE DEF q, p
  <2> QED
    BY <2>1, <2>2, <2>3 DEF p
<1>6. CASE t # "OpenStream" /\ e.present
  <2>1. p = Quiet(Obeyed(t, e))
    BY <1>6 DEF Commanded
  <2>2. p.items = <<>> /\ p.entry = Obeyed(t, e)
    BY <2>1 DEF Quiet, Step
  <2>3. Good(s, Obeyed(t, e), n, j, w, c, over, closed, running)
    BY <1>2, <1>6, ObeyedGood
  <2> HIDE DEF p
  <2> QED
    BY <1>3, <1>4, <2>2, <2>3 DEF p
<1>7. CASE t # "OpenStream" /\ ~e.present
  <2> DEFINE a == <<Item("WriteAck", s)>>
             r == IF t = "Write" THEN a ELSE <<>>
  <2>1. p.items = r /\ p.entry = e
    <3>1. p = Step(e, r)
      BY <1>7 DEF Commanded
    <3> QED
      BY <3>1 DEF Step
  <2>2. "WriteAck" \in OfStream /\ "WriteAck" \notin Recv
    BY DEF OfStream, Recv
  <2>3. a \in Seq(Own(s)) /\ \A T : Has(a, T, s) <=> "WriteAck" \in T
    BY <2>2, OneEvent
  <2> HIDE DEF a
  <2>4. /\ r \in Seq(Own(s)) /\ ~Has(r, Recv, s) /\ ~Has(r, {"Stream"}, s) /\ ~Has(r, {"StreamOpened"}, s)
        /\ Has(r, {"WriteAck"}, s) <=> t = "Write"
    BY <1>3, <1>4, <2>2, <2>3
  <2> HIDE DEF r, p
  <2>5. Good(s, e, n, j, w \o r, c, over, closed, running)
    BY <1>2, <1>7, <2>4, GoneGood
  <2> QED
    BY <2>1, <2>4, <2>5 DEF p
<1> QED
  BY <1>5, <1>6, <1>7

\* The session, when a command goes.
LEMMA SessionHead ==
  ASSUME NEW k, NEW d, NEW w \in Seq(Event), NEW x \in Command, NEW c \in Seq(Command), NEW running,
         Session(k, d, w, <<x>> \o c, running), NEW r \in Seq(Event),
         ~Has(r, {"Datagram"}, "session"), x.type \in Request => Has(r, {"Answer"}, x.type)
  PROVE  Session(k, d, w \o r, c, running)
<1> DEFINE u == <<x>>
           z == u \o c
           v == w \o r
           y == Item("Datagram", "session")
<1>1. u \in Seq(Command) /\ \A T, s : Has(u, T, s) <=> x.type \in T /\ x.stream = s
  <2>1. u \in Seq(Command)
    OBVIOUS
  <2>2. \A T, s : Has(u, T, s) <=> x.type \in T /\ x.stream = s
    BY OneItem
  <2> HIDE DEF u
  <2> QED
    BY <2>1, <2>2
<1> HIDE DEF u
<1>2. \A T, s : Has(z, T, s) <=> Has(u, T, s) \/ Has(c, T, s)
  <2> DEFINE X == Command
  <2>1. u \in Seq(X) /\ c \in Seq(X)
    BY <1>1
  <2> HIDE DEF X
  <2> QED
    BY <2>1, HasConcat
<1>3. ~(Count(r, y) > 0)
  BY CountHas
<1> HIDE DEF y
<1>4. /\ \A T, s : Has(v, T, s) <=> Has(w, T, s) \/ Has(r, T, s)
      /\ Count(v, y) = Count(w, y) + Count(r, y)
      /\ Count(w, y) \in Nat /\ Count(r, y) \in Nat
  <2> DEFINE X == Event
  <2>1. w \in Seq(X) /\ r \in Seq(X)
    OBVIOUS
  <2> HIDE DEF X
  <2>2. \A T, s : Has(v, T, s) <=> Has(w, T, s) \/ Has(r, T, s)
    BY <2>1, HasConcat
  <2>3. Count(v, y) = Count(w, y) + Count(r, y)
    BY <2>1, CountConcat
  <2>4. Count(w, y) \in Nat /\ Count(r, y) \in Nat
    BY <2>1, CountIsNat
  <2> HIDE DEF v
  <2> QED
    BY <2>2, <2>3, <2>4
<1>5. Count(v, y) = Count(w, y)
  BY <1>3, <1>4
<1>6. Session(k, d, w, z, running)
  BY DEF u
<1> HIDE DEF z, v, y
<1>7. Session(k, d, v, c, running)
  <2>1. Has(c, {"Shutdown"}, "session") => k.closed
    BY <1>2, <1>6 DEF Session
  <2>2. ASSUME NEW q \in Request, k.requests[q] = "pending"
        PROVE  ~k.closed /\ (Has(v, {"Answer"}, q) \/ Has(c, {q}, "session"))
    <3>1. ~k.closed /\ (Has(w, {"Answer"}, q) \/ Has(z, {q}, "session"))
      BY <1>6, <2>2 DEF Session
    <3>2. Has(u, {q}, "session") => Has(r, {"Answer"}, q)
      BY <1>1
    <3> QED
      BY <1>2, <1>4, <3>1, <3>2
  <2> QED
    BY <1>5, <1>6, <2>1, <2>2 DEF Session, y
<1> QED
  BY <1>7 DEF v

\* What holds of the streams and the events so far, when c is still to be obeyed.
Draining(d, c) ==
  LET w == FlattenSeq(batches) \o d.ev IN
  /\ d.ev \in Seq(Event) /\ d.st \in [Stream -> Entry] /\ d = [st |-> d.st, ev |-> d.ev]
  /\ Session(core, dgram, w, c, alive)
  /\ \A s \in Stream : /\ Good(s, d.st[s], net[s], js[s], w, c, core.closed, closed, alive)
                       /\ ~Has(d.ev, Recv, s)
                       /\ s \in LocalStreams /\ Has(d.ev, {"StreamOpened"}, s) => ~net[s].known

\* Step 3 of run_inner answers a request: the request leaves the channel as its answer
\* joins the events.
LEMMA DrainAnswer ==
  ASSUME Inv, NEW d, NEW x \in Command, NEW c \in Seq(Command), Draining(d, <<x>> \o c), x.type \in Request
  PROVE  Draining(ApplyCommand(d, x), c)
<1> DEFINE F == FlattenSeq(batches)
           y == Item("Answer", x.type)
           r == <<y>>
           u == d.ev
           w == F \o u
           ev == u \o r
           g == ApplyCommand(d, x)
<1>1. /\ u \in Seq(Event) /\ d = [st |-> d.st, ev |-> u] /\ d.st \in [Stream -> Entry]
      /\ Session(core, dgram, w, <<x>> \o c, alive)
      /\ \A s \in Stream :
            /\ Good(s, d.st[s], net[s], js[s], w, <<x>> \o c, core.closed, closed, alive)
            /\ ~Has(u, Recv, s)
            /\ s \in LocalStreams /\ Has(u, {"StreamOpened"}, s) => ~net[s].known
  BY DEF Draining
<1>2. y \in Event /\ y.type = "Answer" /\ y.stream = x.type /\ "Answer" \notin OfStream
      /\ "Answer" \notin Recv /\ x.type \notin ToStream
  BY DEF Item, Event, OfStream, Recv, Request, ToStream
<1>3. g.st = d.st /\ g.ev = ev /\ g = [st |-> d.st, ev |-> ev]
  <2>1. g = [d EXCEPT !.ev = Append(u, y)]
    BY DEF ApplyCommand
  <2>2. Append(u, y) = u \o <<y>>
    BY <1>1, <1>2, AppendIsConcat
  <2>3. g = [d EXCEPT !.ev = ev]
    BY <2>1, <2>2
  <2> HIDE DEF g, ev
  <2> DEFINE st == d.st
  <2>4. d = [st |-> st, ev |-> u]
    BY <1>1
  <2> HIDE DEF st, u
  <2>5. g = [st |-> st, ev |-> ev]
    BY <2>3, <2>4
  <2> QED
    BY <2>5 DEF st
<1> HIDE DEF g, y
<1>4. /\ r \in Seq(Event) /\ \A T, s : Has(r, T, s) <=> y.type \in T /\ y.stream = s
  <2>1. r \in Seq(Event)
    BY <1>2
  <2>2. \A T, s : Has(r, T, s) <=> y.type \in T /\ y.stream = s
    BY OneItem
  <2> HIDE DEF r
  <2> QED
    BY <2>1, <2>2
<1> HIDE DEF r
<1>5. F \in Seq(Event)
  <2> DEFINE X == Event
  <2>1. batches \in Seq(Seq(X))
    BY DEF Inv
  <2> HIDE DEF X
  <2>2. F \in Seq(X)
    BY <2>1, FlattenTyped
  <2> QED
    BY <2>2 DEF X
<1> HIDE DEF F
<1>6. F \o ev = w \o r /\ w \in Seq(Event) /\ ev \in Seq(Event)
  <2> DEFINE X == Event
  <2>1. F \in Seq(X) /\ u \in Seq(X) /\ r \in Seq(X)
    BY <1>1, <1>4, <1>5
  <2> HIDE DEF X, u
  <2>2. Grown(F, u, r) /\ u \o r \in Seq(X) /\ F \o u \in Seq(X)
    BY <2>1, Growing
  <2> QED
    BY <2>2 DEF Grown, X
<1>7. \A T, s : Has(ev, T, s) <=> Has(u, T, s) \/ Has(r, T, s)
  <2> DEFINE X == Event
  <2>1. u \in Seq(X) /\ r \in Seq(X)
    BY <1>1, <1>4
  <2> HIDE DEF X, u
  <2> QED
    BY <2>1, HasConcat
<1> HIDE DEF w, ev, u
<1>8. Session(core, dgram, w \o r, c, alive)
  <2>1. /\ ~Has(r, {"Datagram"}, "session")
        /\ x.type \in Request => Has(r, {"Answer"}, x.type)
    BY <1>2, <1>4
  <2>2. w \in Seq(Event) /\ r \in Seq(Event) /\ Session(core, dgram, w, <<x>> \o c, alive)
    BY <1>1, <1>4, <1>6 DEF w, u
  <2> QED
    BY <2>1, <2>2, SessionHead
<1>9. ASSUME NEW s \in Stream
      PROVE  /\ Good(s, d.st[s], net[s], js[s], w \o r, c, core.closed, closed, alive)
             /\ ~Has(ev, Recv, s)
             /\ s \in LocalStreams /\ Has(ev, {"StreamOpened"}, s) => ~net[s].known
  <2>1. Good(s, d.st[s], net[s], js[s], w, <<x>> \o c, core.closed, closed, alive)
    BY <1>1
  <2>2. ~Has(r, OfStream, s)
    BY <1>2, <1>4
  <2>3. Good(s, d.st[s], net[s], js[s], w, c, core.closed, closed, alive)
    BY <1>2, <2>1, ForeignHead
  <2>4. Good(s, d.st[s], net[s], js[s], w \o r, c, core.closed, closed, alive)
    BY <1>4, <1>6, <2>2, <2>3, ForeignEvents
  <2>5. ~Has(r, Recv, s) /\ ~Has(r, {"StreamOpened"}, s)
    BY <2>2, HasLess
  <2> QED
    BY <1>1, <1>7, <2>4, <2>5
<1> QED
  BY <1>1, <1>3, <1>6, <1>8, <1>9 DEF Draining, g, F

\* Step 3 of run_inner applies a command to its stream and keeps the invariant of every
\* stream.
LEMMA DrainCommand ==
  ASSUME Inv, NEW d, NEW x \in Command, NEW c \in Seq(Command), Draining(d, <<x>> \o c), x.type \in ToStream
  PROVE  Draining(ApplyCommand(d, x), c)
<1> DEFINE F == FlattenSeq(batches)
           a == x.stream
           p == Commanded(x, d.st[a])
           r == p.items
           u == d.ev
           w == F \o u
           ev == u \o r
           g == ApplyCommand(d, x)
           st == [d.st EXCEPT ![a] = p.entry]
<1>1. /\ u \in Seq(Event) /\ d.st \in [Stream -> Entry]
      /\ Session(core, dgram, w, <<x>> \o c, alive)
      /\ \A s \in Stream :
            /\ Good(s, d.st[s], net[s], js[s], w, <<x>> \o c, core.closed, closed, alive)
            /\ ~Has(u, Recv, s)
            /\ s \in LocalStreams /\ Has(u, {"StreamOpened"}, s) => ~net[s].known
  BY DEF Draining
<1>2. x.type \notin Request /\ a \in Stream
  BY DEF Request, ToStream, Command
<1>3. g.st = st /\ g.ev = ev /\ g = [st |-> st, ev |-> ev]
  BY <1>2 DEF ApplyCommand
<1>5. F \in Seq(Event)
  <2> DEFINE X == Event
  <2>1. batches \in Seq(Seq(X))
    BY DEF Inv
  <2> HIDE DEF X
  <2>2. F \in Seq(X)
    BY <2>1, FlattenTyped
  <2> QED
    BY <2>2 DEF X
<1> HIDE DEF F, g
<1>10. w \in Seq(Event)
  BY <1>1, <1>5, EventsConcat
<1>4. /\ r \in Seq(Own(a)) /\ ~Has(r, Recv, a)
      /\ Has(r, {"StreamOpened"}, a) => ~net[a].known
      /\ Good(a, p.entry, net[a], js[a], w \o r, c, core.closed, closed, alive)
  <2> DEFINE e == d.st[a]
             q == Commanded(x, e)
  <2>1. Good(a, e, net[a], js[a], w, <<x>> \o c, core.closed, closed, alive)
    BY <1>1, <1>2
  <2>2. p = q
    OBVIOUS
  <2> HIDE DEF e, w, p
  <2>3. /\ q.items \in Seq(Own(a)) /\ ~Has(q.items, Recv, a)
        /\ Has(q.items, {"StreamOpened"}, a) => ~net[a].known
        /\ Good(a, q.entry, net[a], js[a], w \o q.items, c, core.closed, closed, alive)
    BY <1>2, <1>10, <2>1, CommandedGood
  <2> HIDE DEF q
  <2> QED
    BY <2>2, <2>3
<1>6. /\ r \in Seq(Event)
      /\ \A t : t # a => ~Has(r, OfStream, t)
      /\ \A k : ~Has(r, {"Datagram"}, k)
  <2> HIDE DEF r
  <2> QED
    BY <1>2, <1>4, OwnItems
<1>11. p.entry \in Entry
  BY <1>4 DEF Good
<1> DEFINE f == p.entry
<1>12. /\ st \in [Stream -> Entry] /\ st[a] = f
       /\ \A s \in Stream : s # a => st[s] = d.st[s]
  <2> HIDE DEF p
  <2> QED
    BY <1>1, <1>2, <1>11
<1> HIDE DEF p, r, st, f
<1>7. F \o ev = w \o r /\ ev \in Seq(Event)
  <2> DEFINE X == Event
  <2>1. F \in Seq(X) /\ u \in Seq(X) /\ r \in Seq(X)
    BY <1>1, <1>5, <1>6
  <2> HIDE DEF X, u
  <2>2. Grown(F, u, r) /\ u \o r \in Seq(X)
    BY <2>1, Growing
  <2> QED
    BY <2>2 DEF Grown, X
<1>8. \A T, s : Has(ev, T, s) <=> Has(u, T, s) \/ Has(r, T, s)
  <2> DEFINE X == Event
  <2>1. u \in Seq(X) /\ r \in Seq(X)
    BY <1>1, <1>6
  <2> HIDE DEF X, u
  <2> QED
    BY <2>1, HasConcat
<1> HIDE DEF w, ev, u
<1>13. Session(core, dgram, w \o r, c, alive)
  BY <1>1, <1>2, <1>6, <1>10, SessionHead DEF w, u
<1>9. ASSUME NEW s \in Stream
      PROVE  /\ Good(s, st[s], net[s], js[s], w \o r, c, core.closed, closed, alive)
             /\ ~Has(ev, Recv, s)
             /\ s \in LocalStreams /\ Has(ev, {"StreamOpened"}, s) => ~net[s].known
  <2>1. CASE s = a
    <3>1. Good(a, st[a], net[a], js[a], w \o r, c, core.closed, closed, alive)
      BY <1>4, <1>12 DEF f
    <3>2. ~Has(ev, Recv, a)
      BY <1>1, <1>2, <1>4, <1>8
    <3>3. a \in LocalStreams /\ Has(ev, {"StreamOpened"}, a) => ~net[a].known
      BY <1>1, <1>2, <1>4, <1>8
    <3> QED
      BY <2>1, <3>1, <3>2, <3>3
  <2>2. CASE s # a
    <3> DEFINE e == d.st[s]
    <3>1. Good(s, e, net[s], js[s], w, <<x>> \o c, core.closed, closed, alive) /\ st[s] = e
      BY <1>1, <1>12, <2>2
    <3> HIDE DEF e, a
    <3>2. x.stream # s
      BY <2>2 DEF a
    <3>3. Good(s, e, net[s], js[s], w, c, core.closed, closed, alive)
      BY <3>1, <3>2, ForeignHead
    <3>4. ~Has(r, OfStream, s)
      BY <1>6, <2>2
    <3>5. Good(s, e, net[s], js[s], w \o r, c, core.closed, closed, alive)
      BY <1>6, <1>10, <3>3, <3>4, ForeignEvents
    <3>6. ~Has(r, Recv, s) /\ ~Has(r, {"StreamOpened"}, s)
      BY <3>4, HasLess
    <3> QED
      BY <1>1, <1>8, <3>1, <3>5, <3>6
  <2> QED
    BY <2>1, <2>2
<1> QED
  BY <1>3, <1>7, <1>9, <1>12, <1>13 DEF Draining, g, F

\* What is left of a queue when its first n members are gone.
Rest(q, n) == [i \in 1 .. Len(q) - n |-> q[i + n]]
HeadFirst(q, n) == Rest(q, n) = <<q[n + 1]>> \o Rest(q, n + 1)

\* What remains of a queue begins with its next member.
LEMMA RestUnfolds ==
  ASSUME NEW X, NEW q \in Seq(X)
  PROVE  /\ Rest(q, 0) = q /\ Rest(q, Len(q)) = <<>>
         /\ \A n \in 0 .. Len(q) : Rest(q, n) \in Seq(X)
         /\ \A n \in Nat : n + 1 <= Len(q) => HeadFirst(q, n) /\ q[n + 1] \in X
<1> DEFINE L == Len(q)
<1>1. L \in Nat /\ q = [i \in 1 .. L |-> q[i]] /\ \A i \in 1 .. L : q[i] \in X
  BY LenProperties, ElementOfSeq
<1> HIDE DEF L
<1>2. Rest(q, 0) = q
  <2>1. L - 0 = L /\ \A i \in 1 .. L : i + 0 = i
    BY <1>1
  <2>2. Rest(q, 0) = [i \in 1 .. L |-> q[i]]
    BY <2>1 DEF Rest, L
  <2> QED
    BY <1>1, <2>2
<1>3. Rest(q, L) = <<>>
  <2>1. L - L = 0 /\ 1 .. 0 = {}
    BY <1>1
  <2>2. Rest(q, L) = [i \in {} |-> q[i + L]]
    BY <2>1 DEF Rest, L
  <2> QED
    BY <2>2
<1>4. ASSUME NEW n \in 0 .. L PROVE Rest(q, n) \in Seq(X) /\ Len(Rest(q, n)) = L - n
  <2> DEFINE k == L - n
             f == [i \in 1 .. k |-> q[i + n]]
  <2>1. k \in Nat /\ \A i \in 1 .. k : q[i + n] \in X
    BY <1>1
  <2>2. Rest(q, n) = f
    BY DEF Rest, L
  <2> HIDE DEF k
  <2>3. f \in Seq(X) /\ Len(f) = k
    BY <2>1
  <2> QED
    BY <2>2, <2>3 DEF k
<1>5. ASSUME NEW n \in Nat, n + 1 <= L PROVE HeadFirst(q, n) /\ q[n + 1] \in X
  <2> DEFINE x == q[n + 1]
             u == <<x>>
             r == Rest(q, n + 1)
             z == Rest(q, n)
             k == L - (n + 1)
  <2>1. n \in 0 .. L /\ n + 1 \in 0 .. L /\ n + 1 \in 1 .. L /\ k \in Nat /\ L - n = k + 1
    BY <1>1, <1>5
  <2>2. x \in X /\ r \in Seq(X) /\ Len(r) = k /\ z \in Seq(X) /\ Len(z) = k + 1
    BY <1>1, <1>4, <2>1
  <2>3. \A i \in 1 .. k : r[i] = q[i + (n + 1)]
    BY <2>1 DEF Rest, L
  <2>4. \A i \in 1 .. k + 1 : z[i] = q[i + n]
    BY <2>1 DEF Rest, L
  <2> HIDE DEF x, r, z, k
  <2>5. u \in Seq(X) /\ Len(u) = 1 /\ u[1] = x
    BY <2>2
  <2> HIDE DEF u
  <2>6. /\ u \o r \in Seq(X) /\ Len(u \o r) = 1 + k
        /\ \A i \in 1 .. 1 + k : (u \o r)[i] = IF i <= 1 THEN u[i] ELSE r[i - 1]
    <3>1. /\ u \o r \in Seq(X) /\ Len(u \o r) = Len(u) + Len(r)
          /\ \A i \in 1 .. Len(u) + Len(r) : (u \o r)[i] = IF i <= Len(u) THEN u[i] ELSE r[i - Len(u)]
      BY <2>2, <2>5, ConcatProperties
    <3> QED
      BY <2>2, <2>5, <3>1
  <2>7. ASSUME NEW i \in 1 .. k + 1 PROVE (u \o r)[i] = z[i]
    <3>1. CASE i = 1
      <4>1. z[1] = q[1 + n] /\ 1 + n = n + 1 /\ (u \o r)[1] = u[1]
        BY <2>1, <2>4, <2>6, <3>1
      <4> QED
        BY <2>5, <3>1, <4>1 DEF x
    <3>2. CASE i # 1
      <4>1. i - 1 \in 1 .. k /\ (i - 1) + (n + 1) = i + n /\ i \in 1 .. 1 + k /\ ~(i <= 1)
        BY <2>1, <3>2
      <4> QED
        BY <2>3, <2>4, <2>6, <4>1
    <3> QED
      BY <3>1, <3>2
  <2> DEFINE v == u \o r
  <2>8. v \in Seq(X) /\ Len(v) = k + 1 /\ \A i \in 1 .. k + 1 : v[i] = z[i]
    BY <2>1, <2>6, <2>7
  <2> HIDE DEF v
  <2>9. v = z
    BY <2>2, <2>8, SeqEqual
  <2> QED
    BY <2>2, <2>9 DEF HeadFirst, v, u, z, r, x
<1> QED
  BY <1>2, <1>3, <1>4, <1>5 DEF L

\* The recursive function Drained is defined with exists.
LEMMA DrainedUnfolds ==
  ASSUME Len(cmds) \in Nat
  PROVE  \E f : /\ f[0] = [st |-> nat, ev |-> <<>>]
                /\ \A n \in 1 .. Len(cmds) : f[n] = ApplyCommand(f[n - 1], cmds[n])
                /\ Drained = f[Len(cmds)]
<1> DEFINE L == Len(cmds)
           start == [st |-> nat, ev |-> <<>>]
           Is(g, k) == g = [n \in 0 .. k |-> IF n = 0 THEN start ELSE ApplyCommand(g[n - 1], cmds[n])]
           S == {k \in Nat : \E g : Is(g, k)}
<1> HIDE DEF start
<1>1. 0 \in S
  <2> DEFINE g == [n \in 0 .. 0 |-> start]
  <2>1. \A n \in 0 .. 0 : n = 0
    OBVIOUS
  <2>2. Is(g, 0)
    BY <2>1
  <2> QED
    BY <2>2
<1>2. ASSUME NEW k \in Nat, k \in S PROVE k + 1 \in S
  <2>1. PICK g : Is(g, k)
    BY <1>2
  <2> DEFINE e(m) == IF m = 0 THEN start ELSE ApplyCommand(g[m - 1], cmds[m])
             h == [n \in 0 .. k + 1 |-> IF n <= k THEN g[n] ELSE e(n)]
  <2>2. g = [n \in 0 .. k |-> e(n)]
    BY <2>1
  <2>3. \A n \in 0 .. k : g[n] = e(n)
    <3> HIDE DEF e
    <3> QED
      BY <2>2
  <2>4. ASSUME NEW n \in 0 .. k + 1
        PROVE  h[n] = IF n = 0 THEN start ELSE ApplyCommand(h[n - 1], cmds[n])
    <3>1. h[n] = e(n)
      <4>1. n <= k => n \in 0 .. k
        OBVIOUS
      <4> HIDE DEF e
      <4> QED
        BY <2>3, <4>1
    <3>2. n # 0 => h[n - 1] = g[n - 1]
      <4>1. n # 0 => n - 1 \in 0 .. k + 1 /\ n - 1 <= k
        OBVIOUS
      <4> HIDE DEF e
      <4> QED
        BY <4>1
    <3> HIDE DEF h
    <3> QED
      BY <3>1, <3>2
  <2>5. h = [n \in 0 .. k + 1 |-> h[n]]
    OBVIOUS
  <2>6. Is(h, k + 1)
    <3> HIDE DEF h
    <3> QED
      BY <2>4, <2>5
  <2> HIDE DEF h, Is
  <2> QED
    BY <2>6
<1>3. L \in S
  <2> HIDE DEF S
  <2> QED
    BY <1>1, <1>2, SetInduction
<1>4. \E f : Is(f, L)
  BY <1>3
<1> DEFINE F == CHOOSE f : Is(f, L)
<1>5. Is(F, L)
  BY <1>4
<1>6. Drained = F[L]
  BY DEF Drained, start
<1>7. F[0] = start /\ \A n \in 1 .. L : F[n] = ApplyCommand(F[n - 1], cmds[n])
  <2> DEFINE e(m) == IF m = 0 THEN start ELSE ApplyCommand(F[m - 1], cmds[m])
  <2> HIDE DEF F
  <2>1. F = [n \in 0 .. L |-> e(n)]
    BY <1>5
  <2>2. \A n \in 0 .. L : F[n] = e(n)
    <3> HIDE DEF e
    <3> QED
      BY <2>1
  <2>3. 0 \in 0 .. L /\ \A n \in 1 .. L : n \in 0 .. L /\ n # 0
    OBVIOUS
  <2> QED
    BY <2>2, <2>3
<1> HIDE DEF F
<1> QED
  BY <1>6, <1>7 DEF start

\* All commands but Shutdown, obeyed in order, leave nothing to obey.
LEMMA DrainGood ==
  ASSUME Inv, stage = "poll", \A i \in 1 .. Len(cmds) : cmds[i].type # "Shutdown"
  PROVE  Draining(Drained, <<>>)
<1> DEFINE X == Command
           L == Len(cmds)
           start == [st |-> nat, ev |-> <<>>]
<1>1. cmds \in Seq(X) /\ L \in Nat
  <2>1. cmds \in Seq(X)
    BY DEF Inv
  <2> HIDE DEF X
  <2> QED
    BY <2>1, LenProperties
<1>2. PICK f : /\ f[0] = start
               /\ \A n \in 1 .. L : f[n] = ApplyCommand(f[n - 1], cmds[n])
               /\ Drained = f[L]
  BY <1>1, DrainedUnfolds
<1> HIDE DEF X
<1>3. /\ Rest(cmds, 0) = cmds /\ Rest(cmds, L) = <<>>
      /\ \A n \in 0 .. L : Rest(cmds, n) \in Seq(X)
      /\ \A n \in Nat : n + 1 <= L => HeadFirst(cmds, n) /\ cmds[n + 1] \in X
  BY <1>1, RestUnfolds
<1> DEFINE S == {n \in Nat : n <= L => Draining(f[n], Rest(cmds, n))}
<1>4. 0 \in S
  <2>1. evs = <<>>
    BY DEF Inv
  <2>2. InTransit = FlattenSeq(batches) \o <<>>
    BY <2>1 DEF InTransit
  <2>3. \A s : ~Has(<<>>, Recv, s) /\ ~Has(<<>>, {"StreamOpened"}, s)
    BY NoItem
  <2>4. start.st = nat /\ start.ev = <<>> /\ start = [st |-> start.st, ev |-> start.ev]
    OBVIOUS
  <2>5. nat \in [Stream -> Entry] /\ <<>> \in Seq(Event) /\ Session(core, dgram, InTransit, cmds, alive)
    BY DEF Inv
  <2>6. \A s \in Stream : Good(s, nat[s], net[s], js[s], InTransit, cmds, core.closed, closed, alive)
    BY DEF Inv
  <2> HIDE DEF start
  <2>7. Draining(start, cmds)
    BY <2>2, <2>3, <2>4, <2>5, <2>6 DEF Draining
  <2> QED
    BY <1>2, <1>3, <2>7
<1>5. ASSUME NEW n \in Nat, n \in S PROVE n + 1 \in S
  <2>1. SUFFICES ASSUME n + 1 <= L PROVE Draining(f[n + 1], Rest(cmds, n + 1))
    OBVIOUS
  <2> DEFINE x == cmds[n + 1]
             c == Rest(cmds, n + 1)
             d == f[n]
  <2>2. n <= L /\ n + 1 \in 1 .. L /\ n + 1 \in 0 .. L /\ (n + 1) - 1 = n
    BY <1>1, <2>1
  <2>3. Rest(cmds, n) = <<x>> \o c /\ x \in X /\ c \in Seq(X)
    BY <1>3, <2>1, <2>2 DEF HeadFirst
  <2>4. Draining(d, Rest(cmds, n))
    BY <1>5, <2>2
  <2>5. f[n + 1] = ApplyCommand(d, x)
    BY <1>2, <2>2
  <2>6. x.type # "Shutdown"
    BY <2>2
  <2> HIDE DEF x, c, d
  <2>7. Draining(d, <<x>> \o c)
    BY <2>3, <2>4
  <2>8. x.type \in Request \/ x.type \in ToStream
    BY <2>3, <2>6 DEF X, Command
  <2>9. Draining(ApplyCommand(d, x), c)
    BY <2>3, <2>7, <2>8, DrainAnswer, DrainCommand DEF X
  <2> QED
    BY <2>5, <2>9 DEF c
<1>6. L \in S
  <2> HIDE DEF S
  <2> QED
    BY <1>1, <1>4, <1>5, SetInduction
<1>7. Draining(f[L], Rest(cmds, L))
  BY <1>1, <1>6
<1> QED
  BY <1>2, <1>3, <1>7

\* A session that has ended asks nothing more of a driver that stops.
LEMMA Weaker ==
  ASSUME NEW s, NEW e, NEW n, NEW j, NEW w, NEW c, NEW over, NEW ended, NEW running,
         Good(s, e, n, j, w, c, over, ended, running)
  PROVE  Good(s, e, n, j, w, c, over, ended, FALSE)
BY DEF Good, Written

\* Steps 1 to 3 of an iteration keep the invariant.
LEMMA WakeGood ==
  Inv /\ DriverWake => Inv'
<1> SUFFICES ASSUME Inv, DriverWake PROVE Inv'
  OBVIOUS
<1>1. /\ stage = "poll" /\ alive /\ cmds' = <<>>
      /\ net' = net /\ dgram' = dgram /\ js' = js /\ core' = core /\ closed' = closed
      /\ closing' = closing /\ batches' = batches
  BY DEF DriverWake
<1>2. \A T, s : ~Has(<<>>, T, s)
  BY NoItem
<1>3. CASE \E i \in 1 .. Len(cmds) : cmds[i].type = "Shutdown"
  <2>1. alive' = FALSE /\ nat' = nat /\ evs' = evs /\ stage' = stage
    BY <1>3 DEF DriverWake
  <2>2. InTransit' = InTransit
    BY <1>1, <2>1 DEF InTransit
  <2>3. core.closed
    <3>1. PICK i \in 1 .. Len(cmds) : cmds[i].type = "Shutdown"
      BY <1>3
    <3> DEFINE X == Command
    <3>2. cmds \in Seq(X)
      BY DEF Inv
    <3>3. \A x \in X : x.type = "Shutdown" => x.stream = "session"
      BY DEF Command, ToStream
    <3> HIDE DEF X
    <3>4. cmds[i] \in X
      BY <3>1, <3>2, ElementOfSeq
    <3>5. Has(cmds, {"Shutdown"}, "session")
      BY <3>1, <3>3, <3>4 DEF Has
    <3> QED
      BY <3>5 DEF Inv, Session
  <2>4. Session(core, dgram, InTransit, <<>>, FALSE)
    BY <1>2, <2>3 DEF Inv, Session
  <2>5. ASSUME NEW s \in Stream
        PROVE  Good(s, nat[s], net[s], js[s], InTransit, <<>>, core.closed, closed, FALSE)
    <3> DEFINE c == <<>>
               z == c \o cmds
    <3>1. z = cmds /\ c \in Seq(Command) /\ cmds \in Seq(Command)
      BY DEF Inv
    <3>2. Good(s, nat[s], net[s], js[s], InTransit, z, core.closed, closed, alive)
      BY <3>1 DEF Inv
    <3> HIDE DEF c
    <3>3. Good(s, nat[s], net[s], js[s], InTransit, z, core.closed, closed, FALSE)
      BY <3>2, Weaker
    <3>4. Good(s, nat[s], net[s], js[s], InTransit, c, core.closed, closed, FALSE)
      BY <3>1, <3>3, CommandsLost
    <3> QED
      BY <3>4 DEF c
  <2>6. Session(core', dgram', InTransit', cmds', alive')
    BY <1>1, <2>1, <2>2, <2>4
  <2>7. \A s \in Stream :
           Good(s, nat'[s], net'[s], js'[s], InTransit', cmds', core'.closed, closed', alive')
    BY <1>1, <2>1, <2>2, <2>5
  <2>8. /\ nat' \in [Stream -> Entry] /\ net' \in [Stream -> Quic] /\ js' \in [Stream -> Whatwg]
        /\ closed' \in BOOLEAN /\ closing' \in BOOLEAN /\ alive' \in BOOLEAN
        /\ stage' \in {"poll", "low", "high"} /\ cmds' \in Seq(Command)
        /\ batches' \in Seq(Seq(Event)) /\ evs' \in Seq(Event) /\ evs' = <<>>
    <3>1. /\ nat \in [Stream -> Entry] /\ net \in [Stream -> Quic] /\ js \in [Stream -> Whatwg]
          /\ closed \in BOOLEAN /\ closing \in BOOLEAN
          /\ batches \in Seq(Seq(Event)) /\ evs \in Seq(Event) /\ evs = <<>>
      BY <1>1 DEF Inv
    <3>2. cmds' \in Seq(Command)
      BY <1>1
    <3>3. alive' \in BOOLEAN /\ stage' \in {"poll", "low", "high"}
      BY <1>1, <2>1
    <3> QED
      BY <1>1, <2>1, <3>1, <3>2, <3>3
  <2>9. \A s \in Stream :
           /\ js'[s].open # "resolved"
           /\ \A i \in 1 .. Len(batches') : Parted(batches'[i], s)
           /\ ~Has(evs', Recv, s)
           /\ s \in LocalStreams /\ Has(evs', {"StreamOpened"}, s) => ~net'[s].known
    BY <1>1, <2>1 DEF Inv
  <2> QED
    BY <2>6, <2>7, <2>8, <2>9 DEF Inv
<1>4. CASE ~ \E i \in 1 .. Len(cmds) : cmds[i].type = "Shutdown"
  <2> DEFINE d == Drained
             w == FlattenSeq(batches) \o d.ev
  <2>1. /\ nat' = d.st /\ evs' = d.ev /\ alive' = alive /\ stage' \in {"low", "high"}
    BY <1>4 DEF DriverWake
  <2>2. Draining(d, <<>>)
    BY <1>1, <1>4, DrainGood
  <2> HIDE DEF d
  <2>3. InTransit' = w
    BY <1>1, <2>1 DEF InTransit
  <2>4. /\ d.ev \in Seq(Event) /\ d.st \in [Stream -> Entry]
        /\ Session(core, dgram, w, <<>>, alive)
        /\ \A s \in Stream : /\ Good(s, d.st[s], net[s], js[s], w, <<>>, core.closed, closed, alive)
                             /\ ~Has(d.ev, Recv, s)
                             /\ s \in LocalStreams /\ Has(d.ev, {"StreamOpened"}, s) => ~net[s].known
    BY <2>2 DEF Draining
  <2> HIDE DEF w
  <2>5. Session(core', dgram', InTransit', cmds', alive')
    BY <1>1, <2>1, <2>3, <2>4
  <2>6. \A s \in Stream :
           /\ Good(s, nat'[s], net'[s], js'[s], InTransit', cmds', core'.closed, closed', alive')
           /\ ~Has(evs', Recv, s)
           /\ s \in LocalStreams /\ Has(evs', {"StreamOpened"}, s) => ~net'[s].known
    BY <1>1, <2>1, <2>3, <2>4
  <2>7. nat' \in [Stream -> Entry] /\ evs' \in Seq(Event) /\ cmds' \in Seq(Command)
    BY <1>1, <2>1, <2>4
  <2> QED
    BY <1>1, <2>1, <2>5, <2>6, <2>7 DEF Inv
<1> QED
  BY <1>3, <1>4

-----------------------------------------------------------------------------
(* The peer and QUIC. *)

\* What a packet may change of QUIC's side of a stream: chunks only come in, and none
\* after the FIN; a stream the peer does not know yet has nothing to show.
Arrives(s, n, m) ==
  /\ m \in Quic /\ m.known = n.known
  /\ m.buffered + n.sent = m.sent + n.buffered
  /\ n.fin => m.fin /\ m.sent = n.sent
  /\ s \in LocalStreams /\ ~n.known => m.sent = n.sent /\ m.fin = n.fin /\ m.reset = n.reset

\* A packet on one stream keeps the invariant of that stream.
LEMMA ArrivesGood ==
  ASSUME NEW s, NEW e, NEW n, NEW j, NEW w, NEW c, NEW over, NEW ended, NEW running,
         Good(s, e, n, j, w, c, over, ended, running), NEW m, Arrives(s, n, m)
  PROVE  Good(s, e, m, j, w, c, over, ended, running)
<1>1. e.taken \in Nat /\ n.buffered \in Nat /\ n.sent \in Int /\ m.buffered \in Nat /\ m.sent \in Int
  BY BridgeAssumption DEF Good, Entry, Quic, Arrives
<1>2. e.taken + n.buffered = n.sent
  BY DEF Good, Conveyed
<1>3. e.taken + m.buffered = m.sent
  BY <1>1, <1>2 DEF Arrives
<1>4. s \in LocalStreams => Opening(s, e, m, j, w, c, over, ended)
  BY DEF Good, Opening, Arrives
<1>5. Conveyed(s, e, m, j, w, over, ended)
  BY <1>3 DEF Good, Conveyed, Arrives
<1> QED
  BY <1>4, <1>5 DEF Good, Arrives

\* A packet keeps the invariant.
LEMMA PacketGood ==
  ASSUME Inv, NEW a \in Stream, NEW m, Arrives(a, net[a], m), Packet(a, m)
  PROVE  Inv'
<1> DEFINE n1 == [net EXCEPT ![a] = m]
<1>1. /\ net' = n1
      /\ nat' = nat /\ dgram' = dgram /\ closed' = closed /\ alive' = alive /\ evs' = evs
      /\ stage' = stage /\ js' = js /\ core' = core /\ closing' = closing /\ cmds' = cmds
      /\ batches' = batches
  BY DEF Packet, driver
<1>2. net \in [Stream -> Quic] /\ m \in Quic
  BY DEF Inv, Arrives
<1>3. n1 \in [Stream -> Quic] /\ n1[a] = m /\ \A s \in Stream : s # a => n1[s] = net[s]
  BY <1>2
<1> HIDE DEF n1
<1>4. ASSUME NEW s \in Stream
      PROVE  /\ Good(s, nat[s], n1[s], js[s], InTransit, cmds, core.closed, closed, alive)
             /\ n1[s].known = net[s].known
  <2> DEFINE n == net[s]
  <2>1. Good(s, nat[s], n, js[s], InTransit, cmds, core.closed, closed, alive)
    BY DEF Inv
  <2>2. CASE s = a
    <3>1. Arrives(s, n, m)
      BY <2>2
    <3> HIDE DEF n
    <3>2. Good(s, nat[s], m, js[s], InTransit, cmds, core.closed, closed, alive)
      BY <2>1, <3>1, ArrivesGood
    <3> QED
      BY <1>3, <2>2, <3>1, <3>2 DEF Arrives, n
  <2>3. CASE s # a
    BY <1>3, <2>1, <2>3
  <2> QED
    BY <2>2, <2>3
<1>5. InTransit' = InTransit
  BY <1>1 DEF InTransit
<1>6. /\ nat' \in [Stream -> Entry] /\ net' \in [Stream -> Quic] /\ js' \in [Stream -> Whatwg]
      /\ closed' \in BOOLEAN /\ closing' \in BOOLEAN /\ alive' \in BOOLEAN
      /\ stage' \in {"poll", "low", "high"}
      /\ cmds' \in Seq(Command) /\ batches' \in Seq(Seq(Event)) /\ evs' \in Seq(Event)
  <2>1. /\ nat \in [Stream -> Entry] /\ js \in [Stream -> Whatwg]
        /\ closed \in BOOLEAN /\ closing \in BOOLEAN /\ alive \in BOOLEAN
        /\ stage \in {"poll", "low", "high"}
        /\ cmds \in Seq(Command) /\ batches \in Seq(Seq(Event)) /\ evs \in Seq(Event)
    BY DEF Inv
  <2> QED
    BY <1>1, <1>3, <2>1
<1>7. (stage' = "poll" => evs' = <<>>) /\ Session(core', dgram', InTransit', cmds', alive')
  BY <1>1, <1>5 DEF Inv
<1>8. \A s \in Stream :
         /\ Good(s, nat'[s], net'[s], js'[s], InTransit', cmds', core'.closed, closed', alive')
         /\ js'[s].open # "resolved"
         /\ \A i \in 1 .. Len(batches') : Parted(batches'[i], s)
         /\ ~Has(evs', Recv, s)
         /\ s \in LocalStreams /\ Has(evs', {"StreamOpened"}, s) => ~net'[s].known
  BY <1>1, <1>4, <1>5 DEF Inv
<1> QED
  BY <1>6, <1>7, <1>8 DEF Inv

\* Every packet of the peer keeps the invariant.
LEMMA PeerGood ==
  ASSUME Inv, NEW s \in Stream,
         PeerSends(s) \/ PeerFins(s) \/ PeerResets(s) \/ PeerStops(s) \/ PeerCredits(s)
  PROVE  Inv'
<1> DEFINE n == net[s]
<1>1. n \in Quic /\ MaxChunks \in Nat
  BY BridgeAssumption DEF Inv
<1>2. s \in LocalStreams => s \notin PeerStreams
  BY BridgeAssumption
<1>3. CASE PeerSends(s)
  <2> DEFINE sent == n.sent + 1
             buffered == n.buffered + 1
             m == [n EXCEPT !.sent = sent, !.buffered = buffered]
  <2>1. Packet(s, m) /\ ~n.fin /\ (s \in LocalStreams => n.known) /\ n.sent < MaxChunks
    BY <1>2, <1>3 DEF PeerSends, PeerKnows
  <2>2. sent \in 0 .. MaxChunks /\ buffered \in Nat /\ buffered + n.sent = sent + n.buffered
    BY <1>1, <2>1 DEF Quic
  <2> HIDE DEF n, sent, buffered
  <2>3. m \in Quic /\ m.known = n.known /\ m.sent = sent /\ m.buffered = buffered
    BY <1>1, <2>2 DEF Quic
  <2> HIDE DEF m
  <2>4. Arrives(s, n, m)
    BY <2>1, <2>2, <2>3 DEF Arrives
  <2> QED
    BY <2>1, <2>4, PacketGood DEF n
<1>4. ASSUME PeerFins(s) \/ PeerResets(s) \/ PeerStops(s) \/ PeerCredits(s) PROVE Inv'
  <2>1. PICK m : /\ Packet(s, m)
                 /\ \/ m = [n EXCEPT !.fin = TRUE] /\ (s \in LocalStreams => n.known)
                    \/ m = [n EXCEPT !.reset = TRUE] /\ (s \in LocalStreams => n.known)
                    \/ m = [n EXCEPT !.stop = TRUE]
                    \/ m = [n EXCEPT !.credit = TRUE]
                    \/ m = [n EXCEPT !.room = 1]
    BY <1>2, <1>4 DEF PeerFins, PeerResets, PeerStops, PeerCredits, PeerKnows
  <2> HIDE DEF n
  <2>2. m \in Quic /\ m.known = n.known /\ m.sent = n.sent /\ m.buffered = n.buffered
    <3>1. CASE m = [n EXCEPT !.fin = TRUE] \/ m = [n EXCEPT !.reset = TRUE]
      BY <1>1, <3>1 DEF Quic
    <3>2. CASE m = [n EXCEPT !.stop = TRUE] \/ m = [n EXCEPT !.credit = TRUE]
      BY <1>1, <3>2 DEF Quic
    <3>3. CASE m = [n EXCEPT !.room = 1]
      BY <1>1, <3>3 DEF Quic
    <3> QED
      BY <2>1, <3>1, <3>2, <3>3
  <2>3. /\ n.fin => m.fin
        /\ s \in LocalStreams /\ ~n.known => m.fin = n.fin /\ m.reset = n.reset
    BY <1>1, <2>1 DEF Quic
  <2>4. n.buffered \in Nat /\ n.sent \in Int
    BY <1>1 DEF Quic
  <2>5. Arrives(s, n, m)
    BY <2>2, <2>3, <2>4 DEF Arrives
  <2> QED
    BY <2>1, <2>5, PacketGood DEF n
<1> QED
  BY <1>3, <1>4

\* What the session owes the application does not depend on what QUIC still holds: a
\* datagram of the peer and its CLOSE capsule keep the invariant, and so does a step
\* that changes nothing.
LEMMA OtherGood ==
  ASSUME Inv, PeerSendsDatagram \/ PeerCloses \/ UNCHANGED vars
  PROVE  Inv'
<1>1. /\ nat' = nat /\ net' = net /\ js' = js /\ closed' = closed /\ alive' = alive /\ evs' = evs
      /\ stage' = stage /\ core' = core /\ cmds' = cmds /\ batches' = batches
  BY DEF PeerSendsDatagram, PeerCloses, vars, driver
<1>2. InTransit' = InTransit
  BY <1>1 DEF InTransit
<1>3. closing \in BOOLEAN /\ dgram \in Dgrams
  BY DEF Inv, Session
<1>4. closing' \in BOOLEAN
  BY <1>3 DEF PeerSendsDatagram, PeerCloses, vars
<1>5. dgram' \in Dgrams /\ dgram'.taken = dgram.taken
  <2>1. CASE dgram' = dgram
    BY <1>3, <2>1
  <2>2. CASE PeerSendsDatagram
    <3> DEFINE sent == dgram.sent + 1
               buffered == dgram.buffered + 1
    <3>1. dgram' = [dgram EXCEPT !.sent = sent, !.buffered = buffered]
      BY <2>2 DEF PeerSendsDatagram
    <3>2. sent \in Nat /\ buffered \in Nat
      BY <1>3 DEF Dgrams
    <3> HIDE DEF sent, buffered
    <3> QED
      BY <1>3, <3>1, <3>2 DEF Dgrams
  <2> QED
    BY <2>1, <2>2 DEF PeerCloses, vars, driver
<1>6. Session(core, dgram', InTransit, cmds, alive)
  BY <1>5 DEF Inv, Session
<1>7. Session(core', dgram', InTransit', cmds', alive')
  BY <1>1, <1>2, <1>6
<1>8. /\ nat' \in [Stream -> Entry] /\ net' \in [Stream -> Quic] /\ js' \in [Stream -> Whatwg]
      /\ closed' \in BOOLEAN /\ alive' \in BOOLEAN /\ stage' \in {"poll", "low", "high"}
      /\ cmds' \in Seq(Command) /\ batches' \in Seq(Seq(Event)) /\ evs' \in Seq(Event)
  <2>1. /\ nat \in [Stream -> Entry] /\ net \in [Stream -> Quic] /\ js \in [Stream -> Whatwg]
        /\ closed \in BOOLEAN /\ alive \in BOOLEAN /\ stage \in {"poll", "low", "high"}
        /\ cmds \in Seq(Command) /\ batches \in Seq(Seq(Event)) /\ evs \in Seq(Event)
    BY DEF Inv
  <2> QED
    BY <1>1, <2>1
<1>9. (stage' = "poll" => evs' = <<>>)
  BY <1>1 DEF Inv
<1>10. \A s \in Stream :
         /\ Good(s, nat'[s], net'[s], js'[s], InTransit', cmds', core'.closed, closed', alive')
         /\ js'[s].open # "resolved"
         /\ \A i \in 1 .. Len(batches') : Parted(batches'[i], s)
         /\ ~Has(evs', Recv, s)
         /\ s \in LocalStreams /\ Has(evs', {"StreamOpened"}, s) => ~net'[s].known
  BY <1>1, <1>2 DEF Inv
<1> QED
  BY <1>4, <1>7, <1>8, <1>9, <1>10 DEF Inv

-----------------------------------------------------------------------------
(* The JavaScript thread: the commands of one stream. *)

\* What the queue z of commands, c with a command t to s at its end, says of s.
Added(t, s, z, c) ==
  /\ Has(z, {"OpenStream"}, s) <=> t = "OpenStream" \/ Has(c, {"OpenStream"}, s)
  /\ Has(z, {"Write"}, s) <=> t = "Write" \/ Has(c, {"Write"}, s)
  /\ Has(z, {"ResetStream"}, s) <=> t = "ResetStream" \/ Has(c, {"ResetStream"}, s)
  /\ Has(z, ToStream, s)
  /\ Has(z, ToStream \ {"OpenStream"}, s) <=> t # "OpenStream" \/ Has(c, ToStream \ {"OpenStream"}, s)
  /\ Count(z, Item("Write", s)) = Count(c, Item("Write", s)) + (IF t = "Write" THEN 1 ELSE 0)
  /\ Count(c, Item("Write", s)) \in Nat
  /\ Never(c, ToStream, {"OpenStream"}, s) /\ (t # "OpenStream" \/ ~Has(c, ToStream, s))
       => Never(z, ToStream, {"OpenStream"}, s)

\* A command at the end of the queue.
LEMMA CommandAdded ==
  ASSUME NEW s \in Stream, NEW t \in ToStream, NEW c \in Seq(Command)
  PROVE  /\ Added(t, s, c \o <<Item(t, s)>>, c)
         /\ <<Item(t, s)>> \in Seq(OwnCommand(s)) /\ <<Item(t, s)>> \in Seq(Command)
<1> DEFINE x == Item(t, s)
           u == <<x>>
           z == c \o u
           y == Item("Write", s)
<1>1. x.type = t /\ x.stream = s /\ x \in Command /\ x \in OwnCommand(s) /\ (x = y <=> t = "Write")
  BY DEF Item, Command, OwnCommand
<1> HIDE DEF x, y
<1>2. u \in Seq(Command) /\ u \in Seq(OwnCommand(s))
  BY <1>1
<1>3. \A T : Has(u, T, s) <=> t \in T
  BY <1>1, OneItem
<1>4. Count(u, y) = IF t = "Write" THEN 1 ELSE 0
  BY <1>1, OneItem
<1>5. Never(c, ToStream, {"OpenStream"}, s) /\ (t # "OpenStream" \/ ~Has(c, ToStream, s))
        => Never(z, ToStream, {"OpenStream"}, s)
  <2>1. Never(u, ToStream, {"OpenStream"}, s)
    BY OneItem
  <2>2. Has(u, {"OpenStream"}, s) <=> t = "OpenStream"
    BY <1>3
  <2> HIDE DEF u
  <2> QED
    BY <1>2, <2>1, <2>2, NeverConcat
<1> HIDE DEF u
<1>6. CommandsGrow(z, c, u, s)
  BY <1>2, CommandsConcat
<1> HIDE DEF z
<1>7. /\ Has(z, {"OpenStream"}, s) <=> t = "OpenStream" \/ Has(c, {"OpenStream"}, s)
      /\ Has(z, {"Write"}, s) <=> t = "Write" \/ Has(c, {"Write"}, s)
      /\ Has(z, {"ResetStream"}, s) <=> t = "ResetStream" \/ Has(c, {"ResetStream"}, s)
      /\ Has(z, ToStream, s)
      /\ Has(z, ToStream \ {"OpenStream"}, s) <=> t # "OpenStream" \/ Has(c, ToStream \ {"OpenStream"}, s)
  BY <1>3, <1>6 DEF CommandsGrow
<1>8. /\ Count(z, y) = Count(c, y) + (IF t = "Write" THEN 1 ELSE 0)
      /\ Count(c, y) \in Nat
  BY <1>4, <1>6 DEF CommandsGrow, y
<1> QED
  BY <1>2, <1>5, <1>7, <1>8 DEF x, u, z, y, Added

\* A stream whose constructors ran, or which the peer announced and JavaScript turned
\* down, may be commanded.
Commandable(s, e, j, w, ended) ==
  \/ j.open = "live"
  \/ s \in PeerStreams /\ ~Unannounced(e, ended) /\ ~Has(w, {"Stream"}, s)

\* A command other than an open or a write may be sent for a stream that is announced.
LEMMA SentGood ==
  ASSUME NEW s \in Stream, NEW e, NEW n, NEW j, NEW w, NEW c \in Seq(Command), NEW over, NEW ended,
         NEW running, Good(s, e, n, j, w, c, over, ended, running),
         NEW t \in ToStream \ {"OpenStream", "Write"}, Commandable(s, e, j, w, ended),
         t = "ResetStream" => ~j.writing /\ j.writable # "open"
  PROVE  Good(s, e, n, j, w, c \o <<Item(t, s)>>, over, ended, running)
<1> DEFINE z == c \o <<Item(t, s)>>
<1>1. Added(t, s, z, c)
  BY CommandAdded
<1> HIDE DEF z
<1>2. s \in LocalStreams => s \notin PeerStreams
  BY BridgeAssumption
<1>3. s \in LocalStreams => Opening(s, e, n, j, w, z, over, ended)
  BY <1>1, <1>2 DEF Good, Opening, Added, Commandable
<1>4. s \in PeerStreams => Announced(s, e, j, w, z, over, ended)
  <2>1. j.open = "live" => j # NewJs
    BY DEF NewJs
  <2> QED
    BY <1>1, <2>1 DEF Good, Announced, Added, Commandable
<1>5. Written(s, e, j, w, z, over, running)
  <2>1. Count(z, Item("Write", s)) = Count(c, Item("Write", s))
    BY <1>1 DEF Added
  <2> QED
    BY <1>1, <2>1 DEF Good, Written, Added
<1> QED
  BY <1>3, <1>4, <1>5 DEF Good, z

\* An awaited open continues with the constructors.
LEMMA ContinueGood ==
  ASSUME NEW s, NEW e, NEW n, NEW j, NEW w, NEW c, NEW over, NEW ended, NEW running,
         Good(s, e, n, j, w, c, over, ended, running), over \in BOOLEAN, s \in Stream
  PROVE  /\ Good(s, e, n, Continue(j), w, c, over, ended, running)
         /\ Continue(j).open # "resolved"
<1> DEFINE k == [j EXCEPT !.open = "live", !.recv = TRUE, !.send = TRUE, !.readable = "open",
                          !.writable = "open"]
<1>1. CASE j.open # "resolved"
  <2>1. Continue(j) = j
    BY <1>1 DEF Continue
  <2> QED
    BY <1>1, <2>1
<1>2. CASE j.open = "resolved"
  <2>1. Continue(j) = k
    BY <1>2 DEF Continue, Constructed
  <2>2. j \in Whatwg /\ j = [NewJs EXCEPT !.open = "resolved"]
    BY <1>2 DEF Good, Shaped
  <2>3. k \in Whatwg
    BY <2>2 DEF Whatwg
  <2>4. k.open = "live" /\ k.recv = TRUE /\ k.readable = "open" /\ k.writable = "open"
    BY <2>2 DEF NewJs
  <2>5. k.queue = j.queue /\ k.got = j.got /\ k.pending = j.pending /\ k.writes = j.writes
        /\ k.writing = j.writing
    BY <2>2 DEF NewJs
  <2>6. s \in LocalStreams /\ s \notin PeerStreams
    BY <1>2, BridgeAssumption DEF Good, Announced, Stream
  <2>7. Opening(s, e, n, j, w, c, over, ended)
    BY <2>6 DEF Good
  <2> HIDE DEF k
  <2>8. Opening(s, e, n, k, w, c, over, ended)
    BY <1>2, <2>4, <2>7 DEF Opening
  <2>9. j.readable # "closed" /\ Coming(s, e, j, w, ended)
    BY <1>2, <2>2, <2>6 DEF NewJs, Coming
  <2>10. Conveyed(s, e, n, k, w, over, ended)
    BY <2>4, <2>5, <2>9 DEF Good, Conveyed
  <2>11. ~Has(c, {"ResetStream"}, s)
    BY <1>2, <2>7, HasLess DEF Opening
  <2>12. Written(s, e, k, w, c, over, running)
    BY <2>5, <2>11 DEF Good, Written
  <2>13. Shaped(k)
    BY <2>4, <2>5 DEF Good, Shaped
  <2> QED
    BY <2>1, <2>3, <2>4, <2>6, <2>8, <2>10, <2>12, <2>13 DEF Good
<1> QED
  BY <1>1, <1>2

\* A live stream may lose its ends, its reads and its pending write, and gain writes that
\* wait in it.
Calmer(j, k) ==
  /\ k \in Whatwg /\ Shaped(k) /\ j.open = "live" /\ k.open = "live" /\ k.got = j.got
  /\ k.readable = "open" => j.readable = "open"
  /\ k.readable = "closed" => j.readable = "closed"
  /\ k.pending + j.writes = j.pending + k.writes
  /\ k.writing => j.writing
  /\ k.writable = "open" => j.writable = "open"

\* Making a live stream calmer keeps its invariant, whatever is in the queues.
LEMMA LiveGood ==
  ASSUME NEW s \in Stream, NEW e, NEW n, NEW j, NEW w, NEW c \in Seq(Command), NEW over, NEW ended,
         NEW running, Good(s, e, n, j, w, c, over, ended, running), NEW k, Calmer(j, k)
  PROVE  Good(s, e, n, k, w, c, over, ended, running)
<1>1. j # NewJs
  BY DEF NewJs, Calmer
<1>2. s \in LocalStreams => Opening(s, e, n, k, w, c, over, ended)
  BY DEF Good, Opening, Calmer
<1>3. s \in PeerStreams => Announced(s, e, k, w, c, over, ended)
  BY <1>1 DEF Good, Announced, Calmer
<1>4. ~Coming(s, e, k, w, ended)
  <2>1. s \notin LocalStreams => s \in PeerStreams
    BY DEF Stream
  <2> QED
    BY <1>1, <2>1 DEF Coming, Calmer, Good, Announced
<1>5. Conveyed(s, e, n, k, w, over, ended)
  BY <1>4 DEF Good, Conveyed, Calmer
<1>6. Written(s, e, k, w, c, over, running)
  <2>1. /\ e.out \in Nat /\ j.pending \in Nat /\ j.writes \in Int /\ k.pending \in Nat /\ k.writes \in Int
    BY BridgeAssumption DEF Good, Whatwg, Entry, Calmer
  <2> DEFINE count == Count(c, Item("Write", s))
             X == Command
  <2>2. count \in Nat
    <3>1. c \in Seq(X)
      OBVIOUS
    <3> HIDE DEF X
    <3> QED
      BY <3>1, CountIsNat
  <2>3. e.out + count + j.pending <= j.writes
    BY DEF Good, Written
  <2> HIDE DEF count
  <2>4. e.out + count + k.pending <= k.writes
    BY <2>1, <2>2, <2>3 DEF Calmer
  <2> QED
    BY <2>4 DEF Good, Written, Calmer, count
<1> QED
  BY <1>2, <1>3, <1>5, <1>6 DEF Good, Calmer

\* The WritableStream hands a write to its sink.
LEMMA WriteGood ==
  ASSUME NEW s \in Stream, NEW e, NEW n, NEW j, NEW w, NEW c \in Seq(Command), NEW over, NEW ended,
         NEW running, Good(s, e, n, j, w, c, over, ended, running), ~over,
         j.writable = "open", j.pending > 0
  PROVE  Good(s, e, n, [j EXCEPT !.pending = @ - 1, !.writing = TRUE], w,
              c \o <<Item("Write", s)>>, over, ended, running)
<1> DEFINE z == c \o <<Item("Write", s)>>
           pending == j.pending - 1
           k == [j EXCEPT !.pending = pending, !.writing = TRUE]
<1>1. Added("Write", s, z, c)
  <2>1. "Write" \in ToStream
    BY DEF ToStream
  <2> QED
    BY <2>1, CommandAdded
<1> HIDE DEF z
<1>2. j \in Whatwg /\ j.open = "live"
  BY DEF Good, Shaped, NewJs
<1>3. pending \in Nat /\ pending + 1 = j.pending
  BY <1>2 DEF Whatwg
<1> HIDE DEF pending
<1>4. k \in Whatwg /\ k.open = "live" /\ k.pending = pending
  BY <1>2, <1>3 DEF Whatwg
<1>5. k.queue = j.queue /\ k.got = j.got /\ k.recv = j.recv /\ k.readable = j.readable
  BY <1>2 DEF Whatwg
<1>6. k.writes = j.writes /\ k.writable = j.writable
  BY <1>2 DEF Whatwg
<1> HIDE DEF k
<1>7. j # NewJs
  BY <1>2 DEF NewJs
<1>8. s \in LocalStreams => Opening(s, e, n, k, w, z, over, ended)
  BY <1>1, <1>2, <1>4 DEF Good, Opening, Added
<1>9. s \in PeerStreams => Announced(s, e, k, w, z, over, ended)
  BY <1>1, <1>4, <1>5, <1>7 DEF Good, Announced, Added
<1>10. ~Coming(s, e, k, w, ended)
  <2>1. s \notin LocalStreams => s \in PeerStreams
    BY DEF Stream
  <2> QED
    BY <1>4, <1>7, <2>1 DEF Coming, Good, Announced
<1>11. Conveyed(s, e, n, k, w, over, ended)
  BY <1>5, <1>10 DEF Good, Conveyed
<1>12. Written(s, e, k, w, z, over, running)
  <2> DEFINE old == Count(c, Item("Write", s))
             new == Count(z, Item("Write", s))
  <2>1. /\ e.out \in Nat /\ j.pending \in Nat /\ j.writes \in Int
    BY <1>2, BridgeAssumption DEF Good, Whatwg, Entry
  <2>2. old \in Nat /\ new = old + 1
    BY <1>1 DEF Added
  <2>3. e.out + old + j.pending <= j.writes
    BY DEF Good, Written
  <2> HIDE DEF old, new
  <2>4. e.out + new + k.pending <= k.writes
    BY <1>3, <1>4, <1>6, <2>1, <2>2, <2>3
  <2>5. Has(z, {"Write"}, s) /\ ~Has(z, {"ResetStream"}, s)
    BY <1>1 DEF Added, Good, Written
  <2> QED
    BY <2>4, <2>5 DEF Written, new
<1>13. Shaped(k)
  BY <1>4, <1>5 DEF Good, Shaped
<1> QED
  BY <1>4, <1>8, <1>9, <1>11, <1>12, <1>13 DEF Good, k, z, pending

\* The WritableStream starts its next sink operation, if it has one.
LEMMA SinkGood ==
  ASSUME NEW s \in Stream, NEW e, NEW n, NEW j, NEW w, NEW c \in Seq(Command), NEW over \in BOOLEAN,
         NEW ended, NEW running, Good(s, e, n, j, w, c, over, ended, running)
  PROVE  LET p == StartSink(s, j, over) IN
         /\ p.items \in Seq(OwnCommand(s)) /\ p.entry.open = j.open
         /\ Good(s, e, n, p.entry, w, c \o p.items, over, ended, running)
<1> DEFINE p == StartSink(s, j, over)
<1>0. j \in Whatwg
  BY DEF Good
<1>1. CASE p = Quiet(j)
  <2>1. p.items = <<>> /\ p.entry = j
    BY <1>1 DEF Quiet, Step
  <2>2. <<>> \in Seq(OwnCommand(s)) /\ c \o <<>> = c
    OBVIOUS
  <2> HIDE DEF p
  <2> QED
    BY <2>1, <2>2 DEF p
<1>2. CASE j.writable = "open" /\ ~j.writing /\ j.pending > 0 /\ over
  <2> DEFINE k == [j EXCEPT !.writable = "errored"]
  <2>1. p = Quiet(k)
    BY <1>2 DEF StartSink
  <2>2. p.items = <<>> /\ p.entry = k
    BY <2>1 DEF Quiet, Step
  <2>3. <<>> \in Seq(OwnCommand(s)) /\ c \o <<>> = c
    OBVIOUS
  <2>4. j.open = "live"
    BY <1>2 DEF Good, Shaped, NewJs
  <2>5. k \in Whatwg /\ k.open = j.open /\ k.writable = "errored"
    BY <1>0 DEF Whatwg
  <2>6. k.queue = j.queue /\ k.got = j.got /\ k.recv = j.recv /\ k.readable = j.readable
    BY <1>0 DEF Whatwg
  <2>7. k.pending = j.pending /\ k.writes = j.writes /\ k.writing = j.writing
    BY <1>0 DEF Whatwg
  <2> HIDE DEF k, p
  <2>8. Calmer(j, k)
    BY <2>4, <2>5, <2>6, <2>7 DEF Calmer, Good, Shaped
  <2>9. Good(s, e, n, k, w, c, over, ended, running)
    BY <2>8, LiveGood
  <2> QED
    BY <2>2, <2>3, <2>5, <2>9 DEF p
<1>3. CASE j.writable = "open" /\ ~j.writing /\ j.pending > 0 /\ ~over
  <2> DEFINE k == [j EXCEPT !.pending = @ - 1, !.writing = TRUE]
             r == <<Item("Write", s)>>
  <2>1. p = Step(k, r)
    BY <1>3 DEF StartSink
  <2>2. p.items = r /\ p.entry = k
    BY <2>1 DEF Step
  <2>3. r \in Seq(OwnCommand(s))
    <3>1. "Write" \in ToStream
      BY DEF ToStream
    <3> QED
      BY <3>1, CommandAdded
  <2>4. Good(s, e, n, k, w, c \o r, over, ended, running)
    BY <1>3, WriteGood
  <2>5. k.open = j.open
    BY <1>0 DEF Whatwg
  <2> HIDE DEF k, r, p
  <2> QED
    BY <2>2, <2>3, <2>4, <2>5 DEF p
<1>4. CASE j.writable = "open" /\ ~j.writing /\ ~(j.pending > 0) /\ j.closeCalled
  <2> DEFINE k == [j EXCEPT !.writable = "closed", !.send = FALSE]
             r == <<Item("Fin", s)>>
  <2>1. p = Step(k, r)
    BY <1>4 DEF StartSink
  <2>2. p.items = r /\ p.entry = k
    BY <2>1 DEF Step
  <2>3. "Fin" \in ToStream \ {"OpenStream", "Write"}
    BY DEF ToStream
  <2>4. j.open = "live"
    BY <1>4 DEF Good, Shaped, NewJs
  <2>5. k \in Whatwg /\ k.open = j.open /\ k.writable = "closed"
    BY <1>0 DEF Whatwg
  <2>6. k.queue = j.queue /\ k.got = j.got /\ k.recv = j.recv /\ k.readable = j.readable
    BY <1>0 DEF Whatwg
  <2>7. k.pending = j.pending /\ k.writes = j.writes /\ k.writing = j.writing
    BY <1>0 DEF Whatwg
  <2> HIDE DEF k, p
  <2>8. Calmer(j, k)
    BY <2>4, <2>5, <2>6, <2>7 DEF Calmer, Good, Shaped
  <2>9. Good(s, e, n, k, w, c, over, ended, running)
    BY <2>8, LiveGood
  <2>10. Commandable(s, e, k, w, ended)
    BY <2>4, <2>5 DEF Commandable
  <2>11. Good(s, e, n, k, w, c \o r, over, ended, running)
    BY <2>3, <2>9, <2>10, SentGood
  <2>12. r \in Seq(OwnCommand(s))
    BY <2>3, CommandAdded
  <2> HIDE DEF r
  <2> QED
    BY <2>2, <2>5, <2>11, <2>12 DEF p
<1>5. p = Quiet(j) \/ (j.writable = "open" /\ ~j.writing /\ (j.pending > 0 \/ j.closeCalled))
  BY DEF StartSink
<1>6. j.pending > 0 \/ ~(j.pending > 0)
  OBVIOUS
<1> HIDE DEF p
<1> QED
  BY <1>1, <1>2, <1>3, <1>4, <1>5, <1>6 DEF p

-----------------------------------------------------------------------------
(* A turn of the JavaScript thread. *)

\* Commands to streams do not concern the session.
LEMMA SessionCommands ==
  ASSUME NEW k, NEW d, NEW w, NEW c \in Seq(Command), NEW running, Session(k, d, w, c, running),
         NEW r \in Seq(Command), \A s : \A T : T \cap ToStream = {} => ~Has(r, T, s)
  PROVE  Session(k, d, w, c \o r, running)
<1> DEFINE X == Command
           z == c \o r
<1>1. \A T, s : Has(z, T, s) <=> Has(c, T, s) \/ Has(r, T, s)
  <2>1. c \in Seq(X) /\ r \in Seq(X)
    OBVIOUS
  <2> HIDE DEF X
  <2> QED
    BY <2>1, HasConcat
<1> HIDE DEF z
<1>2. ~Has(r, {"Shutdown"}, "session") /\ \A q \in Request : ~Has(r, {q}, "session")
  BY DEF Request, ToStream
<1>4. Session(k, d, w, z, running)
  BY <1>1, <1>2 DEF Session
<1> QED
  BY <1>4 DEF z

\* In the middle of a turn: j is what JavaScript has made of its streams and of its
\* session, with the commands it has issued; w is what is still on its way to it.
Turning(j, w) ==
  LET c == cmds \o j.cmds IN
  /\ j = [st |-> j.st, core |-> j.core, cmds |-> j.cmds]
  /\ j.st \in [Stream -> Whatwg] /\ j.cmds \in Seq(Command)
  /\ Session(j.core, dgram, w, c, alive)
  /\ \A s \in Stream : Good(s, nat[s], net[s], j.st[s], w, c, j.core.closed, closed, alive)

\* What the end of the turn does, when the streams take their microtasks in this order.
TurnEnds(j, order) ==
  LET issued == j.cmds \o Told(Sunk(j), order) IN
  /\ js' = Entries(Sunk(j)) /\ core' = j.core
  /\ cmds' = IF alive THEN cmds \o issued ELSE cmds
  /\ UNCHANGED <<driver, net, closing>>

\* The microtasks of one stream.
LEMMA SunkGood ==
  ASSUME NEW s \in Stream, NEW e, NEW n, NEW j, NEW w, NEW over \in BOOLEAN, NEW ended, NEW running
  PROVE  LET p == StartSink(s, Continue(j), over) IN
         \A c \in Seq(Command) : Good(s, e, n, j, w, c, over, ended, running) =>
           /\ p.items \in Seq(OwnCommand(s)) /\ p.entry.open # "resolved"
           /\ Good(s, e, n, p.entry, w, c \o p.items, over, ended, running)
<1> DEFINE p == StartSink(s, Continue(j), over)
<1> SUFFICES ASSUME NEW c \in Seq(Command), Good(s, e, n, j, w, c, over, ended, running)
             PROVE  /\ p.items \in Seq(OwnCommand(s)) /\ p.entry.open # "resolved"
                    /\ Good(s, e, n, p.entry, w, c \o p.items, over, ended, running)
  OBVIOUS
<1>1. Good(s, e, n, Continue(j), w, c, over, ended, running) /\ Continue(j).open # "resolved"
  BY ContinueGood
<1> DEFINE k == Continue(j)
           q == StartSink(s, k, over)
<1>2. p = q /\ Good(s, e, n, k, w, c, over, ended, running) /\ k.open # "resolved"
  BY <1>1
<1> HIDE DEF k, p
<1>3. /\ q.items \in Seq(OwnCommand(s)) /\ q.entry.open = k.open
      /\ Good(s, e, n, q.entry, w, c \o q.items, over, ended, running)
  BY <1>2, SinkGood
<1> HIDE DEF q
<1> QED
  BY <1>2, <1>3

\* The end of a turn keeps the invariant of the streams and of the session, as long as the
\* channel takes the commands.
LEMMA SunkAll ==
  ASSUME Inv, NEW j, NEW w \in Seq(Event), Turning(j, w), NEW order \in Orders(Sunk(j))
  PROVE  LET issued == j.cmds \o Told(Sunk(j), order)
             c == cmds \o issued
             st == Entries(Sunk(j)) IN
         /\ issued \in Seq(Command) /\ st \in [Stream -> Whatwg]
         /\ Session(j.core, dgram, w, c, alive)
         /\ \A s \in Stream :
              /\ st[s].open # "resolved"
              /\ Good(s, nat[s], net[s], st[s], w, c, j.core.closed, closed, alive)
<1> DEFINE steps == Sunk(j)
           q == Told(steps, order)
           a == j.cmds
           issued == a \o q
           c0 == cmds \o a
           c == cmds \o issued
           over == j.core.closed
           st == Entries(steps)
<1>1. /\ a \in Seq(Command) /\ cmds \in Seq(Command) /\ over \in BOOLEAN
      /\ Session(j.core, dgram, w, c0, alive)
      /\ \A s \in Stream : Good(s, nat[s], net[s], j.st[s], w, c0, over, closed, alive)
  BY DEF Turning, Inv, Session, Core
<1>3. ASSUME NEW s \in Stream
      PROVE  \A v \in Seq(Command) :
                Good(s, nat[s], net[s], j.st[s], w, v, over, closed, alive) =>
                  /\ steps[s].items \in Seq(OwnCommand(s)) /\ steps[s].entry.open # "resolved"
                  /\ Good(s, nat[s], net[s], steps[s].entry, w, v \o steps[s].items, over, closed, alive)
  <2> DEFINE k == j.st[s]
             p == StartSink(s, Continue(k), over)
  <2>1. steps[s] = p
    BY DEF Sunk
  <2> HIDE DEF k, steps, over
  <2>2. \A v \in Seq(Command) : Good(s, nat[s], net[s], k, w, v, over, closed, alive) =>
           /\ p.items \in Seq(OwnCommand(s)) /\ p.entry.open # "resolved"
           /\ Good(s, nat[s], net[s], p.entry, w, v \o p.items, over, closed, alive)
    BY <1>1, SunkGood DEF over
  <2> HIDE DEF p
  <2> QED
    BY <2>1, <2>2 DEF k
<1> HIDE DEF steps, over
<1>4. c0 \in Seq(Command)
  <2> DEFINE X == Command
  <2>1. cmds \in Seq(X) /\ a \in Seq(X)
    BY <1>1
  <2> HIDE DEF X, a
  <2>2. c0 \in Seq(X)
    BY <2>1, ConcatProperties
  <2> QED
    BY <2>2 DEF X
<1>5. \A s \in Stream : steps[s].items \in Seq(OwnCommand(s)) /\ steps[s].entry.open # "resolved"
  BY <1>1, <1>3, <1>4
<1>6. /\ q \in Seq(Command)
      /\ \A k : \A T : T \cap ToStream = {} => ~Has(q, T, k)
      /\ \A s \in Stream : Surrounded(q, steps[s].items, s, Command, ToStream)
  <2>1. order \in Orders(steps)
    BY DEF steps
  <2> QED
    BY <1>5, <2>1, ToldCommands
<1> HIDE DEF q, a, c0
<1>7. c = c0 \o q /\ issued \in Seq(Command)
  <2> DEFINE X == Command
  <2>1. cmds \in Seq(X) /\ a \in Seq(X) /\ q \in Seq(X)
    BY <1>1, <1>6
  <2> HIDE DEF X
  <2>2. Grown(cmds, a, q) /\ a \o q \in Seq(X)
    BY <2>1, Growing
  <2> QED
    BY <2>2 DEF Grown, X, c0
<1> HIDE DEF issued, c
<1>8. Session(j.core, dgram, w, c, alive)
  <2>1. Session(j.core, dgram, w, c0 \o q, alive)
    BY <1>1, <1>4, <1>6, SessionCommands
  <2> QED
    BY <1>7, <2>1
<1>9. ASSUME NEW s \in Stream
      PROVE  st[s].open # "resolved" /\ Good(s, nat[s], net[s], st[s], w, c, over, closed, alive)
  <2> DEFINE i == steps[s].items
             f == steps[s].entry
             g == j.st[s]
             e == nat[s]
             n == net[s]
  <2>1. i \in Seq(Command)
    <3>1. i \in Seq(OwnCommand(s))
      BY <1>5
    <3> HIDE DEF i
    <3> QED
      BY <3>1, OwnItems
  <2>2. Surrounded(q, i, s, Command, ToStream)
    BY <1>6
  <2>3. Good(s, e, n, g, w, c0, over, closed, alive)
    BY <1>1
  <2>4. \A v \in Seq(Command) : Good(s, e, n, g, w, v, over, closed, alive)
                                  => Good(s, e, n, f, w, v \o i, over, closed, alive)
    BY <1>3
  <2>5. st[s] = f /\ f.open # "resolved"
    BY <1>5 DEF Entries
  <2> HIDE DEF i, f, g, e, n, st
  <2>6. Good(s, e, n, f, w, c0 \o q, over, closed, alive)
    BY <1>4, <2>1, <2>2, <2>3, <2>4, AmongCommands
  <2> QED
    BY <1>7, <2>5, <2>6 DEF e, n
<1>10. st \in [Stream -> Whatwg]
  <2>1. st = [s \in Stream |-> st[s]]
    BY DEF Entries
  <2> HIDE DEF st
  <2>2. \A s \in Stream : st[s] \in Whatwg
    BY <1>9 DEF Good
  <2> QED
    BY <2>1, <2>2
<1> HIDE DEF st
<1> QED
  BY <1>7, <1>8, <1>9, <1>10 DEF st, c, issued, q, steps, a, over

\* A turn keeps the invariant.
LEMMA TurnGood ==
  ASSUME Inv, NEW j, NEW w \in Seq(Event), Turning(j, w), Turn(j),
         batches' \in Seq(Seq(Event)), FlattenSeq(batches') \o evs = w,
         \A s \in Stream : \A i \in 1 .. Len(batches') : Parted(batches'[i], s)
  PROVE  Inv'
<1>1. PICK order \in Orders(Sunk(j)) : TurnEnds(j, order)
  <2>1. \E sunk \in {Sunk(j)} : \E order \in Orders(sunk) :
        \E issued \in {j.cmds \o Told(sunk, order)} :
           /\ js' = Entries(sunk) /\ core' = j.core
           /\ cmds' = IF alive THEN cmds \o issued ELSE cmds
           /\ UNCHANGED <<driver, net, closing>>
    BY DEF Turn
  <2> QED
    BY <2>1 DEF TurnEnds
<1> DEFINE issued == j.cmds \o Told(Sunk(j), order)
           c == cmds \o issued
           st == Entries(Sunk(j))
           over == j.core.closed
<1>2. /\ js' = st /\ core' = j.core
      /\ cmds' = IF alive THEN c ELSE cmds
      /\ nat' = nat /\ dgram' = dgram /\ closed' = closed /\ alive' = alive /\ evs' = evs
      /\ stage' = stage /\ net' = net /\ closing' = closing
  BY <1>1 DEF TurnEnds, driver
<1>3. /\ issued \in Seq(Command) /\ st \in [Stream -> Whatwg]
      /\ Session(j.core, dgram, w, c, alive)
      /\ \A s \in Stream :
           /\ st[s].open # "resolved"
           /\ Good(s, nat[s], net[s], st[s], w, c, over, closed, alive)
  BY SunkAll
<1>4. /\ nat \in [Stream -> Entry] /\ net \in [Stream -> Quic]
      /\ closed \in BOOLEAN /\ closing \in BOOLEAN /\ alive \in BOOLEAN
      /\ stage \in {"poll", "low", "high"} /\ evs \in Seq(Event) /\ cmds \in Seq(Command)
      /\ stage = "poll" => evs = <<>>
      /\ \A s \in Stream : /\ ~Has(evs, Recv, s)
                           /\ s \in LocalStreams /\ Has(evs, {"StreamOpened"}, s) => ~net[s].known
  BY DEF Inv
<1>5. InTransit' = w
  BY <1>2 DEF InTransit
<1> HIDE DEF st, issued
<1>6. /\ cmds' \in Seq(Command)
      /\ Session(j.core, dgram, w, cmds', alive)
      /\ \A s \in Stream : Good(s, nat[s], net[s], st[s], w, cmds', over, closed, alive)
  <2>1. CASE alive
    <3>1. cmds' = c
      BY <1>2, <2>1
    <3> DEFINE X == Command
    <3>2. cmds \in Seq(X) /\ issued \in Seq(X)
      BY <1>3, <1>4
    <3> HIDE DEF X
    <3>3. c \in Seq(X)
      BY <3>2, ConcatProperties
    <3> HIDE DEF c
    <3> QED
      BY <1>3, <3>1, <3>3 DEF X
  <2>2. CASE ~alive
    <3>1. cmds' = cmds /\ alive = FALSE
      BY <1>2, <1>4, <2>2
    <3>2. Session(j.core, dgram, w, c, FALSE) /\ j.core.closed
      BY <1>3, <3>1 DEF Session
    <3> HIDE DEF c
    <3>3. Session(j.core, dgram, w, cmds, FALSE)
      BY <3>2 DEF Session
    <3>4. ASSUME NEW s \in Stream PROVE Good(s, nat[s], net[s], st[s], w, cmds, over, closed, FALSE)
      <4> DEFINE f == st[s]
      <4>1. Good(s, nat[s], net[s], f, w, cmds \o issued, over, closed, FALSE)
        BY <1>3, <3>1 DEF c
      <4> HIDE DEF f
      <4>2. Good(s, nat[s], net[s], f, w, cmds, over, closed, FALSE)
        BY <1>3, <1>4, <4>1, CommandsLost
      <4> QED
        BY <4>2 DEF f
    <3> QED
      BY <1>4, <3>1, <3>3, <3>4
  <2> QED
    BY <2>1, <2>2
<1>7. /\ nat' \in [Stream -> Entry] /\ net' \in [Stream -> Quic] /\ js' \in [Stream -> Whatwg]
      /\ closed' \in BOOLEAN /\ closing' \in BOOLEAN /\ alive' \in BOOLEAN
      /\ stage' \in {"poll", "low", "high"} /\ evs' \in Seq(Event)
  BY <1>2, <1>3, <1>4
<1>8. (stage' = "poll" => evs' = <<>>) /\ Session(core', dgram', InTransit', cmds', alive')
  BY <1>2, <1>4, <1>5, <1>6
<1>9. \A s \in Stream :
         /\ Good(s, nat'[s], net'[s], js'[s], InTransit', cmds', core'.closed, closed', alive')
         /\ js'[s].open # "resolved"
  BY <1>2, <1>3, <1>5, <1>6 DEF over
<1>10. \A s \in Stream :
         /\ ~Has(evs', Recv, s)
         /\ s \in LocalStreams /\ Has(evs', {"StreamOpened"}, s) => ~net'[s].known
  BY <1>2, <1>4
<1> QED
  BY <1>6, <1>7, <1>8, <1>9, <1>10 DEF Inv

\* A turn that begins now has everything on its way that is on its way now.
LEMMA NowGood ==
  ASSUME Inv
  PROVE  /\ Turning(Now, InTransit) /\ cmds \in Seq(Command)
         /\ Now.st = js /\ Now.core = core /\ Now.cmds = <<>> /\ InTransit \in Seq(Event)
         /\ \A s \in Stream : /\ js[s].open # "resolved"
                              /\ Good(s, nat[s], net[s], js[s], InTransit, cmds, core.closed, closed, alive)
<1> DEFINE X == Event
           Y == Command
           F == FlattenSeq(batches)
<1>1. batches \in Seq(Seq(X)) /\ evs \in Seq(X) /\ cmds \in Seq(Y)
  BY DEF Inv
<1> HIDE DEF X, Y
<1>2. F \in Seq(X)
  BY <1>1, FlattenTyped
<1>3. InTransit = F \o evs
  BY DEF InTransit
<1> HIDE DEF F
<1>4. InTransit \in Seq(X)
  BY <1>1, <1>2, <1>3, ConcatProperties
<1>5. /\ Now.st = js /\ Now.core = core /\ Now.cmds = <<>>
      /\ Now = [st |-> Now.st, core |-> Now.core, cmds |-> Now.cmds]
  BY DEF Now
<1>6. <<>> \in Seq(Command) /\ cmds \o <<>> = cmds
  BY <1>1
<1>7. /\ js \in [Stream -> Whatwg] /\ Session(core, dgram, InTransit, cmds, alive)
      /\ \A s \in Stream : /\ js[s].open # "resolved"
                           /\ Good(s, nat[s], net[s], js[s], InTransit, cmds, core.closed, closed, alive)
  BY DEF Inv
<1>8. Turning(Now, InTransit)
  BY <1>5, <1>6, <1>7 DEF Turning
<1> QED
  BY <1>1, <1>4, <1>5, <1>7, <1>8 DEF X, Y

\* What the application does in a turn of its own.
LEMMA AppGood ==
  ASSUME Inv, NEW j, Turning(j, InTransit), AppTurn(j)
  PROVE  Inv'
<1>1. Turn(j) /\ batches' = batches
  BY DEF AppTurn
<1>2. InTransit \in Seq(Event)
  BY NowGood
<1>3. batches \in Seq(Seq(Event)) /\ \A s \in Stream : \A i \in 1 .. Len(batches) : Parted(batches[i], s)
  BY DEF Inv
<1>4. batches' \in Seq(Seq(Event))
  BY <1>1, <1>3
<1>5. FlattenSeq(batches') \o evs = InTransit
  BY <1>1 DEF InTransit
<1>6. \A s \in Stream : \A i \in 1 .. Len(batches') : Parted(batches'[i], s)
  BY <1>1, <1>3
<1> DEFINE w == InTransit
<1>7. w \in Seq(Event) /\ Turning(j, w) /\ FlattenSeq(batches') \o evs = w
  BY <1>2, <1>5
<1> HIDE DEF w
<1> QED
  BY <1>1, <1>4, <1>6, <1>7, TurnGood

-----------------------------------------------------------------------------
(* One stream of a turn changes. *)

\* A turn in which all streams but a are as they should be.
Steady(j, w, a) ==
  LET c == cmds \o j.cmds IN
  /\ j = [st |-> j.st, core |-> j.core, cmds |-> j.cmds]
  /\ j.st \in [Stream -> Whatwg] /\ j.cmds \in Seq(Command)
  /\ \A s \in Stream :
       s # a => Good(s, nat[s], net[s], j.st[s], w, c, j.core.closed, closed, alive)

\* The turn j, when a becomes f, the session k, and r is issued.
Becoming(j, a, f, k, r) == [st |-> [j.st EXCEPT ![a] = f], core |-> k, cmds |-> j.cmds \o r]

\* A turn that changes one stream and issues commands for it goes on.
LEMMA TurnStep ==
  ASSUME Inv, NEW j, NEW w, NEW a \in Stream, Steady(j, w, a), NEW f, NEW r \in Seq(OwnCommand(a)),
         NEW k, k.closed = j.core.closed, Session(k, dgram, w, cmds \o j.cmds, alive),
         Good(a, nat[a], net[a], f, w, (cmds \o j.cmds) \o r, j.core.closed, closed, alive)
  PROVE  Turning(Becoming(j, a, f, k, r), w)
<1> DEFINE b == j.cmds
           c0 == cmds \o b
           q == b \o r
           st == [j.st EXCEPT ![a] = f]
           m == Becoming(j, a, f, k, r)
<1>1. /\ r \in Seq(Command)
      /\ \A t : t # a => ~Has(r, ToStream, t)
      /\ \A s : \A T : T \cap ToStream = {} => ~Has(r, T, s)
  BY OwnItems
<1>2. b \in Seq(Command) /\ cmds \in Seq(Command) /\ j.st \in [Stream -> Whatwg]
  BY DEF Steady, Inv
<1>3. m.st = st /\ m.core = k /\ m.cmds = q /\ m = [st |-> m.st, core |-> m.core, cmds |-> m.cmds]
  BY DEF Becoming
<1>4. f \in Whatwg
  BY DEF Good
<1>5. st \in [Stream -> Whatwg] /\ st[a] = f /\ \A s \in Stream : s # a => st[s] = j.st[s]
  BY <1>2, <1>4
<1> HIDE DEF st, m
<1>6. c0 \in Seq(Command) /\ q \in Seq(Command) /\ cmds \o q = c0 \o r
  <2> DEFINE X == Command
  <2>1. cmds \in Seq(X) /\ b \in Seq(X) /\ r \in Seq(X)
    BY <1>1, <1>2
  <2> HIDE DEF X, b
  <2>2. Grown(cmds, b, r) /\ b \o r \in Seq(X) /\ c0 \in Seq(X)
    BY <2>1, Growing
  <2> QED
    BY <2>2 DEF Grown, X
<1>7. Session(k, dgram, w, c0, alive) /\ Good(a, nat[a], net[a], f, w, c0 \o r, j.core.closed, closed, alive)
  OBVIOUS
<1>8. \A s \in Stream : s # a => Good(s, nat[s], net[s], j.st[s], w, c0, j.core.closed, closed, alive)
  BY DEF Steady
<1> HIDE DEF b, c0, q
<1>9. Session(k, dgram, w, c0 \o r, alive)
  BY <1>1, <1>6, <1>7, SessionCommands
<1>10. ASSUME NEW s \in Stream
       PROVE  Good(s, nat[s], net[s], st[s], w, c0 \o r, k.closed, closed, alive)
  <2>1. CASE s = a
    BY <1>5, <1>7, <2>1
  <2>2. CASE s # a
    <3> DEFINE g == j.st[s]
    <3>1. st[s] = g /\ Good(s, nat[s], net[s], g, w, c0, j.core.closed, closed, alive)
      BY <1>5, <1>8, <2>2
    <3> HIDE DEF g
    <3>2. ~Has(r, ToStream, s)
      BY <1>1, <2>2
    <3>3. Good(s, nat[s], net[s], g, w, c0 \o r, j.core.closed, closed, alive)
      BY <1>1, <1>6, <3>1, <3>2, ForeignCommands
    <3> QED
      BY <3>1, <3>3
  <2> QED
    BY <2>1, <2>2
<1> QED
  BY <1>3, <1>5, <1>6, <1>9, <1>10 DEF Turning, m

\* How the model writes it.
LEMMA Becomings ==
  ASSUME NEW j, j = [st |-> j.st, core |-> j.core, cmds |-> j.cmds], j.cmds \in Seq(Command),
         NEW a \in Stream, NEW f
  PROVE  /\ Set(j, a, f) = Becoming(j, a, f, j.core, <<>>)
         /\ \A t \in ToStream : Send(Set(j, a, f), t, a) = Becoming(j, a, f, j.core, <<Item(t, a)>>)
<1> DEFINE st == j.st
           k == j.core
           b == j.cmds
           one == [st EXCEPT ![a] = f]
<1>1. j = [st |-> st, core |-> k, cmds |-> b] /\ b \in Seq(Command)
  OBVIOUS
<1>2. b \o <<>> = b
  OBVIOUS
<1>3. ASSUME NEW t \in ToStream PROVE Append(b, Item(t, a)) = b \o <<Item(t, a)>>
  <2>1. Item(t, a) \in Command
    BY DEF Item, Command
  <2> QED
    BY <2>1, AppendIsConcat
<1>4. Becoming(j, a, f, k, <<>>) = [st |-> one, core |-> k, cmds |-> b]
  BY <1>2 DEF Becoming
<1> HIDE DEF st, k, b
<1>5. Set(j, a, f) = [st |-> one, core |-> k, cmds |-> b]
  BY <1>1 DEF Set
<1>6. ASSUME NEW t \in ToStream
      PROVE  Send(Set(j, a, f), t, a) = Becoming(j, a, f, k, <<Item(t, a)>>)
  <2> DEFINE more == Append(b, Item(t, a))
             r == <<Item(t, a)>>
  <2>1. Send(Set(j, a, f), t, a) = [st |-> one, core |-> k, cmds |-> more]
    <3> DEFINE m == [st |-> one, core |-> k, cmds |-> b]
    <3>1. Send(m, t, a) = [m EXCEPT !.cmds = Append(@, Item(t, a))]
      BY DEF Send
    <3>2. Send(m, t, a) = [st |-> one, core |-> k, cmds |-> more]
      <4> HIDE DEF one
      <4> QED
        BY <3>1
    <3> QED
      BY <1>5, <3>2
  <2>2. more = b \o r
    BY <1>3
  <2> HIDE DEF more, r, one
  <2>3. Becoming(j, a, f, k, r) = [st |-> one, core |-> k, cmds |-> b \o r]
    BY DEF Becoming, one, b, st
  <2> QED
    BY <2>1, <2>2, <2>3 DEF r
<1> QED
  BY <1>4, <1>5, <1>6 DEF k

\* What the application does with one of its streams.
LEMMA AppStep ==
  ASSUME Inv, NEW a \in Stream, NEW f, NEW r \in Seq(OwnCommand(a)),
         Good(a, nat[a], net[a], f, InTransit, cmds \o r, core.closed, closed, alive)
  PROVE  Turning(Becoming(Now, a, f, core, r), InTransit)
<1> DEFINE w == InTransit
           j == Now
<1>1. /\ Turning(j, w) /\ j.cmds = <<>> /\ j.core = core /\ cmds \in Seq(Command)
  BY NowGood
<1> HIDE DEF w, j
<1>2. Steady(j, w, a)
  BY <1>1 DEF Turning, Steady
<1>3. cmds \o j.cmds = cmds
  BY <1>1
<1>4. Session(core, dgram, w, cmds \o j.cmds, alive)
  BY <1>1 DEF Turning
<1> DEFINE b == j.cmds
           c0 == cmds \o b
<1>5. c0 = cmds
  BY <1>3
<1> HIDE DEF b, c0
<1>6. Good(a, nat[a], net[a], f, w, c0 \o r, core.closed, closed, alive)
  BY <1>5 DEF w
<1>7. Good(a, nat[a], net[a], f, w, (cmds \o j.cmds) \o r, j.core.closed, closed, alive)
  BY <1>1, <1>6 DEF c0, b
<1>8. Turning(Becoming(j, a, f, core, r), w)
  BY <1>1, <1>2, <1>4, <1>7, TurnStep
<1> QED
  BY <1>8 DEF j, w

\* Reading, cancelling, writing, closing and aborting a live stream.
LEMMA AppLive ==
  ASSUME Inv, NEW a \in Stream, NEW f, Calmer(js[a], f)
  PROVE  /\ AppTurn(Set(Now, a, f)) => Inv'
         /\ \A t \in ToStream \ {"OpenStream", "Write"} :
              (t = "ResetStream" => ~f.writing /\ f.writable # "open")
                /\ AppTurn(Send(Set(Now, a, f), t, a)) => Inv'
<1> DEFINE w == InTransit
           e == nat[a]
           n == net[a]
           g == js[a]
<1>1. /\ w \in Seq(Event) /\ cmds \in Seq(Command)
      /\ Good(a, e, n, g, w, cmds, core.closed, closed, alive)
      /\ Now = [st |-> Now.st, core |-> Now.core, cmds |-> Now.cmds] /\ Now.cmds \in Seq(Command)
      /\ Now.core = core
  BY NowGood DEF Turning
<1>2. Calmer(g, f)
  OBVIOUS
<1> HIDE DEF w, e, n, g
<1>3. Good(a, e, n, f, w, cmds, core.closed, closed, alive)
  BY <1>1, <1>2, LiveGood
<1>4. ASSUME AppTurn(Set(Now, a, f)) PROVE Inv'
  <2>1. <<>> \in Seq(OwnCommand(a)) /\ cmds \o <<>> = cmds
    BY <1>1
  <2> DEFINE r == <<>>
             m == Becoming(Now, a, f, core, r)
  <2>2. Good(a, nat[a], net[a], f, InTransit, cmds \o r, core.closed, closed, alive) /\ r \in Seq(OwnCommand(a))
    BY <1>3, <2>1 DEF e, n, w
  <2>3. Set(Now, a, f) = m
    BY <1>1, Becomings
  <2> HIDE DEF r
  <2>4. Turning(m, InTransit)
    BY <2>2, AppStep
  <2> HIDE DEF m
  <2> QED
    BY <1>4, <2>3, <2>4, AppGood
<1>5. ASSUME NEW t \in ToStream \ {"OpenStream", "Write"}, t = "ResetStream" => ~f.writing /\ f.writable # "open",
             AppTurn(Send(Set(Now, a, f), t, a))
      PROVE  Inv'
  <2> DEFINE r == <<Item(t, a)>>
             m == Becoming(Now, a, f, core, r)
  <2>1. Commandable(a, e, f, w, closed)
    BY <1>2 DEF Commandable, Calmer
  <2>2. Good(a, e, n, f, w, cmds \o r, core.closed, closed, alive)
    BY <1>1, <1>3, <1>5, <2>1, SentGood
  <2>3. r \in Seq(OwnCommand(a))
    BY <1>1, CommandAdded
  <2>4. Send(Set(Now, a, f), t, a) = m
    BY <1>1, Becomings
  <2> HIDE DEF r
  <2>5. Good(a, nat[a], net[a], f, InTransit, cmds \o r, core.closed, closed, alive)
    BY <2>2 DEF e, n, w
  <2>6. Turning(m, InTransit)
    BY <2>3, <2>5, AppStep
  <2> HIDE DEF m
  <2> QED
    BY <1>5, <2>4, <2>6, AppGood
<1> QED
  BY <1>4, <1>5

\* The same actions, one by one.
LEMMA AppStreamGood ==
  ASSUME Inv, NEW a \in Stream,
         AppRead(a) \/ AppCancel(a) \/ AppWrite(a) \/ AppCloseWriter(a) \/ AppAbort(a)
  PROVE  Inv'
<1> DEFINE g == js[a]
<1>1. /\ g \in Whatwg /\ Shaped(g)
      /\ g.open # "live" => g.readable = "none" /\ g.writable = "none" /\ g.got = 0
  <2>1. Good(a, nat[a], net[a], g, InTransit, cmds, core.closed, closed, alive)
    BY NowGood
  <2> QED
    BY <2>1 DEF Good, Shaped, NewJs
<1>2. {"Resume", "StopSending", "ResetStream"} \subseteq ToStream \ {"OpenStream", "Write"}
  BY DEF ToStream
<1>3. CASE AppRead(a)
  <2> DEFINE queue == g.queue - 1
             f == IF g.queue > 0 THEN [g EXCEPT !.queue = queue] ELSE [g EXCEPT !.asked = TRUE]
  <2>1. /\ g.queue > 0 \/ g.readable = "open"
        /\ AppTurn(IF g.readable = "open" THEN Send(Set(Now, a, f), "Resume", a) ELSE Set(Now, a, f))
    BY <1>3 DEF AppRead
  <2>2. g.queue \in Nat /\ g.got \in Nat /\ g.queue <= g.got
    BY <1>1 DEF Whatwg, Shaped
  <2>3. g.open = "live"
    BY <1>1, <2>1, <2>2
  <2>4. g.queue > 0 => queue \in Nat /\ queue <= g.queue
    BY <2>2
  <2> HIDE DEF queue
  <2>5. f \in Whatwg /\ f.open = g.open /\ f.got = g.got
    BY <1>1, <2>4 DEF Whatwg
  <2>6. f.recv = g.recv /\ f.readable = g.readable /\ f.writable = g.writable
    BY <1>1 DEF Whatwg
  <2>7. f.pending = g.pending /\ f.writes = g.writes /\ f.writing = g.writing
    BY <1>1 DEF Whatwg
  <2>8. f.queue \in Nat /\ f.queue <= g.queue
    <3>1. f.queue = IF g.queue > 0 THEN queue ELSE g.queue
      BY <1>1 DEF Whatwg
    <3> QED
      BY <2>2, <2>4, <3>1
  <2> HIDE DEF f, g
  <2>9. f.queue <= f.got
    BY <2>2, <2>5, <2>8
  <2>10. Calmer(g, f)
    BY <1>1, <2>3, <2>5, <2>6, <2>7, <2>9 DEF Calmer, Shaped
  <2> QED
    BY <1>2, <2>1, <2>10, AppLive DEF g
<1>4. ASSUME NEW f, g.open = "live", f \in Whatwg, f.got = g.got, f.open = g.open,
             \/ f.queue = g.queue /\ f.recv = g.recv /\ f.readable = g.readable
             \/ f.queue = 0 /\ f.recv = FALSE /\ f.readable = "cancelled",
             f.pending + g.writes = g.pending + f.writes, f.writing => g.writing,
             f.writable = "open" => g.writable = "open"
      PROVE  Calmer(g, f)
  <2>1. f.got \in Nat
    BY <1>4 DEF Whatwg
  <2> HIDE DEF g
  <2>2. Shaped(f)
    <3>1. f.queue <= f.got
      <4>1. g.queue <= g.got
        BY <1>1 DEF Shaped
      <4> QED
        BY <1>4, <2>1, <4>1
    <3>2. f.recv = (f.readable = "open")
      <4>1. g.recv = (g.readable = "open")
        BY <1>1 DEF Shaped
      <4> QED
        BY <1>4, <4>1
    <3> QED
      BY <1>4, <3>1, <3>2 DEF Shaped
  <2> QED
    BY <1>4, <2>2 DEF Calmer
<1>5. CASE AppCancel(a)
  <2> DEFINE f == [g EXCEPT !.readable = "cancelled", !.recv = FALSE, !.queue = 0, !.asked = FALSE]
  <2>1. g.readable = "open" /\ AppTurn(Send(Set(Now, a, f), "StopSending", a))
    BY <1>5 DEF AppCancel
  <2>2. g.open = "live"
    BY <1>1, <2>1
  <2> HIDE DEF g
  <2>3. f \in Whatwg /\ f.open = g.open /\ f.got = g.got
    BY <1>1 DEF Whatwg
  <2>4. f.queue = 0 /\ f.recv = FALSE /\ f.readable = "cancelled"
    BY <1>1 DEF Whatwg
  <2>5. f.pending = g.pending /\ f.writes = g.writes /\ f.writing = g.writing /\ f.writable = g.writable
    BY <1>1 DEF Whatwg
  <2> HIDE DEF f
  <2>6. Calmer(g, f)
    BY <1>4, <2>2, <2>3, <2>4, <2>5
  <2> QED
    BY <1>2, <2>1, <2>6, AppLive DEF g
<1>6. CASE AppWrite(a)
  <2> DEFINE pending == g.pending + 1
             writes == g.writes + 1
             f == [g EXCEPT !.pending = pending, !.writes = writes]
  <2>1. g.writable = "open" /\ AppTurn(Set(Now, a, f)) /\ g.writes < MaxWrites
    BY <1>6 DEF AppWrite
  <2>2. g.open = "live"
    BY <1>1, <2>1
  <2>3. pending \in Nat /\ writes \in 0 .. MaxWrites /\ pending + g.writes = g.pending + writes
    BY <1>1, <2>1, BridgeAssumption DEF Whatwg
  <2> HIDE DEF g, pending, writes
  <2>4. f \in Whatwg /\ f.open = g.open /\ f.got = g.got
    BY <1>1, <2>3 DEF Whatwg
  <2>5. f.queue = g.queue /\ f.recv = g.recv /\ f.readable = g.readable
    BY <1>1 DEF Whatwg
  <2>6. f.pending = pending /\ f.writes = writes /\ f.writing = g.writing /\ f.writable = g.writable
    BY <1>1 DEF Whatwg
  <2> HIDE DEF f
  <2>7. Calmer(g, f)
    BY <1>4, <2>2, <2>3, <2>4, <2>5, <2>6
  <2> QED
    BY <2>1, <2>7, AppLive DEF g
<1>7. CASE AppCloseWriter(a)
  <2> DEFINE f == [g EXCEPT !.closeCalled = TRUE]
  <2>1. g.writable = "open" /\ AppTurn(Set(Now, a, f))
    BY <1>7 DEF AppCloseWriter
  <2>2. g.open = "live"
    BY <1>1, <2>1
  <2> HIDE DEF g
  <2>3. f \in Whatwg /\ f.open = g.open /\ f.got = g.got
    BY <1>1 DEF Whatwg
  <2>4. f.queue = g.queue /\ f.recv = g.recv /\ f.readable = g.readable
    BY <1>1 DEF Whatwg
  <2>5. f.pending = g.pending /\ f.writes = g.writes /\ f.writing = g.writing /\ f.writable = g.writable
    BY <1>1 DEF Whatwg
  <2> HIDE DEF f
  <2>6. Calmer(g, f)
    BY <1>4, <2>2, <2>3, <2>4, <2>5
  <2> QED
    BY <2>1, <2>6, AppLive DEF g
<1>8. CASE AppAbort(a)
  <2> DEFINE f == [g EXCEPT !.writable = "errored", !.writing = FALSE, !.send = FALSE]
  <2>1. g.writable = "open" /\ AppTurn(Send(Set(Now, a, f), "ResetStream", a))
    BY <1>8 DEF AppAbort
  <2>2. g.open = "live"
    BY <1>1, <2>1
  <2> HIDE DEF g
  <2>3. f \in Whatwg /\ f.open = g.open /\ f.got = g.got
    BY <1>1 DEF Whatwg
  <2>4. f.queue = g.queue /\ f.recv = g.recv /\ f.readable = g.readable
    BY <1>1 DEF Whatwg
  <2>5. f.pending = g.pending /\ f.writes = g.writes /\ f.writing = FALSE /\ f.writable = "errored"
    BY <1>1 DEF Whatwg
  <2> HIDE DEF f
  <2>6. Calmer(g, f)
    BY <1>4, <2>2, <2>3, <2>4, <2>5
  <2> QED
    BY <1>2, <2>1, <2>5, <2>6, AppLive DEF g
<1> QED
  BY <1>3, <1>5, <1>6, <1>7, <1>8

\* An open is asked for, or refused when the session is over.
LEMMA AppOpenGood ==
  ASSUME Inv, NEW a \in Stream, AppOpen(a)
  PROVE  Inv'
<1> DEFINE w == InTransit
           e == nat[a]
           n == net[a]
           g == js[a]
           over == core.closed
           z == cmds \o <<Item("OpenStream", a)>>
<1>1. /\ a \in LocalStreams /\ g.open = "idle" /\ a \notin PeerStreams
  BY BridgeAssumption DEF AppOpen
<1>2. /\ w \in Seq(Event) /\ cmds \in Seq(Command)
      /\ Good(a, e, n, g, w, cmds, over, closed, alive)
      /\ Now = [st |-> Now.st, core |-> Now.core, cmds |-> Now.cmds] /\ Now.cmds \in Seq(Command)
      /\ Now.core = core
  BY NowGood DEF Turning
<1>3. /\ g \in Whatwg /\ g = [NewJs EXCEPT !.open = "idle"]
      /\ e = NewNat /\ ~n.known /\ ~Has(w, OfStream, a) /\ ~Has(cmds, {"OpenStream"}, a)
      /\ ~Has(cmds, ToStream \ {"OpenStream"}, a)
  BY <1>1, <1>2 DEF Good, Opening, Shaped
<1>4. ~Has(cmds, ToStream, a) /\ ~Has(w, Recv, a) /\ ~Has(w, {"StreamOpened"}, a)
  BY <1>3, HasLess
<1>5. e.present = FALSE /\ e.dead = FALSE /\ e.wanted = FALSE
  BY <1>3 DEF NewNat
<1> HIDE DEF g, w, e, n, over
<1>6. ASSUME NEW o \in {"requested", "rejected"}
      PROVE  LET f == [g EXCEPT !.open = o] IN
             /\ f \in Whatwg /\ Shaped(f) /\ f.open = o
             /\ Conveyed(a, e, n, f, w, over, closed)
             /\ \A c : Written(a, e, g, w, c, over, alive) => Written(a, e, f, w, c, over, alive)
  <2> DEFINE f == [g EXCEPT !.open = o]
  <2>1. f \in Whatwg /\ f = [NewJs EXCEPT !.open = o]
    BY <1>3 DEF Whatwg, NewJs
  <2>2. f.open = o /\ f.queue = 0 /\ f.got = 0 /\ f.recv = FALSE /\ f.readable = "none"
    BY <2>1 DEF NewJs
  <2>3. f.pending = g.pending /\ f.writes = g.writes /\ f.writing = g.writing /\ f.writable = g.writable
        /\ f.got = g.got /\ f.readable = g.readable
    BY <1>3 DEF NewJs
  <2> HIDE DEF f
  <2>4. Shaped(f)
    <3>1. f.queue <= f.got
      BY <2>2
    <3>2. f.recv = (f.readable = "open")
      BY <2>2
    <3> QED
      BY <2>1, <2>2, <3>1, <3>2 DEF Shaped
  <2>5. Coming(a, e, g, w, closed)
    BY <1>1 DEF Coming, g
  <2>6. Conveyed(a, e, n, f, w, over, closed)
    BY <1>2, <2>3, <2>5 DEF Good, Conveyed
  <2>7. \A c : Written(a, e, g, w, c, over, alive) => Written(a, e, f, w, c, over, alive)
    BY <2>3 DEF Written
  <2> QED
    BY <2>1, <2>2, <2>4, <2>6, <2>7 DEF f
<1>7. CASE core.closed
  <2> DEFINE f == [g EXCEPT !.open = "rejected"]
             r == <<>>
             m == Becoming(Now, a, f, core, r)
  <2>1. AppTurn(Set(Now, a, f))
    BY <1>7 DEF AppOpen, g
  <2>2. /\ f \in Whatwg /\ Shaped(f) /\ f.open = "rejected"
        /\ Conveyed(a, e, n, f, w, over, closed)
        /\ Written(a, e, f, w, cmds, over, alive)
    BY <1>2, <1>6 DEF Good
  <2>3. r \in Seq(OwnCommand(a)) /\ cmds \o r = cmds
    BY <1>2
  <2>4. Set(Now, a, f) = m
    BY <1>2, Becomings
  <2> HIDE DEF f
  <2>5. Opening(a, e, n, f, w, cmds, over, closed)
    BY <1>1, <1>2, <1>3, <1>5, <2>2 DEF Good, Opening
  <2>6. Good(a, e, n, f, w, cmds, over, closed, alive)
    BY <1>1, <1>2, <2>2, <2>5 DEF Good
  <2> HIDE DEF r
  <2>7. Good(a, nat[a], net[a], f, InTransit, cmds \o r, core.closed, closed, alive)
    BY <2>3, <2>6 DEF e, n, w, over
  <2>8. Turning(m, InTransit)
    BY <2>3, <2>7, AppStep
  <2> HIDE DEF m
  <2> QED
    BY <2>1, <2>4, <2>8, AppGood
<1>8. CASE ~core.closed
  <2> DEFINE f == [g EXCEPT !.open = "requested"]
             r == <<Item("OpenStream", a)>>
             m == Becoming(Now, a, f, core, r)
  <2>1. AppTurn(Send(Set(Now, a, f), "OpenStream", a))
    BY <1>8 DEF AppOpen, g
  <2>2. "OpenStream" \in ToStream
    BY DEF ToStream
  <2>3. Added("OpenStream", a, z, cmds) /\ r \in Seq(OwnCommand(a))
    BY <1>2, <2>2, CommandAdded
  <2>4. Send(Set(Now, a, f), "OpenStream", a) = m
    BY <1>2, <2>2, Becomings
  <2> HIDE DEF z
  <2>5. Written(a, e, g, w, z, over, alive)
    <3>1. Count(z, Item("Write", a)) = Count(cmds, Item("Write", a))
      BY <2>3 DEF Added
    <3> QED
      BY <1>2, <2>3, <3>1 DEF Good, Written, Added
  <2>6. /\ f \in Whatwg /\ Shaped(f) /\ f.open = "requested"
        /\ Conveyed(a, e, n, f, w, over, closed)
        /\ Written(a, e, f, w, z, over, alive)
    BY <1>6, <2>5
  <2> HIDE DEF f
  <2>7. Opening(a, e, n, f, w, z, over, closed)
    <3>1. Opening(a, e, n, g, w, cmds, over, closed)
      BY <1>1, <1>2 DEF Good
    <3>2. /\ Has(z, {"OpenStream"}, a) /\ ~Has(z, ToStream \ {"OpenStream"}, a)
          /\ Never(z, ToStream, {"OpenStream"}, a)
      BY <1>3, <1>4, <2>3, <3>1 DEF Added, Opening
    <3>3. ~over
      BY <1>8 DEF over
    <3> QED
      BY <1>3, <1>4, <1>5, <2>6, <3>1, <3>2, <3>3 DEF Opening
  <2>8. Good(a, e, n, f, w, z, over, closed, alive)
    BY <1>1, <1>2, <2>6, <2>7 DEF Good
  <2>9. Good(a, nat[a], net[a], f, InTransit, cmds \o r, core.closed, closed, alive)
    BY <2>8 DEF e, n, w, over, z
  <2> HIDE DEF r
  <2>10. Turning(m, InTransit)
    BY <2>3, <2>9, AppStep
  <2> HIDE DEF m
  <2> QED
    BY <2>1, <2>4, <2>10, AppGood
<1> QED
  BY <1>7, <1>8

\* What the application does with its session.
LEMMA CoreStep ==
  ASSUME Inv, NEW k, k.closed = core.closed, NEW r \in Seq(Command), \A s \in Stream : ~Has(r, ToStream, s),
         Session(k, dgram, InTransit, cmds \o r, alive),
         AppTurn([st |-> js, core |-> k, cmds |-> r])
  PROVE  Inv'
<1> DEFINE m == [st |-> js, core |-> k, cmds |-> r]
           w == InTransit
<1>1. m.st = js /\ m.core = k /\ m.cmds = r /\ m = [st |-> m.st, core |-> m.core, cmds |-> m.cmds]
  OBVIOUS
<1>2. AppTurn(m)
  OBVIOUS
<1>3. /\ w \in Seq(Event) /\ cmds \in Seq(Command)
      /\ \A s \in Stream : Good(s, nat[s], net[s], js[s], w, cmds, core.closed, closed, alive)
  BY NowGood
<1>4. js \in [Stream -> Whatwg]
  BY DEF Inv
<1>5. Session(k, dgram, w, cmds \o r, alive)
  OBVIOUS
<1> HIDE DEF m, w
<1>6. ASSUME NEW s \in Stream
      PROVE  Good(s, nat[s], net[s], js[s], w, cmds \o r, k.closed, closed, alive)
  <2> DEFINE g == js[s]
  <2>1. Good(s, nat[s], net[s], g, w, cmds, core.closed, closed, alive) /\ ~Has(r, ToStream, s)
    BY <1>3
  <2> HIDE DEF g
  <2>2. Good(s, nat[s], net[s], g, w, cmds \o r, core.closed, closed, alive)
    BY <1>3, <2>1, ForeignCommands
  <2> QED
    BY <2>2 DEF g
<1> DEFINE c == cmds \o r
<1>7. c = cmds \o m.cmds
  BY <1>1
<1>8. Session(k, dgram, w, c, alive) /\ \A s \in Stream : Good(s, nat[s], net[s], js[s], w, c, k.closed, closed, alive)
  BY <1>5, <1>6
<1> HIDE DEF c
<1>9. Turning(m, w)
  BY <1>1, <1>4, <1>7, <1>8 DEF Turning
<1> QED
  BY <1>2, <1>9, AppGood DEF w

\* The datagrams and the requests of the application, and the streams it takes.
LEMMA AppCoreGood ==
  ASSUME Inv, AppAccept \/ AppCancelIncoming \/ AppReadDatagram \/ AppCancelDatagrams
  PROVE  Inv'
<1> DEFINE x == Count(InTransit, Item("Datagram", "session"))
<1>1. /\ core \in Core /\ x \in Nat /\ Session(core, dgram, InTransit, cmds, alive)
      /\ cmds \in Seq(Command)
  <2>1. InTransit \in Seq(Event)
    BY NowGood
  <2> DEFINE X == Event
  <2>2. InTransit \in Seq(X)
    BY <2>1
  <2> HIDE DEF X
  <2>3. x \in Nat
    BY <2>2, CountIsNat
  <2> QED
    BY <2>3 DEF Inv, Session
<1>2. Now = [st |-> js, core |-> core, cmds |-> <<>>]
  BY DEF Now
<1>3. <<>> \in Seq(Command) /\ cmds \o <<>> = cmds
  BY <1>1
<1>4. \A s \in Stream : ~Has(<<>>, ToStream, s)
  BY NoItem
<1>5. ASSUME NEW k, k \in Core, k.closed = core.closed, k.requests = core.requests,
             k.got + k.queue + k.dropped = core.got + core.queue + core.dropped,
             AppTurn([st |-> js, core |-> k, cmds |-> <<>>])
      PROVE  Inv'
  <2>1. k.got \in Nat /\ k.queue \in Int /\ k.dropped \in Nat
        /\ core.got \in Nat /\ core.queue \in Int /\ core.dropped \in Nat
    BY <1>1, <1>5 DEF Core
  <2>2. ~core.closed => dgram.taken = core.got + core.queue + core.dropped + x
    BY <1>1 DEF Session
  <2> DEFINE y == Item("Datagram", "session")
  <2> HIDE DEF x, y
  <2>3. ~k.closed => dgram.taken = k.got + k.queue + k.dropped + x
    BY <1>1, <1>5, <2>1, <2>2
  <2>4. Session(k, dgram, InTransit, cmds, alive)
    BY <1>1, <1>5, <2>3 DEF Session, x
  <2>5. Session(k, dgram, InTransit, cmds \o <<>>, alive)
    BY <1>3, <2>4
  <2> QED
    BY <1>3, <1>4, <1>5, <2>5, CoreStep
<1> HIDE DEF x
<1>6. CASE AppAccept
  <2> DEFINE incoming == core.incoming - 1
             k == [core EXCEPT !.incoming = incoming]
  <2>1. AppTurn([st |-> js, core |-> k, cmds |-> <<>>]) /\ core.incoming > 0
    BY <1>2, <1>6 DEF AppAccept
  <2>2. incoming \in 0 .. MaxIncoming
    BY <1>1, <2>1, BridgeAssumption DEF Core
  <2> HIDE DEF incoming
  <2>3. k \in Core /\ k.closed = core.closed /\ k.requests = core.requests
    BY <1>1, <2>2 DEF Core
  <2>4. k.got = core.got /\ k.queue = core.queue /\ k.dropped = core.dropped
    BY <1>1 DEF Core
  <2> HIDE DEF k
  <2> QED
    BY <1>5, <2>1, <2>3, <2>4
<1>7. CASE AppCancelIncoming
  <2> DEFINE k == [core EXCEPT !.cancelled = TRUE, !.incoming = 0]
  <2>1. AppTurn([st |-> js, core |-> k, cmds |-> <<>>])
    <3> DEFINE yes == TRUE
               k1 == [core EXCEPT !.cancelled = yes]
               k2 == [k1 EXCEPT !.incoming = 0]
               m == [Now EXCEPT !.core.cancelled = yes, !.core.incoming = 0]
    <3> HIDE DEF yes
    <3>1. [Now EXCEPT !.core.cancelled = yes] = [st |-> js, core |-> k1, cmds |-> <<>>]
      BY <1>2
    <3>2. m = [st |-> js, core |-> k2, cmds |-> <<>>]
      <4> DEFINE n == [Now EXCEPT !.core.cancelled = yes]
      <4>1. n = [st |-> js, core |-> k1, cmds |-> <<>>] /\ m = [n EXCEPT !.core.incoming = 0]
        BY <3>1
      <4> HIDE DEF n, m, k1
      <4> QED
        BY <4>1
    <3>3. AppTurn(m)
      BY <1>7 DEF AppCancelIncoming, yes
    <3>4. k2 = k
      BY DEF yes
    <3> HIDE DEF m, k2
    <3> QED
      BY <3>2, <3>3, <3>4
  <2>2. 0 \in 0 .. MaxIncoming
    BY BridgeAssumption
  <2>3. k \in Core /\ k.closed = core.closed /\ k.requests = core.requests
    BY <1>1, <2>2 DEF Core
  <2>4. k.got = core.got /\ k.queue = core.queue /\ k.dropped = core.dropped
    BY <1>1 DEF Core
  <2> HIDE DEF k
  <2> QED
    BY <1>5, <2>1, <2>3, <2>4
<1>8. CASE AppReadDatagram
  <2> DEFINE queue == core.queue - 1
             got == core.got + 1
             k == [core EXCEPT !.queue = queue, !.got = got]
             h == [core EXCEPT !.asked = TRUE]
  <2>1. \/ core.queue > 0 /\ AppTurn([st |-> js, core |-> k, cmds |-> <<>>])
        \/ AppTurn([st |-> js, core |-> h, cmds |-> <<>>])
    <3> DEFINE k1 == [core EXCEPT !.queue = queue]
               k2 == [k1 EXCEPT !.got = got]
               m == [Now EXCEPT !.core.queue = @ - 1, !.core.got = @ + 1]
               yes == TRUE
               p == [Now EXCEPT !.core.asked = yes]
    <3> HIDE DEF yes
    <3>1. [Now EXCEPT !.core.queue = @ - 1] = [st |-> js, core |-> k1, cmds |-> <<>>]
      BY <1>2
    <3>2. m = [st |-> js, core |-> k2, cmds |-> <<>>]
      <4> DEFINE n == [Now EXCEPT !.core.queue = @ - 1]
      <4>a. m = [n EXCEPT !.core.got = @ + 1]
        OBVIOUS
      <4>b. n = [st |-> js, core |-> k1, cmds |-> <<>>]
        BY <3>1
      <4>1. n = [st |-> js, core |-> k1, cmds |-> <<>>] /\ m = [n EXCEPT !.core.got = @ + 1]
        BY <4>a, <4>b
      <4>2. k1.got = core.got
        BY <1>1 DEF Core
      <4> HIDE DEF n, m, k1
      <4> QED
        BY <4>1, <4>2
    <3>3. p = [st |-> js, core |-> h, cmds |-> <<>>]
      <4> DEFINE h1 == [core EXCEPT !.asked = yes]
      <4>1. p = [st |-> js, core |-> h1, cmds |-> <<>>]
        BY <1>2
      <4>2. h1 = h
        BY DEF yes
      <4> HIDE DEF p, h1, h
      <4> QED
        BY <4>1, <4>2
    <3>4. (core.queue > 0 /\ AppTurn(m)) \/ AppTurn(p)
      BY <1>8 DEF AppReadDatagram, yes
    <3>5. k2 = k
      OBVIOUS
    <3> HIDE DEF m, k2, p
    <3> QED
      BY <3>2, <3>3, <3>4, <3>5
  <2>2. CASE core.queue > 0 /\ AppTurn([st |-> js, core |-> k, cmds |-> <<>>])
    <3>1. queue \in 0 .. DgramHighWater /\ got \in Nat
      <4>1. core.queue \in 0 .. DgramHighWater /\ core.queue > 0 /\ core.got \in Nat
        BY <1>1, <2>2 DEF Core
      <4> QED
        BY <4>1, BridgeAssumption
    <3>2. got + queue = core.got + core.queue
      BY <1>1 DEF Core
    <3> HIDE DEF queue, got
    <3>3. k \in Core /\ k.closed = core.closed /\ k.requests = core.requests
      BY <1>1, <3>1 DEF Core
    <3>4. k.got = got /\ k.queue = queue /\ k.dropped = core.dropped
      BY <1>1 DEF Core
    <3> HIDE DEF k
    <3> QED
      BY <1>5, <2>2, <3>2, <3>3, <3>4
  <2>3. CASE AppTurn([st |-> js, core |-> h, cmds |-> <<>>])
    <3>1. h \in Core /\ h.closed = core.closed /\ h.requests = core.requests
      BY <1>1 DEF Core
    <3>2. h.got = core.got /\ h.queue = core.queue /\ h.dropped = core.dropped
      BY <1>1 DEF Core
    <3> HIDE DEF h
    <3> QED
      BY <1>5, <2>3, <3>1, <3>2
  <2> QED
    BY <2>1, <2>2, <2>3
<1>9. CASE AppCancelDatagrams
  <2> DEFINE got == core.got + core.queue
             k == [core EXCEPT !.readable = "cancelled", !.queue = 0, !.asked = FALSE, !.got = got]
  <2>1. AppTurn([st |-> js, core |-> k, cmds |-> <<>>])
    <3> DEFINE no == FALSE
               k1 == [core EXCEPT !.readable = "cancelled"]
               k2 == [k1 EXCEPT !.queue = 0]
               k3 == [k2 EXCEPT !.asked = no]
               k4 == [k3 EXCEPT !.got = got]
               n1 == [Now EXCEPT !.core.readable = "cancelled"]
               n2 == [n1 EXCEPT !.core.queue = 0]
               n3 == [n2 EXCEPT !.core.asked = no]
               n4 == [n3 EXCEPT !.core.got = @ + core.queue]
    <3> HIDE DEF no
    <3>1. n1 = [st |-> js, core |-> k1, cmds |-> <<>>]
      BY <1>2
    <3> HIDE DEF n1
    <3>2. n2 = [st |-> js, core |-> k2, cmds |-> <<>>]
      <4> HIDE DEF k1
      <4> QED
        BY <3>1
    <3> HIDE DEF n2
    <3>3. n3 = [st |-> js, core |-> k3, cmds |-> <<>>]
      <4> HIDE DEF k2
      <4> QED
        BY <3>2
    <3> HIDE DEF n3
    <3>4. n4 = [st |-> js, core |-> k4, cmds |-> <<>>]
      <4>1. k3.got = core.got
        BY <1>1 DEF Core
      <4> HIDE DEF k3
      <4> QED
        BY <3>3, <4>1
    <3> USE DEF n3, n2, n1
    <3>5. AppTurn(n4)
      BY <1>9 DEF AppCancelDatagrams, no
    <3>6. k4 = k
      BY DEF no
    <3> HIDE DEF n4, k4
    <3> QED
      BY <3>4, <3>5, <3>6
  <2>2. got \in Nat /\ got + 0 = core.got + core.queue
    BY <1>1, BridgeAssumption DEF Core
  <2>3. 0 \in 0 .. DgramHighWater
    BY BridgeAssumption
  <2> HIDE DEF got
  <2>4. k \in Core /\ k.closed = core.closed /\ k.requests = core.requests
    BY <1>1, <2>2, <2>3 DEF Core
  <2>5. k.got = got /\ k.queue = 0 /\ k.dropped = core.dropped
    BY <1>1 DEF Core
  <2> HIDE DEF k
  <2> QED
    BY <1>5, <2>1, <2>2, <2>4, <2>5
<1> QED
  BY <1>6, <1>7, <1>8, <1>9

\* A request goes to the driver, or settles at once when the session is over.
LEMMA AppRequestGood ==
  ASSUME Inv, NEW q \in Request, AppRequest(q)
  PROVE  Inv'
<1>1. core \in Core /\ Session(core, dgram, InTransit, cmds, alive) /\ cmds \in Seq(Command)
  BY DEF Inv, Session
<1>2. Now = [st |-> js, core |-> core, cmds |-> <<>>]
  BY DEF Now
<1>3. CASE core.closed
  <2> DEFINE k == [core EXCEPT !.requests[q] = "settled"]
  <2>1. AppTurn([st |-> js, core |-> k, cmds |-> <<>>])
    BY <1>2, <1>3 DEF AppRequest
  <2>2. k \in Core /\ k.closed = core.closed
    BY <1>1 DEF Core
  <2>3. \A p \in Request : k.requests[p] = "pending" => core.requests[p] = "pending"
    BY <1>1 DEF Core
  <2> HIDE DEF k
  <2>4. Session(k, dgram, InTransit, cmds, alive)
    BY <1>1, <1>3, <2>2, <2>3 DEF Session
  <2>5. <<>> \in Seq(Command) /\ cmds \o <<>> = cmds
    BY <1>1
  <2>6. \A s \in Stream : ~Has(<<>>, ToStream, s)
    BY NoItem
  <2>7. Session(k, dgram, InTransit, cmds \o <<>>, alive)
    BY <2>4, <2>5
  <2> QED
    BY <2>1, <2>2, <2>5, <2>6, <2>7, CoreStep
<1>4. CASE ~core.closed
  <2> DEFINE k == [core EXCEPT !.requests[q] = "pending"]
             x == Item(q, "session")
             r == <<x>>
             z == cmds \o r
  <2>1. AppTurn([st |-> js, core |-> k, cmds |-> r])
    <3>1. Append(<<>>, x) = r
      OBVIOUS
    <3> DEFINE n == [Now EXCEPT !.core.requests[q] = "pending"]
    <3>3. n = [st |-> js, core |-> k, cmds |-> <<>>]
      BY <1>2
    <3>4. Send(n, q, "session") = [n EXCEPT !.cmds = Append(@, x)]
      BY DEF Send
    <3>2. Send(n, q, "session") = [st |-> js, core |-> k, cmds |-> r]
      <4> HIDE DEF n, k, x, r
      <4> QED
        BY <3>1, <3>3, <3>4
    <3> HIDE DEF k, x, r
    <3> QED
      BY <1>4, <3>2 DEF AppRequest
  <2>2. k \in Core /\ k.closed = core.closed
    BY <1>1 DEF Core
  <2>3. \A p \in Request : p # q /\ k.requests[p] = "pending" => core.requests[p] = "pending"
    BY <1>1 DEF Core
  <2>4. k.got = core.got /\ k.queue = core.queue /\ k.dropped = core.dropped
    BY <1>1 DEF Core
  <2>5. x \in Command /\ x.type = q /\ x.stream = "session" /\ q \notin ToStream /\ q # "Shutdown"
    BY DEF Item, Command, Request, ToStream
  <2> HIDE DEF k, x
  <2>6. r \in Seq(Command)
    BY <2>5
  <2>7. \A T, s : Has(r, T, s) <=> x.type \in T /\ x.stream = s
    BY OneItem
  <2> HIDE DEF r
  <2>8. \A T, s : Has(z, T, s) <=> Has(cmds, T, s) \/ Has(r, T, s)
    <3> DEFINE X == Command
    <3>1. cmds \in Seq(X) /\ r \in Seq(X)
      BY <1>1, <2>6
    <3> HIDE DEF X
    <3> QED
      BY <3>1, HasConcat
  <2> HIDE DEF z
  <2>9. /\ ~Has(r, {"Shutdown"}, "session")
        /\ Has(r, {q}, "session")
    BY <2>5, <2>7
  <2>10. Session(k, dgram, InTransit, z, alive)
    <3>1. \A p \in Request : k.requests[p] = "pending" =>
             ~k.closed /\ (Has(InTransit, {"Answer"}, p) \/ Has(z, {p}, "session"))
      BY <1>1, <1>4, <2>2, <2>3, <2>8, <2>9 DEF Session
    <3> QED
      BY <1>1, <2>2, <2>4, <2>8, <2>9, <3>1 DEF Session
  <2>11. \A s \in Stream : ~Has(r, ToStream, s)
    BY <2>5, <2>7
  <2> QED
    BY <2>1, <2>2, <2>6, <2>10, <2>11, CoreStep DEF z
<1> QED
  BY <1>3, <1>4

-----------------------------------------------------------------------------
(* JsBatch: the events of a batch, one after the other. *)

\* What the queue z of events, with an event t of s at its head, says of the rest v.
EventGone(t, s, z, v) ==
  /\ Has(z, {"Stream"}, s) <=> t = "Stream" \/ Has(v, {"Stream"}, s)
  /\ Has(z, {"StreamOpened"}, s) <=> t = "StreamOpened" \/ Has(v, {"StreamOpened"}, s)
  /\ Has(z, {"StreamFinished"}, s) <=> t = "StreamFinished" \/ Has(v, {"StreamFinished"}, s)
  /\ Has(z, {"WriteAck"}, s) <=> t = "WriteAck" \/ Has(v, {"WriteAck"}, s)
  /\ Has(z, Recv, s) <=> t \in Recv \/ Has(v, Recv, s)
  /\ Has(z, OfStream, s)
  /\ Count(z, Item("StreamData", s)) = Count(v, Item("StreamData", s)) + (IF t = "StreamData" THEN 1 ELSE 0)
  /\ Count(v, Item("StreamData", s)) \in Nat
  /\ Never(z, Recv, {"StreamOpened"}, s)
       => Never(v, Recv, {"StreamOpened"}, s) /\ (t \in Recv => ~Has(v, {"StreamOpened"}, s))
  /\ Never(z, OfStream, {"Stream"}, s) => Never(v, OfStream, {"Stream"}, s) /\ ~Has(v, {"Stream"}, s)
  /\ Never(z, {"StreamFinished"}, {"StreamData"}, s)
       => /\ Never(v, {"StreamFinished"}, {"StreamData"}, s)
          /\ t = "StreamFinished" => Count(v, Item("StreamData", s)) = 0

\* An event at the head of the queue.
LEMMA EventHead ==
  ASSUME NEW s \in Stream, NEW t \in OfStream, NEW v \in Seq(Event)
  PROVE  EventGone(t, s, <<Item(t, s)>> \o v, v)
<1> DEFINE x == Item(t, s)
           u == <<x>>
           z == u \o v
           y == Item("StreamData", s)
           X == Event
<1>1. x.type = t /\ x.stream = s /\ x \in X /\ (x = y <=> t = "StreamData")
  BY DEF Item, Event
<1>2. Has(v, {"StreamData"}, s) <=> Count(v, y) > 0
  BY CountHas
<1> HIDE DEF x, y
<1>3. u \in Seq(X)
  BY <1>1
<1>4. v \in Seq(X)
  OBVIOUS
<1>5. \A T : Has(u, T, s) <=> t \in T
  BY <1>1, OneItem
<1>6. Count(u, y) = IF t = "StreamData" THEN 1 ELSE 0
  BY <1>1, OneItem
<1> HIDE DEF X
<1>7. \A T, U : Never(z, T, U, s) => Never(v, T, U, s) /\ (t \in T => ~Has(v, U, s))
  BY <1>1, <1>4, NeverRest
<1> HIDE DEF u
<1>8. EventsGrow(z, u, v, s)
  BY <1>3, EventsConcat DEF X
<1> HIDE DEF z
<1>9. /\ Has(z, {"Stream"}, s) <=> t = "Stream" \/ Has(v, {"Stream"}, s)
      /\ Has(z, {"StreamOpened"}, s) <=> t = "StreamOpened" \/ Has(v, {"StreamOpened"}, s)
      /\ Has(z, {"StreamFinished"}, s) <=> t = "StreamFinished" \/ Has(v, {"StreamFinished"}, s)
      /\ Has(z, {"WriteAck"}, s) <=> t = "WriteAck" \/ Has(v, {"WriteAck"}, s)
      /\ Has(z, Recv, s) <=> t \in Recv \/ Has(v, Recv, s)
      /\ Has(z, OfStream, s)
  BY <1>5, <1>8 DEF EventsGrow
<1>10. Count(z, y) = Count(v, y) + (IF t = "StreamData" THEN 1 ELSE 0) /\ Count(v, y) \in Nat
  BY <1>6, <1>8 DEF EventsGrow, y
<1>11. Never(z, Recv, {"StreamOpened"}, s)
         => Never(v, Recv, {"StreamOpened"}, s) /\ (t \in Recv => ~Has(v, {"StreamOpened"}, s))
  BY <1>7
<1>12. Never(z, OfStream, {"Stream"}, s) => Never(v, OfStream, {"Stream"}, s) /\ ~Has(v, {"Stream"}, s)
  BY <1>7
<1>13. ASSUME Never(z, {"StreamFinished"}, {"StreamData"}, s)
       PROVE  /\ Never(v, {"StreamFinished"}, {"StreamData"}, s)
              /\ t = "StreamFinished" => Count(v, y) = 0
  <2>1. Never(v, {"StreamFinished"}, {"StreamData"}, s)
        /\ (t \in {"StreamFinished"} => ~Has(v, {"StreamData"}, s))
    BY <1>7, <1>13
  <2> QED
    BY <1>2, <1>10, <2>1
<1> QED
  BY <1>9, <1>10, <1>11, <1>12, <1>13 DEF x, u, z, y, EventGone

\* An event of another stream goes.
LEMMA ForeignEventHead ==
  ASSUME NEW s, NEW e, NEW n, NEW j, NEW x \in Event, NEW v \in Seq(Event), NEW c, NEW over,
         NEW ended, NEW running, Good(s, e, n, j, <<x>> \o v, c, over, ended, running),
         x.type \notin OfStream \/ x.stream # s
  PROVE  Good(s, e, n, j, v, c, over, ended, running)
<1> DEFINE u == <<x>>
           z == u \o v
           X == Event
<1>1. u \in Seq(X) /\ v \in Seq(X) /\ x \in X
  OBVIOUS
<1>2. ~Has(u, OfStream, s)
  <2>1. Has(u, OfStream, s) <=> x.type \in OfStream /\ x.stream = s
    BY OneItem
  <2> HIDE DEF u
  <2> QED
    BY <2>1
<1> HIDE DEF X
<1>3. \A T, U : Never(z, T, U, s) => Never(v, T, U, s)
  BY <1>1, NeverRest
<1> HIDE DEF u
<1>4. EventsGrow(z, u, v, s)
  BY <1>1, EventsConcat DEF X
<1>5. /\ ~Has(u, {"Stream"}, s) /\ ~Has(u, {"StreamOpened"}, s) /\ ~Has(u, {"StreamFinished"}, s)
      /\ ~Has(u, {"WriteAck"}, s) /\ ~Has(u, Recv, s) /\ ~Has(u, {"StreamData"}, s)
  BY <1>2, HasLess
<1>6. Count(u, Item("StreamData", s)) = 0
  BY <1>1, <1>4, <1>5, CountHas DEF EventsGrow, X
<1>7. Good(s, e, n, j, z, c, over, ended, running)
  BY DEF u
<1> HIDE DEF z
<1>8. s \in LocalStreams => Opening(s, e, n, j, v, c, over, ended)
  BY <1>2, <1>3, <1>4, <1>5, <1>7 DEF Good, Opening, EventsGrow
<1>9. s \in PeerStreams => Announced(s, e, j, v, c, over, ended)
  BY <1>2, <1>3, <1>4, <1>5, <1>7 DEF Good, Announced, EventsGrow
<1>10. Conveyed(s, e, n, j, v, over, ended)
  BY <1>3, <1>4, <1>5, <1>6, <1>7 DEF Good, Conveyed, EventsGrow, Coming
<1>11. Written(s, e, j, v, c, over, running)
  BY <1>4, <1>5, <1>7 DEF Good, Written, EventsGrow
<1> QED
  BY <1>7, <1>8, <1>9, <1>10, <1>11 DEF Good

\* An event of s that nobody waits for: the session is over, or the promise, the write or
\* the sink that it is for is not there.
Unheard(t, j, over) ==
  \/ over
  \/ t \notin {"StreamOpened", "WriteAck", "StreamData"}
  \/ t = "StreamOpened" /\ j.open # "requested"
  \/ t = "WriteAck" /\ ~j.writing
  \/ t = "StreamData" /\ ~j.recv /\ j.open # "resolved"

\* An event nobody listens to any more may be dropped.
LEMMA UnheardGood ==
  ASSUME NEW s \in Stream, NEW e, NEW n, NEW j, NEW t \in OfStream, NEW v \in Seq(Event), NEW c,
         NEW over \in BOOLEAN, NEW ended, NEW running,
         Good(s, e, n, j, <<Item(t, s)>> \o v, c, over, ended, running), Unheard(t, j, over)
  PROVE  Good(s, e, n, j, v, c, over, ended, running)
<1> DEFINE z == <<Item(t, s)>> \o v
<1>1. EventGone(t, s, z, v)
  BY EventHead
<1>2. Good(s, e, n, j, z, c, over, ended, running)
  OBVIOUS
<1> HIDE DEF z
<1>3. Has(v, OfStream, s) => Has(z, OfStream, s)
  BY <1>1 DEF EventGone
<1>4. s \in LocalStreams => Opening(s, e, n, j, v, c, over, ended)
  BY <1>1, <1>2, <1>3 DEF Good, Opening, EventGone, Unheard
<1>5. s \in PeerStreams => Announced(s, e, j, v, c, over, ended)
  BY <1>1, <1>2, <1>3 DEF Good, Announced, EventGone
<1>6. Coming(s, e, j, v, ended) => Coming(s, e, j, z, ended)
  BY <1>1 DEF Coming, EventGone
<1>7. t = "StreamData" /\ ~over => ~(j.readable = "open" \/ Coming(s, e, j, z, ended))
  <2> SUFFICES ASSUME t = "StreamData", ~over
               PROVE  ~(j.readable = "open" \/ Coming(s, e, j, z, ended))
    OBVIOUS
  <2>1. ~j.recv /\ j.open # "resolved" /\ t \in Recv
    BY DEF Unheard, Recv
  <2>2. j.readable # "open"
    BY <1>2, <2>1 DEF Good, Shaped
  <2>3. CASE s \in LocalStreams
    BY <1>1, <1>2, <2>1, <2>2, <2>3 DEF Good, Opening, EventGone, Coming
  <2>4. CASE s \notin LocalStreams
    <3>1. s \in PeerStreams
      BY <2>4 DEF Stream
    <3> QED
      BY <1>1, <1>2, <2>2, <2>4, <3>1 DEF Good, Announced, EventGone, Coming
  <2> QED
    BY <2>3, <2>4
<1>8. Conveyed(s, e, n, j, v, over, ended)
  <2>1. j.got \in Nat /\ e.taken \in Nat
    BY <1>2 DEF Good, Whatwg, Entry
  <2> DEFINE a == Count(z, Item("StreamData", s))
             b == Count(v, Item("StreamData", s))
  <2>2. b \in Nat /\ a = b + (IF t = "StreamData" THEN 1 ELSE 0)
    BY <1>1 DEF EventGone
  <2>3. j.got + a <= e.taken
    BY <1>2 DEF Good, Conveyed
  <2> HIDE DEF a, b
  <2>4. j.got + b <= e.taken /\ (t # "StreamData" => a = b)
    BY <2>1, <2>2, <2>3
  <2>5. ~over /\ (j.readable = "open" \/ Coming(s, e, j, v, ended)) => e.taken = j.got + b
    BY <1>2, <1>6, <1>7, <2>4 DEF Good, Conveyed, a
  <2> QED
    BY <1>1, <1>2, <2>4, <2>5 DEF Good, Conveyed, EventGone, b
<1>9. Written(s, e, j, v, c, over, running)
  BY <1>1, <1>2 DEF Good, Written, EventGone, Unheard
<1> QED
  BY <1>2, <1>4, <1>5, <1>8, <1>9 DEF Good

\* StreamOpened: the promise of an open resolves.
LEMMA OpenedGood ==
  ASSUME NEW s \in Stream, NEW e, NEW n, NEW j, NEW v \in Seq(Event), NEW c, NEW over, NEW ended,
         NEW running, Good(s, e, n, j, <<Item("StreamOpened", s)>> \o v, c, over, ended, running),
         j.open = "requested"
  PROVE  Good(s, e, n, [j EXCEPT !.open = "resolved"], v, c, over, ended, running)
<1> DEFINE z == <<Item("StreamOpened", s)>> \o v
           k == [j EXCEPT !.open = "resolved"]
           t == "StreamOpened"
<1>1. t \in OfStream /\ t \notin Recv
  BY DEF OfStream, Recv
<1>2. EventGone(t, s, z, v)
  BY <1>1, EventHead
<1>3. Good(s, e, n, j, z, c, over, ended, running)
  OBVIOUS
<1> HIDE DEF z
<1>4. s \in LocalStreams /\ s \notin PeerStreams
  BY BridgeAssumption DEF Good, Announced, Stream
<1>5. j \in Whatwg /\ j = [NewJs EXCEPT !.open = "requested"]
  BY <1>3 DEF Good, Shaped
<1>6. k \in Whatwg /\ k = [NewJs EXCEPT !.open = "resolved"] /\ k.open = "resolved"
  BY <1>5 DEF Whatwg, NewJs
<1>7. /\ k.recv = FALSE /\ k.readable = "none" /\ k.queue = 0 /\ k.got = 0
      /\ k.pending = 0 /\ k.writing = FALSE /\ k.writable = "none"
  BY <1>6 DEF NewJs
<1>8. /\ j.got = 0 /\ j.pending = 0 /\ k.writes = j.writes /\ j.readable = "none"
  BY <1>5, <1>6 DEF NewJs
<1>9. Opening(s, e, n, j, z, c, over, ended)
  BY <1>3, <1>4 DEF Good
<1> HIDE DEF k
<1>10. Opening(s, e, n, k, v, c, over, ended)
  BY <1>1, <1>2, <1>6, <1>9 DEF Opening, EventGone
<1>11. Conveyed(s, e, n, k, v, over, ended)
  <2>1. Coming(s, e, j, z, ended)
    BY <1>4 DEF Coming
  <2>2. Count(v, Item("StreamData", s)) = Count(z, Item("StreamData", s))
    BY <1>2 DEF EventGone
  <2> QED
    BY <1>2, <1>3, <1>7, <1>8, <2>1, <2>2 DEF Good, Conveyed, EventGone
<1>12. Written(s, e, k, v, c, over, running)
  BY <1>3, <1>7, <1>8 DEF Good, Written
<1>13. Shaped(k)
  <2>1. k.queue <= k.got
    BY <1>7
  <2>2. k.recv = (k.readable = "open")
    BY <1>7
  <2> QED
    BY <1>6, <2>1, <2>2 DEF Shaped
<1> QED
  BY <1>3, <1>4, <1>6, <1>10, <1>11, <1>12, <1>13 DEF Good, k

\* WriteAck: the promise of a write settles.
LEMMA AckGood ==
  ASSUME NEW s \in Stream, NEW e, NEW n, NEW j, NEW v \in Seq(Event), NEW c, NEW over, NEW ended,
         NEW running, Good(s, e, n, j, <<Item("WriteAck", s)>> \o v, c, over, ended, running)
  PROVE  Good(s, e, n, [j EXCEPT !.writing = FALSE], v, c, over, ended, running)
<1> DEFINE z == <<Item("WriteAck", s)>> \o v
           k == [j EXCEPT !.writing = FALSE]
           t == "WriteAck"
<1>1. t \in OfStream /\ t \notin Recv
  BY DEF OfStream, Recv
<1>2. EventGone(t, s, z, v)
  BY <1>1, EventHead
<1>3. Good(s, e, n, j, z, c, over, ended, running)
  OBVIOUS
<1> HIDE DEF z
<1>4. j \in Whatwg /\ k \in Whatwg
  BY <1>3 DEF Good, Whatwg
<1>5. /\ k.open = j.open /\ k.recv = j.recv /\ k.queue = j.queue
      /\ k.got = j.got /\ k.readable = j.readable
  BY <1>4 DEF Whatwg
<1>6. k.pending = j.pending /\ k.writes = j.writes /\ k.writable = j.writable /\ k.writing = FALSE
  BY <1>4 DEF Whatwg
<1>7. j.open # "live" => k = j
  <2>1. j.open # "live" => j.writing = FALSE
    BY <1>3 DEF Good, Shaped, NewJs
  <2>2. j.writing = FALSE => k = j
    BY <1>4 DEF Whatwg
  <2> HIDE DEF k
  <2> QED
    BY <2>1, <2>2
<1>8. j = NewJs => k = NewJs
  <2>1. NewJs.open = "idle"
    BY DEF NewJs
  <2> HIDE DEF k
  <2> QED
    BY <1>7, <2>1
<1> HIDE DEF k
<1>9. s \in LocalStreams => Opening(s, e, n, k, v, c, over, ended)
  BY <1>1, <1>2, <1>3, <1>5 DEF Good, Opening, EventGone
<1>10. s \in PeerStreams => Announced(s, e, k, v, c, over, ended)
  BY <1>1, <1>2, <1>3, <1>5, <1>8 DEF Good, Announced, EventGone
<1>11. Conveyed(s, e, n, k, v, over, ended)
  <2>1. Coming(s, e, k, v, ended) => Coming(s, e, j, z, ended)
    BY <1>2, <1>5 DEF Coming, EventGone
  <2>2. Count(v, Item("StreamData", s)) = Count(z, Item("StreamData", s))
    BY <1>2 DEF EventGone
  <2> QED
    BY <1>2, <1>3, <1>5, <2>1, <2>2 DEF Good, Conveyed, EventGone
<1>12. Written(s, e, k, v, c, over, running)
  BY <1>3, <1>6 DEF Good, Written
<1>13. Shaped(k)
  BY <1>3, <1>5, <1>7 DEF Good, Shaped
<1> QED
  BY <1>3, <1>4, <1>9, <1>10, <1>11, <1>12, <1>13 DEF Good, k

\* StreamData: a chunk goes to the read that waits for it, or into the queue.
LEMMA ChunkGood ==
  ASSUME NEW s \in Stream, NEW e, NEW n, NEW j, NEW v \in Seq(Event), NEW c, NEW over, NEW ended,
         NEW running, Good(s, e, n, j, <<Item("StreamData", s)>> \o v, c, over, ended, running),
         j.recv, NEW queue \in {j.queue, j.queue + 1}
  PROVE  /\ j.open = "live"
         /\ Good(s, e, n, [j EXCEPT !.queue = queue, !.asked = FALSE, !.got = @ + 1], v, c,
                 over, ended, running)
<1> DEFINE z == <<Item("StreamData", s)>> \o v
           got == j.got + 1
           k == [j EXCEPT !.queue = queue, !.asked = FALSE, !.got = got]
           t == "StreamData"
<1>1. t \in OfStream /\ t \in Recv
  BY DEF OfStream, Recv
<1>2. EventGone(t, s, z, v)
  BY <1>1, EventHead
<1>3. Good(s, e, n, j, z, c, over, ended, running)
  OBVIOUS
<1> HIDE DEF z
<1>4. j \in Whatwg /\ j.readable = "open" /\ j.open = "live"
  BY <1>3 DEF Good, Shaped, NewJs
<1>5. queue \in Nat /\ got \in Nat /\ queue <= got
  BY <1>3, <1>4 DEF Good, Shaped, Whatwg
<1>6. got = j.got + 1
  OBVIOUS
<1> HIDE DEF got
<1>7. k \in Whatwg
  BY <1>4, <1>5 DEF Whatwg
<1>8. /\ k.open = "live" /\ k.recv = j.recv /\ k.queue = queue
      /\ k.got = got /\ k.readable = "open"
  BY <1>4, <1>5 DEF Whatwg
<1>9. k.pending = j.pending /\ k.writes = j.writes /\ k.writable = j.writable /\ k.writing = j.writing
  BY <1>4 DEF Whatwg
<1> HIDE DEF k
<1>10. j # NewJs
  BY <1>4 DEF NewJs
<1>11. s \in LocalStreams => Opening(s, e, n, k, v, c, over, ended)
  BY <1>1, <1>2, <1>3, <1>4, <1>8 DEF Good, Opening, EventGone
<1>12. s \in PeerStreams => Announced(s, e, k, v, c, over, ended)
  BY <1>1, <1>2, <1>3, <1>4, <1>8, <1>10 DEF Good, Announced, EventGone
<1>13. Conveyed(s, e, n, k, v, over, ended)
  <2> DEFINE a == Count(z, Item("StreamData", s))
             b == Count(v, Item("StreamData", s))
  <2>1. b \in Nat /\ a = b + 1
    BY <1>2 DEF EventGone
  <2>2. j.got + a <= e.taken /\ (~over => e.taken = j.got + a)
    BY <1>3, <1>4 DEF Good, Conveyed
  <2>3. j.got \in Nat /\ e.taken \in Nat
    BY <1>3, <1>4 DEF Good, Whatwg, Entry
  <2> HIDE DEF a, b
  <2>4. j.got + a = k.got + b
    <3> DEFINE had == j.got
    <3>1. had \in Nat /\ k.got = had + 1
      BY <1>6, <1>8, <2>3
    <3> HIDE DEF had
    <3>2. had + (b + 1) = (had + 1) + b
      BY <2>1, <3>1
    <3> QED
      BY <2>1, <3>1, <3>2 DEF had
  <2>5. k.got + b <= e.taken /\ (~over => e.taken = k.got + b)
    BY <2>2, <2>4
  <2> QED
    BY <1>2, <1>3, <1>8, <2>5 DEF Good, Conveyed, EventGone, b
<1>14. Written(s, e, k, v, c, over, running)
  BY <1>1, <1>2, <1>3, <1>9 DEF Good, Written, EventGone
<1>15. Shaped(k)
  <2>1. k.queue <= k.got
    BY <1>5, <1>8
  <2>2. k.recv = (k.readable = "open")
    BY <1>3, <1>4, <1>8 DEF Good, Shaped
  <2> QED
    BY <1>8, <2>1, <2>2 DEF Shaped
<1> QED
  BY <1>3, <1>4, <1>7, <1>11, <1>12, <1>13, <1>14, <1>15 DEF Good, k, got

\* StreamFinished: everything the peer sent is there, and the readable closes.
LEMMA FinishedGood ==
  ASSUME NEW s \in Stream, NEW e, NEW n, NEW j, NEW v \in Seq(Event), NEW c, NEW ended,
         NEW running, Good(s, e, n, j, <<Item("StreamFinished", s)>> \o v, c, FALSE, ended, running),
         j.recv
  PROVE  Good(s, e, n, [j EXCEPT !.readable = "closed", !.recv = FALSE, !.asked = FALSE], v, c,
              FALSE, ended, running)
<1> DEFINE z == <<Item("StreamFinished", s)>> \o v
           k == [j EXCEPT !.readable = "closed", !.recv = FALSE, !.asked = FALSE]
           t == "StreamFinished"
           over == FALSE
<1>1. t \in OfStream /\ t \in Recv
  BY DEF OfStream, Recv
<1>2. EventGone(t, s, z, v)
  BY <1>1, EventHead
<1>3. Good(s, e, n, j, z, c, over, ended, running) /\ ~over
  OBVIOUS
<1> HIDE DEF z, over
<1>4. j \in Whatwg /\ j.readable = "open" /\ j.open = "live"
  BY <1>3 DEF Good, Shaped, NewJs
<1>5. k \in Whatwg
  BY <1>4 DEF Whatwg
<1>6. /\ k.open = "live" /\ k.recv = FALSE /\ k.queue = j.queue
      /\ k.got = j.got /\ k.readable = "closed"
  BY <1>4 DEF Whatwg
<1>7. k.pending = j.pending /\ k.writes = j.writes /\ k.writable = j.writable /\ k.writing = j.writing
  BY <1>4 DEF Whatwg
<1> HIDE DEF k
<1>8. j # NewJs
  BY <1>4 DEF NewJs
<1>9. s \in LocalStreams => Opening(s, e, n, k, v, c, over, ended)
  BY <1>1, <1>2, <1>3, <1>4, <1>6 DEF Good, Opening, EventGone
<1>10. s \in PeerStreams => Announced(s, e, k, v, c, over, ended)
  BY <1>1, <1>2, <1>3, <1>4, <1>6, <1>8 DEF Good, Announced, EventGone
<1>11. Conveyed(s, e, n, k, v, over, ended)
  <2> DEFINE a == Count(z, Item("StreamData", s))
             b == Count(v, Item("StreamData", s))
  <2>1. b = 0 /\ a = b
    BY <1>2, <1>3 DEF EventGone, Good, Conveyed
  <2>2. e.taken = j.got + a /\ n.fin /\ e.taken = n.sent
    BY <1>2, <1>3, <1>4 DEF Good, Conveyed, EventGone
  <2>3. j.got \in Nat /\ e.taken \in Nat
    BY <1>3, <1>4 DEF Good, Whatwg, Entry
  <2> HIDE DEF a, b
  <2>4. j.got = n.sent /\ e.taken = j.got + b /\ j.got + b <= e.taken
    BY <2>1, <2>2, <2>3
  <2> QED
    BY <1>2, <1>3, <1>6, <2>2, <2>4 DEF Good, Conveyed, EventGone, b
<1>12. Written(s, e, k, v, c, over, running)
  BY <1>1, <1>2, <1>3, <1>7 DEF Good, Written, EventGone
<1>13. Shaped(k)
  BY <1>3, <1>6 DEF Good, Shaped
<1> QED
  BY <1>3, <1>5, <1>9, <1>10, <1>11, <1>12, <1>13 DEF Good, k, over

\* Stream: the constructors of a stream of the peer run as it is announced.
LEMMA IncomingGood ==
  ASSUME NEW s \in Stream, NEW e, NEW n, NEW j, NEW v \in Seq(Event), NEW c, NEW ended,
         NEW running, Good(s, e, n, j, <<Item("Stream", s)>> \o v, c, FALSE, ended, running)
  PROVE  /\ j = NewJs /\ Commandable(s, e, j, v, ended)
         /\ Good(s, e, n, Constructed(j), v, c, FALSE, ended, running)
<1> DEFINE z == <<Item("Stream", s)>> \o v
           k == Constructed(j)
           t == "Stream"
           over == FALSE
<1>1. t \in OfStream /\ t \notin Recv
  BY DEF OfStream, Recv
<1>2. EventGone(t, s, z, v)
  BY <1>1, EventHead
<1>3. Good(s, e, n, j, z, c, over, ended, running) /\ ~over
  OBVIOUS
<1> HIDE DEF z, over
<1>4. s \in PeerStreams /\ s \notin LocalStreams
  <2>1. Has(z, {"Stream"}, s)
    BY <1>2 DEF EventGone
  <2> QED
    BY <1>3, <2>1 DEF Good, Opening, Stream
<1>5. /\ j = NewJs /\ ~Unannounced(e, ended) /\ ~Has(v, {"Stream"}, s) /\ ~Has(v, {"StreamOpened"}, s)
      /\ ~Has(c, ToStream, s) /\ ~e.wanted /\ ~Has(c, {"OpenStream"}, s)
      /\ Never(v, OfStream, {"Stream"}, s)
  BY <1>2, <1>3, <1>4 DEF Good, Announced, EventGone
<1>6. k \in Whatwg /\ k.open = "live" /\ k.recv = TRUE /\ k.readable = "open"
  BY <1>3, <1>5 DEF Good, Whatwg, Constructed, NewJs
<1>7. /\ k.queue = 0 /\ k.got = 0 /\ j.got = 0 /\ k.pending = 0 /\ j.pending = 0 /\ k.writes = 0
      /\ j.writes = 0 /\ k.writing = FALSE
  BY <1>5 DEF Constructed, NewJs
<1> HIDE DEF k
<1>8. Announced(s, e, k, v, c, over, ended)
  BY <1>3, <1>5, <1>6 DEF Announced
<1>9. Conveyed(s, e, n, k, v, over, ended)
  <2>1. Coming(s, e, j, z, ended)
    BY <1>2, <1>4 DEF Coming, EventGone
  <2>2. Count(v, Item("StreamData", s)) = Count(z, Item("StreamData", s))
    BY <1>2 DEF EventGone
  <2> QED
    BY <1>2, <1>3, <1>6, <1>7, <2>1, <2>2 DEF Good, Conveyed, EventGone
<1>10. Written(s, e, k, v, c, over, running)
  <2>1. ~Has(c, {"ResetStream"}, s)
    BY <1>5, HasLess
  <2> QED
    BY <1>3, <1>7, <2>1 DEF Good, Written
<1>11. Shaped(k)
  <2>1. k.queue <= k.got
    BY <1>7
  <2>2. k.recv = (k.readable = "open")
    BY <1>6
  <2> QED
    BY <1>6, <2>1, <2>2 DEF Shaped
<1>12. Commandable(s, e, j, v, ended)
  BY <1>4, <1>5 DEF Commandable
<1> QED
  BY <1>3, <1>4, <1>5, <1>6, <1>8, <1>9, <1>10, <1>11, <1>12 DEF Good, k, over

\* The end of the session takes a stream with it.
LEMMA FinishStreamGood ==
  ASSUME NEW s \in Stream, NEW e, NEW n, NEW j, NEW w, NEW c, NEW ended, NEW running,
         Good(s, e, n, j, w, c, FALSE, ended, running)
  PROVE  Good(s, e, n, FinishStream(j), w, c, TRUE, ended, running)
<1> DEFINE open == IF j.open = "requested" THEN "rejected" ELSE j.open
           writable == IF j.send \/ j.writing THEN "errored" ELSE j.writable
           readable == IF j.recv THEN "errored" ELSE j.readable
           queue == IF j.recv THEN 0 ELSE j.queue
           k == [j EXCEPT !.open = open, !.writing = FALSE, !.writable = writable,
                          !.readable = readable, !.queue = queue,
                          !.asked = FALSE, !.recv = FALSE, !.send = FALSE]
           off == FALSE
           over == TRUE
<1>1. FinishStream(j) = k
  BY DEF FinishStream
<1>2. j \in Whatwg /\ Shaped(j) /\ Good(s, e, n, j, w, c, off, ended, running) /\ ~off
  BY DEF Good
<1>3. /\ open \in {"idle", "requested", "resolved", "live", "rejected"} /\ open # "requested"
      /\ j.open # "requested" => open = j.open
      /\ j.open = "requested" => open = "rejected"
      /\ writable \in {"none", "open", "closed", "errored"}
      /\ readable \in {"none", "open", "closed", "errored", "cancelled"}
      /\ queue \in Nat
  BY <1>2 DEF Whatwg
<1>4. /\ readable # "open" /\ (readable = "closed" <=> j.readable = "closed")
      /\ writable = "open" => j.writable = "open"
  <2>1. j.recv <=> j.readable = "open"
    BY <1>2 DEF Shaped
  <2> QED
    BY <2>1
<1>5. queue <= j.got
  <2>1. j.queue <= j.got /\ 0 <= j.got
    BY <1>2 DEF Shaped, Whatwg
  <2> QED
    BY <2>1
<1>6. j.open # "live" => writable = j.writable /\ readable = j.readable /\ queue = j.queue
                         /\ j.asked = FALSE /\ j.recv = FALSE /\ j.send = FALSE /\ j.writing = FALSE
  BY <1>2 DEF Shaped, NewJs
<1> HIDE DEF open, writable, readable, queue, off
<1>7. k \in Whatwg
  BY <1>2, <1>3 DEF Whatwg
<1>8. /\ k.open = open /\ k.recv = FALSE /\ k.queue = queue
      /\ k.got = j.got /\ k.readable = readable
  BY <1>2 DEF Whatwg
<1>9. k.pending = j.pending /\ k.writes = j.writes /\ k.writable = writable /\ k.writing = FALSE
  BY <1>2 DEF Whatwg
<1>10. j.open # "live" => k = [NewJs EXCEPT !.open = open]
  <2>1. j.open # "live" => j = [NewJs EXCEPT !.open = j.open]
    BY <1>2 DEF Shaped
  <2>2. j.open # "live" => k = [j EXCEPT !.open = open]
    <3> SUFFICES ASSUME j.open # "live" PROVE k = [j EXCEPT !.open = open]
      OBVIOUS
    <3> DEFINE no == FALSE
               g == [j EXCEPT !.open = open]
               h == [j EXCEPT !.open = open, !.writing = no, !.writable = writable,
                              !.readable = readable, !.queue = queue,
                              !.asked = no, !.recv = no, !.send = no]
    <3>1. k = h
      OBVIOUS
    <3>2. no = j.asked /\ no = j.recv /\ no = j.send /\ no = j.writing
          /\ writable = j.writable /\ readable = j.readable /\ queue = j.queue
      BY <1>6
    <3> HIDE DEF no
    <3>3. h = g
      BY <1>2, <3>2 DEF Whatwg
    <3> HIDE DEF g, h, k
    <3> QED
      BY <3>1, <3>3 DEF g
  <2> HIDE DEF k
  <2>3. j.open # "live" => k = [[NewJs EXCEPT !.open = j.open] EXCEPT !.open = open]
    BY <2>1, <2>2
  <2>4. [[NewJs EXCEPT !.open = j.open] EXCEPT !.open = open] = [NewJs EXCEPT !.open = open]
    BY DEF NewJs
  <2> QED
    BY <2>3, <2>4
<1>11. j = NewJs => k = NewJs
  <2>1. j = NewJs => j.open = "idle" /\ open = "idle"
    BY <1>3 DEF NewJs
  <2>2. [NewJs EXCEPT !.open = "idle"] = NewJs
    BY DEF NewJs
  <2> HIDE DEF k
  <2> QED
    BY <1>10, <2>1, <2>2
<1> HIDE DEF k
<1>12. s \in LocalStreams => Opening(s, e, n, k, w, c, over, ended)
  BY <1>2, <1>3, <1>8 DEF Good, Opening
<1>13. s \in PeerStreams => Announced(s, e, k, w, c, over, ended)
  BY <1>2, <1>3, <1>4, <1>8, <1>11 DEF Good, Announced
<1>14. Conveyed(s, e, n, k, w, over, ended)
  BY <1>2, <1>4, <1>8 DEF Good, Conveyed
<1>15. Written(s, e, k, w, c, over, running)
  BY <1>2, <1>4, <1>9 DEF Good, Written
<1>16. Shaped(k)
  <2>1. k.queue <= k.got
    BY <1>5, <1>8
  <2>2. k.recv = (k.readable = "open")
    BY <1>4, <1>8
  <2>3. k.open # "live" => j.open # "live"
    BY <1>3, <1>8
  <2>4. k.open # "live" => k = [NewJs EXCEPT !.open = k.open]
    BY <1>8, <1>10, <2>3
  <2> QED
    BY <2>1, <2>2, <2>4 DEF Shaped
<1> QED
  BY <1>1, <1>2, <1>7, <1>12, <1>13, <1>14, <1>15, <1>16 DEF Good, over

\* The end of the session settles its requests and closes its datagrams.
LEMMA FinishCoreGood ==
  ASSUME NEW k \in Core
  PROVE  /\ FinishCore(k) \in Core /\ FinishCore(k).closed = TRUE
         /\ \A r \in Request : FinishCore(k).requests[r] # "pending"
<1> DEFINE requests == [r \in Request |-> IF k.requests[r] = "pending" THEN "settled" ELSE k.requests[r]]
           readable == IF k.readable = "open" THEN "closed" ELSE k.readable
           f == [k EXCEPT !.closed = TRUE, !.requests = requests, !.readable = readable, !.asked = FALSE]
<1>1. FinishCore(k) = f
  BY DEF FinishCore
<1>2. /\ requests \in [Request -> {"idle", "pending", "settled"}]
      /\ \A r \in Request : requests[r] # "pending"
  BY DEF Core
<1>3. readable \in {"open", "closed", "cancelled"}
  BY DEF Core
<1> HIDE DEF requests, readable
<1>4. f \in Core
  BY <1>2, <1>3 DEF Core
<1>5. f.closed = TRUE /\ f.requests = requests
  BY DEF Core
<1> HIDE DEF f
<1> QED
  BY <1>1, <1>2, <1>4, <1>5

\* SessionCore.finish keeps the turn as it should be.
LEMMA FinishGood ==
  ASSUME Inv, NEW j, NEW w, Turning(j, w)
  PROVE  /\ Turning(Finish(j), w)
         /\ \A s \in Stream : Finish(j).st[s].open = "resolved" => j.st[s].open = "resolved"
<1>1. CASE j.core.closed
  <2>1. Finish(j) = j
    BY <1>1 DEF Finish
  <2> QED
    BY <2>1
<1>2. CASE ~j.core.closed
  <2> DEFINE b == j.cmds
             c0 == cmds \o b
             x == Item("Shutdown", "session")
             r == <<x>>
             st == [s \in Stream |-> FinishStream(j.st[s])]
             k == FinishCore(j.core)
             q == b \o r
             m == [st |-> st, core |-> k, cmds |-> q]
             X == Command
  <2>1. /\ b \in Seq(X) /\ cmds \in Seq(X) /\ x \in X /\ x.type = "Shutdown"
        /\ Session(j.core, dgram, w, c0, alive) /\ j.core \in Core /\ j.core.closed = FALSE
        /\ \A s \in Stream : Good(s, nat[s], net[s], j.st[s], w, c0, FALSE, closed, alive)
    <3>1. x \in X /\ x.type = "Shutdown"
      BY DEF Item, Command
    <3>2. j.core \in Core
      BY DEF Turning, Session
    <3>3. j.core.closed = FALSE
      BY <1>2, <3>2 DEF Core
    <3> QED
      BY <3>1, <3>2, <3>3 DEF Turning, Inv
  <2>2. Finish(j) = m
    <3>1. Append(b, x) = q
      <4> HIDE DEF X
      <4> QED
        BY <2>1, AppendIsConcat
    <3> QED
      BY <1>2, <3>1 DEF Finish
  <2>3. r \in Seq(X) /\ \A T, s : Has(r, T, s) <=> x.type \in T /\ x.stream = s
    <3>1. r \in Seq(X)
      <4> HIDE DEF x, X
      <4> QED
        BY <2>1
    <3>2. \A T, s : Has(r, T, s) <=> x.type \in T /\ x.stream = s
      BY OneItem
    <3> HIDE DEF r
    <3> QED
      BY <3>1, <3>2
  <2>4. \A s : ~Has(r, ToStream, s)
    BY <2>1, <2>3 DEF ToStream
  <2> HIDE DEF x, r, X, b
  <2>5. c0 \in Seq(X) /\ q \in Seq(X) /\ Grown(cmds, b, r)
    BY <2>1, <2>3, Growing
  <2>6. cmds \o q = c0 \o r
    BY <2>5 DEF Grown
  <2>7. k \in Core /\ k.closed = TRUE /\ \A y \in Request : k.requests[y] # "pending"
    BY <2>1, FinishCoreGood
  <2> HIDE DEF k, c0, q
  <2>8. Session(k, dgram, w, c0 \o r, alive)
    BY <2>1, <2>7 DEF Session
  <2>9. ASSUME NEW s \in Stream
        PROVE  /\ Good(s, nat[s], net[s], st[s], w, c0 \o r, TRUE, closed, alive)
               /\ st[s].open = "resolved" => j.st[s].open = "resolved"
    <3> DEFINE g == j.st[s]
               e == nat[s]
               n == net[s]
               f == FinishStream(g)
    <3>1. st[s] = f /\ Good(s, e, n, g, w, c0, FALSE, closed, alive)
      BY <2>1
    <3>2. f.open = "resolved" => g.open = "resolved"
      BY <3>1 DEF FinishStream, Good, Whatwg
    <3> HIDE DEF g, e, n
    <3>3. Good(s, e, n, f, w, c0, TRUE, closed, alive)
      BY <3>1, FinishStreamGood
    <3> HIDE DEF f, st
    <3>4. c0 \in Seq(Command) /\ r \in Seq(Command)
      BY <2>3, <2>5 DEF X
    <3>5. Good(s, e, n, f, w, c0 \o r, TRUE, closed, alive)
      BY <2>4, <3>3, <3>4, ForeignCommands
    <3> QED
      BY <3>1, <3>2, <3>5 DEF g, e, n
  <2>10. st \in [Stream -> Whatwg]
    <3> HIDE DEF st
    <3>1. st = [s \in Stream |-> st[s]]
      BY DEF st
    <3>2. \A s \in Stream : st[s] \in Whatwg
      BY <2>9 DEF Good
    <3> QED
      BY <3>1, <3>2
  <2>11. m.st = st /\ m.core = k /\ m.cmds = q /\ m = [st |-> m.st, core |-> m.core, cmds |-> m.cmds]
    OBVIOUS
  <2> HIDE DEF m, st
  <2>12. Turning(m, w)
    BY <2>5, <2>6, <2>7, <2>8, <2>9, <2>10, <2>11 DEF Turning, X
  <2> QED
    BY <2>2, <2>9, <2>11, <2>12
<1> QED
  BY <1>1, <1>2

\* The session, when an event goes: the answer to a request settles it, a datagram is
\* read, queued or dropped, and all other events do not concern it.
LEMMA SessionEventHead ==
  ASSUME NEW k, NEW d, NEW x \in Event, NEW v \in Seq(Event), NEW c, NEW running,
         Session(k, d, <<x>> \o v, c, running)
  PROVE  /\ k.closed \/ x.type \notin {"Answer", "Datagram"} => Session(k, d, v, c, running)
         /\ ~k.closed /\ x.type = "Datagram"
              => Session(OnDatagram(k), d, v, c, running) /\ OnDatagram(k).closed = k.closed
         /\ ~k.closed /\ x.type = "Answer"
              => LET f == [k EXCEPT !.requests[x.stream] = "settled"]
                 IN Session(f, d, v, c, running) /\ f.closed = k.closed
<1> DEFINE u == <<x>>
           z == u \o v
           y == Item("Datagram", "session")
           X == Event
           a == Count(v, y)
<1>1. x = y <=> x.type = "Datagram"
  BY DEF Item, Event, OfStream, Recv
<1>2. x.type = "Answer" => x.stream \in Request
  BY DEF Event, OfStream, Recv
<1>3. u \in Seq(X) /\ v \in Seq(X)
  OBVIOUS
<1>4. \A T, s : Has(u, T, s) <=> x.type \in T /\ x.stream = s
  BY OneItem
<1> HIDE DEF y
<1>5. Count(u, y) = IF x = y THEN 1 ELSE 0
  BY OneItem
<1> HIDE DEF u, X
<1>6. \A T, s : Has(z, T, s) <=> Has(u, T, s) \/ Has(v, T, s)
  BY <1>3, HasConcat
<1>7. Count(z, y) = Count(u, y) + Count(v, y) /\ Count(v, y) \in Nat
  BY <1>3, CountConcat, CountIsNat
<1>8. Session(k, d, z, c, running)
  BY DEF u
<1> HIDE DEF z
<1>9. /\ k \in Core /\ d \in Dgrams /\ (~running => k.closed)
      /\ (Has(c, {"Shutdown"}, "session") => k.closed)
      /\ \A r \in Request : k.requests[r] = "pending" =>
           /\ ~k.closed
           /\ Has(z, {"Answer"}, r) \/ Has(c, {r}, "session")
  BY <1>8 DEF Session
<1>10. ~k.closed => d.taken = k.got + k.queue + k.dropped + Count(z, y)
  BY <1>8 DEF Session, y
<1>11. Count(z, y) = a + (IF x.type = "Datagram" THEN 1 ELSE 0) /\ a \in Nat
  BY <1>1, <1>5, <1>7
<1>12. \A r : x.type # "Answer" \/ x.stream # r => (Has(z, {"Answer"}, r) => Has(v, {"Answer"}, r))
  BY <1>4, <1>6
<1>13. d.taken \in Nat
  BY <1>9 DEF Dgrams
<1>14. ASSUME k.closed \/ x.type \notin {"Answer", "Datagram"} PROVE Session(k, d, v, c, running)
  <2>1. ~k.closed => d.taken = k.got + k.queue + k.dropped + a
    <3>1. ~k.closed => Count(z, y) = a
      BY <1>11, <1>14
    <3> QED
      BY <1>10, <3>1
  <2>2. \A r \in Request : k.requests[r] = "pending" =>
           /\ ~k.closed
           /\ Has(v, {"Answer"}, r) \/ Has(c, {r}, "session")
    BY <1>9, <1>12, <1>14
  <2> HIDE DEF a
  <2>3. ~k.closed => d.taken = k.got + k.queue + k.dropped + Count(v, Item("Datagram", "session"))
    BY <2>1 DEF a, y
  <2> QED
    BY <1>9, <2>2, <2>3 DEF Session
<1>15. ASSUME ~k.closed, x.type = "Datagram"
       PROVE  Session(OnDatagram(k), d, v, c, running) /\ OnDatagram(k).closed = k.closed
  <2> DEFINE f == OnDatagram(k)
             got == k.got + 1
             queue == k.queue + 1
             dropped == k.dropped + 1
  <2>1. k.got \in Nat /\ k.queue \in Nat /\ k.queue \in 0 .. DgramHighWater /\ k.dropped \in Nat
        /\ got \in Nat /\ dropped \in Nat
    BY <1>9, BridgeAssumption DEF Core
  <2> HIDE DEF a
  <2>2. d.taken = k.got + k.queue + k.dropped + (a + 1) /\ a \in Nat
    BY <1>10, <1>11, <1>15
  <2>3. /\ d.taken = got + k.queue + k.dropped + a
        /\ d.taken = k.got + queue + k.dropped + a
        /\ d.taken = k.got + k.queue + dropped + a
    <3> DEFINE l == k.got
               m == k.queue
               n == k.dropped
    <3>1. l \in Nat /\ m \in Nat /\ n \in Nat /\ a \in Nat /\ d.taken = l + m + n + (a + 1)
      BY <2>1, <2>2
    <3> HIDE DEF l, m, n
    <3>2. /\ d.taken = (l + 1) + m + n + a
          /\ d.taken = l + (m + 1) + n + a
          /\ d.taken = l + m + (n + 1) + a
      BY <3>1, OneMoreOfThree
    <3> QED
      BY <3>2 DEF l, m, n
  <2>4. k.queue < DgramHighWater => queue \in 0 .. DgramHighWater
    <3>1. k.queue \in 0 .. DgramHighWater /\ DgramHighWater \in Nat
      BY <2>1, BridgeAssumption
    <3> QED
      BY <3>1
  <2> HIDE DEF got, queue, dropped
  <2>5. \/ f = [k EXCEPT !.asked = FALSE, !.got = got]
        \/ k.queue < DgramHighWater /\ f = [k EXCEPT !.queue = queue]
        \/ f = [k EXCEPT !.dropped = dropped]
    BY DEF OnDatagram, got, queue, dropped
  <2> HIDE DEF f
  <2>6. /\ f \in Core /\ f.closed = k.closed /\ f.requests = k.requests
        /\ d.taken = f.got + f.queue + f.dropped + a
    <3>1. CASE f = [k EXCEPT !.asked = FALSE, !.got = got]
      <4>1. f \in Core
        BY <1>9, <2>1, <3>1 DEF Core
      <4>2. f.closed = k.closed /\ f.requests = k.requests
        BY <1>9, <3>1 DEF Core
      <4>3. f.got = got /\ f.queue = k.queue /\ f.dropped = k.dropped
        BY <1>9, <3>1 DEF Core
      <4> QED
        BY <2>3, <4>1, <4>2, <4>3
    <3>2. CASE k.queue < DgramHighWater /\ f = [k EXCEPT !.queue = queue]
      <4>1. f \in Core
        BY <1>9, <2>4, <3>2 DEF Core
      <4>2. f.closed = k.closed /\ f.requests = k.requests
        BY <1>9, <3>2 DEF Core
      <4>3. f.got = k.got /\ f.queue = queue /\ f.dropped = k.dropped
        BY <1>9, <3>2 DEF Core
      <4> QED
        BY <2>3, <4>1, <4>2, <4>3
    <3>3. CASE f = [k EXCEPT !.dropped = dropped]
      <4>1. f \in Core
        BY <1>9, <2>1, <3>3 DEF Core
      <4>2. f.closed = k.closed /\ f.requests = k.requests
        BY <1>9, <3>3 DEF Core
      <4>3. f.got = k.got /\ f.queue = k.queue /\ f.dropped = dropped
        BY <1>9, <3>3 DEF Core
      <4> QED
        BY <2>3, <4>1, <4>2, <4>3
    <3> QED
      BY <2>5, <3>1, <3>2, <3>3
  <2>7. \A r \in Request : f.requests[r] = "pending" =>
           /\ ~f.closed
           /\ Has(v, {"Answer"}, r) \/ Has(c, {r}, "session")
    BY <1>9, <1>12, <1>15, <2>6
  <2>8. d.taken = f.got + f.queue + f.dropped + Count(v, Item("Datagram", "session"))
    BY <2>6 DEF a, y
  <2>9. (~running => f.closed) /\ (Has(c, {"Shutdown"}, "session") => f.closed)
    BY <1>9, <2>6
  <2>10. Session(f, d, v, c, running)
    BY <1>9, <2>6, <2>7, <2>8, <2>9 DEF Session
  <2> QED
    BY <2>6, <2>10 DEF f
<1>16. ASSUME ~k.closed, x.type = "Answer"
       PROVE  LET f == [k EXCEPT !.requests[x.stream] = "settled"]
              IN Session(f, d, v, c, running) /\ f.closed = k.closed
  <2> DEFINE q == x.stream
             requests == [k.requests EXCEPT ![q] = "settled"]
             f == [k EXCEPT !.requests = requests]
  <2>1. k.requests \in [Request -> {"idle", "pending", "settled"}] /\ q \in Request
    BY <1>2, <1>9, <1>16 DEF Core
  <2>2. /\ requests \in [Request -> {"idle", "pending", "settled"}]
        /\ \A r \in Request : requests[r] = "pending" => r # q /\ k.requests[r] = "pending"
    BY <2>1
  <2> HIDE DEF requests
  <2>3. f \in Core
    BY <1>9, <2>2 DEF Core
  <2>4. f.closed = k.closed /\ f.requests = requests
    BY <1>9 DEF Core
  <2>5. f.got = k.got /\ f.queue = k.queue /\ f.dropped = k.dropped
    BY <1>9 DEF Core
  <2> HIDE DEF f
  <2>6. \A r \in Request : f.requests[r] = "pending" =>
           /\ ~f.closed
           /\ Has(v, {"Answer"}, r) \/ Has(c, {r}, "session")
    BY <1>9, <1>12, <1>16, <2>2, <2>4
  <2>7. Count(z, y) = a
    BY <1>11, <1>16
  <2> HIDE DEF a
  <2>8. ~f.closed => d.taken = f.got + f.queue + f.dropped + Count(v, Item("Datagram", "session"))
    BY <1>10, <2>4, <2>5, <2>7 DEF a, y
  <2>9. (~running => f.closed) /\ (Has(c, {"Shutdown"}, "session") => f.closed)
    BY <1>9, <2>4
  <2>10. Session(f, d, v, c, running)
    BY <1>9, <2>3, <2>6, <2>8, <2>9 DEF Session
  <2> QED
    BY <2>4, <2>10 DEF f, requests, q
<1> QED
  BY <1>14, <1>15, <1>16

\* The number of incoming streams that wait does not concern the rest of the session.
LEMMA SessionSame ==
  ASSUME NEW k, NEW d, NEW w, NEW c, NEW running, Session(k, d, w, c, running),
         NEW f \in Core, f.closed = k.closed, f.requests = k.requests,
         f.got = k.got, f.queue = k.queue, f.dropped = k.dropped
  PROVE  Session(f, d, w, c, running)
BY DEF Session

\* An event that nobody waits for goes, and the turn goes on.
LEMMA TurnDropped ==
  ASSUME Inv, NEW j, NEW x \in Event, NEW v \in Seq(Event), Turning(j, <<x>> \o v),
         j.core.closed \/ x.type \notin {"Answer", "Datagram"},
         x.type \in OfStream => Unheard(x.type, j.st[x.stream], j.core.closed)
  PROVE  Turning(j, v)
<1> DEFINE c == cmds \o j.cmds
           over == j.core.closed
           z == <<x>> \o v
<1>1. /\ j = [st |-> j.st, core |-> j.core, cmds |-> j.cmds]
      /\ j.st \in [Stream -> Whatwg] /\ j.cmds \in Seq(Command)
      /\ Session(j.core, dgram, z, c, alive)
      /\ \A s \in Stream : Good(s, nat[s], net[s], j.st[s], z, c, over, closed, alive)
  BY DEF Turning
<1>2. over \in BOOLEAN
  BY <1>1 DEF Session, Core
<1>3. Session(j.core, dgram, v, c, alive)
  <2> DEFINE k == j.core
  <2>1. Session(k, dgram, z, c, alive) /\ (k.closed \/ x.type \notin {"Answer", "Datagram"})
    BY <1>1
  <2> HIDE DEF k, c
  <2>2. Session(k, dgram, v, c, alive)
    BY <2>1, SessionEventHead
  <2> QED
    BY <2>2 DEF k
<1>4. ASSUME NEW s \in Stream PROVE Good(s, nat[s], net[s], j.st[s], v, c, over, closed, alive)
  <2> DEFINE e == nat[s]
             n == net[s]
             g == j.st[s]
             t == x.type
  <2>1. Good(s, e, n, g, <<x>> \o v, c, over, closed, alive)
    BY <1>1
  <2>2. CASE t \in OfStream /\ x.stream = s
    <3>1. x = Item(t, s)
      BY <2>2 DEF Event, Item
    <3>2. Unheard(t, g, over) /\ t \in OfStream
      BY <2>2
    <3> HIDE DEF e, n, g, c, over, t
    <3>3. Good(s, e, n, g, <<Item(t, s)>> \o v, c, over, closed, alive)
      BY <2>1, <3>1
    <3>4. Good(s, e, n, g, v, c, over, closed, alive)
      BY <1>2, <3>2, <3>3, UnheardGood
    <3> QED
      BY <3>4 DEF e, n, g
  <2>3. CASE t \notin OfStream \/ x.stream # s
    <3>1. x.type \notin OfStream \/ x.stream # s
      BY <2>3
    <3> HIDE DEF e, n, g, c, over
    <3>2. Good(s, e, n, g, v, c, over, closed, alive)
      BY <2>1, <3>1, ForeignEventHead
    <3> QED
      BY <3>2 DEF e, n, g
  <2> QED
    BY <2>2, <2>3
<1> QED
  BY <1>1, <1>3, <1>4 DEF Turning

\* When an event of the stream a goes, all other streams are as they should be.
LEMMA HeadStep ==
  ASSUME Inv, NEW j, NEW x \in Event, NEW v \in Seq(Event), Turning(j, <<x>> \o v),
         x.type \in OfStream
  PROVE  LET a == x.stream
             c == cmds \o j.cmds IN
         /\ a \in Stream /\ x = Item(x.type, a) /\ Steady(j, v, a)
         /\ Session(j.core, dgram, v, c, alive) /\ c \in Seq(Command)
         /\ j = [st |-> j.st, core |-> j.core, cmds |-> j.cmds] /\ j.cmds \in Seq(Command)
         /\ Good(a, nat[a], net[a], j.st[a], <<Item(x.type, a)>> \o v, c, j.core.closed, closed, alive)
<1> DEFINE c == cmds \o j.cmds
           over == j.core.closed
           z == <<x>> \o v
           a == x.stream
<1>1. /\ j = [st |-> j.st, core |-> j.core, cmds |-> j.cmds]
      /\ j.st \in [Stream -> Whatwg] /\ j.cmds \in Seq(Command)
      /\ Session(j.core, dgram, z, c, alive)
      /\ \A s \in Stream : Good(s, nat[s], net[s], j.st[s], z, c, over, closed, alive)
  BY DEF Turning
<1>2. a \in Stream /\ x = Item(x.type, a) /\ x.type \notin {"Answer", "Datagram"}
  BY DEF Event, Item, OfStream, Recv
<1>3. Session(j.core, dgram, v, c, alive)
  <2> DEFINE k == j.core
  <2>1. Session(k, dgram, z, c, alive)
    BY <1>1
  <2> HIDE DEF k, c
  <2>2. Session(k, dgram, v, c, alive)
    BY <1>2, <2>1, SessionEventHead
  <2> QED
    BY <2>2 DEF k
<1>4. ASSUME NEW s \in Stream, s # a PROVE Good(s, nat[s], net[s], j.st[s], v, c, over, closed, alive)
  <2> DEFINE e == nat[s]
             n == net[s]
             g == j.st[s]
  <2>1. Good(s, e, n, g, <<x>> \o v, c, over, closed, alive)
    BY <1>1
  <2>2. x.stream # s
    BY <1>4
  <2> HIDE DEF e, n, g, c, over
  <2>3. Good(s, e, n, g, v, c, over, closed, alive)
    BY <2>1, <2>2, ForeignEventHead
  <2> QED
    BY <2>3 DEF e, n, g
<1>5. Steady(j, v, a)
  BY <1>1, <1>4 DEF Steady
<1>6. c \in Seq(Command)
  <2> DEFINE X == Command
             b == j.cmds
  <2>1. cmds \in Seq(X) /\ b \in Seq(X)
    BY <1>1 DEF Inv
  <2> HIDE DEF X, b
  <2>2. cmds \o b \in Seq(X)
    BY <2>1, ConcatProperties
  <2> QED
    BY <2>2 DEF X, b
<1>7. Good(a, nat[a], net[a], j.st[a], <<Item(x.type, a)>> \o v, c, over, closed, alive)
  BY <1>1, <1>2
<1> QED
  BY <1>1, <1>2, <1>3, <1>5, <1>6, <1>7

\* The turn m that the event x makes of j; an open resolves by StreamOpened only.
Onward(j, x, v, m) ==
  /\ Turning(m, v)
  /\ \A s \in Stream : m.st[s].open = "resolved"
                         => j.st[s].open = "resolved" \/ (x.type = "StreamOpened" /\ x.stream = s)

\* Dispatching an event about one stream, with the commands it causes, goes on to the next.
LEMMA StepOnward ==
  ASSUME Inv, NEW j, NEW x \in Event, NEW v \in Seq(Event), Turning(j, <<x>> \o v),
         x.type \in OfStream, NEW a, a = x.stream,
         NEW f, NEW r \in Seq(OwnCommand(a)), NEW k, k.closed = j.core.closed,
         Session(k, dgram, v, cmds \o j.cmds, alive),
         Good(a, nat[a], net[a], f, v, (cmds \o j.cmds) \o r, j.core.closed, closed, alive),
         f.open = "resolved" => j.st[a].open = "resolved" \/ x.type = "StreamOpened"
  PROVE  Onward(j, x, v, Becoming(j, a, f, k, r))
<1>1. a \in Stream /\ Steady(j, v, a)
  BY HeadStep
<1> DEFINE m == Becoming(j, a, f, k, r)
<1>2. Turning(m, v)
  BY <1>1, TurnStep
<1>3. \A s \in Stream : m.st[s] = IF s = a THEN f ELSE j.st[s]
  BY <1>1 DEF Becoming, Steady
<1> HIDE DEF m
<1>4. Onward(j, x, v, m)
  BY <1>2, <1>3 DEF Onward
<1> QED
  BY <1>4 DEF m

\* The stream of an event changes, and a command may go to the driver.
LEMMA QuietOnward ==
  ASSUME Inv, NEW j, NEW x \in Event, NEW v \in Seq(Event), Turning(j, <<x>> \o v),
         x.type \in OfStream, NEW a, a = x.stream, NEW f,
         Good(a, nat[a], net[a], f, v, cmds \o j.cmds, j.core.closed, closed, alive),
         f.open = "resolved" => j.st[a].open = "resolved" \/ x.type = "StreamOpened"
  PROVE  Onward(j, x, v, Set(j, a, f))
<1> DEFINE c == cmds \o j.cmds
           r == <<>>
           k == j.core
           m == Becoming(j, a, f, k, r)
<1>1. /\ a \in Stream /\ Session(k, dgram, v, c, alive) /\ c \in Seq(Command)
      /\ j = [st |-> j.st, core |-> k, cmds |-> j.cmds] /\ j.cmds \in Seq(Command)
  BY HeadStep
<1>2. Set(j, a, f) = m
  BY <1>1, Becomings
<1>3. r \in Seq(OwnCommand(a))
  OBVIOUS
<1>4. c \o r = c
  <2> DEFINE X == Command
  <2>1. c \in Seq(X)
    BY <1>1
  <2> HIDE DEF X, c
  <2> QED
    BY <2>1
<1>5. Good(a, nat[a], net[a], f, v, c \o r, k.closed, closed, alive)
  BY <1>4
<1> HIDE DEF r
<1>6. Onward(j, x, v, m)
  <2>1. k.closed = j.core.closed
    OBVIOUS
  <2> HIDE DEF k
  <2> QED
    BY <1>1, <1>3, <1>5, <2>1, StepOnward
<1> QED
  BY <1>2, <1>6

\* The same when the event causes one command.
LEMMA SentOnward ==
  ASSUME Inv, NEW j, NEW x \in Event, NEW v \in Seq(Event), Turning(j, <<x>> \o v),
         x.type \in OfStream, NEW a, a = x.stream, NEW f, NEW t \in ToStream,
         Good(a, nat[a], net[a], f, v, (cmds \o j.cmds) \o <<Item(t, a)>>, j.core.closed, closed, alive),
         f.open = "resolved" => j.st[a].open = "resolved" \/ x.type = "StreamOpened"
  PROVE  Onward(j, x, v, Send(Set(j, a, f), t, a))
<1> DEFINE c == cmds \o j.cmds
           r == <<Item(t, a)>>
           k == j.core
           m == Becoming(j, a, f, k, r)
<1>1. /\ a \in Stream /\ Session(k, dgram, v, c, alive) /\ c \in Seq(Command)
      /\ j = [st |-> j.st, core |-> k, cmds |-> j.cmds] /\ j.cmds \in Seq(Command)
  BY HeadStep
<1>2. Send(Set(j, a, f), t, a) = m
  BY <1>1, Becomings
<1>3. r \in Seq(OwnCommand(a))
  BY <1>1, CommandAdded
<1>5. Good(a, nat[a], net[a], f, v, c \o r, k.closed, closed, alive)
  OBVIOUS
<1> HIDE DEF r
<1>6. Onward(j, x, v, m)
  <2>1. k.closed = j.core.closed
    OBVIOUS
  <2> HIDE DEF k
  <2> QED
    BY <1>1, <1>3, <1>5, <2>1, StepOnward
<1> QED
  BY <1>2, <1>6

\* An event that nobody waits for changes nothing.
LEMMA StillOnward ==
  ASSUME Inv, NEW j, NEW x \in Event, NEW v \in Seq(Event), Turning(j, <<x>> \o v),
         j.core.closed \/ x.type \notin {"Answer", "Datagram"},
         x.type \in OfStream => Unheard(x.type, j.st[x.stream], j.core.closed)
  PROVE  Onward(j, x, v, j)
<1>1. Turning(j, v)
  BY TurnDropped
<1> QED
  BY <1>1 DEF Onward

\* StreamOpened, WriteAck, and what ends a half of a stream.
LEMMA HeardGood ==
  ASSUME Inv, NEW j, NEW x \in Event, NEW v \in Seq(Event), Turning(j, <<x>> \o v),
         ~j.core.closed, x.type \in OfStream \ {"Stream", "StreamData"}
  PROVE  Onward(j, x, v, Dispatch(j, x))
<1> DEFINE a == x.stream
           e == nat[a]
           n == net[a]
           g == j.st[a]
           t == x.type
           c == cmds \o j.cmds
           over == j.core.closed
<1>1. /\ a \in Stream /\ x = Item(t, a) /\ c \in Seq(Command) /\ t \in OfStream
      /\ Good(a, e, n, g, <<Item(t, a)>> \o v, c, over, closed, alive)
  BY HeadStep
<1>2. over = FALSE /\ g \in Whatwg
  <2>1. j.core \in Core
    BY DEF Turning, Session
  <2> QED
    BY <1>1, <2>1 DEF Core, Good
<1>3. t \notin {"Answer", "Datagram", "Stream", "StreamData"}
  BY DEF OfStream, Recv
<1>4. ASSUME NEW f, Good(a, e, n, f, v, c, over, closed, alive),
             f.open = "resolved" => g.open = "resolved" \/ t = "StreamOpened"
      PROVE  Onward(j, x, v, Set(j, a, f))
  BY <1>1, <1>4, QuietOnward
<1>5. ASSUME Unheard(t, g, over) PROVE Onward(j, x, v, j) /\ Good(a, e, n, g, v, c, over, closed, alive)
  <2>1. Onward(j, x, v, j)
    BY <1>3, <1>5, StillOnward
  <2>2. Turning(j, v)
    BY <2>1 DEF Onward
  <2> QED
    BY <1>1, <2>1, <2>2 DEF Turning
<1>6. ASSUME NEW f, Unheard(t, g, over), Calmer(g, f) PROVE Onward(j, x, v, Set(j, a, f))
  <2>1. Good(a, e, n, g, v, c, over, closed, alive)
    BY <1>5, <1>6
  <2>2. f.open = "live"
    BY <1>6 DEF Calmer
  <2> HIDE DEF e, n, g, c, over
  <2>3. Good(a, e, n, f, v, c, over, closed, alive)
    BY <1>1, <1>6, <2>1, LiveGood
  <2> QED
    BY <1>4, <2>2, <2>3
<1>7. Shaped(g)
  BY <1>1 DEF Good
<1>8. ~j.core.closed
  OBVIOUS
<1>9. CASE t = "StreamOpened"
  <2> DEFINE f == [g EXCEPT !.open = "resolved"]
  <2>1. CASE g.open = "requested"
    <3>1. Dispatch(j, x) = Set(j, a, f)
      BY <1>8, <1>9, <2>1 DEF Dispatch
    <3> HIDE DEF e, n, g, c, over
    <3>2. Good(a, e, n, f, v, c, over, closed, alive)
      BY <1>1, <1>9, <2>1, OpenedGood
    <3> HIDE DEF f
    <3> QED
      BY <1>4, <1>9, <3>1, <3>2
  <2>2. CASE g.open # "requested"
    <3>1. Dispatch(j, x) = j
      BY <1>8, <1>9, <2>2 DEF Dispatch
    <3>2. Unheard(t, g, over)
      BY <1>9, <2>2 DEF Unheard
    <3> QED
      BY <1>5, <3>1, <3>2
  <2> QED
    BY <2>1, <2>2
<1>10. CASE t = "WriteAck"
  <2> DEFINE f == [g EXCEPT !.writing = FALSE]
  <2>1. Dispatch(j, x) = Set(j, a, f)
    BY <1>8, <1>10 DEF Dispatch
  <2>2. f.open = g.open
    BY <1>2 DEF Whatwg
  <2> HIDE DEF e, n, g, c, over
  <2>3. Good(a, e, n, f, v, c, over, closed, alive)
    BY <1>1, <1>10, AckGood
  <2> HIDE DEF f
  <2> QED
    BY <1>4, <2>1, <2>2, <2>3
<1>11. CASE t = "StreamFinished"
  <2> DEFINE f == [g EXCEPT !.readable = "closed", !.recv = FALSE, !.asked = FALSE]
  <2>1. CASE g.recv
    <3>1. Dispatch(j, x) = Set(j, a, f)
      BY <1>8, <1>11, <2>1 DEF Dispatch
    <3>2. f.open = g.open
      BY <1>2 DEF Whatwg
    <3> HIDE DEF e, n, g, c, over
    <3>3. Good(a, e, n, f, v, c, over, closed, alive)
      BY <1>1, <1>2, <1>11, <2>1, FinishedGood
    <3> HIDE DEF f
    <3> QED
      BY <1>4, <3>1, <3>2, <3>3
  <2>2. CASE ~g.recv
    <3>1. Dispatch(j, x) = j
      BY <1>8, <1>11, <2>2 DEF Dispatch
    <3>2. Unheard(t, g, over)
      BY <1>11 DEF Unheard
    <3> QED
      BY <1>5, <3>1, <3>2
  <2> QED
    BY <2>1, <2>2
<1>12. CASE t = "StreamReset"
  <2> DEFINE f == [g EXCEPT !.readable = "errored", !.recv = FALSE, !.queue = 0, !.asked = FALSE]
  <2>0. Unheard(t, g, over)
    BY <1>12 DEF Unheard
  <2>1. CASE g.recv
    <3>1. Dispatch(j, x) = Set(j, a, f)
      BY <1>8, <1>12, <2>1 DEF Dispatch
    <3>2. g.open = "live"
      BY <1>7, <2>1 DEF Shaped, NewJs
    <3> HIDE DEF g
    <3>3. f \in Whatwg
      BY <1>2 DEF Whatwg
    <3>4. f.open = g.open /\ f.recv = FALSE /\ f.queue = 0 /\ f.got = g.got /\ f.readable = "errored"
      BY <1>2 DEF Whatwg
    <3>5. f.pending = g.pending /\ f.writes = g.writes /\ f.writing = g.writing /\ f.writable = g.writable
      BY <1>2 DEF Whatwg
    <3>6. g.pending \in Nat /\ g.writes \in Int /\ 0 <= g.got
      BY <1>2, BridgeAssumption DEF Whatwg
    <3> HIDE DEF f
    <3>7. Shaped(f)
      <4>1. f.queue <= f.got
        BY <3>4, <3>6
      <4>2. f.recv = (f.readable = "open")
        BY <3>4
      <4> QED
        BY <3>2, <3>4, <4>1, <4>2 DEF Shaped
    <3>8. f.pending + g.writes = g.pending + f.writes
      BY <3>5, <3>6
    <3>9. Calmer(g, f)
      BY <3>2, <3>3, <3>4, <3>5, <3>7, <3>8 DEF Calmer
    <3> QED
      BY <1>6, <2>0, <3>1, <3>9
  <2>2. CASE ~g.recv
    <3>1. Dispatch(j, x) = j
      BY <1>8, <1>12, <2>2 DEF Dispatch
    <3> QED
      BY <1>5, <2>0, <3>1
  <2> QED
    BY <2>1, <2>2
<1>13. CASE t = "StreamStopSending"
  <2> DEFINE f == [g EXCEPT !.writable = "errored", !.send = FALSE]
  <2>0. Unheard(t, g, over)
    BY <1>13 DEF Unheard
  <2>1. CASE g.send
    <3>1. Dispatch(j, x) = Set(j, a, f)
      BY <1>8, <1>13, <2>1 DEF Dispatch
    <3>2. g.open = "live"
      BY <1>7, <2>1 DEF Shaped, NewJs
    <3> HIDE DEF g
    <3>3. f \in Whatwg
      BY <1>2 DEF Whatwg
    <3>4. f.open = g.open /\ f.recv = g.recv /\ f.queue = g.queue /\ f.got = g.got /\ f.readable = g.readable
      BY <1>2 DEF Whatwg
    <3>5. f.pending = g.pending /\ f.writes = g.writes /\ f.writing = g.writing /\ f.writable = "errored"
      BY <1>2 DEF Whatwg
    <3>6. g.pending \in Nat /\ g.writes \in Int
      BY <1>2, BridgeAssumption DEF Whatwg
    <3> HIDE DEF f
    <3>7. Shaped(f)
      BY <1>7, <3>2, <3>4 DEF Shaped
    <3>8. f.pending + g.writes = g.pending + f.writes
      BY <3>5, <3>6
    <3>9. Calmer(g, f)
      BY <3>2, <3>3, <3>4, <3>5, <3>7, <3>8 DEF Calmer
    <3> QED
      BY <1>6, <2>0, <3>1, <3>9
  <2>2. CASE ~g.send
    <3>1. Dispatch(j, x) = j
      BY <1>8, <1>13, <2>2 DEF Dispatch
    <3> QED
      BY <1>5, <2>0, <3>1
  <2> QED
    BY <2>1, <2>2
<1> QED
  BY <1>9, <1>10, <1>11, <1>12, <1>13 DEF OfStream, Recv

\* StreamData: the chunk is taken in, and the driver is told whether to go on.
LEMMA DataGood ==
  ASSUME Inv, NEW j, NEW x \in Event, NEW v \in Seq(Event), Turning(j, <<x>> \o v),
         ~j.core.closed, x.type = "StreamData", j.st[x.stream].open # "resolved"
  PROVE  Onward(j, x, v, Dispatch(j, x))
<1> DEFINE a == x.stream
           e == nat[a]
           n == net[a]
           g == j.st[a]
           c == cmds \o j.cmds
           over == j.core.closed
<1>0. x.type \in OfStream
  BY DEF OfStream, Recv
<1>1. /\ a \in Stream /\ x = Item("StreamData", a) /\ c \in Seq(Command)
      /\ Good(a, e, n, g, <<Item("StreamData", a)>> \o v, c, over, closed, alive)
  BY <1>0, HeadStep
<1>2. CASE ~g.recv
  <2>1. Dispatch(j, x) = j
    BY <1>2 DEF Dispatch
  <2>2. Unheard(x.type, g, over)
    BY <1>2 DEF Unheard
  <2> QED
    BY <2>1, <2>2, StillOnward
<1>3. CASE g.recv
  <2> DEFINE queue == IF g.asked THEN g.queue ELSE g.queue + 1
             f == [g EXCEPT !.queue = queue, !.asked = FALSE, !.got = @ + 1]
             t == IF queue >= HighWater THEN "Pause" ELSE "Resume"
  <2>1. Dispatch(j, x) = Send(Set(j, a, f), t, a)
    <3>1. Dispatch(j, x) = OnData(j, a)
      BY <1>3 DEF Dispatch
    <3> QED
      BY <3>1 DEF OnData
  <2>2. t \in ToStream \ {"OpenStream", "Write"} /\ t # "ResetStream"
    BY DEF ToStream
  <2>3. queue \in {g.queue, g.queue + 1}
    OBVIOUS
  <2>4. g \in Whatwg
    BY <1>1 DEF Good
  <2> HIDE DEF queue, t
  <2>5. f.open = g.open
    BY <2>4 DEF Whatwg
  <2> HIDE DEF e, n, g, c, over
  <2>6. g.open = "live" /\ Good(a, e, n, f, v, c, over, closed, alive)
    BY <1>1, <1>3, <2>3, ChunkGood
  <2> HIDE DEF f
  <2>7. Commandable(a, e, f, v, closed)
    BY <2>5, <2>6 DEF Commandable
  <2>8. Good(a, e, n, f, v, c \o <<Item(t, a)>>, over, closed, alive)
    BY <1>1, <2>2, <2>6, <2>7, SentGood
  <2>9. Good(a, nat[a], net[a], f, v, (cmds \o j.cmds) \o <<Item(t, a)>>, j.core.closed, closed, alive)
    BY <2>8 DEF e, n, c, over
  <2>10. t \in ToStream /\ f.open # "resolved"
    BY <2>2, <2>5, <2>6
  <2>11. Onward(j, x, v, Send(Set(j, a, f), t, a))
    BY <1>0, <2>9, <2>10, SentOnward
  <2> QED
    BY <2>1, <2>11
<1> QED
  BY <1>2, <1>3

\* A command goes to the driver and nothing else changes.
LEMMA SendGood ==
  ASSUME Inv, NEW j, NEW w, Turning(j, w), NEW a \in Stream, NEW t \in ToStream,
         Good(a, nat[a], net[a], j.st[a], w, (cmds \o j.cmds) \o <<Item(t, a)>>, j.core.closed,
              closed, alive)
  PROVE  /\ Turning(Send(j, t, a), w)
         /\ Send(j, t, a).st = j.st /\ Send(j, t, a).core = j.core
         /\ cmds \o Send(j, t, a).cmds = (cmds \o j.cmds) \o <<Item(t, a)>>
<1> DEFINE st == j.st
           k == j.core
           b == j.cmds
           y == Item(t, a)
           r == <<y>>
           f == st[a]
           m == Becoming(j, a, f, k, r)
           X == Command
<1>1. /\ j = [st |-> st, core |-> k, cmds |-> b] /\ st \in [Stream -> Whatwg]
      /\ b \in Seq(X) /\ cmds \in Seq(X) /\ Session(k, dgram, w, cmds \o b, alive)
  BY DEF Turning, Inv
<1>2. r \in Seq(OwnCommand(a)) /\ r \in Seq(X) /\ y \in X
  <2>1. cmds \in Seq(Command)
    BY <1>1
  <2>2. y \in X
    BY DEF Item, Command
  <2> QED
    BY <2>1, <2>2, CommandAdded
<1>3. Steady(j, w, a)
  BY DEF Turning, Steady
<1>4. Send(j, t, a) = m
  <2>1. [st EXCEPT ![a] = f] = st
    <3> HIDE DEF st
    <3> QED
      BY <1>1
  <2>2. Append(b, y) = b \o r
    <3> HIDE DEF b, y, X
    <3> QED
      BY <1>1, <1>2, AppendIsConcat
  <2>3. m = [st |-> st, core |-> k, cmds |-> b \o r]
    BY <2>1 DEF Becoming
  <2>4. Send(j, t, a) = [j EXCEPT !.cmds = Append(b, y)]
    BY DEF Send
  <2> DEFINE q == b \o r
  <2>5. Send(j, t, a) = [j EXCEPT !.cmds = q] /\ m = [st |-> st, core |-> k, cmds |-> q]
    BY <2>2, <2>3, <2>4
  <2> HIDE DEF q, st, k, b, m
  <2> QED
    BY <1>1, <2>5
<1>5. m.st = st /\ m.core = k /\ m.cmds = b \o r
  <2>1. [st EXCEPT ![a] = f] = st
    <3> HIDE DEF st
    <3> QED
      BY <1>1
  <2> QED
    BY <2>1 DEF Becoming
<1> HIDE DEF X, b, r
<1>6. Grown(cmds, b, r)
  BY <1>1, <1>2, Growing
<1>7. cmds \o (b \o r) = (cmds \o b) \o r
  BY <1>6 DEF Grown
<1>8. Turning(m, w)
  <2>1. Good(a, nat[a], net[a], f, w, (cmds \o j.cmds) \o r, j.core.closed, closed, alive)
    BY DEF r
  <2>2. k.closed = j.core.closed /\ Session(k, dgram, w, cmds \o j.cmds, alive)
    BY <1>1 DEF b
  <2> HIDE DEF f, k
  <2> QED
    BY <1>2, <1>3, <2>1, <2>2, TurnStep
<1> HIDE DEF m
<1> QED
  BY <1>4, <1>5, <1>7, <1>8 DEF st, k, b, r, y

\* Stream: JavaScript turns the stream down, has too many of them, or takes it in.
LEMMA IncomingStep ==
  ASSUME Inv, NEW j, NEW x \in Event, NEW v \in Seq(Event), Turning(j, <<x>> \o v),
         ~j.core.closed, x.type = "Stream"
  PROVE  Onward(j, x, v, Dispatch(j, x))
<1> DEFINE a == x.stream
           e == nat[a]
           n == net[a]
           g == j.st[a]
           c == cmds \o j.cmds
           over == j.core.closed
<1>0. x.type \in OfStream
  BY DEF OfStream, Recv
<1>1. /\ a \in Stream /\ x = Item("Stream", a) /\ c \in Seq(Command)
      /\ Good(a, e, n, g, <<Item("Stream", a)>> \o v, c, over, closed, alive)
      /\ j = [st |-> j.st, core |-> j.core, cmds |-> j.cmds] /\ j.cmds \in Seq(Command)
      /\ Session(j.core, dgram, v, c, alive)
  BY <1>0, HeadStep
<1>2. over = FALSE /\ j.core \in Core
  <2>1. j.core \in Core
    BY DEF Turning, Session
  <2> QED
    BY <2>1 DEF Core
<1>3. g = NewJs /\ Commandable(a, e, g, v, closed) /\ Good(a, e, n, Constructed(g), v, c, over, closed, alive)
  <2> HIDE DEF e, n, g, c, over
  <2>1. Good(a, e, n, g, <<Item("Stream", a)>> \o v, c, FALSE, closed, alive)
    BY <1>1, <1>2
  <2>2. g = NewJs /\ Commandable(a, e, g, v, closed)
        /\ Good(a, e, n, Constructed(g), v, c, FALSE, closed, alive)
    BY <1>1, <2>1, IncomingGood
  <2> QED
    BY <1>2, <2>2
<1>4. Dispatch(j, x) = OnIncoming(j, a)
  BY DEF Dispatch
<1>5. Unheard(x.type, g, over)
  BY DEF Unheard
<1>6. Turning(j, v)
  BY <1>5, TurnDropped
<1>7. CASE j.core.cancelled
  <2> DEFINE h == Send(j, "StopSending", a)
             i == Send(h, "ResetStream", a)
             y == Item("StopSending", a)
             z == Item("ResetStream", a)
  <2>1. Dispatch(j, x) = i
    BY <1>4, <1>7 DEF OnIncoming
  <2>2. Good(a, e, n, g, v, c, over, closed, alive)
    BY <1>1, <1>6 DEF Turning
  <2>3. /\ {"StopSending", "ResetStream"} \subseteq ToStream \ {"OpenStream", "Write"}
        /\ ~g.writing /\ g.writable # "open"
    BY <1>3 DEF ToStream, NewJs
  <2>4. Good(a, e, n, g, v, c \o <<y>>, over, closed, alive)
    <3> HIDE DEF e, n, g, c, over
    <3> QED
      BY <1>1, <1>3, <2>2, <2>3, SentGood
  <2>5. Turning(h, v) /\ h.st = j.st /\ h.core = j.core /\ cmds \o h.cmds = c \o <<y>>
    BY <1>1, <1>6, <2>3, <2>4, SendGood
  <2> DEFINE d == c \o <<y>>
  <2>6. d \in Seq(Command)
    <3> DEFINE X == Command
               u == <<y>>
    <3>1. y \in X
      BY <1>1, <2>3 DEF Item, Command
    <3>2. c \in Seq(X) /\ u \in Seq(X)
      <4> HIDE DEF X, y, c
      <4> QED
        BY <1>1, <3>1 DEF X
    <3> HIDE DEF X, u, c
    <3>3. c \o u \in Seq(X)
      BY <3>2, ConcatProperties
    <3> QED
      BY <3>3 DEF X, u
  <2>7. Good(a, e, n, g, v, d, over, closed, alive)
    BY <2>4
  <2> HIDE DEF d
  <2>8. Good(a, e, n, g, v, d \o <<z>>, over, closed, alive)
    <3> HIDE DEF e, n, g, over
    <3> QED
      BY <1>1, <1>3, <2>3, <2>6, <2>7, SentGood
  <2>9. cmds \o h.cmds = d
    BY <2>5 DEF d
  <2> HIDE DEF h
  <2>10. Good(a, nat[a], net[a], h.st[a], v, (cmds \o h.cmds) \o <<z>>, h.core.closed, closed, alive)
    BY <2>5, <2>8, <2>9
  <2>11. Turning(i, v) /\ i.st = h.st
    BY <1>1, <2>3, <2>5, <2>10, SendGood
  <2> HIDE DEF i
  <2> QED
    BY <2>1, <2>5, <2>11 DEF Onward
<1>8. CASE ~j.core.cancelled /\ j.core.incoming >= MaxIncoming
  <2>1. Dispatch(j, x) = Finish(j)
    BY <1>4, <1>8 DEF OnIncoming
  <2>2. /\ Turning(Finish(j), v)
        /\ \A s \in Stream : Finish(j).st[s].open = "resolved" => j.st[s].open = "resolved"
    BY <1>6, FinishGood
  <2> QED
    BY <2>1, <2>2 DEF Onward
<1>9. CASE ~j.core.cancelled /\ ~(j.core.incoming >= MaxIncoming)
  <2> DEFINE f == Constructed(g)
             incoming == j.core.incoming + 1
             k == [j.core EXCEPT !.incoming = incoming]
             r == <<>>
             m == Becoming(j, a, f, k, r)
  <2>1. Dispatch(j, x) = m
    <3> DEFINE h == Set(j, a, f)
               one == [j.st EXCEPT ![a] = f]
               b == j.cmds
    <3>1. Dispatch(j, x) = [h EXCEPT !.core.incoming = @ + 1]
      BY <1>4, <1>9 DEF OnIncoming
    <3>2. h = Becoming(j, a, f, j.core, r)
      BY <1>1, Becomings
    <3>3. b \o r = b
      <4> DEFINE X == Command
      <4>1. b \in Seq(X)
        BY <1>1
      <4> HIDE DEF X, b
      <4> QED
        BY <4>1
    <3>4. h = [st |-> one, core |-> j.core, cmds |-> b]
      BY <3>2, <3>3 DEF Becoming
    <3>5. m = [st |-> one, core |-> k, cmds |-> b]
      BY <3>3 DEF Becoming
    <3> HIDE DEF h, one, b, m
    <3>6. [h EXCEPT !.core.incoming = @ + 1] = [st |-> one, core |-> k, cmds |-> b]
      BY <3>4
    <3> QED
      BY <3>1, <3>5, <3>6
  <2>2. incoming \in 0 .. MaxIncoming
    <3> DEFINE old == j.core.incoming
    <3>1. old \in 0 .. MaxIncoming /\ ~(old >= MaxIncoming)
      BY <1>2, <1>9 DEF Core
    <3> HIDE DEF old
    <3>2. old + 1 \in 0 .. MaxIncoming
      BY <3>1, BridgeAssumption
    <3> QED
      BY <3>2 DEF old
  <2> HIDE DEF incoming
  <2>3. k \in Core /\ k.closed = j.core.closed /\ k.requests = j.core.requests
    BY <1>2, <2>2 DEF Core
  <2>4. k.got = j.core.got /\ k.queue = j.core.queue /\ k.dropped = j.core.dropped
    BY <1>2 DEF Core
  <2> HIDE DEF k
  <2>5. Session(k, dgram, v, c, alive)
    BY <1>1, <2>3, <2>4, SessionSame
  <2>6. c \o r = c
    <3> DEFINE X == Command
    <3>1. c \in Seq(X)
      BY <1>1
    <3> HIDE DEF X, c
    <3> QED
      BY <3>1
  <2>7. f.open = "live"
    BY <1>3 DEF Constructed, NewJs
  <2> HIDE DEF f
  <2>8. Good(a, nat[a], net[a], f, v, (cmds \o j.cmds) \o r, j.core.closed, closed, alive)
    BY <1>3, <2>6 DEF f
  <2>9. r \in Seq(OwnCommand(a))
    OBVIOUS
  <2> HIDE DEF r
  <2>10. Onward(j, x, v, m)
    BY <1>0, <2>3, <2>5, <2>7, <2>8, <2>9, StepOnward
  <2> QED
    BY <2>1, <2>10
<1> QED
  BY <1>7, <1>8, <1>9

\* An event of the session changes the session only.
LEMMA CoreOnward ==
  ASSUME Inv, NEW j, NEW x \in Event, NEW v \in Seq(Event), Turning(j, <<x>> \o v),
         x.type \notin OfStream, NEW k, k.closed = j.core.closed,
         Session(k, dgram, v, cmds \o j.cmds, alive)
  PROVE  Onward(j, x, v, [st |-> j.st, core |-> k, cmds |-> j.cmds])
<1> DEFINE m == [st |-> j.st, core |-> k, cmds |-> j.cmds]
           c == cmds \o j.cmds
<1>1. /\ m.st = j.st /\ m.core = k /\ m.cmds = j.cmds
      /\ m = [st |-> m.st, core |-> m.core, cmds |-> m.cmds]
  OBVIOUS
<1>2. j.st \in [Stream -> Whatwg] /\ j.cmds \in Seq(Command)
  BY DEF Turning
<1>3. ASSUME NEW s \in Stream
      PROVE  Good(s, nat[s], net[s], j.st[s], v, c, k.closed, closed, alive)
  <2> DEFINE e == nat[s]
             n == net[s]
             g == j.st[s]
             over == j.core.closed
  <2>1. Good(s, e, n, g, <<x>> \o v, c, over, closed, alive)
    BY DEF Turning
  <2> HIDE DEF e, n, g, c, over
  <2>2. Good(s, e, n, g, v, c, over, closed, alive)
    BY <2>1, ForeignEventHead
  <2> QED
    BY <2>2 DEF e, n, g, over
<1> HIDE DEF m
<1>4. Turning(m, v)
  BY <1>1, <1>2, <1>3 DEF Turning
<1>5. Onward(j, x, v, m)
  BY <1>1, <1>4 DEF Onward
<1> QED
  BY <1>5 DEF m

\* SessionCore.dispatch keeps the turn as it should be.
LEMMA DispatchGood ==
  ASSUME Inv, NEW j, NEW x \in Event, NEW v \in Seq(Event), Turning(j, <<x>> \o v),
         x.type = "StreamData" => j.st[x.stream].open # "resolved"
  PROVE  Onward(j, x, v, Dispatch(j, x))
<1> DEFINE k == j.core
           c == cmds \o j.cmds
<1>1. /\ k \in Core /\ Session(k, dgram, <<x>> \o v, c, alive)
      /\ j = [st |-> j.st, core |-> k, cmds |-> j.cmds]
  BY DEF Turning, Session
<1>2. CASE k.closed
  <2>1. Dispatch(j, x) = j
    BY <1>2 DEF Dispatch
  <2>2. Unheard(x.type, j.st[x.stream], k.closed)
    BY <1>2 DEF Unheard
  <2> QED
    BY <1>2, <2>1, <2>2, StillOnward
<1>3. CASE ~k.closed /\ x.type \in OfStream
  <2>1. x.type \in OfStream \ {"Stream", "StreamData"} \/ x.type = "Stream" \/ x.type = "StreamData"
    BY <1>3
  <2> QED
    BY <1>3, <2>1, HeardGood, IncomingStep, DataGood
<1>4. CASE ~k.closed /\ x.type = "Closed"
  <2>0. x.type \notin OfStream /\ x.type \notin {"Answer", "Datagram"}
    BY <1>4 DEF OfStream, Recv
  <2>1. Dispatch(j, x) = Finish(j)
    BY <1>4 DEF Dispatch
  <2>2. Turning(j, v)
    BY <2>0, TurnDropped
  <2>3. /\ Turning(Finish(j), v)
        /\ \A s \in Stream : Finish(j).st[s].open = "resolved" => j.st[s].open = "resolved"
    BY <2>2, FinishGood
  <2> QED
    BY <2>1, <2>3 DEF Onward
<1>5. CASE ~k.closed /\ x.type = "Datagram"
  <2> DEFINE f == OnDatagram(k)
  <2>0. x.type \notin OfStream
    BY <1>5 DEF OfStream, Recv
  <2>1. Dispatch(j, x) = [j EXCEPT !.core = f]
    BY <1>5 DEF Dispatch
  <2>2. Session(f, dgram, v, c, alive) /\ f.closed = k.closed
    <3> HIDE DEF k, c
    <3> QED
      BY <1>1, <1>5, SessionEventHead
  <2> HIDE DEF f
  <2>3. Onward(j, x, v, [st |-> j.st, core |-> f, cmds |-> j.cmds])
    BY <2>0, <2>2, CoreOnward
  <2>4. [j EXCEPT !.core = f] = [st |-> j.st, core |-> f, cmds |-> j.cmds]
    <3> DEFINE st == j.st
               b == j.cmds
    <3>1. j = [st |-> st, core |-> k, cmds |-> b]
      BY <1>1
    <3> HIDE DEF st, b, k
    <3>2. [j EXCEPT !.core = f] = [st |-> st, core |-> f, cmds |-> b]
      BY <3>1
    <3> QED
      BY <3>2 DEF st, b
  <2> QED
    BY <2>1, <2>3, <2>4
<1>6. CASE ~k.closed /\ x.type = "Answer"
  <2> DEFINE f == [k EXCEPT !.requests[x.stream] = "settled"]
  <2>0. x.type \notin OfStream
    BY <1>6 DEF OfStream, Recv
  <2>1. Dispatch(j, x) = [j EXCEPT !.core.requests[x.stream] = "settled"]
    BY <1>6 DEF Dispatch
  <2>2. Session(f, dgram, v, c, alive) /\ f.closed = k.closed
    <3> HIDE DEF k, c
    <3> QED
      BY <1>1, <1>6, SessionEventHead
  <2>3. [j EXCEPT !.core.requests[x.stream] = "settled"] = [st |-> j.st, core |-> f, cmds |-> j.cmds]
    <3> DEFINE st == j.st
               b == j.cmds
               a == x.stream
    <3>1. j = [st |-> st, core |-> k, cmds |-> b]
      BY <1>1
    <3>2. [j EXCEPT !.core.requests[a] = "settled"] = [j EXCEPT !.core = f]
      OBVIOUS
    <3> HIDE DEF f, st, b, k, a
    <3>3. [j EXCEPT !.core = f] = [st |-> st, core |-> f, cmds |-> b]
      BY <3>1
    <3> QED
      BY <3>2, <3>3 DEF st, b, a
  <2> HIDE DEF f
  <2>4. Onward(j, x, v, [st |-> j.st, core |-> f, cmds |-> j.cmds])
    BY <2>0, <2>2, CoreOnward
  <2> QED
    BY <2>1, <2>3, <2>4
<1>7. x.type \in OfStream \/ x.type \in {"Closed", "Datagram", "Answer"}
  BY DEF Event
<1> QED
  BY <1>2, <1>3, <1>4, <1>5, <1>6, <1>7

\* The recursive function Dispatched is defined with exists.
LEMMA DispatchedUnfolds ==
  ASSUME NEW j, NEW b, Len(b) \in Nat
  PROVE  \E f : /\ f[0] = j
                /\ \A n \in 1 .. Len(b) : f[n] = Dispatch(f[n - 1], b[n])
                /\ Dispatched(j, b) = f[Len(b)]
<1> DEFINE L == Len(b)
           Is(g, k) == g = [n \in 0 .. k |-> IF n = 0 THEN j ELSE Dispatch(g[n - 1], b[n])]
           S == {k \in Nat : \E g : Is(g, k)}
<1>1. 0 \in S
  <2> DEFINE g == [n \in 0 .. 0 |-> j]
  <2>1. \A n \in 0 .. 0 : n = 0
    OBVIOUS
  <2>2. Is(g, 0)
    BY <2>1
  <2> QED
    BY <2>2
<1>2. ASSUME NEW k \in Nat, k \in S PROVE k + 1 \in S
  <2>1. PICK g : Is(g, k)
    BY <1>2
  <2> DEFINE e(m) == IF m = 0 THEN j ELSE Dispatch(g[m - 1], b[m])
             h == [n \in 0 .. k + 1 |-> IF n <= k THEN g[n] ELSE e(n)]
  <2>2. g = [n \in 0 .. k |-> e(n)]
    BY <2>1
  <2>3. \A n \in 0 .. k : g[n] = e(n)
    <3> HIDE DEF e
    <3> QED
      BY <2>2
  <2>4. ASSUME NEW n \in 0 .. k + 1
        PROVE  h[n] = IF n = 0 THEN j ELSE Dispatch(h[n - 1], b[n])
    <3>1. h[n] = e(n)
      <4>1. n <= k => n \in 0 .. k
        OBVIOUS
      <4> HIDE DEF e
      <4> QED
        BY <2>3, <4>1
    <3>2. n # 0 => h[n - 1] = g[n - 1]
      <4>1. n # 0 => n - 1 \in 0 .. k + 1 /\ n - 1 <= k
        OBVIOUS
      <4> HIDE DEF e
      <4> QED
        BY <4>1
    <3> HIDE DEF h
    <3> QED
      BY <3>1, <3>2
  <2>5. h = [n \in 0 .. k + 1 |-> h[n]]
    OBVIOUS
  <2>6. Is(h, k + 1)
    <3> HIDE DEF h
    <3> QED
      BY <2>4, <2>5
  <2> HIDE DEF h, Is
  <2> QED
    BY <2>6
<1>3. L \in S
  <2> HIDE DEF S
  <2> QED
    BY <1>1, <1>2, SetInduction
<1>4. \E f : Is(f, L)
  BY <1>3
<1> DEFINE F == CHOOSE f : Is(f, L)
<1>5. Is(F, L)
  BY <1>4
<1>6. Dispatched(j, b) = F[L]
  BY DEF Dispatched
<1>7. F[0] = j /\ \A n \in 1 .. L : F[n] = Dispatch(F[n - 1], b[n])
  <2> DEFINE e(m) == IF m = 0 THEN j ELSE Dispatch(F[m - 1], b[m])
  <2> HIDE DEF F
  <2>1. F = [n \in 0 .. L |-> e(n)]
    BY <1>5
  <2>2. \A n \in 0 .. L : F[n] = e(n)
    <3> HIDE DEF e
    <3> QED
      BY <2>1
  <2>3. 0 \in 0 .. L /\ \A n \in 1 .. L : n \in 0 .. L /\ n # 0
    OBVIOUS
  <2> QED
    BY <2>2, <2>3
<1> HIDE DEF F
<1> QED
  BY <1>6, <1>7

\* The events of a batch, one after the other: what is left is on its way still.
LEMMA BatchGood ==
  ASSUME Inv, NEW b \in Seq(Event), NEW v \in Seq(Event), NEW j, Turning(j, b \o v),
         \A s \in Stream : j.st[s].open # "resolved" /\ Parted(b, s)
  PROVE  Turning(Dispatched(j, b), v)
<1> DEFINE X == Event
           L == Len(b)
<1>1. b \in Seq(X) /\ v \in Seq(X) /\ L \in Nat
  <2>1. b \in Seq(X) /\ v \in Seq(X)
    OBVIOUS
  <2> HIDE DEF X
  <2> QED
    BY <2>1, LenProperties
<1>2. PICK f : /\ f[0] = j
               /\ \A n \in 1 .. L : f[n] = Dispatch(f[n - 1], b[n])
               /\ Dispatched(j, b) = f[L]
  BY <1>1, DispatchedUnfolds
<1> HIDE DEF X
<1>3. /\ Rest(b, 0) = b /\ Rest(b, L) = <<>>
      /\ \A n \in 0 .. L : Rest(b, n) \in Seq(X)
      /\ \A n \in Nat : n + 1 <= L => HeadFirst(b, n) /\ b[n + 1] \in X
  BY <1>1, RestUnfolds
<1> DEFINE So(d, n) == /\ Turning(d, Rest(b, n) \o v)
                       /\ \A s \in Stream : d.st[s].open = "resolved" => Has(b, {"StreamOpened"}, s)
           S == {n \in Nat : n <= L => So(f[n], n)}
<1>4. 0 \in S
  <2>1. So(j, 0)
    BY <1>3
  <2> HIDE DEF So
  <2> QED
    BY <1>2, <2>1
<1>5. ASSUME NEW n \in Nat, n \in S PROVE n + 1 \in S
  <2>1. SUFFICES ASSUME n + 1 <= L PROVE So(f[n + 1], n + 1)
    OBVIOUS
  <2> DEFINE x == b[n + 1]
             r == Rest(b, n + 1)
             u == <<x>>
             y == r \o v
             d == f[n]
  <2>2. n <= L /\ n + 1 \in 1 .. L /\ n + 1 \in 0 .. L /\ (n + 1) - 1 = n
    BY <1>1, <2>1
  <2>3. Rest(b, n) = u \o r /\ x \in X /\ r \in Seq(X)
    BY <1>3, <2>1, <2>2 DEF HeadFirst
  <2>4. So(d, n)
    <3> HIDE DEF So
    <3> QED
      BY <1>5, <2>2
  <2>5. f[n + 1] = Dispatch(d, x)
    BY <1>2, <2>2
  <2>6. \A T, s : x.type \in T /\ x.stream = s => Has(b, T, s)
    BY <2>2 DEF Has
  <2> HIDE DEF x, r, d
  <2>7. (u \o r) \o v = u \o y /\ y \in Seq(X)
    <3>1. u \in Seq(X)
      BY <2>3
    <3> HIDE DEF u
    <3>2. v \in Seq(X)
      BY <1>1
    <3>3. r \in Seq(X)
      BY <2>3
    <3>4. (u \o r) \o v = u \o (r \o v)
      BY <3>1, <3>2, <3>3, Associative
    <3>5. r \o v \in Seq(X)
      BY <3>2, <3>3, ConcatProperties
    <3> QED
      BY <3>4, <3>5
  <2>8. Turning(d, u \o y) /\ \A s \in Stream : d.st[s].open = "resolved" => Has(b, {"StreamOpened"}, s)
    BY <2>3, <2>4, <2>7
  <2>9. x.type = "StreamData" => d.st[x.stream].open # "resolved"
    <3> SUFFICES ASSUME x.type = "StreamData" PROVE d.st[x.stream].open # "resolved"
      OBVIOUS
    <3> DEFINE s == x.stream
    <3>1. s \in Stream
      BY <2>3 DEF X, Event, OfStream, Recv
    <3>2. Has(b, Recv, s)
      BY <2>6 DEF Recv
    <3>3. ~Has(b, {"StreamOpened"}, s)
      BY <3>1, <3>2 DEF Parted
    <3> QED
      BY <2>8, <3>1, <3>3
  <2> HIDE DEF y
  <2>10. Onward(d, x, y, Dispatch(d, x))
    BY <2>3, <2>7, <2>8, <2>9, DispatchGood DEF X, u
  <2> DEFINE m == Dispatch(d, x)
  <2> HIDE DEF m
  <2>11. Turning(m, y)
         /\ \A s \in Stream : m.st[s].open = "resolved"
                                => d.st[s].open = "resolved" \/ (x.type = "StreamOpened" /\ x.stream = s)
    BY <2>10 DEF Onward, m
  <2>12. \A s \in Stream : m.st[s].open = "resolved" => Has(b, {"StreamOpened"}, s)
    BY <2>6, <2>8, <2>11
  <2>13. So(m, n + 1)
    BY <2>11, <2>12 DEF y, r
  <2> HIDE DEF So
  <2> QED
    BY <2>5, <2>13 DEF m
<1>6. L \in S
  <2> HIDE DEF S
  <2> QED
    BY <1>1, <1>4, <1>5, SetInduction
<1>7. So(f[L], L)
  <2> HIDE DEF So
  <2> QED
    BY <1>1, <1>6
<1>8. <<>> \o v = v
  BY <1>1
<1> QED
  BY <1>2, <1>3, <1>7, <1>8

\* A callback of the JavaScript thread keeps the invariant.
LEMMA JsBatchGood ==
  Inv /\ JsBatch => Inv'
<1> SUFFICES ASSUME Inv, JsBatch PROVE Inv'
  OBVIOUS
<1> DEFINE X == Event
           b == Head(batches)
           more == Tail(batches)
           F == FlattenSeq(more)
           v == F \o evs
           j == Dispatched(Now, b)
<1>1. batches # <<>> /\ batches' = more /\ Turn(j)
  BY DEF JsBatch
<1>2. batches \in Seq(Seq(X)) /\ evs \in Seq(X)
  BY DEF Inv
<1>3. \A s \in Stream : \A i \in 1 .. Len(batches) : Parted(batches[i], s)
  BY DEF Inv
<1> HIDE DEF X
<1>4. more \in Seq(Seq(X)) /\ b \in Seq(X) /\ b = batches[1] /\ 1 \in 1 .. Len(batches)
      /\ Len(more) = Len(batches) - 1 /\ \A i \in 1 .. Len(more) : more[i] = batches[i + 1]
  <2> DEFINE Y == Seq(X)
  <2>1. batches \in Seq(Y) /\ batches # <<>>
    BY <1>1, <1>2
  <2> HIDE DEF Y
  <2>2. /\ more \in Seq(Y) /\ b \in Y /\ b = batches[1] /\ Len(batches) \in Nat /\ Len(batches) > 0
        /\ Len(more) = Len(batches) - 1 /\ \A i \in 1 .. Len(more) : more[i] = batches[i + 1]
    BY <2>1
  <2>3. 1 \in 1 .. Len(batches)
    BY <2>2
  <2> QED
    BY <2>2, <2>3 DEF Y
<1>5. \A s \in Stream : Parted(b, s) /\ \A i \in 1 .. Len(more) : Parted(more[i], s)
  <2>1. \A i \in 1 .. Len(more) : i + 1 \in 1 .. Len(batches)
    <3>1. Len(batches) \in Nat
      BY <1>2, LenProperties
    <3> QED
      BY <1>4, <3>1
  <2> QED
    BY <1>3, <1>4, <2>1
<1>6. F \in Seq(X) /\ InTransit = (b \o F) \o evs
  <2>1. F \in Seq(X)
    BY <1>4, FlattenTyped
  <2>2. FlattenSeq(batches) = b \o F
    BY <1>1, <1>2, FlattenHead
  <2> QED
    BY <2>1, <2>2 DEF InTransit
<1> HIDE DEF b, more, F
<1>7. (b \o F) \o evs = b \o v /\ v \in Seq(X)
  <2> DEFINE g == evs
  <2>1. b \in Seq(X) /\ F \in Seq(X) /\ g \in Seq(X)
    BY <1>2, <1>4, <1>6
  <2> HIDE DEF g
  <2>2. F \o g \in Seq(X)
    BY <2>1, ConcatProperties
  <2>3. (b \o F) \o g = b \o (F \o g)
    <3>1. b \in Seq(X)
      BY <2>1
    <3>2. F \in Seq(X)
      BY <2>1
    <3>3. g \in Seq(X)
      BY <2>1
    <3> QED
      BY <3>1, <3>2, <3>3, Associative
  <2> QED
    BY <2>2, <2>3 DEF g
<1>8. Turning(Now, InTransit) /\ \A s \in Stream : Now.st[s].open # "resolved"
  BY NowGood
<1>9. Turning(Now, b \o v)
  BY <1>6, <1>7, <1>8
<1> DEFINE w == v
<1>10. w \in Seq(X) /\ Turning(Now, b \o w) /\ FlattenSeq(batches') \o evs = w
  BY <1>1, <1>7, <1>9 DEF F
<1> HIDE DEF w
<1>11. Turning(j, w)
  BY <1>4, <1>5, <1>8, <1>10, BatchGood DEF X
<1>12. batches' \in Seq(Seq(Event)) /\ \A s \in Stream : \A i \in 1 .. Len(batches') : Parted(batches'[i], s)
  BY <1>1, <1>4, <1>5 DEF X
<1> HIDE DEF j
<1>13. Turn(j)
  BY <1>1
<1> QED
  BY <1>10, <1>11, <1>12, <1>13, TurnGood DEF X

-----------------------------------------------------------------------------
(* The theorems. *)

\* Everything begins as the invariant says.
LEMMA InitGood ==
  Init => Inv
<1> SUFFICES ASSUME Init PROVE Inv
  OBVIOUS
<1>1. /\ nat = [s \in Stream |-> NewNat] /\ net = [s \in Stream |-> NewNet]
      /\ js = [s \in Stream |-> NewJs] /\ core = NewCore
      /\ dgram = [sent |-> 0, buffered |-> 0, taken |-> 0]
      /\ closed = FALSE /\ closing = FALSE /\ alive = TRUE /\ stage = "poll"
      /\ cmds = <<>> /\ batches = <<>> /\ evs = <<>>
  BY DEF Init
<1>2. /\ MaxChunks \in Nat /\ MaxWrites \in Nat /\ MaxIncoming \in Nat /\ DgramHighWater \in Nat
      /\ 0 \in 0 .. MaxChunks /\ 0 \in 0 .. MaxWrites /\ 0 \in 0 .. MaxIncoming /\ 0 \in 0 .. DgramHighWater
      /\ 0 \in 0 .. 1
  BY BridgeAssumption
<1>3. NewNat \in Entry /\ NewNet \in Quic /\ NewJs \in Whatwg
  <2>1. NewNat \in Entry
    BY DEF NewNat, Entry
  <2>2. NewNet \in Quic
    BY <1>2 DEF NewNet, Quic
  <2>3. NewJs \in Whatwg
    BY <1>2 DEF NewJs, Whatwg
  <2> QED
    BY <2>1, <2>2, <2>3
<1>4. nat \in [Stream -> Entry] /\ net \in [Stream -> Quic] /\ js \in [Stream -> Whatwg]
  BY <1>1, <1>3
<1>5. InTransit = <<>>
  <2>1. FlattenSeq(<<>>) = <<>>
    BY DEF FlattenSeq
  <2> QED
    BY <1>1, <2>1 DEF InTransit
<1>6. \A T, U, s, x : ~Has(<<>>, T, s) /\ Count(<<>>, x) = 0 /\ Never(<<>>, T, U, s)
  BY NoItem
<1> DEFINE q == <<>>
<1>7. \A T, U, s, x : ~Has(q, T, s) /\ Count(q, x) = 0 /\ Never(q, T, U, s)
  BY <1>6
<1>8. q \in Seq(Command) /\ q \in Seq(Event) /\ q \in Seq(Seq(Event)) /\ Len(q) = 0
  OBVIOUS
<1> HIDE DEF q
<1>9. ASSUME NEW s \in Stream PROVE Good(s, NewNat, NewNet, NewJs, q, q, FALSE, FALSE, TRUE)
  <2>1. Shaped(NewJs)
    <3>1. NewJs.queue <= NewJs.got
      BY DEF NewJs
    <3>2. NewJs.recv = (NewJs.readable = "open")
      BY DEF NewJs
    <3>3. NewJs = [NewJs EXCEPT !.open = NewJs.open]
      BY DEF NewJs
    <3> QED
      BY <3>1, <3>2, <3>3 DEF Shaped
  <2>2. Opening(s, NewNat, NewNet, NewJs, q, q, FALSE, FALSE)
    BY <1>7 DEF Opening, NewNat, NewNet, NewJs
  <2>3. Announced(s, NewNat, NewJs, q, q, FALSE, FALSE)
    BY <1>7 DEF Announced, NewNat, NewJs
  <2>4. Conveyed(s, NewNat, NewNet, NewJs, q, FALSE, FALSE)
    <3>1. NewNat.taken = 0 /\ NewNet.buffered = 0 /\ NewNet.sent = 0 /\ NewJs.got = 0
          /\ NewJs.readable = "none"
      BY DEF NewNat, NewNet, NewJs
    <3> DEFINE e == NewNat
               n == NewNet
               j == NewJs
               chunks == Count(q, Item("StreamData", s))
    <3>2. chunks = 0 /\ ~Has(q, {"StreamFinished"}, s)
          /\ Never(q, {"StreamFinished"}, {"StreamData"}, s)
      BY <1>7
    <3>3. /\ e.taken = 0 /\ n.buffered = 0 /\ n.sent = 0 /\ j.got = 0
          /\ ~(j.readable = "closed")
      BY <3>1
    <3> HIDE DEF e, n, j
    <3>4. e.taken + n.buffered = n.sent
      BY <3>3
    <3> HIDE DEF chunks
    <3>5. j.got + chunks = 0
      BY <3>2, <3>3
    <3>6. j.got + chunks <= e.taken /\ e.taken = j.got + chunks
      BY <3>3, <3>5
    <3>7. Conveyed(s, e, n, j, q, FALSE, FALSE)
      BY <3>2, <3>3, <3>4, <3>6 DEF Conveyed, chunks
    <3> QED
      BY <3>7 DEF e, n, j
  <2>5. Written(s, NewNat, NewJs, q, q, FALSE, TRUE)
    BY <1>7 DEF Written, NewNat, NewJs
  <2> QED
    BY <1>3, <2>1, <2>2, <2>3, <2>4, <2>5 DEF Good
<1>10. Session(core, dgram, q, q, TRUE)
  <2>1. core \in Core /\ core.closed = FALSE /\ core.requests = [k \in Request |-> "idle"]
    BY <1>1, <1>2 DEF Core, NewCore
  <2>2. core.got = 0 /\ core.queue = 0 /\ core.dropped = 0
    BY <1>1 DEF NewCore
  <2>3. dgram \in Dgrams /\ dgram.taken = 0
    BY <1>1 DEF Dgrams
  <2>4. dgram.taken = core.got + core.queue + core.dropped + Count(q, Item("Datagram", "session"))
    BY <1>7, <2>2, <2>3
  <2> QED
    BY <1>7, <2>1, <2>3, <2>4 DEF Session
<1>11. InTransit = q /\ cmds = q /\ evs = q /\ batches = q
  BY <1>1, <1>5 DEF q
<1>12. /\ closed = FALSE /\ alive = TRUE /\ core.closed = FALSE
       /\ \A s \in Stream : nat[s] = NewNat /\ net[s] = NewNet /\ js[s] = NewJs /\ NewJs.open # "resolved"
  BY <1>1 DEF NewCore, NewJs
<1>13. /\ Session(core, dgram, InTransit, cmds, alive)
       /\ cmds \in Seq(Command) /\ batches \in Seq(Seq(Event)) /\ evs \in Seq(Event)
  BY <1>8, <1>10, <1>11, <1>12
<1>14. ASSUME NEW s \in Stream
       PROVE  /\ Good(s, nat[s], net[s], js[s], InTransit, cmds, core.closed, closed, alive)
              /\ js[s].open # "resolved"
              /\ \A i \in 1 .. Len(batches) : Parted(batches[i], s)
              /\ ~Has(evs, Recv, s)
              /\ s \in LocalStreams /\ Has(evs, {"StreamOpened"}, s) => ~net[s].known
  <2>1. Good(s, nat[s], net[s], js[s], InTransit, cmds, core.closed, closed, alive)
    BY <1>9, <1>11, <1>12
  <2>2. \A i \in 1 .. Len(batches) : Parted(batches[i], s)
    BY <1>8, <1>11
  <2> QED
    BY <1>7, <1>11, <1>12, <2>1, <2>2
<1> QED
  BY <1>1, <1>4, <1>13, <1>14 DEF Inv

\* Every step of the two threads, of the application and of the peer keeps the invariant.
LEMMA NextGood ==
  Inv /\ [Next]_vars => Inv'
<1> SUFFICES ASSUME Inv, [Next]_vars PROVE Inv'
  OBVIOUS
<1>1. CASE DriverWake
  BY <1>1, WakeGood
<1>2. CASE DriverRun
  BY <1>2, RunGood
<1>3. CASE JsBatch
  BY <1>3, JsBatchGood
<1>4. CASE AppAccept \/ AppCancelIncoming \/ AppReadDatagram \/ AppCancelDatagrams
  BY <1>4, AppCoreGood
<1>5. CASE PeerSendsDatagram \/ PeerCloses \/ UNCHANGED vars
  BY <1>5, OtherGood
<1>6. ASSUME NEW k \in Request, AppRequest(k) PROVE Inv'
  BY <1>6, AppRequestGood
<1>7. ASSUME NEW s \in Stream, AppOpen(s) PROVE Inv'
  BY <1>7, AppOpenGood
<1>8. ASSUME NEW s \in Stream,
             AppRead(s) \/ AppCancel(s) \/ AppWrite(s) \/ AppCloseWriter(s) \/ AppAbort(s)
      PROVE  Inv'
  BY <1>8, AppStreamGood
<1>9. ASSUME NEW s \in Stream,
             PeerSends(s) \/ PeerFins(s) \/ PeerResets(s) \/ PeerStops(s) \/ PeerCredits(s)
      PROVE  Inv'
  BY <1>9, PeerGood
<1> QED
  BY <1>1, <1>2, <1>3, <1>4, <1>5, <1>6, <1>7, <1>8, <1>9 DEF Next

\* What is in flight, counted.
LEMMA Flying ==
  ASSUME Inv
  PROVE  /\ \A t, s : InFlight(t, s) = Count(InTransit, Item(t, s))
         /\ \A t, s : Has(InTransit, {t}, s) <=> InFlight(t, s) > 0
         /\ \A t, s : Has(cmds, {t}, s) <=> \E i \in 1 .. Len(cmds) : cmds[i] = Item(t, s)
<1>1. \A t, s : InFlight(t, s) = Count(InTransit, Item(t, s))
  BY DEF InFlight, Count
<1>2. InTransit \in Seq(Event) /\ cmds \in Seq(Command)
  BY NowGood
<1> DEFINE w == InTransit
           c == cmds
           X == Command
<1>3. \A t, s : Has(w, {t}, s) <=> Count(w, Item(t, s)) > 0
  <2>1. w \in Seq(Event)
    BY <1>2
  <2> HIDE DEF w
  <2> QED
    BY <2>1, CountHas
<1>4. ASSUME NEW t, NEW s PROVE Has(c, {t}, s) <=> \E i \in 1 .. Len(c) : c[i] = Item(t, s)
  <2> DEFINE y == Item(t, s)
  <2>1. c \in Seq(Command)
    BY <1>2
  <2> HIDE DEF c
  <2>2. Has(c, {t}, s) <=> Count(c, y) > 0
    BY <2>1, CountHas
  <2>3. c \in Seq(X)
    BY <2>1
  <2> HIDE DEF X, y
  <2>4. Count(c, y) > 0 <=> \E i \in 1 .. Len(c) : c[i] = y
    BY <2>3, CountIsNat
  <2> QED
    BY <2>2, <2>4 DEF y
<1> QED
  BY <1>1, <1>3, <1>4

\* The invariant holds in every state: the streams of the bridge are in step.
THEOREM Invariance == Spec => []Inv
<1> QED
  BY InitGood, NextGood, PTL DEF Spec

\* Every queue and counter of the bridge stays in its range: no chunk is taken twice from
\* QUIC or acknowledged twice to a WritableStream.
THEOREM TypeCorrect == Spec => []TypeOK
<1>1. Inv => TypeOK
  <2> SUFFICES ASSUME Inv PROVE TypeOK
    OBVIOUS
  <2>1. /\ MaxChunks \in Nat /\ MaxWrites \in Nat
        /\ stage \in {"poll", "low", "high"} /\ core \in Core
    BY BridgeAssumption DEF Inv, Session
  <2>2. core.incoming \in 0 .. MaxIncoming /\ core.queue \in 0 .. DgramHighWater
    BY <2>1 DEF Core
  <2>3. ASSUME NEW s \in Stream
        PROVE  /\ nat[s].out \in 0 .. MaxWrites /\ nat[s].taken \in 0 .. MaxChunks
               /\ net[s].buffered \in 0 .. MaxChunks /\ net[s].room \in 0 .. 1
               /\ js[s].queue \in 0 .. MaxChunks /\ js[s].got \in 0 .. MaxChunks
               /\ js[s].pending \in 0 .. MaxWrites
               /\ js[s].open \in {"idle", "requested", "live", "rejected"}
               /\ js[s].readable \in {"none", "open", "closed", "errored", "cancelled"}
               /\ js[s].writable \in {"none", "open", "closed", "errored"}
    <3> DEFINE e == nat[s]
               n == net[s]
               j == js[s]
               chunks == Count(InTransit, Item("StreamData", s))
               writes == Count(cmds, Item("Write", s))
    <3>1. /\ Good(s, e, n, j, InTransit, cmds, core.closed, closed, alive)
          /\ j.open # "resolved"
      BY DEF Inv
    <3>2. chunks \in Nat /\ writes \in Nat
      <4> DEFINE X == Event
                 Y == Command
      <4>1. InTransit \in Seq(X) /\ cmds \in Seq(Y)
        BY NowGood
      <4> HIDE DEF X, Y
      <4> QED
        BY <4>1, CountIsNat
    <3> HIDE DEF e, n, j
    <3>3. /\ e.out \in Nat /\ e.taken \in Nat /\ n.buffered \in Nat /\ n.sent \in 0 .. MaxChunks
          /\ j.queue \in Nat /\ j.got \in Nat /\ j.pending \in Nat /\ j.writes \in 0 .. MaxWrites
      BY <3>1 DEF Good, Entry, Quic, Whatwg
    <3>4. /\ n.room \in 0 .. 1
          /\ j.open \in {"idle", "requested", "live", "rejected"}
          /\ j.readable \in {"none", "open", "closed", "errored", "cancelled"}
          /\ j.writable \in {"none", "open", "closed", "errored"}
      BY <3>1 DEF Good, Quic, Whatwg
    <3>5. /\ e.taken + n.buffered = n.sent
          /\ j.got + chunks <= e.taken
          /\ e.out + writes + j.pending <= j.writes
          /\ j.queue <= j.got
      BY <3>1 DEF Good, Conveyed, Written, Shaped
    <3> HIDE DEF chunks, writes
    <3>6. e.out \in 0 .. MaxWrites /\ j.pending \in 0 .. MaxWrites
      BY <2>1, <3>2, <3>3, <3>5
    <3>7. e.taken \in 0 .. MaxChunks /\ n.buffered \in 0 .. MaxChunks
      BY <2>1, <3>3, <3>5
    <3>8. j.queue \in 0 .. MaxChunks /\ j.got \in 0 .. MaxChunks
      BY <2>1, <3>2, <3>3, <3>5, <3>7
    <3> QED
      BY <3>4, <3>6, <3>7, <3>8 DEF e, n, j
  <2> QED
    BY <2>1, <2>2, <2>3 DEF TypeOK
<1> QED
  BY <1>1, Invariance, PTL

\* No chunk is lost between QUIC and a readable stream, and no datagram goes uncounted,
\* however many batches are in flight and in whatever order the events of streams mix.
THEOREM NothingLost == Spec => []NoChunkLost
<1>1. Inv => NoChunkLost
  <2> SUFFICES ASSUME Inv, ~core.closed PROVE NoChunkLost
    BY DEF NoChunkLost
  <2>1. \A t, s : InFlight(t, s) = Count(InTransit, Item(t, s))
    BY Flying
  <2>2. ASSUME NEW s \in Stream, js[s].readable = "open"
        PROVE  nat[s].taken = js[s].got + InFlight("StreamData", s)
    <3>1. Conveyed(s, nat[s], net[s], js[s], InTransit, core.closed, closed)
      BY DEF Inv, Good
    <3>2. nat[s].taken = js[s].got + Count(InTransit, Item("StreamData", s))
      BY <2>2, <3>1 DEF Conveyed
    <3> QED
      BY <2>1, <3>2
  <2>3. dgram.taken = core.got + core.queue + core.dropped + InFlight("Datagram", "session")
    <3>1. dgram.taken = core.got + core.queue + core.dropped + Count(InTransit, Item("Datagram", "session"))
      BY DEF Inv, Session
    <3> QED
      BY <2>1, <3>1
  <2> QED
    BY <2>2, <2>3 DEF NoChunkLost
<1> QED
  BY <1>1, Invariance, PTL

\* A readable that closes has delivered everything the peer sent before its FIN.
THEOREM CleanEnd == Spec => []CleanEndIsComplete
<1>1. Inv => CleanEndIsComplete
  BY DEF Inv, Good, Conveyed, CleanEndIsComplete
<1> QED
  BY <1>1, Invariance, PTL

\* finish() leaves no stream of the peer open: those it does not know of yet never open.
THEOREM PeerStreamsEnd == Spec => []SessionTakesPeerStreams
<1>1. Inv => SessionTakesPeerStreams
  BY DEF Inv, Good, Announced, SessionTakesPeerStreams, Stream
<1> QED
  BY <1>1, Invariance, PTL

\* A pending request is in the channel or its answer is on its way, until it settles.
THEOREM RequestsSettle == Spec => []RequestAccounted
<1>1. Inv => RequestAccounted
  <2> SUFFICES ASSUME Inv, NEW k \in Request, core.requests[k] = "pending"
               PROVE  InFlight("Answer", k) > 0 \/ \E i \in 1 .. Len(cmds) : cmds[i] = Item(k, "session")
    BY DEF RequestAccounted
  <2>1. Has(InTransit, {"Answer"}, k) \/ Has(cmds, {k}, "session")
    BY DEF Inv, Session
  <2> QED
    BY <2>1, Flying
<1> QED
  BY <1>1, Invariance, PTL

\* A pending write() is with the driver, or on its way to it, or its acknowledgement is
\* on its way back: whatever resets, stops or ends the stream, its promise is not lost.
THEOREM WritesAccounted == Spec => []WriteAccounted
<1>1. Inv => WriteAccounted
  <2> SUFFICES ASSUME Inv, NEW s \in Stream, js[s].writing, alive
               PROVE  \/ nat[s].out > 0
                      \/ InFlight("WriteAck", s) > 0
                      \/ \E i \in 1 .. Len(cmds) : cmds[i] = Item("Write", s)
    BY DEF WriteAccounted
  <2>1. nat[s].out > 0 \/ Has(InTransit, {"WriteAck"}, s) \/ Has(cmds, {"Write"}, s)
    BY DEF Inv, Good, Written
  <2> QED
    BY <2>1, Flying
<1> QED
  BY <1>1, Invariance, PTL
=============================================================================
