------------------------- MODULE ParserMemoryProofs -------------------------
(***************************************************************************)
(* TLAPS proof that the parser budgets of ParserMemory are exact and never *)
(* exceeded, for every set of buffers and sessions and all limits.         *)
(***************************************************************************)
EXTENDS ParserMemory, FunctionTheorems, FiniteSetTheorems, TLAPS

-----------------------------------------------------------------------------
(* What a set of buffers holds *)

\* Cells are pairs of a buffer and one of its units.
LEMMA CellsPairs ==
  ASSUME NEW c \in [Buffer -> Nat], NEW B \in SUBSET Buffer, NEW x
  PROVE  x \in Cells(c, B) <=> \E b \in B : x \in {b} \X (1 .. c[b])
  BY DEF Cells

\* Finitely many buffers hold finitely many cells.
LEMMA HeldType ==
  ASSUME NEW c \in [Buffer -> Nat], NEW B \in SUBSET Buffer
  PROVE  IsFiniteSet(Cells(c, B)) /\ Held(c, B) \in Nat
<1> DEFINE Row(b) == {b} \X (1 .. c[b])
           Rows == {Row(b) : b \in B}
           g == [b \in B |-> Row(b)]
<1>1. g \in Surjection(B, Rows)
  BY Fun_IsSurj
<1>2. IsFiniteSet(B)
  BY BufferAssumption, FS_Subset
<1>3. IsFiniteSet(Rows)
  BY <1>1, <1>2, FS_Surjection
<1>4. \A b \in B : IsFiniteSet(Row(b))
  <2> SUFFICES ASSUME NEW b \in B PROVE IsFiniteSet(Row(b))
    OBVIOUS
  <2>1. IsFiniteSet({b})
    BY FS_Singleton
  <2>2. IsFiniteSet(1 .. c[b])
    BY FS_Interval
  <2> QED
    BY <2>1, <2>2, FS_Product
<1>5. IsFiniteSet(UNION Rows)
  BY <1>3, <1>4, FS_UNION
<1> QED
  BY <1>5, FS_CardinalityType DEF Cells, Held

\* Disjoint sets of buffers hold what each of them holds.
LEMMA HeldSplit ==
  ASSUME NEW c \in [Buffer -> Nat], NEW B \in SUBSET Buffer, NEW D \in SUBSET Buffer,
         B \cap D = {}
  PROVE  Held(c, B \cup D) = Held(c, B) + Held(c, D)
<1>1. Cells(c, B \cup D) = Cells(c, B) \cup Cells(c, D)
  BY DEF Cells
<1>2. Cells(c, B) \cap Cells(c, D) = {}
  <2> SUFFICES ASSUME NEW x \in Cells(c, B), x \in Cells(c, D) PROVE FALSE
    OBVIOUS
  <2>1. PICK b \in B : x \in {b} \X (1 .. c[b])
    BY CellsPairs
  <2>2. PICK d \in D : x \in {d} \X (1 .. c[d])
    BY CellsPairs
  <2>3. x[1] = b /\ x[1] = d
    BY <2>1, <2>2
  <2> QED
    BY <2>3
<1>3. /\ IsFiniteSet(Cells(c, B)) /\ IsFiniteSet(Cells(c, D))
      /\ Held(c, B) \in Nat /\ Held(c, D) \in Nat
  BY HeldType
<1>4. Cardinality(Cells(c, B) \cup Cells(c, D))
        = Cardinality(Cells(c, B)) + Cardinality(Cells(c, D)) - Cardinality(Cells(c, B) \cap Cells(c, D))
  BY <1>3, FS_Union
<1>5. Cardinality(Cells(c, B) \cap Cells(c, D)) = 0
  BY <1>2, FS_EmptySet
<1>6. Cardinality(Cells(c, B) \cup Cells(c, D)) = Held(c, B) + Held(c, D)
  BY <1>3, <1>4, <1>5 DEF Held
<1> QED
  BY <1>1, <1>6 DEF Held

\* One buffer holds its capacity.
LEMMA HeldOne ==
  ASSUME NEW c \in [Buffer -> Nat], NEW b \in Buffer
  PROVE  Held(c, {b}) = c[b]
<1>1. Cells(c, {b}) = {b} \X (1 .. c[b])
  BY DEF Cells
<1>2. IsFiniteSet({b}) /\ Cardinality({b}) = 1
  BY FS_Singleton
<1>3. IsFiniteSet(1 .. c[b]) /\ Cardinality(1 .. c[b]) = c[b]
  BY FS_Interval
<1>4. Cardinality({b} \X (1 .. c[b])) = Cardinality({b}) * Cardinality(1 .. c[b])
  BY <1>2, <1>3, FS_Product
<1>5. Cardinality({b} \X (1 .. c[b])) = c[b]
  BY <1>2, <1>3, <1>4
<1> QED
  BY <1>1, <1>5, Zenon DEF Held

\* Capacities that agree on B make it hold the same.
LEMMA HeldAgree ==
  ASSUME NEW c \in [Buffer -> Nat], NEW d \in [Buffer -> Nat], NEW B \in SUBSET Buffer,
         \A b \in B : c[b] = d[b]
  PROVE  Held(c, B) = Held(d, B)
<1>1. Cells(c, B) = Cells(d, B)
  BY DEF Cells
<1> QED
  BY <1>1 DEF Held

\* Buffers without capacity hold nothing.
LEMMA HeldNone ==
  ASSUME NEW c \in [Buffer -> Nat], NEW B \in SUBSET Buffer, \A b \in B : c[b] = 0
  PROVE  Held(c, B) = 0
<1>1. Cells(c, B) = {}
  <2> SUFFICES ASSUME NEW x \in Cells(c, B) PROVE FALSE
    OBVIOUS
  <2>1. PICK b \in B : x \in {b} \X (1 .. c[b])
    BY CellsPairs
  <2> QED
    BY <2>1
<1> QED
  BY <1>1, FS_EmptySet DEF Held

\* Changing the capacity of b changes what a set with b holds by the difference.
LEMMA HeldUpdate ==
  ASSUME NEW c \in [Buffer -> Nat], NEW b \in Buffer, NEW n \in Nat, NEW B \in SUBSET Buffer
  PROVE  /\ b \in B => c[b] <= Held(c, B) /\ Held([c EXCEPT ![b] = n], B) = Held(c, B) - c[b] + n
         /\ b \notin B => Held([c EXCEPT ![b] = n], B) = Held(c, B)
<1> DEFINE d == [c EXCEPT ![b] = n]
<1>1. d \in [Buffer -> Nat] /\ d[b] = n
  OBVIOUS
<1>0. \A x \in Buffer \ {b} : c[x] = d[x]
  OBVIOUS
<1> HIDE DEF d
<1>2. ASSUME b \in B
      PROVE  c[b] <= Held(c, B) /\ Held(d, B) = Held(c, B) - c[b] + n
  <2> DEFINE R == B \ {b}
  <2>1. R \in SUBSET Buffer /\ R \cap {b} = {} /\ B = R \cup {b} /\ \A x \in R : c[x] = d[x]
    BY <1>2, <1>0
  <2>2. Held(c, B) = Held(c, R) + Held(c, {b})
    BY <2>1, HeldSplit
  <2>3. Held(d, B) = Held(d, R) + Held(d, {b})
    BY <1>1, <2>1, HeldSplit
  <2>4. Held(c, {b}) = c[b] /\ Held(d, {b}) = n
    BY <1>1, HeldOne
  <2>5. Held(c, R) = Held(d, R)
    BY <1>1, <2>1, HeldAgree
  <2>6. Held(c, R) \in Nat /\ c[b] \in Nat
    BY <2>1, HeldType
  <2> HIDE DEF R
  <2> QED
    BY <2>2, <2>3, <2>4, <2>5, <2>6
<1>3. ASSUME b \notin B PROVE Held(d, B) = Held(c, B)
  BY <1>1, <1>3, <1>0, HeldAgree
<1> QED
  BY <1>2, <1>3 DEF d

\* The same, as a rule for a set with b.
LEMMA HeldIn ==
  ASSUME NEW c \in [Buffer -> Nat], NEW b \in Buffer, NEW n \in Nat, NEW B \in SUBSET Buffer,
         b \in B
  PROVE  c[b] <= Held(c, B) /\ Held([c EXCEPT ![b] = n], B) = Held(c, B) - c[b] + n
  BY HeldUpdate, Zenon

\* Clearing C takes from a set what its members in C held.
LEMMA HeldCleared ==
  ASSUME NEW c \in [Buffer -> Nat], NEW B \in SUBSET Buffer, NEW C \in SUBSET Buffer
  PROVE  /\ Held(c, C \cap B) <= Held(c, B)
         /\ Held([b \in Buffer |-> IF b \in C THEN 0 ELSE c[b]], B) = Held(c, B) - Held(c, C \cap B)
<1> DEFINE d == [b \in Buffer |-> IF b \in C THEN 0 ELSE c[b]]
           R == B \ C
           I == C \cap B
<1>1. /\ d \in [Buffer -> Nat] /\ R \in SUBSET Buffer /\ I \in SUBSET Buffer
      /\ R \cap I = {} /\ B = R \cup I
      /\ (\A x \in R : c[x] = d[x]) /\ (\A x \in I : d[x] = 0)
  OBVIOUS
<1> HIDE DEF d, R, I
<1>2. Held(c, B) = Held(c, R) + Held(c, I) /\ Held(d, B) = Held(d, R) + Held(d, I)
  BY <1>1, HeldSplit
<1>3. Held(c, R) = Held(d, R)
  BY <1>1, HeldAgree
<1>4. Held(d, I) = 0
  BY <1>1, HeldNone
<1>5. Held(c, R) \in Nat /\ Held(c, I) \in Nat
  BY <1>1, HeldType
<1>6. Held(c, I) <= Held(c, B) /\ Held(d, B) = Held(c, B) - Held(c, I)
  BY <1>2, <1>3, <1>4, <1>5
<1> QED
  BY <1>6 DEF d, I
-----------------------------------------------------------------------------
(* Reservations *)

\* Taking what was added restores a budget.
LEMMA TakeAdded ==
  ASSUME NEW u \in [Session -> Nat], NEW s \in Session, NEW n \in Nat
  PROVE  Taken(Added(u, s, n), s, n) = u
<1> DEFINE w == Taken(Added(u, s, n), s, n)
<1>1. w = [x \in Session |-> w[x]] /\ u = [x \in Session |-> u[x]]
  BY DEF Added, Taken
<1>2. \A x \in Session : w[x] = u[x]
  BY DEF Added, Taken
<1> QED
  BY <1>1, <1>2, Zenon

\* A granted reservation charges both budgets; a refused one charges neither.
LEMMA ReserveResult ==
  ASSUME NEW u \in [Session -> Nat], NEW h \in Nat, NEW s \in Session, NEW n \in Nat
  PROVE  /\ Reserves(Account(u, h), s, n)
              => /\ u[s] + n <= SessionLimit /\ h + n <= ServerLimit
                 /\ Reserve(Account(u, h), s, n) = Account(Added(u, s, n), h + n)
         /\ ~Reserves(Account(u, h), s, n) => Reserve(Account(u, h), s, n) = Account(u, h)
<1> DEFINE a == Account(u, h)
<1>1. a.used = u /\ a.shared = h /\ u[s] \in Nat
  BY DEF Account
<1>2. Taken(Added(u, s, n), s, n) = u
  BY TakeAdded
<1>3. Undone(a, s, n) = a
  BY <1>1, <1>2, Zenon DEF Undone
<1>4. CASE u[s] + n > SessionLimit
  BY <1>1, <1>4, SizeAssumption DEF Reserves, Reserve
<1>5. CASE u[s] + n <= SessionLimit /\ h + n > ServerLimit
  <2>1. Reserve(a, s, n) = Undone(a, s, n)
    BY <1>1, <1>5, SizeAssumption DEF Reserve
  <2>2. ~Reserves(a, s, n)
    BY <1>1, <1>5, SizeAssumption DEF Reserves
  <2> QED
    BY <1>3, <2>1, <2>2
<1>6. CASE u[s] + n <= SessionLimit /\ h + n <= ServerLimit
  <2>1. Reserve(a, s, n) = Account(Added(a.used, s, n), a.shared + n)
    BY <1>1, <1>6, SizeAssumption DEF Reserve
  <2> QED
    BY <1>1, <1>6, <2>1 DEF Reserves
<1> QED
  BY <1>1, <1>4, <1>5, <1>6, SizeAssumption

\* A granted reservation is an account again.
LEMMA ReserveGranted ==
  ASSUME NEW u \in [Session -> Nat], NEW h \in Nat, NEW s \in Session, NEW n \in Nat,
         Reserves(Account(u, h), s, n)
  PROVE  /\ Reserve(Account(u, h), s, n) = Account(Added(u, s, n), h + n)
         /\ u[s] + n <= SessionLimit /\ h + n <= ServerLimit
  BY ReserveResult, Zenon

\* A refused reservation leaves the account.
LEMMA ReserveRefused ==
  ASSUME NEW u \in [Session -> Nat], NEW h \in Nat, NEW s \in Session, NEW n \in Nat,
         ~Reserves(Account(u, h), s, n)
  PROVE  Reserve(Account(u, h), s, n) = Account(u, h)
  BY ReserveResult

\* Release charges both budgets less.
LEMMA ReleaseAccount ==
  ASSUME NEW u, NEW h, NEW s, NEW n
  PROVE  Release(Account(u, h), s, n) = Account(Taken(u, s, n), h - n)
<1> DEFINE a == Account(u, h)
<1>1. a.used = u /\ a.shared = h
  BY DEF Account
<1>2. Release(a, s, n) = Account(Taken(a.used, s, n), a.shared - n)
  BY DEF Release
<1> HIDE DEF a
<1>3. Release(a, s, n) = Account(Taken(u, s, n), h - n)
  BY <1>1, <1>2
<1> QED
  BY <1>3 DEF a

\* Releasing what was reserved restores the budgets.
LEMMA ReleaseResult ==
  ASSUME NEW u \in [Session -> Nat], NEW h \in Nat, NEW s \in Session, NEW n \in Nat
  PROVE  Release(Account(Added(u, s, n), h + n), s, n) = Account(u, h)
<1> DEFINE v == Added(u, s, n)
<1>1. Taken(v, s, n) = u
  BY TakeAdded
<1>2. Release(Account(v, h + n), s, n) = Account(Taken(v, s, n), h + n - n)
  BY ReleaseAccount
<1>3. h + n - n = h
  OBVIOUS
<1> QED
  BY <1>1, <1>2, <1>3

\* An account names the two budgets.
LEMMA ChargeAccount ==
  ASSUME NEW u, NEW h, Charge(Account(u, h))
  PROVE  used' = u /\ shared' = h
  BY DEF Charge, Account
-----------------------------------------------------------------------------
(* The invariant *)

MemInv == MemTypeOK /\ Budget

\* A refusal changes nothing, whichever way extend_from_slice failed.
LEMMA RefusedUnchanged ==
  ASSUME MemTypeOK, NEW b \in Buffer, NEW bytes \in Seq(Byte), Refused(b, bytes)
  PROVE  UNCHANGED memVars
<1> DEFINE s == Owner[b]
           a == Account(used, shared)
<1>1. s \in Session /\ used \in [Session -> Nat] /\ shared \in Nat /\ s = Owner[b]
  BY BufferAssumption DEF MemTypeOK
<1> HIDE DEF s
<1>2. ASSUME NEW c \in Nat, ~Reserves(a, s, c)
      PROVE  Reserve(a, s, c) = a
  BY <1>1, <1>2, ReserveRefused
<1>3. ASSUME NEW c \in Nat, Reserves(a, s, c)
      PROVE  Release(Reserve(a, s, c), s, c) = a
  <2>1. Reserve(a, s, c) = Account(Added(used, s, c), shared + c)
    BY <1>1, <1>3, ReserveGranted
  <2>2. Release(Account(Added(used, s, c), shared + c), s, c) = a
    BY <1>1, ReleaseResult
  <2> QED
    BY <2>1, <2>2
<1>4. ASSUME NEW c \in Nat, NEW extra \in Nat, Reserves(a, s, c),
             ~Reserves(Reserve(a, s, c), s, extra)
      PROVE  Release(Reserve(Reserve(a, s, c), s, extra), s, c) = a
  <2> DEFINE u == Added(used, s, c)
             k == shared + c
  <2>1. u \in [Session -> Nat] /\ k \in Nat
    BY <1>1 DEF Added
  <2>2. Reserve(a, s, c) = Account(u, k)
    BY <1>1, <1>4, ReserveGranted
  <2> HIDE DEF u, k
  <2>3. ~Reserves(Account(u, k), s, extra)
    BY <1>4, <2>2, Zenon
  <2>4. Reserve(Account(u, k), s, extra) = Account(u, k)
    BY <1>1, <2>1, <2>3, ReserveRefused
  <2>5. Release(Reserve(a, s, c), s, c) = a
    BY <1>3, <1>4
  <2> QED
    BY <2>2, <2>4, <2>5, Zenon
<1>5. ASSUME NEW x \in AfterFailure(b, bytes) PROVE x = a
  <2> DEFINE fitting == {c \in Capacities : Replacement(c, Needed(b, bytes))}
             granted == {c \in fitting : Reserves(a, s, c)}
             pairs == {y \in granted \X (Extras \ {0}) : ~Reserves(Reserve(a, s, y[1]), s, y[2])}
  <2>1. fitting \subseteq Nat /\ granted \subseteq Nat /\ Extras \subseteq Nat
    BY SizeAssumption
  <2>2. \/ x = a
        \/ x \in {Reserve(a, s, c) : c \in fitting \ granted}
        \/ x \in {Release(Reserve(a, s, c), s, c) : c \in granted}
        \/ x \in {Release(Reserve(Reserve(a, s, cx[1]), s, cx[2]), s, cx[1]) : cx \in pairs}
    BY <1>1, <1>5 DEF AfterFailure
  <2>3. CASE x \in {Reserve(a, s, c) : c \in fitting \ granted}
    BY <1>2, <2>1, <2>3
  <2>4. CASE x \in {Release(Reserve(a, s, c), s, c) : c \in granted}
    BY <1>3, <2>1, <2>4
  <2>5. CASE x \in {Release(Reserve(Reserve(a, s, cx[1]), s, cx[2]), s, cx[1]) : cx \in pairs}
    <3>1. PICK cx \in pairs : x = Release(Reserve(Reserve(a, s, cx[1]), s, cx[2]), s, cx[1])
      BY <2>5
    <3>2. /\ cx[1] \in Nat /\ cx[2] \in Nat /\ Reserves(a, s, cx[1])
          /\ ~Reserves(Reserve(a, s, cx[1]), s, cx[2])
      BY <2>1
    <3> QED
      BY <1>4, <3>1, <3>2
  <2> QED
    BY <2>2, <2>3, <2>4, <2>5
<1>6. Charge(a)
  BY <1>5 DEF Refused
<1>7. used' = used /\ shared' = shared
  BY <1>6, ChargeAccount
<1> QED
  BY <1>7 DEF Refused, memVars

\* A successful extend_from_slice keeps the invariant.
LEMMA ExtendedKeeps ==
  ASSUME MemInv, NEW b \in Buffer, NEW bytes \in Seq(Byte), Extended(b, bytes)
  PROVE  MemInv'
<1> DEFINE s == Owner[b]
<1>1. /\ data \in [Buffer -> Seq(Byte)] /\ cap \in [Buffer -> Nat]
      /\ s \in Session /\ used \in [Session -> Nat] /\ shared \in Nat
      /\ s = Owner[b]
  BY BufferAssumption DEF MemInv, MemTypeOK
<1> HIDE DEF s
<1>2. /\ data' = [data EXCEPT ![b] = @ \o bytes]
      /\ data' \in [Buffer -> Seq(Byte)]
      /\ Len(data'[b]) = Needed(b, bytes)
      /\ \A x \in Buffer \ {b} : data'[x] = data[x]
  BY <1>1 DEF Extended, Needed
<1>3. CASE Needed(b, bytes) <= cap[b] /\ UNCHANGED <<cap, used, shared>>
  <2>1. data[b] # <<>> => data'[b] # <<>>
    BY <1>1, <1>2
  <2>2. \A x \in Buffer : Len(data'[x]) <= cap'[x] /\ (data'[x] = <<>> => cap'[x] = 0)
    BY <1>1, <1>2, <1>3, <2>1 DEF MemInv, Budget, EmptyHoldsNothing
  <2> QED
    BY <1>2, <1>3, <2>2 DEF MemInv, MemTypeOK, Budget, ChargedExactly, WithinLimits, EmptyHoldsNothing
<1>4. ASSUME NEW c \in Capacities, NEW extra \in Extras,
             Needed(b, bytes) > cap[b],
             Replacement(c, Needed(b, bytes)),
             Reserves(Account(used, shared), s, c),
             Reserves(Reserve(Account(used, shared), s, c), s, extra),
             cap' = [cap EXCEPT ![b] = c + extra],
             Charge(DropOld(Reserve(Reserve(Account(used, shared), s, c), s, extra), b))
      PROVE  MemInv'
  <2> DEFINE u == Added(used, s, c)
             v == Added(u, s, extra)
  <2>1. c \in Nat /\ extra \in Nat /\ cap[b] \in Nat /\ Needed(b, bytes) \in Nat
    BY <1>1, SizeAssumption DEF Needed
  <2>2. Reserve(Account(used, shared), s, c) = Account(u, shared + c)
    BY <1>1, <1>4, <2>1, ReserveGranted
  <2>3. /\ u \in [Session -> Nat] /\ shared + c \in Nat /\ u[s] = used[s] + c
        /\ \A t \in Session \ {s} : u[t] = used[t]
    BY <1>1, <2>1 DEF Added
  <2>4. Reserves(Account(u, shared + c), s, extra)
    BY <1>4, <2>2, Zenon
  <2> HIDE DEF u
  <2>5. /\ Reserve(Account(u, shared + c), s, extra) = Account(v, shared + c + extra)
        /\ u[s] + extra <= SessionLimit /\ shared + c + extra <= ServerLimit
    <3> DEFINE k == shared + c
    <3>1. k \in Nat /\ Reserves(Account(u, k), s, extra)
      BY <2>3, <2>4
    <3> HIDE DEF k
    <3>2. /\ Reserve(Account(u, k), s, extra) = Account(v, k + extra)
          /\ u[s] + extra <= SessionLimit /\ k + extra <= ServerLimit
      BY <1>1, <2>1, <2>3, <3>1, ReserveGranted
    <3> QED
      BY <3>2 DEF k
  <2>6. /\ v \in [Session -> Nat] /\ v[s] = used[s] + c + extra
        /\ \A t \in Session \ {s} : v[t] = used[t]
    BY <1>1, <2>1, <2>3 DEF Added
  <2> HIDE DEF v
  <2> DEFINE h == shared + c + extra
  <2>21. h = shared + c + extra
    OBVIOUS
  <2>22. Reserve(Account(u, shared + c), s, extra) = Account(v, h)
    BY <2>5
  <2> HIDE DEF h
  <2>7. DropOld(Account(v, h), b) = Account(Taken(v, s, cap[b]), h - cap[b])
    <3>1. DropOld(Account(v, h), b) = Release(Account(v, h), s, cap[b])
      BY <1>1 DEF DropOld
    <3>2. Release(Account(v, h), s, cap[b]) = Account(Taken(v, s, cap[b]), h - cap[b])
      BY ReleaseAccount
    <3> QED
      BY <3>1, <3>2
  <2>23. Charge(Account(Taken(v, s, cap[b]), h - cap[b]))
    BY <1>4, <2>2, <2>7, <2>22
  <2>24. used' = Taken(v, s, cap[b]) /\ shared' = h - cap[b]
    BY <2>23, ChargeAccount
  <2>8. used' = Taken(v, s, cap[b]) /\ shared' = shared + c + extra - cap[b]
    BY <1>1, <2>1, <2>21, <2>24
  <2>9. /\ \A t \in Session : used[t] = Held(cap, BuffersOf(t)) /\ BuffersOf(t) \in SUBSET Buffer
        /\ shared = Held(cap, Buffer)
    BY DEF MemInv, Budget, ChargedExactly, BuffersOf
  <2>10. b \in BuffersOf(s) /\ \A t \in Session \ {s} : b \notin BuffersOf(t)
    BY <1>1 DEF BuffersOf
  <2>11. cap' \in [Buffer -> Nat] /\ cap'[b] = c + extra /\ \A x \in Buffer \ {b} : cap'[x] = cap[x]
    BY <1>1, <1>4, <2>1
  <2>12. c + extra \in Nat
    BY <2>1
  <2>13. cap[b] <= used[s] /\ Held(cap', BuffersOf(s)) = used[s] - cap[b] + (c + extra)
    <3>1. BuffersOf(s) \in SUBSET Buffer /\ b \in BuffersOf(s) /\ used[s] = Held(cap, BuffersOf(s))
      BY <1>1, <2>9, <2>10
    <3>2. /\ cap[b] <= Held(cap, BuffersOf(s))
          /\ Held([cap EXCEPT ![b] = c + extra], BuffersOf(s))
               = Held(cap, BuffersOf(s)) - cap[b] + (c + extra)
      BY <1>1, <2>12, <3>1, HeldIn
    <3> QED
      BY <1>4, <3>1, <3>2, Zenon
  <2>14. \A t \in Session \ {s} : Held(cap', BuffersOf(t)) = used[t]
    <3> SUFFICES ASSUME NEW t \in Session \ {s}
                 PROVE  Held(cap', BuffersOf(t)) = used[t]
      OBVIOUS
    <3>1. BuffersOf(t) \in SUBSET Buffer /\ b \notin BuffersOf(t) /\ used[t] = Held(cap, BuffersOf(t))
      BY <2>9, <2>10
    <3> DEFINE D == BuffersOf(t)
    <3>2. D \in SUBSET Buffer /\ \A x \in D : cap'[x] = cap[x]
      BY <2>11, <3>1
    <3> HIDE DEF D
    <3>3. Held(cap', D) = Held(cap, D)
      BY <1>1, <2>11, <3>2, HeldAgree
    <3> QED
      BY <3>1, <3>3 DEF D
  <2>15. cap[b] <= shared /\ Held(cap', Buffer) = shared - cap[b] + (c + extra)
    <3>1. /\ cap[b] <= Held(cap, Buffer)
          /\ Held([cap EXCEPT ![b] = c + extra], Buffer) = Held(cap, Buffer) - cap[b] + (c + extra)
      BY <1>1, <2>12, HeldIn
    <3> QED
      BY <1>4, <2>9, <3>1, Zenon
  <2>16. /\ used'[s] = used[s] + c + extra - cap[b]
         /\ \A t \in Session \ {s} : used'[t] = used[t]
    <3>1. s \in Session /\ v \in [Session -> Nat] /\ used' = [v EXCEPT ![s] = @ - cap[b]]
      BY <1>1, <2>6, <2>8 DEF Taken
    <3>2. used'[s] = v[s] - cap[b] /\ \A t \in Session \ {s} : used'[t] = v[t]
      BY <3>1
    <3> DEFINE mine == used[s]
               old == cap[b]
    <3>3. mine \in Nat /\ old \in Nat
      BY <1>1, <2>1
    <3> HIDE DEF mine, old
    <3>4. (mine + c + extra) - old = mine + c + extra - old
      BY <2>1, <3>3
    <3>5. v[s] = mine + c + extra /\ used'[s] = v[s] - old
      BY <2>6, <3>2 DEF mine, old
    <3>6. used'[s] = mine + c + extra - old
      BY <3>4, <3>5
    <3> QED
      BY <2>6, <3>2, <3>6 DEF mine, old
  <2>17. used' \in [Session -> Nat] /\ shared' \in Nat
    <3>1. used[s] + c + extra - cap[b] \in Nat /\ shared + c + extra - cap[b] \in Nat
      <4> DEFINE mine == used[s]
                 old == cap[b]
      <4>1. mine \in Nat /\ shared \in Nat /\ old \in Nat /\ old <= mine /\ old <= shared
        BY <1>1, <2>1, <2>13, <2>15
      <4> HIDE DEF mine, old
      <4>2. mine + c + extra - old \in Nat /\ shared + c + extra - old \in Nat
        BY <2>1, <4>1
      <4> QED
        BY <4>2 DEF mine, old
    <3>2. \A t \in Session : used'[t] \in Nat
      BY <1>1, <2>16, <3>1
    <3>3. used' = [t \in Session |-> used'[t]]
      BY <2>6, <2>8 DEF Taken
    <3> QED
      BY <2>8, <3>1, <3>2, <3>3
  <2>18. ChargedExactly'
    <3>1. ASSUME NEW t \in Session PROVE used'[t] = Held(cap', BuffersOf(t))
      <4>1. CASE t = s
        <5>1. used[s] \in Nat /\ used'[s] = used[s] - cap[b] + (c + extra)
          BY <1>1, <2>1, <2>16
        <5> QED
          BY <2>13, <4>1, <5>1
      <4>2. CASE t # s
        BY <2>14, <2>16, <4>2
      <4> QED
        BY <4>1, <4>2
    <3>2. shared' = Held(cap', Buffer)
      BY <1>1, <2>1, <2>8, <2>15
    <3> QED
      BY <3>1, <3>2 DEF ChargedExactly, BuffersOf
  <2>19. WithinLimits'
    <3>1. used'[s] <= SessionLimit
      <4>1. used[s] \in Nat /\ used[s] + c + extra <= SessionLimit
        BY <1>1, <2>1, <2>3, <2>5
      <4> QED
        BY <2>1, <2>16, <4>1, SizeAssumption
    <3>2. shared' <= ServerLimit
      BY <1>1, <2>1, <2>5, <2>8, SizeAssumption
    <3> QED
      BY <1>1, <2>16, <3>1, <3>2 DEF MemInv, Budget, WithinLimits
  <2>20. EmptyHoldsNothing'
    <3>1. Len(data'[b]) <= cap'[b] /\ data'[b] # <<>>
      BY <1>2, <1>4, <2>1, <2>11 DEF Replacement
    <3>2. \A x \in Buffer \ {b} : Len(data'[x]) <= cap'[x] /\ (data'[x] = <<>> => cap'[x] = 0)
      BY <1>2, <2>11 DEF MemInv, Budget, EmptyHoldsNothing
    <3> QED
      BY <3>1, <3>2 DEF EmptyHoldsNothing
  <2> QED
    BY <1>2, <2>11, <2>17, <2>18, <2>19, <2>20 DEF MemInv, MemTypeOK, Budget
<1> QED
  BY <1>1, <1>3, <1>4 DEF Extended

\* Clearing any set of buffers keeps the invariant.
LEMMA ClearedKeeps ==
  ASSUME MemInv, NEW B \in SUBSET Buffer, Cleared(B)
  PROVE  MemInv'
<1>1. /\ data \in [Buffer -> Seq(Byte)] /\ cap \in [Buffer -> Nat]
      /\ used \in [Session -> Nat] /\ shared \in Nat
  BY DEF MemInv, MemTypeOK
<1>2. /\ \A t \in Session : used[t] = Held(cap, BuffersOf(t)) /\ BuffersOf(t) \in SUBSET Buffer
      /\ shared = Held(cap, Buffer)
  BY DEF MemInv, Budget, ChargedExactly, BuffersOf
<1>3. /\ data' = [b \in Buffer |-> IF b \in B THEN <<>> ELSE data[b]]
      /\ cap' = [b \in Buffer |-> IF b \in B THEN 0 ELSE cap[b]]
      /\ used' = [s \in Session |-> used[s] - Held(cap, B \cap BuffersOf(s))]
      /\ shared' = shared - Held(cap, B)
  BY DEF Cleared
<1>4. data' \in [Buffer -> Seq(Byte)] /\ cap' \in [Buffer -> Nat]
  BY <1>1, <1>3
<1>5. ASSUME NEW t \in Session
      PROVE  /\ used'[t] \in Nat /\ used'[t] <= used[t]
             /\ used'[t] = Held(cap', BuffersOf(t))
  <2>1. /\ Held(cap, B \cap BuffersOf(t)) <= Held(cap, BuffersOf(t))
        /\ Held(cap', BuffersOf(t)) = Held(cap, BuffersOf(t)) - Held(cap, B \cap BuffersOf(t))
    BY <1>1, <1>2, <1>3, HeldCleared
  <2>2. Held(cap, B \cap BuffersOf(t)) \in Nat
    BY <1>1, HeldType
  <2>3. used'[t] = used[t] - Held(cap, B \cap BuffersOf(t)) /\ used[t] \in Nat
    BY <1>1, <1>3
  <2> QED
    BY <1>2, <2>1, <2>2, <2>3
<1>6. shared' \in Nat /\ shared' <= shared /\ shared' = Held(cap', Buffer)
  <2>1. /\ Held(cap, B \cap Buffer) <= Held(cap, Buffer)
        /\ Held(cap', Buffer) = Held(cap, Buffer) - Held(cap, B \cap Buffer)
    BY <1>1, <1>3, HeldCleared
  <2>2. B \cap Buffer = B /\ Held(cap, B) \in Nat
    BY <1>1, HeldType
  <2>3. Held(cap', Buffer) = shared - Held(cap, B) /\ Held(cap, B) <= shared
    BY <1>2, <2>1, <2>2
  <2> QED
    BY <1>1, <1>3, <2>2, <2>3
<1>7. ChargedExactly'
  BY <1>5, <1>6 DEF ChargedExactly, BuffersOf
<1>8. WithinLimits'
  BY <1>1, <1>5, <1>6, SizeAssumption DEF MemInv, Budget, WithinLimits
<1>9. EmptyHoldsNothing'
  BY <1>1, <1>3 DEF MemInv, Budget, EmptyHoldsNothing
<1>10. used' \in [Session -> Nat]
  BY <1>3, <1>5
<1> QED
  BY <1>4, <1>6, <1>7, <1>8, <1>9, <1>10 DEF MemInv, MemTypeOK, Budget

\* Consuming a prefix keeps the invariant.
LEMMA ConsumedKeeps ==
  ASSUME MemInv, NEW b \in Buffer, NEW n \in Nat, Consumed(b, n)
  PROVE  MemInv'
<1>1. CASE n = Len(data[b]) /\ Cleared({b})
  BY <1>1, ClearedKeeps
<1>2. CASE /\ n < Len(data[b])
           /\ data' = [data EXCEPT ![b] = SubSeq(@, n + 1, Len(@))]
           /\ UNCHANGED <<cap, used, shared>>
  <2>1. data \in [Buffer -> Seq(Byte)] /\ cap \in [Buffer -> Nat] /\ Len(data[b]) \in Nat
    BY DEF MemInv, MemTypeOK
  <2>2. SubSeq(data[b], n + 1, Len(data[b])) \in Seq(Byte)
    BY <1>2, <2>1
  <2>3. Len(SubSeq(data[b], n + 1, Len(data[b]))) = Len(data[b]) - n
    BY <1>2, <2>1
  <2>4. data' \in [Buffer -> Seq(Byte)]
    BY <1>2, <2>1, <2>2
  <2>5. /\ Len(data'[b]) <= cap[b] /\ data'[b] # <<>>
        /\ \A x \in Buffer \ {b} : data'[x] = data[x]
    <3>1. data'[b] = SubSeq(data[b], n + 1, Len(data[b])) /\ \A x \in Buffer \ {b} : data'[x] = data[x]
      BY <1>2, <2>1
    <3>2. Len(data[b]) <= cap[b] /\ cap[b] \in Nat
      BY <2>1 DEF MemInv, Budget, EmptyHoldsNothing
    <3>3. Len(data'[b]) <= cap[b] /\ Len(data'[b]) > 0
      BY <1>2, <2>1, <2>3, <3>1, <3>2
    <3>4. data'[b] # <<>>
      BY <3>3
    <3> QED
      BY <3>1, <3>3, <3>4
  <2>6. EmptyHoldsNothing'
    BY <1>2, <2>5 DEF MemInv, Budget, EmptyHoldsNothing
  <2> QED
    BY <1>2, <2>4, <2>6 DEF MemInv, MemTypeOK, Budget, ChargedExactly, WithinLimits, BuffersOf
<1> QED
  BY <1>1, <1>2 DEF Consumed

\* The parser budgets: every session and the server are charged exactly what the
\* live buffers hold, within their limits, whatever the parsers do, however
\* allocations fail and however often reservations are refused.
THEOREM BudgetTheorem == MemSpec => []Budget
<1>1. MemInit => MemInv
  <2> SUFFICES ASSUME MemInit PROVE MemInv
    OBVIOUS
  <2>1. MemTypeOK
    BY DEF MemInit, MemTypeOK
  <2>2. \A B \in SUBSET Buffer : Held(cap, B) = 0
    BY <2>1, HeldNone DEF MemInit, MemTypeOK
  <2>3. \A s \in Session : BuffersOf(s) \in SUBSET Buffer
    BY DEF BuffersOf
  <2> QED
    BY <2>1, <2>2, <2>3, SizeAssumption
       DEF MemInit, MemInv, Budget, ChargedExactly, WithinLimits, EmptyHoldsNothing
<1>2. MemInv /\ [MemNext]_memVars => MemInv'
  <2> SUFFICES ASSUME MemInv, [MemNext]_memVars PROVE MemInv'
    OBVIOUS
  <2>1. CASE UNCHANGED memVars
    BY <2>1 DEF memVars, MemInv, MemTypeOK, Budget, ChargedExactly, WithinLimits,
                EmptyHoldsNothing, BuffersOf
  <2>2. ASSUME NEW b \in Buffer, NEW bytes \in Seq(Byte), Extended(b, bytes) PROVE MemInv'
    BY <2>2, ExtendedKeeps
  <2>3. ASSUME NEW b \in Buffer, NEW bytes \in Seq(Byte), Refused(b, bytes) PROVE MemInv'
    <3>1. UNCHANGED memVars
      BY <2>3, RefusedUnchanged DEF MemInv
    <3> QED
      BY <3>1, <2>1
  <2>4. ASSUME NEW b \in Buffer, NEW n \in Nat, Consumed(b, n) PROVE MemInv'
    BY <2>4, ConsumedKeeps
  <2>5. ASSUME NEW B \in SUBSET Buffer, Cleared(B) PROVE MemInv'
    BY <2>5, ClearedKeeps
  <2> QED
    BY <2>1, <2>2, <2>3, <2>4, <2>5 DEF MemNext
<1>3. MemInv => Budget
  BY DEF MemInv
<1> QED
  BY <1>1, <1>2, <1>3, PTL DEF MemSpec
=============================================================================
