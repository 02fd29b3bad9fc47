---------------------------- MODULE ParserMemory ----------------------------
(***************************************************************************)
(* crates/native/src/parser_memory.rs: the byte buffers of the receive     *)
(* parsers and the budget they are charged to.  Every session has a budget *)
(* of its own, a child of the budget its server shares among all of its    *)
(* sessions; a buffer is charged to both.  A client's session has no       *)
(* parent: it is the instance with one session and ServerLimit >=          *)
(* SessionLimit, where the parent never refuses.                           *)
(*                                                                         *)
(* All sessions of a server run on its one driver thread, so an operation  *)
(* on a buffer is one step.  The heap is external: an allocation may fail  *)
(* and may supply more capacity than was asked for.                        *)
(***************************************************************************)
EXTENDS Integers, Sequences, FiniteSets

CONSTANTS
  Buffer,          \* the buffers that may exist: streams' frames.buf and class_buf, capsule_buf, copies
  Session, Owner,  \* the sessions, and the session each buffer belongs to
  Byte,
  SessionLimit,    \* MAX_SESSION_PARSER_MEMORY
  ServerLimit,     \* MAX_PARSER_MEMORY
  Capacities,      \* the values of next_power_of_two: the powers of two of a usize
  Extras,          \* what the allocator may supply beyond the requested capacity
  AllocMayFail     \* whether try_reserve_exact may fail

ASSUME BufferAssumption ==
  /\ IsFiniteSet(Buffer)
  /\ Owner \in [Buffer -> Session]

ASSUME SizeAssumption ==
  /\ SessionLimit \in Nat /\ ServerLimit \in Nat /\ Extras \subseteq Nat
  /\ Capacities \subseteq Nat \ {0}
  /\ AllocMayFail \in BOOLEAN

VARIABLES
  data,    \* the content of each buffer (<<>>: empty, or no such buffer)
  cap,     \* its Vec's capacity
  used,    \* ParserMemory.used of each session
  shared   \* ParserMemory.used of the server

memVars == <<data, cap, used, shared>>

BuffersOf(s) == {b \in Buffer : Owner[b] = s}

\* The capacity held by the buffers in B, as the number of their cells.
Cells(c, B) == UNION {{b} \X (1 .. c[b]) : b \in B}
Held(c, B) == Cardinality(Cells(c, B))

MemTypeOK ==
  /\ data \in [Buffer -> Seq(Byte)]
  /\ cap \in [Buffer -> Nat]
  /\ used \in [Session -> Nat]
  /\ shared \in Nat

MemInit ==
  /\ data = [b \in Buffer |-> <<>>]
  /\ cap = [b \in Buffer |-> 0]
  /\ used = [s \in Session |-> 0]
  /\ shared = 0
-----------------------------------------------------------------------------
(* The budget: an account is [used, shared] *)

Account(u, h) == [used |-> u, shared |-> h]
Added(u, s, n) == [u EXCEPT ![s] = @ + n]
Taken(u, s, n) == [u EXCEPT ![s] = @ - n]

\* Mutant: a reservation the parent refuses stays charged to the child.
KeptReservation(a, s, n) == Account(Added(a.used, s, n), a.shared)

\* The account after the parent refused: the child's fetch_add is undone.
Undone(a, s, n) == Account(Taken(Added(a.used, s, n), s, n), a.shared)

\* reserve: what is charged, and whether it was granted.
Reserves(a, s, n) == a.used[s] + n <= SessionLimit /\ a.shared + n <= ServerLimit

Reserve(a, s, n) ==
  CASE a.used[s] + n > SessionLimit -> a
    [] a.used[s] + n <= SessionLimit /\ a.shared + n > ServerLimit -> Undone(a, s, n)
    [] OTHER -> Account(Added(a.used, s, n), a.shared + n)

Release(a, s, n) == Account(Taken(a.used, s, n), a.shared - n)

Charge(a) == used' = a.used /\ shared' = a.shared
-----------------------------------------------------------------------------
(* The buffers *)

Needed(b, bytes) == Len(data[b]) + Len(bytes)

\* c = needed.next_power_of_two()
Replacement(c, needed) ==
  c >= needed /\ \A d \in Capacities : d >= needed => c <= d

\* Mutant: the old allocation is released by the swap and again by its drop.
DropTwice(a, b) == Release(Release(a, Owner[b], cap[b]), Owner[b], cap[b])

\* After the swap the old allocation is dropped and released.
DropOld(a, b) == Release(a, Owner[b], cap[b])

\* extend_from_slice returned Ok.
Extended(b, bytes) ==
  /\ data' = [data EXCEPT ![b] = @ \o bytes]
  /\ \/ /\ Needed(b, bytes) <= cap[b]
        /\ UNCHANGED <<cap, used, shared>>
     \/ /\ Needed(b, bytes) > cap[b]
        /\ \E c \in Capacities, extra \in Extras :
             LET reserved == Reserve(Account(used, shared), Owner[b], c)
             IN  /\ Replacement(c, Needed(b, bytes))
                 /\ Reserves(Account(used, shared), Owner[b], c)
                 /\ Reserves(reserved, Owner[b], extra)
                 /\ cap' = [cap EXCEPT ![b] = c + extra]
                 /\ Charge(DropOld(Reserve(reserved, Owner[b], extra), b))

\* The accounts the ways in which growth can fail leave behind: no such capacity,
\* reservation refused, allocation failed, its surplus refused.
AfterFailure(b, bytes) ==
  LET a == Account(used, shared)
      o == Owner[b]
      fitting == {c \in Capacities : Replacement(c, Needed(b, bytes))}
      granted == {c \in fitting : Reserves(a, o, c)}
  IN  (IF fitting = {} THEN {a} ELSE {})
        \cup {Reserve(a, o, c) : c \in fitting \ granted}
        \cup (IF AllocMayFail THEN {Release(Reserve(a, o, c), o, c) : c \in granted} ELSE {})
        \cup {Release(Reserve(Reserve(a, o, cx[1]), o, cx[2]), o, cx[1]) :
                cx \in {y \in granted \X (Extras \ {0}) : ~Reserves(Reserve(a, o, y[1]), o, y[2])}}

\* extend_from_slice returned Err: the buffer is as it was.
Refused(b, bytes) ==
  /\ Needed(b, bytes) > cap[b]
  /\ \E a \in AfterFailure(b, bytes) : Charge(a)
  /\ UNCHANGED <<data, cap>>

\* clear, or drop, of every buffer in B.
Cleared(B) ==
  /\ data' = [b \in Buffer |-> IF b \in B THEN <<>> ELSE data[b]]
  /\ cap' = [b \in Buffer |-> IF b \in B THEN 0 ELSE cap[b]]
  /\ used' = [s \in Session |-> used[s] - Held(cap, B \cap BuffersOf(s))]
  /\ shared' = shared - Held(cap, B)

\* consume: drains the first n bytes; an emptied buffer gives its capacity back.
Consumed(b, n) ==
  /\ n <= Len(data[b])
  /\ \/ n = Len(data[b]) /\ Cleared({b})
     \/ /\ n < Len(data[b])
        /\ data' = [data EXCEPT ![b] = SubSeq(@, n + 1, Len(@))]
        /\ UNCHANGED <<cap, used, shared>>

MemNext ==
  \/ \E b \in Buffer, bytes \in Seq(Byte) : Extended(b, bytes) \/ Refused(b, bytes)
  \/ \E b \in Buffer, n \in Nat : Consumed(b, n)
  \/ \E B \in SUBSET Buffer : Cleared(B)

MemSpec == MemInit /\ [][MemNext]_memVars
-----------------------------------------------------------------------------
(* Properties *)

\* The budgets are exact: each session is charged the capacity its buffers
\* hold, and the server the capacity all of them hold.  No refusal, failed
\* allocation or growth leaves a charge behind, or releases twice.
ChargedExactly ==
  /\ \A s \in Session : used[s] = Held(cap, BuffersOf(s))
  /\ shared = Held(cap, Buffer)

\* No session exceeds its limit and all of them together stay in the server's.
WithinLimits ==
  /\ \A s \in Session : used[s] <= SessionLimit
  /\ shared <= ServerLimit

\* A buffer's bytes fit its allocation, and an empty buffer holds none: bytes
\* that were handled keep nothing of the budget.
EmptyHoldsNothing ==
  \A b \in Buffer : Len(data[b]) <= cap[b] /\ (data[b] = <<>> => cap[b] = 0)

\* The budget of parser_memory.rs as a whole.
Budget == ChargedExactly /\ WithinLimits /\ EmptyHoldsNothing
=============================================================================
