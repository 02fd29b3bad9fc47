---------------------------- MODULE SessionFlow ----------------------------
(***************************************************************************)
(* Per-session WebTransport flow control between two endpoints that both   *)
(* run crates/native/src/session.rs.  One direction is modelled: a sender  *)
(* that opens streams, writes and resets them, and a receiver that         *)
(* classifies and reads them, accounts for what it received and raises the *)
(* limits with WT_MAX_* capsules on the CONNECT stream.  The opposite      *)
(* direction is a second, independent copy.                                *)
(*                                                                         *)
(* The three credits of the code (data, uni streams, bidi streams) are one *)
(* function indexed by Resource.  A stream's bytes are counted, not        *)
(* represented; its signal prefix (stream type and session id) is one unit *)
(* at offset 0.  QUIC, which is external, keeps each stream ordered and    *)
(* reliable, and orders nothing between streams.                           *)
(***************************************************************************)
EXTENDS Integers, Sequences, FiniteSets

CONSTANTS
  UniStreams, BidiStreams,   \* the stream ids the sender can allocate, by kind
  InitialMax, GrantMax,      \* WT_INITIAL_MAX_* and WT_GRANT_MAX_*, by resource
  MaxWrite,                  \* bound: payload bytes the application writes to one stream
  Abortable                  \* the streams an application may reset or stop

Kinds    == {"uni", "bidi"}
Resource == {"data"} \cup Kinds
Stream   == UniStreams \cup BidiStreams
StreamsOf(k) == IF k = "uni" THEN UniStreams ELSE BidiStreams

ASSUME StreamsAssumption ==
  /\ IsFiniteSet(UniStreams) /\ IsFiniteSet(BidiStreams)
  /\ UniStreams \cap BidiStreams = {}
  /\ Abortable \subseteq Stream

ASSUME CreditAssumption ==
  /\ InitialMax \in [Resource -> Nat]
  /\ GrantMax \in [Resource -> Nat]
  /\ \A r \in Resource : InitialMax[r] < GrantMax[r]
  /\ MaxWrite \in Nat

VARIABLES
  \* the sender's WtSession
  sReady,        \* ready
  maxRemote,     \* fc_max_data_remote, fc_max_streams_{uni,bidi}_remote
  sent,          \* fc_data_sent; (next_uni - first) / 4; (next_bidi - first) / 4
  pendingOpens,  \* how many opens of each kind wait in pending_opens
  opened,        \* every stream id allocated so far
  inMap,         \* the stream ids present in `streams`
  prefixQueued,  \* the streams whose signal prefix is still in `out`
  out,           \* payload bytes still queued in `out`
  sendPayload,   \* send_payload
  finQueued, finSent,
  blockedAt,     \* data_blocked_at, streams_*_blocked_at (-1: None)
  \* QUIC
  created,       \* streams whose prefix QUIC accepted, i.e. that exist in QUIC
  emitted,       \* bytes of each stream, prefix included, put on the wire
  reset,         \* streams whose send side was reset, final size = emitted
  stopped,       \* the sender's QUIC stack processed a STOP_SENDING
  stopSent,      \* the receiver issued a STOP_SENDING
  capsules,      \* WT_MAX_* capsules in flight to the sender
  \* the receiver's WtSession
  rReady,        \* ready
  creditGranted, \* fc_credit_granted
  maxLocal,      \* fc_max_data_local, fc_max_streams_local
  received,      \* fc_data_received, fc_streams_received
  role,          \* Pending{Uni,Bidi} or WtData
  recvPayload,   \* recv_payload
  recvDead,      \* recv_dead
  flowErrors     \* the flow_error calls made by either endpoint

sendVars == <<sReady, maxRemote, sent, pendingOpens, opened, inMap, prefixQueued,
              out, sendPayload, finQueued, finSent, blockedAt>>
recvVars == <<rReady, creditGranted, maxLocal, received, role, recvPayload, recvDead>>
quicVars == <<created, emitted, reset, stopped, stopSent, capsules>>
vars == <<sendVars, recvVars, quicVars, flowErrors>>

FlowError == {"data limit exceeded", "stream limit exceeded", "credit must increase"}
Capsule   == [res : Resource, max : Nat]

TypeOK ==
  /\ sReady \in BOOLEAN /\ rReady \in BOOLEAN /\ creditGranted \in BOOLEAN
  /\ maxRemote \in [Resource -> Nat] /\ maxLocal \in [Resource -> Nat]
  /\ sent \in [Resource -> Nat] /\ received \in [Resource -> Nat]
  /\ pendingOpens \in [Kinds -> Nat]
  /\ opened \subseteq Stream /\ inMap \subseteq opened
  /\ prefixQueued \subseteq inMap
  /\ out \in [Stream -> Nat] /\ sendPayload \in [Stream -> Nat]
  /\ finQueued \subseteq Stream /\ finSent \subseteq Stream
  /\ blockedAt \in [Resource -> Nat \cup {-1}]
  /\ created \subseteq opened
  /\ emitted \in [Stream -> Nat]
  /\ reset \subseteq Stream /\ stopped \subseteq reset /\ stopSent \subseteq Stream
  /\ capsules \in Seq(Capsule)
  /\ role \in [Stream -> {"pending", "wtdata"}]
  /\ recvPayload \in [Stream -> Nat]
  /\ recvDead \subseteq Stream
  /\ flowErrors \subseteq FlowError

(***************************************************************************)
(* The sum of a counter over all streams, as the number of (stream, byte)  *)
(* pairs: a form about which the cardinality theorems can be used.         *)
(***************************************************************************)
Cells(f) == UNION {{s} \X (1 .. f[s]) : s \in Stream}
Total(f) == Cardinality(Cells(f))

Monus(a, b) == IF a > b THEN a - b ELSE 0        \* u64::saturating_sub

Init ==
  /\ sReady = FALSE /\ rReady = FALSE /\ creditGranted = FALSE
  /\ maxRemote = InitialMax /\ maxLocal = InitialMax
  /\ sent = [r \in Resource |-> 0] /\ received = [r \in Resource |-> 0]
  /\ pendingOpens = [k \in Kinds |-> 0]
  /\ opened = {} /\ inMap = {} /\ prefixQueued = {}
  /\ out = [s \in Stream |-> 0] /\ sendPayload = [s \in Stream |-> 0]
  /\ finQueued = {} /\ finSent = {}
  /\ blockedAt = [r \in Resource |-> -1]
  /\ created = {} /\ emitted = [s \in Stream |-> 0]
  /\ reset = {} /\ stopped = {} /\ stopSent = {}
  /\ capsules = <<>>
  /\ role = [s \in Stream |-> "pending"]
  /\ recvPayload = [s \in Stream |-> 0]
  /\ recvDead = {}
  /\ flowErrors = {}

-----------------------------------------------------------------------------
(* The sender *)

\* The session's handshake completed at the sender (SETTINGS seen, CONNECT answered).
SenderReady ==
  /\ ~sReady
  /\ sReady' = TRUE
  /\ UNCHANGED <<maxRemote, sent, pendingOpens, opened, inMap, prefixQueued, out,
                 sendPayload, finQueued, finSent, blockedAt,
                 recvVars, quicVars, flowErrors>>

\* Mutant: release_pending_opens without the peer's stream limit.
ReleasableUnlimited(pending, k) == IF sReady THEN pending[k] ELSE 0

\* How many waiting opens of kind k the peer's stream limit lets through.
Releasable(pending, k) ==
  LET credit == Monus(maxRemote[k], sent[k])
  IN IF ~sReady THEN 0 ELSE IF pending[k] <= credit THEN pending[k] ELSE credit

\* release_pending_opens allocates the set `new` of streams.
ReleasesExactly(pending, new) ==
  /\ new \subseteq Stream \ opened
  /\ \A k \in Kinds : Cardinality(new \cap StreamsOf(k)) = Releasable(pending, k)

ReleasedPending(pending, new) ==
  [k \in Kinds |-> pending[k] - Cardinality(new \cap StreamsOf(k))]

SentWith(new, data) ==
  [r \in Resource |-> IF r = "data" THEN data
                      ELSE sent[r] + Cardinality(new \cap StreamsOf(r))]

OpenStream(k) ==
  /\ pendingOpens[k] + Cardinality(opened \cap StreamsOf(k)) < Cardinality(StreamsOf(k))
  /\ LET pending == [pendingOpens EXCEPT ![k] = @ + 1]
     IN \E new \in SUBSET (Stream \ opened) :
          /\ ReleasesExactly(pending, new)
          /\ pendingOpens' = ReleasedPending(pending, new)
          /\ sent' = SentWith(new, sent["data"])
          /\ opened' = opened \cup new
          /\ inMap' = inMap \cup new
          /\ prefixQueued' = prefixQueued \cup new
  /\ UNCHANGED <<sReady, maxRemote, out, sendPayload, finQueued, finSent, blockedAt,
                 recvVars, quicVars, flowErrors>>

\* One byte of application payload; a larger chunk is several of them.
StreamWrite(s) ==
  /\ s \in inMap \ (finQueued \cup finSent)
  /\ out[s] + sendPayload[s] < MaxWrite
  /\ out' = [out EXCEPT ![s] = @ + 1]
  /\ UNCHANGED <<sReady, maxRemote, sent, pendingOpens, opened, inMap, prefixQueued,
                 sendPayload, finQueued, finSent, blockedAt,
                 recvVars, quicVars, flowErrors>>

StreamFin(s) ==
  /\ s \in inMap \ (finQueued \cup finSent)
  /\ finQueued' = finQueued \cup {s}
  /\ UNCHANGED <<sReady, maxRemote, sent, pendingOpens, opened, inMap, prefixQueued,
                 out, sendPayload, finSent, blockedAt, recvVars, quicVars, flowErrors>>

\* Mutant: a reset never gives credit back.
UnsentForgotten(s, isReset) == 0

\* Mutant: a reset gives back all that was charged, sent or not.
UnsentWhole(s, isReset) == IF s \in inMap /\ isReset THEN sendPayload[s] ELSE 0

\* Payload of s that a reset left out of the final size.
Unsent(s, isReset) ==
  IF s \in inMap /\ isReset THEN Monus(sendPayload[s], Monus(emitted[s], 1)) ELSE 0

StreamReset(s) ==
  /\ s \in inMap \cap Abortable
  /\ reset' = reset \cup ({s} \cap created)
  /\ LET back == Unsent(s, s \in created)
     IN /\ sendPayload' = [sendPayload EXCEPT ![s] = @ - back]
        /\ sent' = [sent EXCEPT !["data"] = Monus(@, back)]
  /\ out' = [out EXCEPT ![s] = 0]
  /\ prefixQueued' = prefixQueued \ {s}
  /\ finSent' = finSent \cup {s}
  /\ UNCHANGED <<sReady, maxRemote, pendingOpens, opened, inMap, finQueued, blockedAt,
                 recvVars, created, emitted, stopped, stopSent, capsules, flowErrors>>

-----------------------------------------------------------------------------
(***************************************************************************)
(* flush, sending half.  QUIC accepts the prefixes of the streams in `pre` *)
(* and pay[s] bytes of s, as much of the queues as its own flow control    *)
(* lets through; gone is what the final retain() drops.                    *)
(***************************************************************************)
Reconciled == [s \in Stream |-> sendPayload[s] - Unsent(s, s \in reset)]

\* Mutant: reconcile_send_final_size lowers the stream's charge but not the session's.
ReconciledStreamOnly == sent["data"]

ReconciledData == Monus(sent["data"], Total([s \in Stream |-> Unsent(s, s \in reset)]))

\* Mutant: flush_stream without the session's data limit.
AcceptsUnlimited(queued, pre, pay) ==
  /\ pre \subseteq queued \ reset
  /\ \A s \in Stream : /\ pay[s] <= out[s]
                       /\ pay[s] > 0 => s \in inMap \ reset /\ s \notin queued \ pre

Accepts(queued, pre, pay) ==
  /\ pre \subseteq queued \ reset
  /\ \A s \in Stream : /\ pay[s] <= out[s]
                       /\ pay[s] > 0 => s \in inMap \ reset /\ s \notin queued \ pre
  /\ Total(pay) <= Monus(maxRemote["data"], ReconciledData)

\* The stopped streams whose queues a flush may find StreamStopped, settle and drop: a
\* stream_send has to reach the stream, and payload is only sent with session credit.
StoppedNow(queued) ==
  {s \in inMap \cap stopped :
     s \in queued \/ (out[s] > 0 /\ ReconciledData < maxRemote["data"])}

Drained(s, queued, o) == s \notin queued /\ o[s] = 0

\* retain(): a uni stream goes once its send side is done; a bidi stream also
\* waits for its receiving side, which belongs to the opposite direction.
Prunable(map, queued, o, fins) == {s \in map : s \in fins /\ Drained(s, queued, o)}

Blocked(r, sentNow, o, map, pending) ==
  /\ sentNow[r] >= maxRemote[r]
  /\ IF r = "data" THEN \E s \in map : o[s] > 0 ELSE pending[r] > 0

\* One flush that opens `new`, then hands QUIC the prefixes `pre` and the bytes `pay`, and
\* finds the streams in `dead` stopped.
FlushWith(new, pre, pay, dead) ==
  LET queued == prefixQueued \cup new
      map    == inMap \cup new
      left   == (queued \ pre) \ dead
      o      == [s \in Stream |-> IF s \in dead THEN 0 ELSE out[s] - pay[s]]
      fins   == finSent \cup dead
                  \cup {s \in finQueued \cap map : Drained(s, left, o) /\ s \notin reset}
      sentNow == SentWith(new, ReconciledData + Total(pay))
      pending == ReleasedPending(pendingOpens, new)
  IN /\ ReleasesExactly(pendingOpens, new)
     /\ Accepts(queued, pre, pay)
     /\ dead \subseteq StoppedNow(queued)
     /\ \E gone \in SUBSET Prunable(map, left, o, fins) :
          /\ Prunable(map, left, o, fins) \cap UniStreams \subseteq gone
          /\ inMap' = map \ gone
     /\ opened' = opened \cup new
     /\ pendingOpens' = pending
     /\ prefixQueued' = left
     /\ out' = o
     /\ sendPayload' = [s \in Stream |-> Reconciled[s] + pay[s]]
     /\ sent' = sentNow
     /\ finSent' = fins
     /\ blockedAt' = [r \in Resource |-> IF Blocked(r, sentNow, o, map, pending)
                                         THEN maxRemote[r] ELSE blockedAt[r]]
     /\ created' = created \cup pre

Flush ==
  /\ \E new \in SUBSET (Stream \ opened), pay \in [Stream -> 0 .. MaxWrite],
        dead \in SUBSET (inMap \cap stopped) :
       \E pre \in SUBSET (prefixQueued \cup new) : FlushWith(new, pre, pay, dead)
  /\ UNCHANGED <<sReady, maxRemote, finQueued, recvVars, emitted, reset, stopped,
                 stopSent, capsules, flowErrors>>

\* scan_capsules on a WT_MAX_* capsule: the limit must grow.
RecvCapsule ==
  /\ sReady
  /\ capsules # <<>>
  /\ LET c == Head(capsules)
     IN IF c.max > maxRemote[c.res]
        THEN /\ maxRemote' = [maxRemote EXCEPT ![c.res] = c.max]
             /\ UNCHANGED flowErrors
        ELSE /\ flowErrors' = flowErrors \cup {"credit must increase"}
             /\ UNCHANGED maxRemote
  /\ capsules' = Tail(capsules)
  /\ UNCHANGED <<sReady, sent, pendingOpens, opened, inMap, prefixQueued, out,
                 sendPayload, finQueued, finSent, blockedAt, recvVars,
                 created, emitted, reset, stopped, stopSent>>

-----------------------------------------------------------------------------
(* QUIC *)

\* A byte the stream accepted is put on the wire.
Emit(s) ==
  /\ s \in created \ reset
  /\ emitted[s] < 1 + sendPayload[s]
  /\ emitted' = [emitted EXCEPT ![s] = @ + 1]
  /\ UNCHANGED <<sendVars, recvVars, created, reset, stopped, stopSent, capsules, flowErrors>>

\* A STOP_SENDING reaches the sender's QUIC stack, which resets the stream.
RecvStopSending(s) ==
  /\ s \in stopSent \ stopped
  /\ stopped' = stopped \cup {s}
  /\ reset' = reset \cup {s}
  /\ UNCHANGED <<sendVars, recvVars, created, emitted, stopSent, capsules, flowErrors>>

-----------------------------------------------------------------------------
(* The receiver *)

\* The session's handshake completed at the receiver.
ReceiverReady ==
  /\ ~rReady
  /\ rReady' = TRUE
  /\ UNCHANGED <<sendVars, quicVars, creditGranted, maxLocal, received, role,
                 recvPayload, recvDead, flowErrors>>

Exceeded(recv) ==
  (IF recv["data"] > maxLocal["data"] THEN {"data limit exceeded"} ELSE {})
    \cup (IF \E k \in Kinds : recv[k] > maxLocal[k] THEN {"stream limit exceeded"} ELSE {})

KindOf(s) == IF s \in UniStreams THEN "uni" ELSE "bidi"

\* account_incoming (when the stream is classified) and account_receive.
Accounted(s, amount, incoming) ==
  [received EXCEPT !["data"] = @ + amount,
                   ![KindOf(s)] = @ + (IF incoming THEN 1 ELSE 0)]

\* Offset of the next byte of s the receiver reads.
ReadOffset(s) == IF role[s] = "pending" THEN 0 ELSE 1 + recvPayload[s]

\* The last byte of s and its FIN arrived.
FinReached(s, off) ==
  s \in (finSent \cap created) \ reset /\ emitted[s] = 1 + sendPayload[s] /\ off = emitted[s]

\* on_readable reads n bytes; the first one completes the prefix and classifies s.
OnReadable(s, n) ==
  /\ flowErrors = {}
  /\ s \notin recvDead
  /\ ReadOffset(s) + n <= emitted[s]
  /\ n > 0 \/ (role[s] = "wtdata" /\ FinReached(s, ReadOffset(s)))
  /\ LET incoming == role[s] = "pending"
         amount   == IF incoming THEN n - 1 ELSE n
         recv     == Accounted(s, amount, incoming)
     IN /\ role' = [role EXCEPT ![s] = "wtdata"]
        /\ received' = recv
        /\ recvPayload' = [recvPayload EXCEPT ![s] = @ + amount]
        /\ flowErrors' = flowErrors \cup Exceeded(recv)
        /\ recvDead' = IF Exceeded(recv) = {} /\ FinReached(s, ReadOffset(s) + n)
                       THEN recvDead \cup {s} ELSE recvDead
  /\ UNCHANGED <<sendVars, quicVars, rReady, creditGranted, maxLocal>>

\* on_readable meets RESET_STREAM: only a classified stream is charged for the
\* bytes of the final size it never read.
OnReset(s) ==
  /\ flowErrors = {}
  /\ s \in reset \ recvDead
  /\ LET missing == IF role[s] = "wtdata"
                    THEN Monus(Monus(emitted[s], 1), recvPayload[s]) ELSE 0
         recv    == Accounted(s, missing, FALSE)
     IN /\ received' = recv
        /\ recvPayload' = [recvPayload EXCEPT ![s] = @ + missing]
        /\ flowErrors' = flowErrors \cup Exceeded(recv)
  /\ recvDead' = recvDead \cup {s}
  /\ UNCHANGED <<sendVars, quicVars, rReady, creditGranted, maxLocal, role>>

\* The receiving application cancels s: STOP_SENDING, and s is no longer read.
StreamStopSending(s) ==
  /\ s \in Abortable
  /\ role[s] = "wtdata"
  /\ s \notin recvDead
  /\ recvDead' = recvDead \cup {s}
  /\ stopSent' = stopSent \cup {s}
  /\ UNCHANGED <<sendVars, created, emitted, reset, stopped, capsules, rReady, creditGranted,
                 maxLocal, received, role, recvPayload, flowErrors>>

\* Mutant: the new limit is counted from the old one.
ReplenishedFromLimit(local, r) ==
  IF Monus(local[r], received[r]) <= GrantMax[r] \div 2 THEN local[r] + GrantMax[r] ELSE local[r]

\* Mutant: only the stream limits are replenished.
ReplenishedStreamsOnly(local, r) ==
  IF r # "data" /\ Monus(local[r], received[r]) <= GrantMax[r] \div 2
  THEN received[r] + GrantMax[r] ELSE local[r]

\* flush, receiving half: the initial grant, then replenishment below half.
Replenished(local, r) ==
  IF Monus(local[r], received[r]) <= GrantMax[r] \div 2 /\ received[r] + GrantMax[r] > local[r]
  THEN received[r] + GrantMax[r] ELSE local[r]

\* queue_session_capsule: a WT_MAX_* capsule for r if its limit grew.
QueueRaise(q, r, old, new) ==
  IF new[r] > old[r] THEN Append(q, [res |-> r, max |-> new[r]]) ELSE q

QueueRaises(q, old, new) ==
  QueueRaise(QueueRaise(QueueRaise(q, "data", old, new), "uni", old, new), "bidi", old, new)

\* The limits after the grant; only the first flush of a ready session changes them.
Granted == IF creditGranted THEN maxLocal ELSE GrantMax

FlushReceiver ==
  /\ rReady
  /\ flowErrors = {}
  /\ LET limits == [r \in Resource |-> Replenished(Granted, r)]
     IN /\ creditGranted' = TRUE
        /\ maxLocal' = limits
        /\ capsules' = QueueRaises(QueueRaises(capsules, maxLocal, Granted), Granted, limits)
        /\ <<creditGranted', maxLocal'>> # <<creditGranted, maxLocal>>
  /\ UNCHANGED <<sendVars, created, emitted, reset, stopped, stopSent, rReady, received, role,
                 recvPayload, recvDead, flowErrors>>

-----------------------------------------------------------------------------
Next ==
  \/ SenderReady \/ ReceiverReady
  \/ \E k \in Kinds : OpenStream(k)
  \/ \E s \in Stream : \/ StreamWrite(s) \/ StreamFin(s) \/ StreamReset(s)
                       \/ Emit(s) \/ RecvStopSending(s)
                       \/ OnReset(s) \/ StreamStopSending(s)
                       \/ \E n \in 0 .. MaxWrite + 1 : OnReadable(s, n)
  \/ Flush \/ RecvCapsule \/ FlushReceiver

Spec == Init /\ [][Next]_vars

\* The drivers of both endpoints keep flushing and reading, QUIC keeps sending
\* and delivering; the applications (OpenStream, StreamWrite, ...) owe nothing.
Fairness ==
  /\ WF_vars(SenderReady) /\ WF_vars(ReceiverReady)
  /\ WF_vars(Flush)
  /\ WF_vars(RecvCapsule) /\ WF_vars(FlushReceiver)
  /\ \A s \in Stream : /\ WF_vars(Emit(s)) /\ WF_vars(RecvStopSending(s))
                       /\ WF_vars(OnReset(s))
                       /\ WF_vars(\E n \in 0 .. MaxWrite + 1 : OnReadable(s, n))

FairSpec == Spec /\ Fairness

-----------------------------------------------------------------------------
(***************************************************************************)
(* Properties                                                              *)
(***************************************************************************)

\* What each direction has consumed equals the sum of what its streams consumed:
\* reset bookkeeping (reconcile_send_final_size, the final size charged in
\* on_readable) never loses, invents or underflows a byte of either counter.
CreditConserved ==
  /\ sent["data"] = Total(sendPayload)
  /\ received["data"] = Total(recvPayload)
  /\ \A k \in Kinds : /\ sent[k] = Cardinality(opened \cap StreamsOf(k))
                      /\ received[k] = Cardinality({s \in StreamsOf(k) : role[s] = "wtdata"})

\* The limits in flight rise strictly, above what the sender knows and up to what the
\* receiver enforces.
InOrder(caps, known, enforced) ==
  \A i \in 1 .. Len(caps) :
    /\ known[caps[i].res] < caps[i].max
    /\ caps[i].max <= enforced[caps[i].res]
    /\ \A j \in 1 .. i - 1 : caps[j].res = caps[i].res => caps[j].max < caps[i].max

\* Every limit travels upwards: what was received <= what was sent <= the limit the
\* sender knows < every limit in flight, in order, <= the limit the receiver enforces.
CreditChain ==
  /\ \A r \in Resource : /\ received[r] <= sent[r]
                         /\ sent[r] <= maxRemote[r]
                         /\ maxRemote[r] <= maxLocal[r]
  /\ InOrder(capsules, maxRemote, maxLocal)

\* Two endpoints that run this code never end a session with WT_FLOW_CONTROL_ERROR:
\* no account_incoming / account_receive overrun, no non-increasing WT_MAX_* capsule,
\* whatever the interleaving of data, resets, STOP_SENDING and credit updates.
NoFlowError == flowErrors = {}

\* The peer never holds more than one grant of unused credit (flush's replenishment
\* computes the new limit from what was received, not from the old limit).
OutstandingCreditBounded ==
  \A r \in Resource : maxLocal[r] <= received[r] + GrantMax[r]

\* Once the receiver processed the reset of a stream it had classified, both ends
\* charge the session the same number of bytes for it, although the sender had
\* handed QUIC bytes that were never serialized and the receiver never read others.
ResetAgreement ==
  \A s \in (reset \cap recvDead) \ stopSent :
    role[s] = "wtdata" => recvPayload[s] = sendPayload[s]

\* Stream by stream, what the receiver charged lags what went on the wire, which lags
\* what the sender charged, although a reset lowers the sender's charge afterwards.
StreamLag ==
  \A s \in Stream :
    /\ emitted[s] <= 1 + sendPayload[s]
    /\ s \notin created => sendPayload[s] = 0 /\ emitted[s] = 0
    /\ IF role[s] = "wtdata" THEN recvPayload[s] + 1 <= emitted[s] ELSE recvPayload[s] = 0

\* A stream QUIC does not know yet still has its prefix queued, or it was reset first.
PrefixFirst ==
  \A s \in Stream : \/ s \in created \/ s \in prefixQueued
                    \/ out[s] = 0 /\ (s \in finSent \/ s \notin opened)

GrantOnce == ~creditGranted => maxLocal = InitialMax

\* The inductive invariant behind CreditChain, NoFlowError and OutstandingCreditBounded:
\* credit is conserved, each stream's counters lag in order, and limits only rise.
Inv ==
  /\ TypeOK
  /\ CreditConserved
  /\ \A r \in Resource : sent[r] <= maxRemote[r] /\ maxRemote[r] <= maxLocal[r]
  /\ InOrder(capsules, maxRemote, maxLocal)
  /\ StreamLag /\ PrefixFirst /\ GrantOnce
  /\ OutstandingCreditBounded
  /\ NoFlowError

\* What makes ResetAgreement inductive: a finished or reset queue is empty; a reset of
\* the sender's own fixed its charge at the final size; and a stream the receiver is done
\* with was read, or charged, to an end that no longer moves.
FinDrained == \A s \in finSent : out[s] = 0
ResetSettled == \A s \in reset \ stopSent : sendPayload[s] = Monus(emitted[s], 1)
EndSettled ==
  \A s \in recvDead \ stopSent : role[s] = "wtdata" =>
    /\ recvPayload[s] = sendPayload[s] /\ emitted[s] = 1 + sendPayload[s]
    /\ s \in reset \cup finSent

ResetInv == FinDrained /\ ResetSettled /\ EndSettled

\* The whole protocol, streams, resets and capsules included, is a simple exchange of
\* credit: what is spent stays between what the receiver counted and the limit the
\* sender knows even when a reset takes credit back, and limits only rise, at the
\* receiver first.
Contract == INSTANCE CreditContract
              WITH Initial <- InitialMax, Grant <- GrantMax,
                   spent <- sent, known <- maxRemote, counted <- received, offered <- maxLocal

ImplementsContract == Contract!Spec

\* Some stream was cut short: reset, stopped, or dropped before QUIC knew it.
CutShort == reset # {} \/ stopSent # {} \/ finSent \ created # {}

\* A write is not starved: queued payload eventually leaves the queue, because flush
\* replenishes before the peer reaches the limit it was told, whatever the other streams
\* take of the shared credit, as long as no stream is cut short.
WritesDrain == \A s \in Stream : (out[s] > 0) ~> (out[s] = 0 \/ CutShort)

\* The same without the exception: flush replenishes "before the peer reaches the
\* advertised limit".
WritesAlwaysDrain == \A s \in Stream : (out[s] > 0) ~> (out[s] = 0)
=============================================================================
