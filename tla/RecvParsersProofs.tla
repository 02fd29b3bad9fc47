------------------------- MODULE RecvParsersProofs -------------------------
(***************************************************************************)
(* TLAPS proofs about the receive parsers: the session never leaves its    *)
(* memory budget, lets go of all of it when it closes, and delivers        *)
(* nothing while the application is behind; for all streams, all bytes the *)
(* peer may send and every way QUIC may cut them.                          *)
(***************************************************************************)
EXTENDS RecvParsers, ParserMemoryProofs, H3CodecProofs

-----------------------------------------------------------------------------
(* Types *)

\* What may be left to do.
TaskItem ==
  [op : {"parse", "taken", "drop", "scan", "cut", "limit"}, id : Stream]
    \cup [op : {"resolve", "after"}, id : Stream, fin : BOOLEAN]
    \cup [op : {"recv"}, id : Stream, fin : BOOLEAN, bytes : Seq(Byte)]
    \cup [op : {"frame", "capsule"}, id : Stream, ty : Nat]

\* The SETTINGS a peer can send, and the limits they and WT_MAX_DATA can set.
KnownSettings == {NoSettings} \cup {SettingsPairs(p) : p \in Seq(Byte)}
KnownLimit == Nat \cup {Setting(p, SettingsInitialMaxData) : p \in KnownSettings}

SessionRecord ==
  [role : [Stream -> RoleName], dead : SUBSET Stream, shut : SUBSET Stream, bad : SUBSET Stream,
   headersDone : SUBSET Stream, finSent : SUBSET Bidis, settings : KnownSettings,
   limit : KnownLimit, ready : BOOLEAN, draining : BOOLEAN, cause : Causes]

PeerRecord == [pos : Nat, end : {"open", "fin", "reset"}, code : Int]

\* The state is well typed, and the memory of ParserMemory is accounted for.
Typed ==
  /\ MemInv
  /\ server \in Roles /\ script \in Scripts /\ bp \in BOOLEAN
  /\ peer \in [Stream -> PeerRecord]
  /\ \A s \in Stream : peer[s].pos <= Len(script.of[s])
  /\ ses \in SessionRecord
  /\ task \in Seq(TaskItem)

\* Every stream has its buffers, and no two of them are the same.
LEMMA Buffers ==
  /\ \A s \in Stream : {FramesBuf(s), ClassBuf(s), PayloadBuf(s)} \subseteq Buffer
  /\ {CapsuleBuf, ValueBuf, OtherBuf} \subseteq Buffer
  /\ \A s, t \in Stream :
       /\ FramesBuf(s) # ClassBuf(t) /\ FramesBuf(s) # PayloadBuf(t) /\ ClassBuf(s) # PayloadBuf(t)
       /\ {FramesBuf(s), ClassBuf(s), PayloadBuf(s)} \cap {CapsuleBuf, ValueBuf, OtherBuf} = {}
       /\ s # t => /\ FramesBuf(s) # FramesBuf(t) /\ ClassBuf(s) # ClassBuf(t)
                   /\ PayloadBuf(s) # PayloadBuf(t)
  /\ CapsuleBuf # ValueBuf /\ CapsuleBuf # OtherBuf /\ ValueBuf # OtherBuf
  /\ ParserBuffers \subseteq Buffer
<1>1. Buffer = {FramesBuf(s) : s \in Stream} \cup {ClassBuf(s) : s \in Stream}
                \cup {PayloadBuf(s) : s \in Stream} \cup {CapsuleBuf, ValueBuf, OtherBuf}
  BY LayoutAssumption
<1>2. /\ \A s \in Stream : {FramesBuf(s), ClassBuf(s), PayloadBuf(s)} \subseteq Buffer
      /\ {CapsuleBuf, ValueBuf, OtherBuf} \subseteq Buffer
  BY <1>1
<1>3. ParserBuffers \subseteq Buffer
  BY <1>1 DEF ParserBuffers
<1>4. \A s, t \in Stream :
       /\ FramesBuf(s) # ClassBuf(t) /\ FramesBuf(s) # PayloadBuf(t) /\ ClassBuf(s) # PayloadBuf(t)
       /\ {FramesBuf(s), ClassBuf(s), PayloadBuf(s)} \cap {CapsuleBuf, ValueBuf, OtherBuf} = {}
       /\ s # t => /\ FramesBuf(s) # FramesBuf(t) /\ ClassBuf(s) # ClassBuf(t)
                   /\ PayloadBuf(s) # PayloadBuf(t)
  BY DEF FramesBuf, ClassBuf, PayloadBuf, CapsuleBuf, ValueBuf, OtherBuf
<1>5. CapsuleBuf # ValueBuf /\ CapsuleBuf # OtherBuf /\ ValueBuf # OtherBuf
  BY DEF CapsuleBuf, ValueBuf, OtherBuf
<1> QED
  BY <1>2, <1>3, <1>4, <1>5

\* Bytes are octets.
LEMMA ByteIsOctet == Byte = Octet
  BY PeerAssumption DEF Octet

\* The item on top, and what is below it.
LEMMA TopTyped ==
  ASSUME task \in Seq(TaskItem), task # <<>>
  PROVE  /\ Top \in TaskItem /\ Tail(task) \in Seq(TaskItem) /\ Top.id \in Stream
         /\ Top.op \in {"resolve", "after", "recv"} => Top.fin \in BOOLEAN
         /\ Top.op = "recv" => Top.bytes \in Seq(Byte)
         /\ Top.op \in {"frame", "capsule"} => Top.ty \in Nat
<1>1. Top \in TaskItem /\ Tail(task) \in Seq(TaskItem)
  BY DEF Top
<1> HIDE DEF Top
<1> QED
  BY <1>1 DEF TaskItem

\* Replacing the top item.
LEMMA ThenTyped ==
  ASSUME task \in Seq(TaskItem), task # <<>>, NEW items \in Seq(TaskItem), Then(items)
  PROVE  task' \in Seq(TaskItem)
<1>1. Tail(task) \in Seq(TaskItem)
  OBVIOUS
<1> QED
  BY <1>1 DEF Then

\* Dropping the top item.
LEMMA ThenNothing ==
  ASSUME task \in Seq(TaskItem), task # <<>>, Then(<<>>)
  PROVE  task' = Tail(task) /\ task' \in Seq(TaskItem)
<1>1. Tail(task) \in Seq(TaskItem)
  OBVIOUS
<1> QED
  BY <1>1 DEF Then

\* The items the parsers push.
LEMMA ItemsTyped ==
  ASSUME NEW s \in Stream
  PROVE  /\ \A op \in {"parse", "taken", "drop", "scan", "cut", "limit"} : Item(op, s) \in TaskItem
         /\ \A op \in {"resolve", "after"}, fin \in BOOLEAN :
              [op |-> op, id |-> s, fin |-> fin] \in TaskItem
         /\ \A fin \in BOOLEAN, bytes \in Seq(Byte) :
              [op |-> "recv", id |-> s, fin |-> fin, bytes |-> bytes] \in TaskItem
         /\ \A op \in {"frame", "capsule"}, ty \in Nat : [op |-> op, id |-> s, ty |-> ty] \in TaskItem
  BY DEF Item, TaskItem

\* A step that leaves the buffers alone.
LEMMA MemUnchanged ==
  ASSUME MemInv, UNCHANGED memVars
  PROVE  MemInv'
  BY DEF memVars, MemInv, MemTypeOK, Budget, ChargedExactly, WithinLimits, EmptyHoldsNothing,
         BuffersOf

\* A refused push.
LEMMA RefusedKeeps ==
  ASSUME MemInv, NEW b \in Buffer, NEW bytes \in Seq(Byte), Refused(b, bytes)
  PROVE  MemInv' /\ data' = data
<1>1. UNCHANGED memVars
  BY RefusedUnchanged DEF MemInv
<1> QED
  BY <1>1, MemUnchanged DEF memVars

\* A frame or capsule at the front of a buffer.
LEMMA UnitTyped ==
  ASSUME MemInv, NEW b \in Buffer
  PROVE  /\ data[b] \in Seq(Octet)
         /\ NextUnit(b) \in [known : BOOLEAN, ty : Nat, start : Nat, len : Nat]
         /\ Total(NextUnit(b)) \in Nat
         /\ Whole(b) => UnitValue(data[b], NextUnit(b)) \in Seq(Byte)
<1>1. data[b] \in Seq(Octet)
  BY ByteIsOctet DEF MemInv, MemTypeOK
<1> DEFINE u == NextUnit(b)
<1>2. u \in [known : BOOLEAN, ty : Nat, start : Nat, len : Nat]
  BY <1>1, ReadUnitType DEF NextUnit
<1> HIDE DEF u
<1>3. Total(u) \in Nat
  BY <1>2 DEF Total
<1>4. ASSUME Whole(b) PROVE UnitValue(data[b], u) \in Seq(Octet)
  <2> DEFINE d == data[b]
  <2>1. d \in Seq(Octet) /\ u.start + u.len <= Len(d) /\ u.start \in Nat /\ u.len \in Nat
    BY <1>1, <1>2, <1>3, <1>4 DEF Whole, Total, u
  <2> HIDE DEF d
  <2>2. SubSeq(d, u.start + 1, u.start + u.len) \in Seq(Octet)
    BY <2>1
  <2> QED
    BY <2>2 DEF UnitValue, d
<1> QED
  BY <1>1, <1>2, <1>3, <1>4, ByteIsOctet DEF u

\* mark_closed.
LEMMA MarkClosedTyped ==
  ASSUME MemInv, NEW s \in SessionRecord, NEW cause \in Causes \ {"none"},
         NEW locals \in SUBSET Buffer, MarkClosed(s, cause, locals)
  PROVE  /\ MemInv'
         /\ ses' \in SessionRecord /\ ses'.cause = cause /\ ses'.role = s.role
         /\ data' = [b \in Buffer |-> IF b \in ParserBuffers \cup locals THEN <<>> ELSE data[b]]
<1>1. ParserBuffers \cup locals \in SUBSET Buffer /\ Cleared(ParserBuffers \cup locals)
  BY Buffers DEF MarkClosed
<1>2. MemInv'
  BY <1>1, ClearedKeeps
<1>3. ses' = [s EXCEPT !.cause = cause, !.dead = @ \cup {x \in Stream : s.role[x] # "none"}]
  BY DEF MarkClosed
<1>4. ses' \in SessionRecord /\ ses'.cause = cause /\ ses'.role = s.role
  BY <1>3 DEF SessionRecord
<1> QED
  BY <1>1, <1>2, <1>4 DEF Cleared

\* A turn of a parser's loop changes the buffers, the session and what is left to do.
LEMMA TurnTyped ==
  ASSUME Typed, Quiet, MemInv', ses' \in SessionRecord, task' \in Seq(TaskItem)
  PROVE  Typed'
  BY DEF Typed, Quiet

\* Chunks of a control or CONNECT stream.
LEMMA RecvFramesTyped ==
  ASSUME Typed, RecvFrames PROVE Typed'
<1> DEFINE s == Top.id
<1>1. /\ task # <<>> /\ task \in Seq(TaskItem) /\ MemInv /\ ses \in SessionRecord
      /\ Top.op = "recv" /\ Quiet
      /\ Then(<<Item("parse", s), [op |-> "after", id |-> s, fin |-> Top.fin]>>)
  BY DEF Typed, RecvFrames, Doing
<1>2. s \in Stream /\ Top.fin \in BOOLEAN /\ Top.bytes \in Seq(Byte) /\ FramesBuf(s) \in Buffer
  BY <1>1, TopTyped, Buffers
<1>3. task' \in Seq(TaskItem)
  <2>1. <<Item("parse", s), [op |-> "after", id |-> s, fin |-> Top.fin]>> \in Seq(TaskItem)
    BY <1>2, ItemsTyped
  <2> QED
    BY <1>1, <2>1, ThenTyped
<1>4. MemInv' /\ ses' \in SessionRecord
  <2>1. CASE UNCHANGED <<memVars, ses>>
    BY <1>1, <2>1, MemUnchanged
  <2>2. CASE Extended(FramesBuf(s), Top.bytes) /\ UNCHANGED ses
    BY <1>1, <1>2, <2>2, ExtendedKeeps
  <2>3. CASE Refused(FramesBuf(s), Top.bytes) /\ ses' = [ses EXCEPT !.bad = @ \cup {s}]
    <3>1. ses.bad \cup {s} \in SUBSET Stream
      BY <1>1, <1>2 DEF SessionRecord
    <3> QED
      BY <1>1, <1>2, <2>3, <3>1, RefusedKeeps DEF SessionRecord
  <2> QED
    BY <2>1, <2>2, <2>3 DEF RecvFrames
<1> QED
  BY <1>1, <1>3, <1>4, TurnTyped

\* Chunks of QPACK and ignored streams.
LEMMA RecvDiscardedTyped ==
  ASSUME Typed, RecvDiscarded PROVE Typed'
<1> DEFINE s == Top.id
<1>1. /\ task # <<>> /\ task \in Seq(TaskItem) /\ MemInv /\ ses \in SessionRecord
      /\ Top.op = "recv" /\ Quiet /\ Then(<<>>)
  BY DEF Typed, RecvDiscarded, Doing
<1>2. s \in Stream /\ Top.fin \in BOOLEAN
  BY <1>1, TopTyped
<1>3. task' \in Seq(TaskItem)
  BY <1>1, ThenNothing
<1>4. MemInv' /\ ses' \in SessionRecord
  <2>1. CASE MarkClosed(ses, "protocol", {})
    BY <1>1, <2>1, MarkClosedTyped DEF Causes
  <2>2. CASE UNCHANGED <<memVars, ses>>
    BY <1>1, <2>2, MemUnchanged
  <2>3. CASE /\ ses' = [ses EXCEPT !.dead = IF Top.fin THEN @ \cup {s} ELSE @]
             /\ UNCHANGED memVars
    <3>1. (IF Top.fin THEN ses.dead \cup {s} ELSE ses.dead) \in SUBSET Stream
      BY <1>1, <1>2 DEF SessionRecord
    <3> QED
      BY <1>1, <1>2, <2>3, <3>1, MemUnchanged DEF SessionRecord
  <2> QED
    BY <2>1, <2>2, <2>3 DEF RecvDiscarded
<1> QED
  BY <1>1, <1>3, <1>4, TurnTyped

\* Chunks of data streams.
LEMMA RecvDataTyped ==
  ASSUME Typed, RecvData PROVE Typed'
<1> DEFINE s == Top.id
<1>1. /\ task # <<>> /\ task \in Seq(TaskItem) /\ MemInv /\ ses \in SessionRecord
      /\ Top.op = "recv" /\ Quiet /\ Then(<<>>) /\ UNCHANGED memVars
      /\ ses' = [ses EXCEPT !.dead = IF Top.fin THEN @ \cup {s} ELSE @]
  BY DEF Typed, RecvData, Doing
<1>2. s \in Stream /\ Top.fin \in BOOLEAN
  BY <1>1, TopTyped
<1>3. task' \in Seq(TaskItem)
  BY <1>1, ThenNothing
<1>4. MemInv' /\ ses' \in SessionRecord
  <2>1. (IF Top.fin THEN ses.dead \cup {s} ELSE ses.dead) \in SUBSET Stream
    BY <1>1, <1>2 DEF SessionRecord
  <2> QED
    BY <1>1, <1>2, <2>1, MemUnchanged DEF SessionRecord
<1> QED
  BY <1>1, <1>3, <1>4, TurnTyped

\* Chunks of streams that are not classified yet.
LEMMA RecvPendingTyped ==
  ASSUME Typed, RecvPending PROVE Typed'
<1> DEFINE s == Top.id
<1>1. /\ task # <<>> /\ task \in Seq(TaskItem) /\ MemInv /\ ses \in SessionRecord
      /\ Top.op = "recv" /\ Quiet
  BY DEF Typed, RecvPending, Doing
<1>2. s \in Stream /\ Top.fin \in BOOLEAN /\ Top.bytes \in Seq(Byte) /\ ClassBuf(s) \in Buffer
  BY <1>1, TopTyped, Buffers
<1>3. /\ <<[op |-> "resolve", id |-> s, fin |-> Top.fin]>> \in Seq(TaskItem)
      /\ <<Item("limit", s)>> \in Seq(TaskItem)
  BY <1>2, ItemsTyped
<1>4. CASE /\ Extended(ClassBuf(s), Top.bytes)
           /\ Then(<<[op |-> "resolve", id |-> s, fin |-> Top.fin]>>)
           /\ UNCHANGED ses
  <2>1. MemInv'
    BY <1>1, <1>2, <1>4, ExtendedKeeps
  <2>2. task' \in Seq(TaskItem)
    BY <1>1, <1>3, <1>4, ThenTyped
  <2> QED
    BY <1>1, <1>4, <2>1, <2>2, TurnTyped
<1>5. CASE /\ Refused(ClassBuf(s), Top.bytes)
           /\ Then(<<Item("limit", s)>>) /\ UNCHANGED ses
  <2>1. MemInv'
    BY <1>1, <1>2, <1>5, RefusedKeeps
  <2>2. task' \in Seq(TaskItem)
    BY <1>1, <1>3, <1>5, ThenTyped
  <2> QED
    BY <1>1, <1>5, <2>1, <2>2, TurnTyped
<1> QED
  BY <1>4, <1>5 DEF RecvPending

\* The type of a stream, and what follows it.
LEMMA TypeOfTyped ==
  ASSUME MemInv, NEW s \in Stream
  PROVE  /\ data[ClassBuf(s)] \in Seq(Octet)
         /\ TypeOf(s) \in [val : Nat, len : {0, 1, 2, 4, 8}] /\ TypeOf(s).len <= Len(data[ClassBuf(s)])
         /\ Suffix(data[ClassBuf(s)], TypeOf(s).len) \in Seq(Byte)
<1> DEFINE d == data[ClassBuf(s)]
           k == TypeOf(s).len
<1>1. d \in Seq(Octet)
  BY Buffers, ByteIsOctet DEF MemInv, MemTypeOK
<1>2. TypeOf(s) \in [val : Nat, len : {0, 1, 2, 4, 8}] /\ k <= Len(d)
  BY <1>1, ReadVarintType DEF TypeOf
<1>3. k \in Nat
  BY <1>2
<1> HIDE DEF d, k
<1>4. Suffix(d, k) \in Seq(Octet)
  BY <1>1, <1>2, <1>3, SuffixType
<1> QED
  BY <1>1, <1>2, <1>4, ByteIsOctet DEF d, k

\* resolve_pending_uni and resolve_pending_bidi: the header is not complete.
LEMMA ResolveLaterTyped ==
  ASSUME Typed, NEW s \in Unis \cup Bidis, ResolveLater(s) PROVE Typed'
<1>1. /\ task # <<>> /\ task \in Seq(TaskItem) /\ MemInv /\ ses \in SessionRecord
      /\ s \in Stream /\ Quiet /\ Then(<<>>)
  BY DEF Typed, ResolveLater, Resolving, Doing, Stream
<1>2. task' \in Seq(TaskItem)
  BY <1>1, ThenNothing
<1>3. MemInv' /\ ses' \in SessionRecord
  <2>1. CASE UNCHANGED <<memVars, ses>>
    BY <1>1, <2>1, MemUnchanged
  <2>2. CASE ses' = [ses EXCEPT !.role[s] = "none"] /\ Cleared({ClassBuf(s)})
    <3>1. {ClassBuf(s)} \in SUBSET Buffer
      BY <1>1, Buffers
    <3>2. ses' \in SessionRecord
      BY <1>1, <2>2 DEF SessionRecord, RoleName
    <3> QED
      BY <1>1, <2>2, <3>1, <3>2, ClearedKeeps
  <2> QED
    BY <2>1, <2>2 DEF ResolveLater
<1> QED
  BY <1>1, <1>2, <1>3, TurnTyped

\* A control or QPACK stream.
LEMMA ResolveCriticalTyped ==
  ASSUME Typed, NEW s \in Unis \cup Bidis, ResolveCritical(s) PROVE Typed'
<1> DEFINE new == CriticalRole(TypeOf(s).val)
           known == [ses EXCEPT !.role[s] = new]
           rest == Suffix(data[ClassBuf(s)], TypeOf(s).len)
           item == [op |-> "recv", id |-> s, fin |-> Top.fin, bytes |-> rest]
<1>1. /\ task # <<>> /\ task \in Seq(TaskItem) /\ MemInv /\ ses \in SessionRecord
      /\ s \in Stream /\ Quiet /\ Top.op = "resolve" /\ IsCritical(s)
  BY DEF Typed, ResolveCritical, Resolving, Doing, Stream
<1>2. Top.fin \in BOOLEAN /\ rest \in Seq(Byte)
  BY <1>1, TopTyped, TypeOfTyped
<1>3. new \in {"control", "qpack_encoder", "qpack_decoder"}
  BY <1>1 DEF IsCritical, CriticalRole, H3Control, QpackEncoder, QpackDecoder
<1> HIDE DEF new
<1>4. known \in SessionRecord
  BY <1>1, <1>3 DEF SessionRecord, RoleName
<1> HIDE DEF known, rest
<1>5. {ClassBuf(s)} \in SUBSET Buffer
  BY <1>1, Buffers
<1>6. <<item>> \in Seq(TaskItem)
  BY <1>1, <1>2, ItemsTyped
<1> HIDE DEF item
<1>7. CASE MarkClosed(ses, "protocol", {}) /\ Then(<<>>)
  <2>1. MemInv' /\ ses' \in SessionRecord
    BY <1>1, <1>7, MarkClosedTyped DEF Causes
  <2>2. task' \in Seq(TaskItem)
    BY <1>1, <1>7, ThenNothing
  <2> QED
    BY <1>1, <2>1, <2>2, TurnTyped
<1>8. CASE ses' = known /\ Cleared({ClassBuf(s)}) /\ Then(<<item>>)
  <2>1. MemInv'
    BY <1>1, <1>5, <1>8, ClearedKeeps
  <2>2. task' \in Seq(TaskItem)
    BY <1>1, <1>6, <1>8, ThenTyped
  <2> QED
    BY <1>1, <1>4, <1>8, <2>1, <2>2, TurnTyped
<1>9. CASE ses' = known /\ Cleared({ClassBuf(s)}) /\ Then(<<>>)
  <2>1. MemInv'
    BY <1>1, <1>5, <1>9, ClearedKeeps
  <2>2. task' \in Seq(TaskItem)
    BY <1>1, <1>9, ThenNothing
  <2> QED
    BY <1>1, <1>4, <1>9, <2>1, <2>2, TurnTyped
<1>10. CASE MarkClosed(known, "protocol", {}) /\ Then(<<>>)
  <2>1. MemInv' /\ ses' \in SessionRecord
    BY <1>1, <1>4, <1>10, MarkClosedTyped DEF Causes
  <2>2. task' \in Seq(TaskItem)
    BY <1>1, <1>10, ThenNothing
  <2> QED
    BY <1>1, <2>1, <2>2, TurnTyped
<1> QED
  BY <1>7, <1>8, <1>9, <1>10 DEF ResolveCritical, new, known, rest, item

\* A data stream.
LEMMA ResolveDataTyped ==
  ASSUME Typed, NEW s \in Unis \cup Bidis, ResolveData(s) PROVE Typed'
<1>1. /\ task # <<>> /\ task \in Seq(TaskItem) /\ MemInv /\ ses \in SessionRecord
      /\ s \in Stream /\ Quiet /\ Then(<<>>) /\ Cleared({ClassBuf(s)})
      /\ ses' = [ses EXCEPT !.role[s] = "data", !.dead = IF Top.fin THEN @ \cup {s} ELSE @]
  BY DEF Typed, ResolveData, Resolving, Doing, Stream
<1>2. MemInv' /\ task' \in Seq(TaskItem)
  <2>1. {ClassBuf(s)} \in SUBSET Buffer
    BY <1>1, Buffers
  <2> QED
    BY <1>1, <2>1, ClearedKeeps, ThenNothing
<1>3. ses' \in SessionRecord
  BY <1>1 DEF SessionRecord, RoleName
<1> QED
  BY <1>1, <1>2, <1>3, TurnTyped

\* A stream that is ignored.
LEMMA ResolveIgnoredTyped ==
  ASSUME Typed, NEW s \in Unis \cup Bidis, ResolveIgnored(s) PROVE Typed'
<1>1. /\ task # <<>> /\ task \in Seq(TaskItem) /\ MemInv /\ ses \in SessionRecord
      /\ s \in Stream /\ Quiet /\ Then(<<>>) /\ Cleared({ClassBuf(s)})
      /\ ses' = [ses EXCEPT !.role[s] = "ignored",
                            !.shut = IF s \in Bidis \/ IsWebTransport(s) THEN @ \cup {s} ELSE @]
  BY DEF Typed, ResolveIgnored, Resolving, Doing, Stream
<1>2. MemInv' /\ task' \in Seq(TaskItem)
  <2>1. {ClassBuf(s)} \in SUBSET Buffer
    BY <1>1, Buffers
  <2> QED
    BY <1>1, <2>1, ClearedKeeps, ThenNothing
<1>3. ses' \in SessionRecord
  BY <1>1 DEF SessionRecord, RoleName
<1> QED
  BY <1>1, <1>2, <1>3, TurnTyped

\* FrameParser::next_frame, up to the copy of the payload.
LEMMA ParseTyped ==
  ASSUME Typed, Parse PROVE Typed'
<1> DEFINE s == Top.id
           b == FramesBuf(s)
           value == UnitValue(data[b], NextUnit(b))
           worse == [ses EXCEPT !.bad = @ \cup {s}]
<1>1. /\ task # <<>> /\ task \in Seq(TaskItem) /\ MemInv /\ ses \in SessionRecord /\ Quiet
  BY DEF Typed, Parse, Doing
<1>2. s \in Stream /\ b \in Buffer /\ PayloadBuf(s) \in Buffer
  BY <1>1, TopTyped, Buffers
<1>3. Whole(b) => value \in Seq(Byte)
  BY <1>1, <1>2, UnitTyped
<1> HIDE DEF value
<1>4. worse \in SessionRecord
  BY <1>1, <1>2 DEF SessionRecord
<1> HIDE DEF worse
<1>5. CASE Then(<<>>) /\ UNCHANGED <<memVars, ses>>
  BY <1>1, <1>5, MemUnchanged, ThenNothing, TurnTyped
<1>6. CASE Then(<<>>) /\ MarkClosed(ses, "rejected", {})
  <2>1. MemInv' /\ ses' \in SessionRecord
    BY <1>1, <1>6, MarkClosedTyped DEF Causes
  <2> QED
    BY <1>1, <1>6, <2>1, ThenNothing, TurnTyped
<1>7. CASE Then(<<>>) /\ ses' = worse /\ UNCHANGED memVars
  BY <1>1, <1>4, <1>7, MemUnchanged, ThenNothing, TurnTyped
<1>8. CASE /\ Whole(b) /\ Extended(PayloadBuf(s), value)
           /\ task' = <<Item("taken", s)>> \o task /\ UNCHANGED ses
  <2>1. MemInv'
    BY <1>1, <1>2, <1>3, <1>8, ExtendedKeeps
  <2>2. Item("taken", s) \in TaskItem
    BY <1>2, ItemsTyped
  <2>3. task' \in Seq(TaskItem)
    BY <1>1, <1>8, <2>2
  <2> QED
    BY <1>1, <1>8, <2>1, <2>3, TurnTyped
<1>9. CASE /\ Whole(b) /\ Refused(PayloadBuf(s), value) /\ Then(<<>>) /\ ses' = worse
  <2>1. MemInv'
    BY <1>1, <1>2, <1>3, <1>9, RefusedKeeps
  <2> QED
    BY <1>1, <1>4, <1>9, <2>1, ThenNothing, TurnTyped
<1> QED
  BY <1>5, <1>6, <1>7, <1>8, <1>9 DEF Parse, value, worse

\* The frame that was copied is consumed.
LEMMA ConsumeFrameTyped ==
  ASSUME Typed, ConsumeFrame PROVE Typed'
<1> DEFINE s == Top.id
           b == FramesBuf(s)
           item == [op |-> "frame", id |-> s, ty |-> NextUnit(b).ty]
<1>1. /\ task # <<>> /\ task \in Seq(TaskItem) /\ MemInv /\ ses \in SessionRecord /\ Quiet
      /\ Consumed(b, Total(NextUnit(b))) /\ Then(<<item>>) /\ UNCHANGED ses
  BY DEF Typed, ConsumeFrame, Doing
<1>2. s \in Stream /\ b \in Buffer
  BY <1>1, TopTyped, Buffers
<1>3. NextUnit(b).ty \in Nat /\ Total(NextUnit(b)) \in Nat
  BY <1>1, <1>2, UnitTyped
<1>4. <<item>> \in Seq(TaskItem)
  BY <1>2, <1>3, ItemsTyped
<1> HIDE DEF item
<1>5. MemInv'
  BY <1>1, <1>2, <1>3, ConsumedKeeps
<1>6. task' \in Seq(TaskItem)
  BY <1>1, <1>4, ThenTyped
<1> QED
  BY <1>1, <1>5, <1>6, TurnTyped

\* Steps that drop the payload of a frame, with its item.
LEMMA DroppedTyped ==
  ASSUME Typed, task # <<>>, NEW s \in Stream, Dropped(s), Quiet, ses' \in SessionRecord
  PROVE  Typed'
<1>1. task \in Seq(TaskItem) /\ MemInv /\ {PayloadBuf(s)} \in SUBSET Buffer
  BY Buffers DEF Typed
<1>2. MemInv'
  BY <1>1, ClearedKeeps DEF Dropped
<1>3. task' \in Seq(TaskItem)
  BY <1>1, ThenNothing DEF Dropped
<1> QED
  BY <1>2, <1>3, TurnTyped

\* Steps that close the session.
LEMMA CloseTyped ==
  ASSUME Typed, task # <<>>, NEW r \in SessionRecord, NEW cause \in Causes \ {"none"},
         NEW locals \in SUBSET Buffer, MarkClosed(r, cause, locals), Then(<<>>), Quiet
  PROVE  Typed'
<1>1. task \in Seq(TaskItem) /\ MemInv
  BY DEF Typed
<1>2. MemInv' /\ ses' \in SessionRecord
  BY <1>1, MarkClosedTyped
<1>3. task' \in Seq(TaskItem)
  BY <1>1, ThenNothing
<1> QED
  BY <1>2, <1>3, TurnTyped

\* The first frame of the control stream: SETTINGS.
LEMMA ControlSettingsTyped ==
  ASSUME Typed, NEW s \in Unis, ControlSettings(s) PROVE Typed'
<1> DEFINE pairs == SettingsPairs(Payload(s))
           done == [ses EXCEPT !.headersDone = @ \cup {s}]
           known == [ses EXCEPT !.headersDone = @ \cup {s}, !.settings = pairs,
                                !.limit = Setting(pairs, SettingsInitialMaxData)]
           joined == [known EXCEPT !.role[Connect] = "connect"]
           items == (IF ses.role[Connect] # "none" THEN <<Item("parse", Connect)>> ELSE <<>>)
                      \o <<Item("drop", s)>>
<1>1. /\ task # <<>> /\ task \in Seq(TaskItem) /\ MemInv /\ ses \in SessionRecord /\ Quiet
      /\ s \in Stream /\ Connect \in Stream
  BY DEF Typed, ControlSettings, Handling, Doing, Stream
<1>2. PayloadBuf(s) \in Buffer /\ {PayloadBuf(s)} \in SUBSET Buffer
  BY <1>1, Buffers
<1>3. pairs \in KnownSettings
  BY <1>1, <1>2 DEF KnownSettings, Payload, MemInv, MemTypeOK
<1> HIDE DEF pairs
<1>4. Setting(pairs, SettingsInitialMaxData) \in KnownLimit
  BY <1>3 DEF KnownLimit
<1>5. done \in SessionRecord /\ known \in SessionRecord
  BY <1>1, <1>3, <1>4 DEF SessionRecord
<1> HIDE DEF done, known
<1>6. joined \in SessionRecord
  BY <1>1, <1>5 DEF SessionRecord, RoleName
<1> HIDE DEF joined
<1>7. items \in Seq(TaskItem)
  <2>1. Item("parse", Connect) \in TaskItem /\ Item("drop", s) \in TaskItem
    BY <1>1, ItemsTyped
  <2> QED
    BY <2>1
<1> HIDE DEF items
<1>8. CASE Then(<<>>) /\ MarkClosed(done, "protocol", {PayloadBuf(s)})
  BY <1>1, <1>2, <1>5, <1>8, CloseTyped DEF Causes
<1>9. CASE Then(<<>>) /\ MarkClosed(known, "rejected", {PayloadBuf(s)})
  BY <1>1, <1>2, <1>5, <1>9, CloseTyped DEF Causes
<1>10. CASE ses' = joined /\ Dropped(s)
  BY <1>1, <1>6, <1>10, DroppedTyped
<1>11. CASE ses' = known /\ UNCHANGED memVars /\ Then(items)
  BY <1>1, <1>5, <1>7, <1>11, MemUnchanged, ThenTyped, TurnTyped
<1> QED
  BY <1>8, <1>9, <1>10, <1>11 DEF ControlSettings, pairs, done, known, joined, items

\* Every other frame of the control stream.
LEMMA ControlFrameTyped ==
  ASSUME Typed, NEW s \in Unis, ControlFrame(s) PROVE Typed'
<1> DEFINE drained == [ses EXCEPT !.draining = @ \/ Top.ty = FrameGoaway]
<1>1. /\ task # <<>> /\ task \in Seq(TaskItem) /\ ses \in SessionRecord /\ Quiet /\ s \in Stream
  BY DEF Typed, ControlFrame, Handling, Doing, Stream
<1>2. {PayloadBuf(s)} \in SUBSET Buffer
  BY <1>1, Buffers
<1>3. drained \in SessionRecord
  BY <1>1 DEF SessionRecord
<1> HIDE DEF drained
<1>4. CASE Then(<<>>) /\ MarkClosed(ses, "protocol", {PayloadBuf(s)})
  BY <1>1, <1>2, <1>4, CloseTyped DEF Causes
<1>5. CASE ses' = drained /\ Dropped(s)
  BY <1>1, <1>3, <1>5, DroppedTyped
<1> QED
  BY <1>4, <1>5 DEF ControlFrame, drained

\* The header block of CONNECT.
LEMMA ConnectHeadersTyped ==
  ASSUME Typed, ConnectHeaders PROVE Typed'
<1> DEFINE known == [ses EXCEPT !.headersDone = @ \cup {Connect}]
           ready == [known EXCEPT !.ready = TRUE]
<1>1. /\ task # <<>> /\ task \in Seq(TaskItem) /\ ses \in SessionRecord /\ Quiet /\ Connect \in Stream
  BY DEF Typed, ConnectHeaders, Handling, Doing, Stream
<1>2. {PayloadBuf(Connect)} \in SUBSET Buffer
  BY <1>1, Buffers
<1>3. known \in SessionRecord
  BY <1>1 DEF SessionRecord
<1> HIDE DEF known
<1>4. ready \in SessionRecord
  BY <1>3 DEF SessionRecord
<1> HIDE DEF ready
<1>5. CASE ses' = ready /\ Dropped(Connect)
  BY <1>1, <1>4, <1>5, DroppedTyped
<1>6. CASE ses' = known /\ Dropped(Connect)
  BY <1>1, <1>3, <1>6, DroppedTyped
<1>7. CASE Then(<<>>) /\ MarkClosed(known, "rejected", {PayloadBuf(Connect)})
  BY <1>1, <1>2, <1>3, <1>7, CloseTyped DEF Causes
<1> QED
  BY <1>5, <1>6, <1>7 DEF ConnectHeaders, known, ready

\* Frames of CONNECT that mean nothing.
LEMMA ConnectOtherTyped ==
  ASSUME Typed, ConnectOther PROVE Typed'
<1>1. /\ task # <<>> /\ ses' \in SessionRecord /\ Quiet /\ Connect \in Stream /\ Dropped(Connect)
  BY DEF Typed, ConnectOther, Handling, Doing, Stream
<1> QED
  BY <1>1, DroppedTyped

\* DATA of CONNECT is appended to the capsules.
LEMMA ConnectDataTyped ==
  ASSUME Typed, ConnectData PROVE Typed'
<1> DEFINE scan == <<Item("scan", Connect), Item("drop", Connect)>>
           limit == <<Item("limit", Connect), Item("drop", Connect)>>
<1>1. /\ task # <<>> /\ task \in Seq(TaskItem) /\ MemInv /\ ses' \in SessionRecord /\ Quiet
      /\ Connect \in Stream
  BY DEF Typed, ConnectData, Handling, Doing, Stream
<1>2. CapsuleBuf \in Buffer /\ Payload(Connect) \in Seq(Byte)
  BY <1>1, Buffers DEF Payload, MemInv, MemTypeOK
<1>3. scan \in Seq(TaskItem) /\ limit \in Seq(TaskItem)
  <2>1. /\ Item("scan", Connect) \in TaskItem /\ Item("limit", Connect) \in TaskItem
        /\ Item("drop", Connect) \in TaskItem
    BY <1>1, ItemsTyped
  <2> QED
    BY <2>1
<1> HIDE DEF scan, limit
<1>4. CASE Extended(CapsuleBuf, Payload(Connect)) /\ Then(scan)
  BY <1>1, <1>2, <1>3, <1>4, ExtendedKeeps, ThenTyped, TurnTyped
<1>5. CASE Refused(CapsuleBuf, Payload(Connect)) /\ Then(limit)
  BY <1>1, <1>2, <1>3, <1>5, RefusedKeeps, ThenTyped, TurnTyped
<1> QED
  BY <1>4, <1>5 DEF ConnectData, scan, limit

\* A payload whose frame was handled is dropped.
LEMMA DropTyped ==
  ASSUME Typed, Drop PROVE Typed'
<1>1. /\ task # <<>> /\ task \in Seq(TaskItem) /\ ses' \in SessionRecord /\ Quiet /\ Dropped(Top.id)
  BY DEF Typed, Drop, Doing
<1> QED
  BY <1>1, TopTyped, DroppedTyped

\* parser_limit_exceeded.
LEMMA LimitExceededTyped ==
  ASSUME Typed, LimitExceeded PROVE Typed'
<1>1. /\ task # <<>> /\ ses \in SessionRecord /\ Quiet /\ Then(<<>>) /\ MarkClosed(ses, "limit", {})
  BY DEF Typed, LimitExceeded, Doing
<1> QED
  BY <1>1, CloseTyped DEF Causes

\* The loop of scan_capsules, up to the copy of the value.
LEMMA ScanTyped ==
  ASSUME Typed, Scan PROVE Typed'
<1> DEFINE s == Top.id
           value == UnitValue(data[CapsuleBuf], NextUnit(CapsuleBuf))
<1>1. /\ task # <<>> /\ task \in Seq(TaskItem) /\ MemInv /\ ses \in SessionRecord /\ Quiet
  BY DEF Typed, Scan, Doing
<1>2. s \in Stream /\ CapsuleBuf \in Buffer /\ ValueBuf \in Buffer
  BY <1>1, TopTyped, Buffers
<1>3. Whole(CapsuleBuf) => value \in Seq(Byte)
  BY <1>1, <1>2, UnitTyped
<1> HIDE DEF value
<1>4. Item("cut", s) \in TaskItem /\ <<Item("limit", s)>> \in Seq(TaskItem)
  BY <1>2, ItemsTyped
<1>5. CASE Then(<<>>) /\ UNCHANGED <<memVars, ses>>
  BY <1>1, <1>5, MemUnchanged, ThenNothing, TurnTyped
<1>6. CASE Then(<<>>) /\ MarkClosed(ses, "protocol", {})
  BY <1>1, <1>6, CloseTyped DEF Causes
<1>7. CASE /\ Whole(CapsuleBuf) /\ Extended(ValueBuf, value)
           /\ task' = <<Item("cut", s)>> \o task /\ UNCHANGED ses
  <2>1. task' \in Seq(TaskItem)
    BY <1>1, <1>4, <1>7
  <2> QED
    BY <1>1, <1>2, <1>3, <1>7, <2>1, ExtendedKeeps, TurnTyped
<1>8. CASE /\ Whole(CapsuleBuf) /\ Refused(ValueBuf, value)
           /\ Then(<<Item("limit", s)>>) /\ UNCHANGED ses
  BY <1>1, <1>2, <1>3, <1>4, <1>8, RefusedKeeps, ThenTyped, TurnTyped
<1> QED
  BY <1>5, <1>6, <1>7, <1>8 DEF Scan, value

\* The capsule that was copied is consumed.
LEMMA CutCapsuleTyped ==
  ASSUME Typed, CutCapsule PROVE Typed'
<1> DEFINE s == Top.id
           item == [op |-> "capsule", id |-> s, ty |-> NextUnit(CapsuleBuf).ty]
<1>1. /\ task # <<>> /\ task \in Seq(TaskItem) /\ MemInv /\ ses' \in SessionRecord /\ Quiet
      /\ Consumed(CapsuleBuf, Total(NextUnit(CapsuleBuf))) /\ Then(<<item>>)
  BY DEF Typed, CutCapsule, Doing
<1>2. s \in Stream /\ CapsuleBuf \in Buffer
  BY <1>1, TopTyped, Buffers
<1>3. NextUnit(CapsuleBuf).ty \in Nat /\ Total(NextUnit(CapsuleBuf)) \in Nat
  BY <1>1, <1>2, UnitTyped
<1>4. <<item>> \in Seq(TaskItem)
  BY <1>2, <1>3, ItemsTyped
<1> HIDE DEF item
<1> QED
  BY <1>1, <1>2, <1>3, <1>4, ConsumedKeeps, ThenTyped, TurnTyped

\* What a capsule does.
LEMMA HandleCapsuleTyped ==
  ASSUME Typed, HandleCapsule PROVE Typed'
<1> DEFINE value == data[ValueBuf]
           drained == [ses EXCEPT !.draining = TRUE]
           raised == [ses EXCEPT !.limit = ReadVarint(value).val]
<1>1. /\ task # <<>> /\ task \in Seq(TaskItem) /\ MemInv /\ ses \in SessionRecord /\ Quiet
      /\ Then(<<>>)
  BY DEF Typed, HandleCapsule, Doing
<1>2. {ValueBuf} \in SUBSET Buffer /\ value \in Seq(Octet)
  BY <1>1, Buffers, ByteIsOctet DEF MemInv, MemTypeOK
<1>3. ReadVarint(value).val \in KnownLimit
  BY <1>2, ReadVarintType DEF KnownLimit
<1>4. drained \in SessionRecord /\ raised \in SessionRecord
  BY <1>1, <1>3 DEF SessionRecord
<1> HIDE DEF drained, raised
<1>5. CASE MarkClosed(ses, "peer", {ValueBuf}) \/ MarkClosed(ses, "flow", {ValueBuf})
  BY <1>1, <1>2, <1>5, CloseTyped DEF Causes
<1>6. CASE ses' \in SessionRecord /\ Cleared({ValueBuf})
  BY <1>1, <1>2, <1>6, ClearedKeeps, ThenNothing, TurnTyped
<1> QED
  BY <1>1, <1>4, <1>5, <1>6 DEF HandleCapsule, drained, raised

\* The checks at the end of process_recv.
LEMMA AfterTyped ==
  ASSUME Typed, After PROVE Typed'
<1> DEFINE s == Top.id
           stopped == [ses EXCEPT !.shut = @ \cup {s}]
<1>1. /\ task # <<>> /\ task \in Seq(TaskItem) /\ MemInv /\ ses \in SessionRecord /\ Quiet
      /\ Then(<<>>)
  BY DEF Typed, After, Doing
<1>2. s \in Stream
  BY <1>1, TopTyped
<1>3. stopped \in SessionRecord
  BY <1>1, <1>2 DEF SessionRecord
<1> HIDE DEF stopped
<1>4. CASE UNCHANGED <<memVars, ses>>
  BY <1>1, <1>4, MemUnchanged, ThenNothing, TurnTyped
<1>5. CASE \E cause \in {"protocol", "peer"} : MarkClosed(ses, cause, {})
  BY <1>1, <1>5, CloseTyped DEF Causes
<1>6. CASE MarkClosed(stopped, "malformed", {})
  BY <1>1, <1>3, <1>6, CloseTyped DEF Causes
<1> QED
  BY <1>4, <1>5, <1>6 DEF After, stopped

\* The role of a stream that may be new.
LEMMA RoleOfTyped ==
  ASSUME Typed, NEW s \in Stream PROVE RoleOf(s) \in RoleName
<1>1. ses.role[s] \in RoleName
  BY DEF Typed, SessionRecord
<1>2. s = Connect \/ s \in Unis \/ s \in Bidis
  BY DEF Stream
<1> QED
  BY <1>1, <1>2, PeerAssumption DEF RoleOf, ClassifyNew, RoleName

\* on_readable hands a chunk over.
LEMMA OnReadableTyped ==
  ASSUME Typed, NEW s \in Stream, NEW n \in {0} \cup ChunkSizes, NEW fin \in BOOLEAN,
         NEW pressed \in BOOLEAN, OnReadable(s, n, fin, pressed)
  PROVE  Typed'
<1> DEFINE all == script.of[s]
           pos == peer[s].pos
           bytes == SubSeq(all, pos + 1, pos + n)
<1>1. /\ MemInv /\ ses \in SessionRecord /\ peer \in [Stream -> PeerRecord] /\ script \in Scripts
      /\ all \in Seq(Byte) /\ pos \in Nat /\ n \in Nat /\ pos + n <= Len(all)
  BY PeerAssumption DEF Typed, OnReadable, PeerRecord
<1> HIDE DEF all, pos
<1>2. bytes \in Seq(Byte)
  BY <1>1
<1> HIDE DEF bytes
<1>3. task' = <<[op |-> "recv", id |-> s, fin |-> fin, bytes |-> bytes]>>
  BY DEF OnReadable, all, pos, bytes
<1>4. task' \in Seq(TaskItem)
  BY <1>2, <1>3, ItemsTyped
<1>5. ses' \in SessionRecord
  <2>1. RoleOf(s) \in RoleName /\ ses' = [ses EXCEPT !.role[s] = RoleOf(s)]
    BY RoleOfTyped DEF OnReadable
  <2> QED
    BY <1>1, <2>1 DEF SessionRecord
<1>6. /\ peer' = [peer EXCEPT ![s].pos = @ + n, ![s].end = IF fin THEN "fin" ELSE @]
      /\ UNCHANGED <<memVars, server, script>> /\ bp' = pressed
  BY DEF OnReadable
<1>7. /\ peer' \in [Stream -> PeerRecord] /\ peer'[s].pos = pos + n
      /\ \A t \in Stream \ {s} : peer'[t] = peer[t]
  <2> DEFINE new == [peer[s] EXCEPT !.pos = @ + n, !.end = IF fin THEN "fin" ELSE @]
  <2>1. peer[s] \in PeerRecord /\ peer[s].pos = pos
    BY <1>1 DEF pos
  <2> DEFINE end == IF fin THEN "fin" ELSE peer[s].end
  <2>4. end \in {"open", "fin", "reset"} /\ pos + n \in Nat
    BY <1>1, <2>1 DEF PeerRecord
  <2>5. new = [peer[s] EXCEPT !.pos = pos + n, !.end = end]
    BY <2>1 DEF PeerRecord
  <2> HIDE DEF end, new
  <2>2. new \in PeerRecord /\ new.pos = pos + n
    BY <2>1, <2>4, <2>5 DEF PeerRecord
  <2>3. peer' = [peer EXCEPT ![s] = new]
    BY <1>6 DEF new
  <2> QED
    BY <1>1, <2>2, <2>3
<1>8. \A t \in Stream : peer'[t].pos <= Len(script.of[t])
  <2>1. \A t \in Stream \ {s} : peer'[t].pos <= Len(script.of[t])
    BY <1>7 DEF Typed
  <2>2. peer'[s].pos <= Len(script.of[s])
    BY <1>1, <1>7 DEF all
  <2> QED
    BY <2>1, <2>2
<1>9. MemInv'
  BY <1>1, <1>6, MemUnchanged
<1> QED
  BY <1>4, <1>5, <1>6, <1>7, <1>8, <1>9 DEF Typed

\* A reset was reported.
LEMMA OnResetTyped ==
  ASSUME Typed, NEW s \in Stream, NEW code \in Int, OnReset(s, code)
  PROVE  Typed'
<1> DEFINE known == [ses EXCEPT !.role[s] = RoleOf(s), !.dead = @ \cup {s}]
<1>1. /\ MemInv /\ ses \in SessionRecord /\ peer \in [Stream -> PeerRecord]
      /\ peer' = [peer EXCEPT ![s].end = "reset", ![s].code = code]
      /\ bp' = FALSE /\ UNCHANGED <<server, script, task>>
  BY DEF Typed, OnReset
<1>2. known \in SessionRecord
  BY <1>1, RoleOfTyped DEF SessionRecord
<1> HIDE DEF known
<1>3. MemInv' /\ ses' \in SessionRecord
  <2>1. CASE ses' = known /\ UNCHANGED memVars
    BY <1>1, <1>2, <2>1, MemUnchanged
  <2>2. CASE MarkClosed(known, "protocol", {}) \/ MarkClosed(known, "peer", {})
    BY <1>1, <1>2, <2>2, MarkClosedTyped DEF Causes
  <2> QED
    BY <2>1, <2>2 DEF OnReset, known
<1>4. peer' \in [Stream -> PeerRecord] /\ \A t \in Stream : peer'[t].pos = peer[t].pos
  BY <1>1 DEF PeerRecord
<1> QED
  BY <1>1, <1>3, <1>4 DEF Typed

\* What happens between chunks.
LEMMA BetweenTyped ==
  ASSUME Typed, Prune \/ ConnectionLost \/ OtherSession \/ \E s \in Bidis : FinishSend(s)
  PROVE  Typed'
<1>0. MemInv /\ ses \in SessionRecord
  BY DEF Typed
<1>1. ASSUME MemInv', ses' \in SessionRecord, UNCHANGED <<server, script, peer, task, bp>>
      PROVE  Typed'
  BY <1>1 DEF Typed
<1>2. CASE Prune
  <2> DEFINE gone == {s \in Stream : Prunable(s)}
             B == {FramesBuf(s) : s \in gone} \cup {ClassBuf(s) : s \in gone}
  <2>1. B \in SUBSET Buffer
    BY Buffers
  <2>2. Cleared(B) /\ UNCHANGED <<server, script, peer, task, bp>>
    BY <1>2 DEF Prune
  <2>3. ses' = [ses EXCEPT !.role = [s \in Stream |-> IF s \in gone THEN "none" ELSE @[s]]]
    BY <1>2 DEF Prune
  <2> HIDE DEF B, gone
  <2>4. ses' \in SessionRecord
    BY <1>0, <2>3 DEF SessionRecord, RoleName
  <2> QED
    BY <1>0, <1>1, <2>1, <2>2, <2>4, ClearedKeeps
<1>3. CASE ConnectionLost
  <2>1. MarkClosed(ses, "peer", {}) /\ UNCHANGED <<server, script, peer, task, bp>>
    BY <1>3 DEF ConnectionLost
  <2>2. MemInv' /\ ses' \in SessionRecord
    BY <1>0, <2>1, MarkClosedTyped DEF Causes
  <2> QED
    BY <1>1, <2>1, <2>2
<1>4. CASE OtherSession
  <2> DEFINE zeros == [i \in 1 .. OtherSize |-> 0]
  <2>1. zeros \in Seq(Byte) /\ OtherBuf \in Buffer /\ {OtherBuf} \in SUBSET Buffer
    BY PeerAssumption, Buffers
  <2>2. UNCHANGED <<server, script, peer, ses, task, bp>>
    BY <1>4 DEF OtherSession
  <2>3. Extended(OtherBuf, zeros) \/ Cleared({OtherBuf})
    BY <1>4 DEF OtherSession
  <2> HIDE DEF zeros
  <2>4. MemInv'
    BY <1>0, <2>1, <2>3, ExtendedKeeps, ClearedKeeps
  <2> QED
    BY <1>0, <1>1, <2>2, <2>4
<1>5. ASSUME NEW s \in Bidis, FinishSend(s) PROVE Typed'
  <2>1. /\ ses' = [ses EXCEPT !.finSent = @ \cup {s}]
        /\ UNCHANGED <<memVars, server, script, peer, task, bp>>
    BY <1>5 DEF FinishSend
  <2>2. ses' \in SessionRecord
    BY <1>0, <2>1 DEF SessionRecord
  <2> QED
    BY <1>0, <1>1, <2>1, <2>2, MemUnchanged
<1> QED
  BY <1>2, <1>3, <1>4, <1>5

\* The codes a peer can reset with.
LEMMA ResetCodes ==
  ASSUME NEW code \in {ToHttp(c) : c \in PeerCodes} \cup RawCodes PROVE code \in Int
<1>1. \A c \in PeerCodes : c \in Nat
  BY LayoutAssumption, CodeAssumption
<1>2. \A c \in Nat : ToHttp(c) \in Int
  BY CodeAssumption DEF ToHttp
<1>3. RawCodes \subseteq Nat
  BY PeerAssumption
<1>4. CASE \E c \in PeerCodes : code = ToHttp(c)
  BY <1>1, <1>2, <1>4
<1>5. CASE code \in RawCodes
  BY <1>3, <1>5
<1> QED
  BY <1>4, <1>5

\* The initial state.
LEMMA InitTyped ==
  ASSUME Init PROVE Typed
<1>1. MemInv
  <2>1. MemTypeOK
    BY DEF Init, MemInit, MemTypeOK
  <2>2. \A B \in SUBSET Buffer : Held(cap, B) = 0
    BY <2>1, HeldNone DEF Init, MemInit, MemTypeOK
  <2>3. \A s \in Session : BuffersOf(s) \in SUBSET Buffer
    BY DEF BuffersOf
  <2> QED
    BY <2>1, <2>2, <2>3, SizeAssumption
       DEF Init, MemInit, MemInv, Budget, ChargedExactly, WithinLimits, EmptyHoldsNothing
<1>2. peer \in [Stream -> PeerRecord] /\ \A s \in Stream : peer[s].pos = 0
  BY DEF Init, PeerRecord
<1>3. \A s \in Stream : peer[s].pos <= Len(script.of[s])
  <2>1. \A s \in Stream : script.of[s] \in Seq(Byte)
    BY PeerAssumption DEF Init
  <2> QED
    BY <1>2, <2>1
<1>4. ses \in SessionRecord
  BY DEF Init, SessionRecord, RoleName, Causes, KnownSettings, KnownLimit
<1>5. task \in Seq(TaskItem) /\ bp \in BOOLEAN /\ server \in Roles /\ script \in Scripts
  <2>1. task = <<>> /\ bp = FALSE /\ server \in Roles /\ script \in Scripts
    BY DEF Init
  <2>2. bp \in BOOLEAN
    BY <2>1, Zenon
  <2>3. task \in Seq(TaskItem)
    BY <2>1, EmptySeq
  <2> QED
    BY <2>1, <2>2, <2>3
<1> QED
  BY <1>1, <1>2, <1>3, <1>4, <1>5 DEF Typed

\* Every step keeps the types and the budget.
LEMMA NextTyped ==
  ASSUME Typed, [Next]_vars PROVE Typed'
<1>1. CASE UNCHANGED vars
  <2>1. UNCHANGED memVars /\ MemInv
    BY <1>1 DEF vars, Typed
  <2>2. MemInv'
    BY <2>1, MemUnchanged
  <2> QED
    BY <1>1, <2>2 DEF vars, Typed
<1>2. ASSUME NEW s \in Stream, NEW n \in {0} \cup ChunkSizes, NEW fin \in BOOLEAN,
             NEW pressed \in BOOLEAN, OnReadable(s, n, fin, pressed)
      PROVE  Typed'
  BY <1>2, OnReadableTyped
<1>3. ASSUME NEW s \in Stream, NEW code \in {ToHttp(c) : c \in PeerCodes} \cup RawCodes,
             OnReset(s, code)
      PROVE  Typed'
  BY <1>3, ResetCodes, OnResetTyped
<1>4. CASE Processing
  BY <1>4, RecvFramesTyped, RecvDiscardedTyped, RecvDataTyped, RecvPendingTyped,
     ResolveLaterTyped, ResolveCriticalTyped, ResolveDataTyped, ResolveIgnoredTyped,
     ParseTyped, ConsumeFrameTyped, ControlSettingsTyped, ControlFrameTyped,
     ConnectHeadersTyped, ConnectDataTyped, ConnectOtherTyped, DropTyped, LimitExceededTyped,
     ScanTyped, CutCapsuleTyped, HandleCapsuleTyped, AfterTyped DEF Processing
<1>5. CASE Prune \/ ConnectionLost \/ OtherSession \/ \E s \in Bidis : FinishSend(s)
  BY <1>5, BetweenTyped
<1> QED
  BY <1>1, <1>2, <1>3, <1>4, <1>5 DEF Next

\* The receive parsers keep the budget of parser_memory.rs: whatever bytes the peer
\* sends, however they are cut and whichever pushes are refused, the session and
\* its server are charged exactly what the parsers' buffers hold, within the limits.
THEOREM ParsersKeepBudget == Spec => []Budget
<1>1. Typed => Budget
  BY DEF Typed, MemInv
<1> QED
  BY <1>1, InitTyped, NextTyped, PTL DEF Spec

-----------------------------------------------------------------------------
(* A closed session holds nothing *)

\* The items that may wait below the top, and be left when the session closes.
Rest == {"parse", "after", "drop", "scan"}

\* The item that will drop the payload of stream s.
Holds(x, s) == x.op \in {"taken", "frame", "drop"} /\ x.id = s

\* Every copy has an item that will drop it, and once the session is closed only
\* copies are left and nothing is on the stack that would buffer again.
Releasing ==
  /\ \A i \in 2 .. Len(task) : task[i].op \in Rest
  /\ Closed => \A i \in 1 .. Len(task) : task[i].op \in Rest
  /\ Closed => \A b \in ParserBuffers : data[b] = <<>>
  /\ \A s \in Stream : data[PayloadBuf(s)] # <<>> => \E i \in 1 .. Len(task) : Holds(task[i], s)
  /\ data[ValueBuf] # <<>> => task # <<>> /\ task[1].op \in {"cut", "capsule"}

\* The stack after the top item was replaced.
LEMMA ThenStack ==
  ASSUME task \in Seq(TaskItem), task # <<>>, NEW items \in Seq(TaskItem), Then(items)
  PROVE  /\ task' \in Seq(TaskItem) /\ Len(task') = Len(items) + Len(task) - 1
         /\ Len(task) \in Nat /\ Len(task) > 0 /\ Len(items) \in Nat /\ Top = task[1]
         /\ \A i \in 1 .. Len(items) : task'[i] = items[i]
         /\ \A i \in Len(items) + 1 .. Len(task') : task'[i] = task[i - Len(items) + 1]
<1> DEFINE tail == Tail(task)
<1>1. /\ tail \in Seq(TaskItem) /\ Len(tail) = Len(task) - 1
      /\ \A i \in 1 .. Len(tail) : tail[i] = task[i + 1]
      /\ Len(task) \in Nat /\ Len(task) > 0 /\ Len(items) \in Nat /\ Top = task[1]
  BY DEF Top
<1>2. task' = items \o tail
  BY DEF Then
<1> HIDE DEF tail
<1>3. /\ task' \in Seq(TaskItem) /\ Len(task') = Len(items) + Len(tail)
      /\ \A i \in 1 .. Len(items) : task'[i] = items[i]
      /\ \A i \in Len(items) + 1 .. Len(task') : task'[i] = tail[i - Len(items)]
  <2> DEFINE all == items \o tail
  <2>1. /\ all \in Seq(TaskItem) /\ Len(all) = Len(items) + Len(tail)
        /\ \A i \in 1 .. Len(items) + Len(tail) :
             all[i] = IF i <= Len(items) THEN items[i] ELSE tail[i - Len(items)]
    BY <1>1, ConcatProperties
  <2> HIDE DEF all
  <2>2. task' = all
    BY <1>2 DEF all
  <2>3. Len(tail) \in Nat /\ Len(items) \in Nat
    BY <1>1
  <2>4. ASSUME NEW i \in 1 .. Len(items) PROVE all[i] = items[i]
    <3>1. i \in 1 .. Len(items) + Len(tail) /\ i <= Len(items)
      BY <2>3
    <3> QED
      BY <2>1, <3>1
  <2>5. ASSUME NEW i \in Len(items) + 1 .. Len(all) PROVE all[i] = tail[i - Len(items)]
    <3>1. i \in 1 .. Len(items) + Len(tail) /\ ~(i <= Len(items))
      BY <2>1, <2>3
    <3> QED
      BY <2>1, <3>1
  <2> QED
    BY <2>1, <2>2, <2>4, <2>5
<1>4. ASSUME NEW i \in Len(items) + 1 .. Len(task') PROVE task'[i] = task[i - Len(items) + 1]
  <2>1. i - Len(items) \in 1 .. Len(tail)
    BY <1>1, <1>3
  <2> QED
    BY <1>1, <1>3, <2>1
<1> QED
  BY <1>1, <1>3, <1>4

\* Replacing the top item: what has to be checked of a turn.
LEMMA TurnReleases ==
  ASSUME Typed, Releasing, task # <<>>, NEW items \in Seq(TaskItem), Then(items),
         \A i \in 2 .. Len(items) : items[i].op \in Rest,
         Closed' => \A i \in 1 .. Len(items) : items[i].op \in Rest,
         Closed' => \A b \in ParserBuffers : data'[b] = <<>>,
         \A s \in Stream : data'[PayloadBuf(s)] # <<>> =>
           \/ \E j \in 1 .. Len(items) : Holds(items[j], s)
           \/ data[PayloadBuf(s)] # <<>> /\ ~Holds(Top, s),
         data'[ValueBuf] # <<>> => items # <<>> /\ items[1].op \in {"cut", "capsule"}
  PROVE  Releasing'
<1> DEFINE n == Len(items)
<1>1. /\ task \in Seq(TaskItem) /\ task' \in Seq(TaskItem) /\ Len(task') = n + Len(task) - 1
      /\ Len(task) \in Nat /\ Len(task) > 0 /\ n \in Nat /\ Top = task[1]
      /\ \A i \in 1 .. n : task'[i] = items[i]
      /\ \A i \in n + 1 .. Len(task') : task'[i] = task[i - n + 1]
  BY ThenStack DEF Typed
<1> HIDE DEF n
<1>2. \A i \in 2 .. Len(items) : items[i].op \in Rest
  OBVIOUS
<1>3. ASSUME NEW i \in n + 1 .. Len(task') PROVE task'[i].op \in Rest
  <2>1. i - n + 1 \in 2 .. Len(task)
    BY <1>1
  <2> QED
    BY <1>1, <2>1 DEF Releasing
<1>4. \A i \in 2 .. Len(task') : task'[i].op \in Rest
  <2> SUFFICES ASSUME NEW i \in 2 .. Len(task') PROVE task'[i].op \in Rest
    OBVIOUS
  <2>1. CASE i <= n
    BY <1>1, <1>2, <2>1 DEF n
  <2>2. CASE i > n
    <3>1. i \in n + 1 .. Len(task')
      BY <1>1, <2>2
    <3> QED
      BY <1>3, <3>1
  <2> QED
    BY <1>1, <2>1, <2>2
<1>5. Closed' => \A i \in 1 .. Len(task') : task'[i].op \in Rest
  <2> SUFFICES ASSUME Closed', NEW i \in 1 .. Len(task') PROVE task'[i].op \in Rest
    OBVIOUS
  <2>1. CASE i <= n
    BY <1>1, <2>1 DEF n
  <2>2. CASE i > n
    <3>1. i \in n + 1 .. Len(task')
      BY <1>1, <2>2
    <3> QED
      BY <1>3, <3>1
  <2> QED
    BY <1>1, <2>1, <2>2
<1>6. ASSUME NEW s \in Stream, data'[PayloadBuf(s)] # <<>>
      PROVE  \E i \in 1 .. Len(task') : Holds(task'[i], s)
  <2>1. CASE \E j \in 1 .. Len(items) : Holds(items[j], s)
    <3>1. PICK j \in 1 .. n : Holds(items[j], s)
      BY <2>1 DEF n
    <3>2. j \in 1 .. Len(task') /\ task'[j] = items[j]
      BY <1>1
    <3> QED
      BY <3>1, <3>2
  <2>2. CASE data[PayloadBuf(s)] # <<>> /\ ~Holds(Top, s)
    <3>1. PICK i \in 1 .. Len(task) : Holds(task[i], s)
      BY <2>2 DEF Releasing
    <3>2. i # 1
      BY <1>1, <2>2, <3>1
    <3> DEFINE k == i + n - 1
    <3>3. k \in n + 1 .. Len(task') /\ k \in 1 .. Len(task') /\ k - n + 1 = i
      BY <1>1, <3>2
    <3> HIDE DEF k
    <3>4. task'[k] = task[i]
      BY <1>1, <3>3
    <3> QED
      BY <3>1, <3>3, <3>4
  <2> QED
    BY <1>6, <2>1, <2>2
<1>7. ASSUME data'[ValueBuf] # <<>> PROVE task' # <<>> /\ task'[1].op \in {"cut", "capsule"}
  <2>1. items # <<>> /\ items[1].op \in {"cut", "capsule"}
    BY <1>7
  <2>2. n > 0 /\ task'[1] = items[1]
    BY <1>1, <2>1 DEF n
  <2>3. task' # <<>>
    BY <1>1, <2>2
  <2> QED
    BY <2>1, <2>2, <2>3
<1>8. (\A s \in Stream : data[PayloadBuf(s)] # <<>> => \E i \in 1 .. Len(task) : Holds(task[i], s))'
  BY <1>6 DEF PayloadBuf, Holds
<1>9. (data[ValueBuf] # <<>> => task # <<>> /\ task[1].op \in {"cut", "capsule"})'
  BY <1>7 DEF ValueBuf, Connect
<1>10. (Closed => \A b \in ParserBuffers : data[b] = <<>>)'
  BY DEF ParserBuffers, FramesBuf, ClassBuf, CapsuleBuf, Connect, Stream
<1> QED
  BY <1>4, <1>5, <1>8, <1>9, <1>10 DEF Releasing, Rest

\* Pushing an item is replacing the top by it and the top.
LEMMA PushIsThen ==
  ASSUME task \in Seq(TaskItem), task # <<>>, NEW x \in TaskItem, task' = <<x>> \o task
  PROVE  Then(<<x, Top>>) /\ <<x, Top>> \in Seq(TaskItem)
<1>1. task[1] = Head(task) /\ Head(task) \in TaskItem /\ Tail(task) \in Seq(TaskItem)
  OBVIOUS
<1> DEFINE h == Head(task)
           t == Tail(task)
<1>2. task = <<h>> \o t
  OBVIOUS
<1>3. <<x>> \o (<<h>> \o t) = <<x, h>> \o t
  <2>1. h \in TaskItem /\ t \in Seq(TaskItem)
    BY <1>1
  <2> HIDE DEF h, t
  <2>2. (<<x>> \o <<h>>) \o t = <<x>> \o (<<h>> \o t)
    <3>1. <<x>> \in Seq(TaskItem) /\ <<h>> \in Seq(TaskItem)
      BY <2>1
    <3> QED
      BY <2>1, <3>1, ConcatAssociative
  <2>3. <<x>> \o <<h>> = <<x, h>>
    <3>1. <<x>> \in Seq(TaskItem) /\ <<h>> \in Seq(TaskItem) /\ <<x, h>> \in Seq(TaskItem)
      BY <2>1
    <3> DEFINE l == <<x>> \o <<h>>
               r == <<x, h>>
    <3>2. l \in Seq(TaskItem) /\ Len(l) = 2 /\ l[1] = x /\ l[2] = h
      BY <3>1
    <3>3. r \in Seq(TaskItem) /\ Len(r) = 2 /\ r[1] = x /\ r[2] = h
      BY <3>1
    <3> HIDE DEF l, r
    <3>4. \A i \in 1 .. Len(l) : l[i] = r[i]
      <4>1. \A i \in 1 .. 2 : i = 1 \/ i = 2
        OBVIOUS
      <4> QED
        BY <3>2, <3>3, <4>1
    <3>5. l = r
      BY <3>2, <3>3, <3>4, SeqEqual
    <3> QED
      BY <3>5 DEF l, r
  <2> QED
    BY <2>2, <2>3
<1> QED
  BY <1>1, <1>2, <1>3 DEF Then, Top

\* What the operations on buffers do to the bytes of the other buffers.
LEMMA BytesAfter ==
  ASSUME MemInv
  PROVE  /\ UNCHANGED memVars => data' = data
         /\ \A b \in Buffer, bytes \in Seq(Byte) :
              Extended(b, bytes) => \A x \in Buffer \ {b} : data'[x] = data[x]
         /\ \A b \in Buffer, bytes \in Seq(Byte) : Refused(b, bytes) => data' = data
         /\ \A B \in SUBSET Buffer :
              Cleared(B) => \A x \in Buffer : data'[x] = IF x \in B THEN <<>> ELSE data[x]
         /\ \A b \in Buffer, n \in Nat : Consumed(b, n) => \A x \in Buffer \ {b} : data'[x] = data[x]
<1>1. data \in [Buffer -> Seq(Byte)]
  BY DEF MemInv, MemTypeOK
<1>2. UNCHANGED memVars => data' = data
  BY DEF memVars
<1>3. ASSUME NEW b \in Buffer, NEW bytes \in Seq(Byte), Extended(b, bytes)
      PROVE  \A x \in Buffer \ {b} : data'[x] = data[x]
  BY <1>1, <1>3 DEF Extended
<1>4. ASSUME NEW b \in Buffer, NEW bytes \in Seq(Byte), Refused(b, bytes)
      PROVE  data' = data
  BY <1>4 DEF Refused
<1>5. ASSUME NEW B \in SUBSET Buffer, Cleared(B)
      PROVE  \A x \in Buffer : data'[x] = IF x \in B THEN <<>> ELSE data[x]
  BY <1>5 DEF Cleared
<1>6. ASSUME NEW b \in Buffer, NEW n \in Nat, Consumed(b, n)
      PROVE  \A x \in Buffer \ {b} : data'[x] = data[x]
  <2>1. CASE Cleared({b})
    BY <1>5, <2>1
  <2>2. CASE data' = [data EXCEPT ![b] = SubSeq(@, n + 1, Len(@))]
    BY <1>1, <2>2
  <2> QED
    BY <1>6, <2>1, <2>2 DEF Consumed
<1> QED
  BY <1>2, <1>3, <1>4, <1>5, <1>6

\* What the invariant says of the top item.
LEMMA TopReleases ==
  ASSUME Typed, Releasing, task # <<>>
  PROVE  /\ Top.op \notin Rest => ~Closed
         /\ Top.op \notin {"cut", "capsule"} => data[ValueBuf] = <<>>
         /\ \A s \in Stream : Top.op \notin {"taken", "frame", "drop"} => ~Holds(Top, s)
         /\ \A s \in Stream : Top.id # s => ~Holds(Top, s)
<1>1. Len(task) \in Nat /\ 1 \in 1 .. Len(task) /\ Top = task[1]
  BY DEF Typed, Top
<1> QED
  BY <1>1 DEF Releasing, Holds

\* Steps that close the session, drop the copies of the top item and do no more.
LEMMA CloseReleases ==
  ASSUME Typed, Releasing, task # <<>>, NEW r \in SessionRecord, NEW cause \in Causes \ {"none"},
         NEW locals \in SUBSET Buffer, MarkClosed(r, cause, locals), Then(<<>>),
         \A s \in Stream : Holds(Top, s) => PayloadBuf(s) \in locals,
         Top.op \in {"cut", "capsule"} => ValueBuf \in locals
  PROVE  Releasing'
<1>1. data' = [b \in Buffer |-> IF b \in ParserBuffers \cup locals THEN <<>> ELSE data[b]]
  BY MarkClosedTyped DEF Typed
<1>2. <<>> \in Seq(TaskItem) /\ Len(<<>>) = 0
  BY EmptySeq
<1>3. \A b \in ParserBuffers : data'[b] = <<>>
  BY <1>1, Buffers
<1>4. \A s \in Stream : data'[PayloadBuf(s)] # <<>> => data[PayloadBuf(s)] # <<>> /\ ~Holds(Top, s)
  BY <1>1, Buffers
<1>5. data'[ValueBuf] = <<>>
  BY <1>1, Buffers, TopReleases
<1> DEFINE none == <<>>
<1>6. /\ none \in Seq(TaskItem) /\ Then(none) /\ 2 .. Len(none) = {} /\ 1 .. Len(none) = {}
  BY <1>2
<1> HIDE DEF none
<1> QED
  BY <1>3, <1>4, <1>5, <1>6, TurnReleases

\* Steps that drop the top item and at most copies of it, and leave the session open
\* or were taken because it is closed.
LEMMA LeaveReleases ==
  ASSUME Typed, Releasing, task # <<>>, Then(<<>>), ses'.cause = ses.cause,
         \A b \in Buffer : data'[b] = data[b] \/ data'[b] = <<>>,
         \A s \in Stream : Holds(Top, s) => data'[PayloadBuf(s)] = <<>>,
         Top.op \in {"cut", "capsule"} => data'[ValueBuf] = <<>>
  PROVE  Releasing'
<1>1. <<>> \in Seq(TaskItem) /\ Len(<<>>) = 0
  BY EmptySeq
<1>2. Closed' => \A b \in ParserBuffers : data'[b] = <<>>
  BY Buffers DEF Closed, Releasing
<1>3. \A s \in Stream : data'[PayloadBuf(s)] # <<>> => data[PayloadBuf(s)] # <<>> /\ ~Holds(Top, s)
  BY Buffers
<1>4. data'[ValueBuf] = <<>>
  BY Buffers, TopReleases
<1> DEFINE none == <<>>
<1>5. /\ none \in Seq(TaskItem) /\ Then(none) /\ 2 .. Len(none) = {} /\ 1 .. Len(none) = {}
  BY <1>1
<1> HIDE DEF none
<1> QED
  BY <1>2, <1>3, <1>4, <1>5, TurnReleases

\* Steps of an open session that replace the top item and touch no copy.
LEMMA ReplaceReleases ==
  ASSUME Typed, Releasing, task # <<>>, NEW items \in Seq(TaskItem), Then(items),
         ~Closed, ses'.cause = ses.cause,
         \A i \in 2 .. Len(items) : items[i].op \in Rest,
         \A s \in Stream : data'[PayloadBuf(s)] = data[PayloadBuf(s)],
         \A s \in Stream : Holds(Top, s) => \E j \in 1 .. Len(items) : Holds(items[j], s),
         data'[ValueBuf] = data[ValueBuf],
         Top.op \in {"cut", "capsule"} => items # <<>> /\ items[1].op \in {"cut", "capsule"}
  PROVE  Releasing'
<1>1. ~Closed'
  BY DEF Closed
<1>2. data'[ValueBuf] # <<>> => items # <<>> /\ items[1].op \in {"cut", "capsule"}
  BY TopReleases
<1> QED
  BY <1>1, <1>2, TurnReleases

\* Chunks that arrive.
LEMMA RecvReleases ==
  ASSUME Typed, Releasing, RecvFrames \/ RecvDiscarded \/ RecvData \/ RecvPending
  PROVE  Releasing'
<1> DEFINE s == Top.id
<1>1. /\ task # <<>> /\ task \in Seq(TaskItem) /\ MemInv /\ ses \in SessionRecord
      /\ Top.op = "recv"
  BY DEF Typed, RecvFrames, RecvDiscarded, RecvData, RecvPending, Doing
<1>2. /\ s \in Stream /\ Top.bytes \in Seq(Byte) /\ Top.fin \in BOOLEAN
      /\ FramesBuf(s) \in Buffer /\ ClassBuf(s) \in Buffer
  BY <1>1, TopTyped, Buffers
<1>3. ~Closed /\ data[ValueBuf] = <<>> /\ \A t \in Stream : ~Holds(Top, t)
  BY <1>1, TopReleases DEF Rest
<1>4. CASE RecvFrames
  <2> DEFINE items == <<Item("parse", s), [op |-> "after", id |-> s, fin |-> Top.fin]>>
  <2>1. items \in Seq(TaskItem)
    BY <1>2, ItemsTyped
  <2>2. \A i \in 2 .. Len(items) : items[i].op \in Rest
    BY DEF Rest
  <2>3. Then(items)
    BY <1>4 DEF RecvFrames
  <2> HIDE DEF items
  <2>4. ses'.cause = ses.cause
    BY <1>1, <1>4 DEF RecvFrames, SessionRecord
  <2>5. \A x \in Buffer \ {FramesBuf(s)} : data'[x] = data[x]
    BY <1>1, <1>2, <1>4, BytesAfter DEF RecvFrames
  <2>6. /\ \A t \in Stream : data'[PayloadBuf(t)] = data[PayloadBuf(t)]
        /\ data'[ValueBuf] = data[ValueBuf]
    BY <1>2, <2>5, Buffers
  <2> QED
    BY <1>1, <1>3, <2>1, <2>2, <2>3, <2>4, <2>6, ReplaceReleases
<1>5. CASE RecvDiscarded
  <2>1. Then(<<>>)
    BY <1>5 DEF RecvDiscarded
  <2>2. CASE MarkClosed(ses, "protocol", {})
    BY <1>1, <1>3, <2>1, <2>2, CloseReleases DEF Causes
  <2>3. CASE UNCHANGED memVars /\ ses'.cause = ses.cause
    BY <1>1, <1>3, <2>1, <2>3, BytesAfter, LeaveReleases
  <2> QED
    BY <1>1, <1>5, <2>2, <2>3 DEF RecvDiscarded, SessionRecord
<1>6. CASE RecvData
  <2>1. Then(<<>>) /\ UNCHANGED memVars /\ ses'.cause = ses.cause
    BY <1>1, <1>6 DEF RecvData, SessionRecord
  <2> QED
    BY <1>1, <1>3, <2>1, BytesAfter, LeaveReleases
<1>7. CASE RecvPending
  <2> DEFINE resolve == <<[op |-> "resolve", id |-> s, fin |-> Top.fin]>>
             limit == <<Item("limit", s)>>
  <2>1. resolve \in Seq(TaskItem) /\ limit \in Seq(TaskItem) /\ Len(resolve) = 1 /\ Len(limit) = 1
    BY <1>2, ItemsTyped
  <2>2. Then(resolve) \/ Then(limit)
    BY <1>7 DEF RecvPending
  <2> HIDE DEF resolve, limit
  <2>3. ses'.cause = ses.cause
    BY <1>7 DEF RecvPending
  <2>4. \A x \in Buffer \ {ClassBuf(s)} : data'[x] = data[x]
    BY <1>1, <1>2, <1>7, BytesAfter DEF RecvPending
  <2>5. /\ \A t \in Stream : data'[PayloadBuf(t)] = data[PayloadBuf(t)]
        /\ data'[ValueBuf] = data[ValueBuf]
    BY <1>2, <2>4, Buffers
  <2>6. \A i \in 2 .. 1 : FALSE
    OBVIOUS
  <2> QED
    BY <1>1, <1>3, <2>1, <2>2, <2>3, <2>5, <2>6, ReplaceReleases
<1> QED
  BY <1>4, <1>5, <1>6, <1>7

\* Streams that are classified.
LEMMA ResolveReleases ==
  ASSUME Typed, Releasing, NEW s \in Unis \cup Bidis,
         ResolveLater(s) \/ ResolveCritical(s) \/ ResolveData(s) \/ ResolveIgnored(s)
  PROVE  Releasing'
<1>1. /\ task # <<>> /\ task \in Seq(TaskItem) /\ MemInv /\ ses \in SessionRecord /\ s \in Stream
      /\ Top.op = "resolve"
  BY DEF Typed, ResolveLater, ResolveCritical, ResolveData, ResolveIgnored, Resolving, Doing, Stream
<1>2. ~Closed /\ data[ValueBuf] = <<>> /\ \A t \in Stream : ~Holds(Top, t)
  BY <1>1, TopReleases DEF Rest
<1>3. {ClassBuf(s)} \in SUBSET Buffer
  BY <1>1, Buffers
<1>4. Cleared({ClassBuf(s)}) =>
        /\ \A b \in Buffer : data'[b] = data[b] \/ data'[b] = <<>>
        /\ \A x \in Buffer \ {ClassBuf(s)} : data'[x] = data[x]
  BY <1>1, <1>3, BytesAfter
<1>5. CASE Then(<<>>) /\ (UNCHANGED memVars \/ Cleared({ClassBuf(s)})) /\ ses'.cause = ses.cause
  BY <1>1, <1>2, <1>4, <1>5, BytesAfter, LeaveReleases
<1>6. CASE ResolveCritical(s)
  <2> DEFINE new == CriticalRole(TypeOf(s).val)
             known == [ses EXCEPT !.role[s] = new]
             rest == Suffix(data[ClassBuf(s)], TypeOf(s).len)
             item == [op |-> "recv", id |-> s, fin |-> Top.fin, bytes |-> rest]
  <2>1. IsCritical(s) /\ Top.fin \in BOOLEAN /\ rest \in Seq(Byte)
    BY <1>1, <1>6, TopTyped, TypeOfTyped DEF ResolveCritical
  <2>2. new \in {"control", "qpack_encoder", "qpack_decoder"}
    BY <2>1 DEF IsCritical, CriticalRole, H3Control, QpackEncoder, QpackDecoder
  <2> HIDE DEF new
  <2>3. known \in SessionRecord /\ known.cause = ses.cause
    BY <1>1, <2>2 DEF SessionRecord, RoleName
  <2> HIDE DEF known, rest
  <2>4. <<item>> \in Seq(TaskItem) /\ Len(<<item>>) = 1
    BY <1>1, <2>1, ItemsTyped
  <2> HIDE DEF item
  <2>5. CASE (MarkClosed(ses, "protocol", {}) \/ MarkClosed(known, "protocol", {})) /\ Then(<<>>)
    BY <1>1, <1>2, <2>3, <2>5, CloseReleases DEF Causes
  <2>6. CASE ses' = known /\ Cleared({ClassBuf(s)}) /\ Then(<<>>)
    BY <1>5, <2>3, <2>6
  <2>7. CASE ses' = known /\ Cleared({ClassBuf(s)}) /\ Then(<<item>>)
    <3> DEFINE items == <<item>>
    <3>1. items \in Seq(TaskItem) /\ Then(items) /\ Len(items) = 1 /\ 2 .. Len(items) = {}
      BY <2>4, <2>7
    <3> HIDE DEF items
    <3>2. /\ \A t \in Stream : data'[PayloadBuf(t)] = data[PayloadBuf(t)]
          /\ data'[ValueBuf] = data[ValueBuf]
      BY <1>1, <1>4, <2>7, Buffers
    <3> QED
      BY <1>1, <1>2, <2>3, <2>7, <3>1, <3>2, ReplaceReleases
  <2> QED
    BY <1>6, <2>5, <2>6, <2>7 DEF ResolveCritical, new, known, rest, item
<1>7. CASE ResolveLater(s)
  BY <1>1, <1>5, <1>7 DEF ResolveLater, SessionRecord
<1>8. CASE ResolveData(s)
  BY <1>1, <1>5, <1>8 DEF ResolveData, SessionRecord
<1>9. CASE ResolveIgnored(s)
  BY <1>1, <1>5, <1>9 DEF ResolveIgnored, SessionRecord
<1> QED
  BY <1>6, <1>7, <1>8, <1>9

\* Frames that are cut out of their stream.
LEMMA FrameReleases ==
  ASSUME Typed, Releasing, Parse \/ ConsumeFrame
  PROVE  Releasing'
<1> DEFINE s == Top.id
           b == FramesBuf(s)
           value == UnitValue(data[b], NextUnit(b))
<1>1. task # <<>> /\ task \in Seq(TaskItem) /\ MemInv /\ ses \in SessionRecord
  BY DEF Typed, Parse, ConsumeFrame, Doing
<1>2. s \in Stream /\ b \in Buffer /\ PayloadBuf(s) \in Buffer
  BY <1>1, TopTyped, Buffers
<1>3. Whole(b) => value \in Seq(Byte)
  BY <1>1, <1>2, UnitTyped
<1>4. CASE Parse
  <2>1. Top.op = "parse"
    BY <1>4 DEF Parse, Doing
  <2>2. data[ValueBuf] = <<>> /\ (\A t \in Stream : ~Holds(Top, t))
    BY <1>1, <2>1, TopReleases
  <2> HIDE DEF value
  <2>3. CASE Then(<<>>) /\ data' = data /\ ses'.cause = ses.cause
    BY <1>1, <2>1, <2>2, <2>3, LeaveReleases
  <2>4. CASE Then(<<>>) /\ MarkClosed(ses, "rejected", {})
    BY <1>1, <2>1, <2>2, <2>4, CloseReleases DEF Causes
  <2>5. CASE /\ ~Closed /\ Whole(b) /\ Extended(PayloadBuf(s), value)
             /\ task' = <<Item("taken", s)>> \o task /\ UNCHANGED ses
    <3> DEFINE x == Item("taken", s)
               items == <<x, Top>>
    <3>1. x \in TaskItem /\ Holds(x, s) /\ Top \in TaskItem
      BY <1>1, <1>2, ItemsTyped, TopTyped DEF Holds, Item
    <3>2. items \in Seq(TaskItem) /\ Then(items)
      BY <1>1, <2>5, <3>1, PushIsThen
    <3>3. Len(items) = 2 /\ items[1] = x /\ items[2] = Top /\ 2 .. Len(items) = {2} /\ 1 \in 1 .. Len(items)
      OBVIOUS
    <3> HIDE DEF x, items
    <3>4. \A i \in 2 .. Len(items) : items[i].op \in Rest
      BY <2>1, <3>3 DEF Rest
    <3>5. ~Closed'
      BY <2>5 DEF Closed
    <3>6. \A y \in Buffer \ {PayloadBuf(s)} : data'[y] = data[y]
      BY <1>1, <1>2, <1>3, <2>5, BytesAfter
    <3>7. ASSUME NEW t \in Stream, data'[PayloadBuf(t)] # <<>>
          PROVE  \/ \E j \in 1 .. Len(items) : Holds(items[j], t)
                 \/ data[PayloadBuf(t)] # <<>> /\ ~Holds(Top, t)
      <4>1. CASE t = s
        BY <3>1, <3>3, <4>1
      <4>2. CASE t # s
        BY <1>2, <2>2, <3>6, <3>7, <4>2, Buffers
      <4> QED
        BY <4>1, <4>2
    <3>8. data'[ValueBuf] = <<>>
      BY <1>2, <2>2, <3>6, Buffers
    <3> QED
      BY <1>1, <3>2, <3>4, <3>5, <3>7, <3>8, TurnReleases
  <2>6. CASE /\ Whole(b) /\ Refused(PayloadBuf(s), value) /\ Then(<<>>)
             /\ ses' = [ses EXCEPT !.bad = @ \cup {s}]
    BY <1>1, <1>2, <1>3, <2>3, <2>6, BytesAfter DEF SessionRecord
  <2>7. CASE Then(<<>>) /\ UNCHANGED <<memVars, ses>>
    BY <2>3, <2>7 DEF memVars
  <2>8. CASE Then(<<>>) /\ ses' = [ses EXCEPT !.bad = @ \cup {s}] /\ UNCHANGED memVars
    BY <1>1, <2>3, <2>8 DEF memVars, SessionRecord
  <2> QED
    BY <1>4, <2>4, <2>5, <2>6, <2>7, <2>8 DEF Parse, value
<1>5. CASE ConsumeFrame
  <2> DEFINE item == [op |-> "frame", id |-> s, ty |-> NextUnit(b).ty]
             items == <<item>>
  <2>1. Top.op = "taken" /\ Consumed(b, Total(NextUnit(b))) /\ Then(items) /\ UNCHANGED ses
    BY <1>5 DEF ConsumeFrame, Doing
  <2>2. NextUnit(b).ty \in Nat /\ Total(NextUnit(b)) \in Nat
    BY <1>1, <1>2, UnitTyped
  <2>3. item \in TaskItem /\ item.op = "frame" /\ item.id = s
    BY <1>2, <2>2, ItemsTyped
  <2> HIDE DEF item
  <2>4. /\ items \in Seq(TaskItem) /\ Len(items) = 1 /\ items[1] = item /\ 2 .. Len(items) = {}
        /\ 1 \in 1 .. Len(items)
    BY <2>3
  <2> HIDE DEF items
  <2>5. ~Closed
    BY <1>1, <2>1, TopReleases DEF Rest
  <2>6. \A x \in Buffer \ {b} : data'[x] = data[x]
    BY <1>1, <1>2, <2>1, <2>2, BytesAfter
  <2>7. /\ \A t \in Stream : data'[PayloadBuf(t)] = data[PayloadBuf(t)]
        /\ data'[ValueBuf] = data[ValueBuf]
    BY <1>2, <2>6, Buffers
  <2>8. \A t \in Stream : Holds(Top, t) => \E j \in 1 .. Len(items) : Holds(items[j], t)
    BY <2>3, <2>4 DEF Holds
  <2> QED
    BY <1>1, <2>1, <2>4, <2>5, <2>7, <2>8, ReplaceReleases
<1> QED
  BY <1>4, <1>5

\* Steps that drop the payload of a frame, with its item.
LEMMA DroppedReleases ==
  ASSUME Typed, Releasing, task # <<>>, NEW s \in Stream, Top.id = s, Top.op \in {"frame", "drop"},
         Dropped(s), ses'.cause = ses.cause
  PROVE  Releasing'
<1>1. MemInv /\ {PayloadBuf(s)} \in SUBSET Buffer /\ Then(<<>>) /\ Cleared({PayloadBuf(s)})
  BY Buffers DEF Typed, Dropped
<1>2. \A x \in Buffer : data'[x] = IF x \in {PayloadBuf(s)} THEN <<>> ELSE data[x]
  BY <1>1, BytesAfter
<1>3. \A b \in Buffer : data'[b] = data[b] \/ data'[b] = <<>>
  BY <1>2
<1>4. \A t \in Stream : Holds(Top, t) => data'[PayloadBuf(t)] = <<>>
  BY <1>1, <1>2 DEF Holds
<1> QED
  BY <1>1, <1>3, <1>4, LeaveReleases

\* Closing while a frame is handled drops its payload.
LEMMA FrameCloseReleases ==
  ASSUME Typed, Releasing, task # <<>>, NEW s \in Stream, Top.id = s, Top.op = "frame",
         NEW r \in SessionRecord, NEW cause \in Causes \ {"none"}, Then(<<>>),
         MarkClosed(r, cause, {PayloadBuf(s)})
  PROVE  Releasing'
<1>1. {PayloadBuf(s)} \in SUBSET Buffer
  BY Buffers
<1>2. \A t \in Stream : Holds(Top, t) => PayloadBuf(t) \in {PayloadBuf(s)}
  BY DEF Holds
<1> QED
  BY <1>1, <1>2, CloseReleases

\* What SETTINGS put on the stack of a server: CONNECT's frames if there are any, and
\* the drop of the payload.
LEMMA SettingsItems ==
  ASSUME NEW s \in Stream
  PROVE  LET items == (IF ses.role[Connect] # "none" THEN <<Item("parse", Connect)>> ELSE <<>>)
                        \o <<Item("drop", s)>>
         IN  /\ items \in Seq(TaskItem) /\ items # <<>>
             /\ \A i \in 1 .. Len(items) : items[i].op \in Rest
             /\ \E j \in 1 .. Len(items) : Holds(items[j], s)
<1> DEFINE p == Item("parse", Connect)
           d == Item("drop", s)
           first == IF ses.role[Connect] # "none" THEN <<p>> ELSE <<>>
           items == first \o <<d>>
<1>1. p \in TaskItem /\ d \in TaskItem /\ p.op = "parse" /\ d.op = "drop" /\ d.id = s
  BY ItemsTyped DEF Item, Stream
<1>2. first = <<>> \/ first = <<p>>
  OBVIOUS
<1> HIDE DEF p, d, first
<1>3. CASE first = <<>>
  <2>1. items \in Seq(TaskItem) /\ Len(items) = 1 /\ items[1] = d
    BY <1>1, <1>3
  <2>2. (\A i \in 1 .. 1 : i = 1) /\ 1 \in 1 .. 1
    OBVIOUS
  <2> HIDE DEF items
  <2>3. items # <<>> /\ \A i \in 1 .. Len(items) : items[i].op \in Rest
    <3>1. items[1].op \in Rest
      BY <1>1, <2>1 DEF Rest
    <3> QED
      BY <2>1, <2>2, <3>1
  <2>4. Holds(items[1], s)
    BY <1>1, <2>1 DEF Holds
  <2> QED
    BY <2>1, <2>2, <2>3, <2>4 DEF items, first, p, d
<1>4. CASE first = <<p>>
  <2>1. items \in Seq(TaskItem) /\ Len(items) = 2 /\ items[1] = p /\ items[2] = d
    BY <1>1, <1>4
  <2>2. (\A i \in 1 .. 2 : i = 1 \/ i = 2) /\ 2 \in 1 .. 2
    OBVIOUS
  <2> HIDE DEF items
  <2>3. items # <<>> /\ \A i \in 1 .. Len(items) : items[i].op \in Rest
    BY <1>1, <2>1, <2>2 DEF Rest
  <2>4. Holds(items[2], s)
    BY <1>1, <2>1 DEF Holds
  <2> QED
    BY <2>1, <2>2, <2>3, <2>4 DEF items, first, p, d
<1> QED
  BY <1>2, <1>3, <1>4

\* Frames of the control stream.
LEMMA ControlReleases ==
  ASSUME Typed, Releasing, NEW s \in Unis, ControlSettings(s) \/ ControlFrame(s)
  PROVE  Releasing'
<1> DEFINE pairs == SettingsPairs(Payload(s))
           done == [ses EXCEPT !.headersDone = @ \cup {s}]
           known == [ses EXCEPT !.headersDone = @ \cup {s}, !.settings = pairs,
                                !.limit = Setting(pairs, SettingsInitialMaxData)]
           joined == [known EXCEPT !.role[Connect] = "connect"]
           drained == [ses EXCEPT !.draining = @ \/ Top.ty = FrameGoaway]
           first == IF ses.role[Connect] # "none" THEN <<Item("parse", Connect)>> ELSE <<>>
           items == first \o <<Item("drop", s)>>
<1>1. /\ task # <<>> /\ task \in Seq(TaskItem) /\ MemInv /\ ses \in SessionRecord
      /\ s \in Stream /\ Connect \in Stream /\ Top.id = s /\ Top.op = "frame"
  BY DEF Typed, ControlSettings, ControlFrame, Handling, Doing, Stream
<1>2. ~Closed /\ data[ValueBuf] = <<>>
  BY <1>1, TopReleases DEF Rest
<1>3. pairs \in KnownSettings
  BY <1>1, Buffers DEF KnownSettings, Payload, MemInv, MemTypeOK
<1> HIDE DEF pairs
<1>4. Setting(pairs, SettingsInitialMaxData) \in KnownLimit
  BY <1>3 DEF KnownLimit
<1>5. /\ done \in SessionRecord /\ known \in SessionRecord
      /\ known.cause = ses.cause
  BY <1>1, <1>3, <1>4 DEF SessionRecord
<1>6. drained.cause = ses.cause
  BY <1>1 DEF SessionRecord
<1> HIDE DEF done, known, drained
<1>7. joined.cause = ses.cause
  BY <1>5 DEF SessionRecord
<1> HIDE DEF joined
<1>8. CASE /\ Then(<<>>)
           /\ \/ MarkClosed(done, "protocol", {PayloadBuf(s)})
              \/ MarkClosed(known, "rejected", {PayloadBuf(s)})
              \/ MarkClosed(ses, "protocol", {PayloadBuf(s)})
  BY <1>1, <1>5, <1>8, FrameCloseReleases DEF Causes
<1>9. CASE (ses' = joined \/ ses' = drained) /\ Dropped(s)
  BY <1>1, <1>6, <1>7, <1>9, DroppedReleases
<1>10. CASE ses' = known /\ UNCHANGED memVars /\ Then(items)
  <2>1. items \in Seq(TaskItem) /\ (\A i \in 1 .. Len(items) : items[i].op \in Rest)
    BY <1>1, SettingsItems
  <2>2. \E j \in 1 .. Len(items) : Holds(items[j], s)
    BY <1>1, SettingsItems
  <2> HIDE DEF items
  <2>3. Len(items) \in Nat
    BY <2>1
  <2>4. \A i \in 2 .. Len(items) : items[i].op \in Rest
    BY <2>1, <2>3
  <2>5. \A t \in Stream : Holds(Top, t) => \E j \in 1 .. Len(items) : Holds(items[j], t)
    BY <1>1, <2>2 DEF Holds
  <2>6. data' = data /\ ses'.cause = ses.cause /\ Then(items)
    BY <1>5, <1>10 DEF memVars
  <2> QED
    BY <1>1, <1>2, <2>1, <2>4, <2>5, <2>6, ReplaceReleases
<1> QED
  BY <1>8, <1>9, <1>10 DEF ControlSettings, ControlFrame, pairs, done, known, joined, items, drained

\* Frames of CONNECT, and payloads that are dropped when their frame was handled.
LEMMA ConnectReleases ==
  ASSUME Typed, Releasing, ConnectHeaders \/ ConnectOther \/ ConnectData \/ Drop
  PROVE  Releasing'
<1> DEFINE known == [ses EXCEPT !.headersDone = @ \cup {Connect}]
           ready == [known EXCEPT !.ready = TRUE]
<1>1. /\ task # <<>> /\ task \in Seq(TaskItem) /\ MemInv /\ ses \in SessionRecord
      /\ Connect \in Stream
  BY DEF Typed, ConnectHeaders, ConnectOther, ConnectData, Drop, Handling, Doing, Stream
<1>2. known \in SessionRecord /\ known.cause = ses.cause
  BY <1>1 DEF SessionRecord
<1> HIDE DEF known
<1>3. ready.cause = ses.cause
  BY <1>2 DEF SessionRecord
<1> HIDE DEF ready
<1>4. CASE ConnectHeaders
  <2>1. Top.op = "frame" /\ Top.id = Connect
    BY <1>4 DEF ConnectHeaders, Handling, Doing
  <2>2. CASE (ses' = ready \/ ses' = known) /\ Dropped(Connect)
    BY <1>1, <1>2, <1>3, <2>1, <2>2, DroppedReleases
  <2>3. CASE Then(<<>>) /\ MarkClosed(known, "rejected", {PayloadBuf(Connect)})
    BY <1>1, <1>2, <2>1, <2>3, FrameCloseReleases DEF Causes
  <2> QED
    BY <1>4, <2>2, <2>3 DEF ConnectHeaders, known, ready
<1>5. CASE ConnectOther
  BY <1>1, <1>5, DroppedReleases DEF ConnectOther, Handling, Doing
<1>6. CASE Drop
  <2>1. Top.id \in Stream
    BY <1>1, TopTyped
  <2> QED
    BY <1>1, <1>6, <2>1, DroppedReleases DEF Drop, Doing
<1>7. CASE ConnectData
  <2> DEFINE d == Item("drop", Connect)
             scan == <<Item("scan", Connect), d>>
             limit == <<Item("limit", Connect), d>>
  <2>1. /\ Top.op = "frame" /\ Top.id = Connect /\ ses' = ses
        /\ \/ Extended(CapsuleBuf, Payload(Connect)) /\ Then(scan)
           \/ Refused(CapsuleBuf, Payload(Connect)) /\ Then(limit)
    BY <1>7 DEF ConnectData, Handling, Doing
  <2>2. CapsuleBuf \in Buffer /\ Payload(Connect) \in Seq(Byte)
    BY <1>1, Buffers DEF Payload, MemInv, MemTypeOK
  <2>3. \A x \in Buffer \ {CapsuleBuf} : data'[x] = data[x]
    BY <1>1, <2>1, <2>2, BytesAfter
  <2>4. /\ \A t \in Stream : data'[PayloadBuf(t)] = data[PayloadBuf(t)]
        /\ data'[ValueBuf] = data[ValueBuf]
    BY <2>3, Buffers
  <2>5. d \in TaskItem /\ d.op = "drop" /\ d.id = Connect
    BY <1>1, ItemsTyped DEF Item
  <2>6. Item("scan", Connect) \in TaskItem /\ Item("limit", Connect) \in TaskItem
    BY <1>1, ItemsTyped
  <2> HIDE DEF d
  <2>7. /\ scan \in Seq(TaskItem) /\ Len(scan) = 2 /\ scan[2] = d
        /\ limit \in Seq(TaskItem) /\ Len(limit) = 2 /\ limit[2] = d
    BY <2>5, <2>6
  <2> HIDE DEF scan, limit
  <2>8. ~Closed
    BY <1>1, <2>1, TopReleases DEF Rest
  <2>9. (\A i \in 2 .. 2 : i = 2) /\ 2 \in 1 .. 2
    OBVIOUS
  <2>10. ASSUME NEW items \in Seq(TaskItem), Len(items) = 2, items[2] = d, Then(items)
         PROVE  Releasing'
    <3>1. \A i \in 2 .. Len(items) : items[i].op \in Rest
      BY <2>5, <2>9, <2>10 DEF Rest
    <3>2. \A t \in Stream : Holds(Top, t) => \E j \in 1 .. Len(items) : Holds(items[j], t)
      BY <2>1, <2>5, <2>9, <2>10 DEF Holds
    <3> QED
      BY <1>1, <2>1, <2>4, <2>8, <2>10, <3>1, <3>2, ReplaceReleases
  <2> QED
    BY <2>1, <2>7, <2>10
<1> QED
  BY <1>4, <1>5, <1>6, <1>7

\* Capsules.
LEMMA CapsuleReleases ==
  ASSUME Typed, Releasing, Scan \/ CutCapsule \/ HandleCapsule
  PROVE  Releasing'
<1> DEFINE s == Top.id
           u == NextUnit(CapsuleBuf)
           value == UnitValue(data[CapsuleBuf], u)
<1>1. task # <<>> /\ task \in Seq(TaskItem) /\ MemInv /\ ses \in SessionRecord
  BY DEF Typed, Scan, CutCapsule, HandleCapsule, Doing
<1>2. s \in Stream /\ CapsuleBuf \in Buffer /\ ValueBuf \in Buffer /\ Top \in TaskItem
  BY <1>1, TopTyped, Buffers
<1>3. CASE Scan
  <2>1. Top.op = "scan"
    BY <1>3 DEF Scan, Doing
  <2>2. data[ValueBuf] = <<>> /\ (\A t \in Stream : ~Holds(Top, t))
    BY <1>1, <2>1, TopReleases
  <2>3. Whole(CapsuleBuf) => value \in Seq(Byte)
    BY <1>1, <1>2, UnitTyped
  <2> HIDE DEF value
  <2>4. CASE Then(<<>>) /\ UNCHANGED <<memVars, ses>>
    BY <1>1, <2>1, <2>2, <2>4, BytesAfter, LeaveReleases
  <2>5. CASE Then(<<>>) /\ MarkClosed(ses, "protocol", {})
    BY <1>1, <2>1, <2>2, <2>5, CloseReleases DEF Causes
  <2>6. CASE /\ ~Closed /\ Whole(CapsuleBuf) /\ Extended(ValueBuf, value)
             /\ task' = <<Item("cut", s)>> \o task /\ UNCHANGED ses
    <3> DEFINE x == Item("cut", s)
               items == <<x, Top>>
    <3>1. x \in TaskItem /\ x.op = "cut"
      BY <1>2, ItemsTyped DEF Item
    <3>2. items \in Seq(TaskItem) /\ Then(items)
      BY <1>1, <2>6, <3>1, PushIsThen
    <3>3. Len(items) = 2 /\ items[1] = x /\ items[2] = Top /\ 2 .. Len(items) = {2}
      OBVIOUS
    <3> HIDE DEF x, items
    <3>4. (\A i \in 2 .. Len(items) : items[i].op \in Rest) /\ items # <<>>
      BY <2>1, <3>2, <3>3 DEF Rest
    <3>5. ~Closed'
      BY <2>6 DEF Closed
    <3>6. \A y \in Buffer \ {ValueBuf} : data'[y] = data[y]
      BY <1>1, <1>2, <2>3, <2>6, BytesAfter
    <3>7. \A t \in Stream : data'[PayloadBuf(t)] = data[PayloadBuf(t)]
      BY <3>6, Buffers
    <3> QED
      BY <1>1, <2>2, <3>1, <3>2, <3>3, <3>4, <3>5, <3>7, TurnReleases
  <2>7. CASE /\ ~Closed /\ Whole(CapsuleBuf) /\ Refused(ValueBuf, value)
             /\ Then(<<Item("limit", s)>>) /\ UNCHANGED ses
    <3> DEFINE items == <<Item("limit", s)>>
    <3>1. items \in Seq(TaskItem) /\ Len(items) = 1 /\ 2 .. Len(items) = {} /\ Then(items)
      BY <1>2, <2>7, ItemsTyped
    <3> HIDE DEF items
    <3>2. data' = data
      BY <1>1, <1>2, <2>3, <2>7, BytesAfter
    <3> QED
      BY <1>1, <2>1, <2>2, <2>7, <3>1, <3>2, ReplaceReleases
  <2> QED
    BY <1>3, <2>4, <2>5, <2>6, <2>7 DEF Scan, value
<1>4. CASE CutCapsule
  <2> DEFINE item == [op |-> "capsule", id |-> s, ty |-> u.ty]
             items == <<item>>
  <2>1. Top.op = "cut" /\ Consumed(CapsuleBuf, Total(u)) /\ Then(items) /\ UNCHANGED ses
    BY <1>4 DEF CutCapsule, Doing
  <2>2. u.ty \in Nat /\ Total(u) \in Nat
    BY <1>1, <1>2, UnitTyped
  <2>3. item \in TaskItem /\ item.op = "capsule"
    BY <1>2, <2>2, ItemsTyped
  <2> HIDE DEF item
  <2>4. /\ items \in Seq(TaskItem) /\ Len(items) = 1 /\ items[1] = item /\ 2 .. Len(items) = {}
        /\ items # <<>>
    BY <2>3
  <2> HIDE DEF items
  <2>5. ~Closed /\ (\A t \in Stream : ~Holds(Top, t))
    BY <1>1, <2>1, TopReleases DEF Rest
  <2>6. \A x \in Buffer \ {CapsuleBuf} : data'[x] = data[x]
    BY <1>1, <1>2, <2>1, <2>2, BytesAfter
  <2>7. /\ \A t \in Stream : data'[PayloadBuf(t)] = data[PayloadBuf(t)]
        /\ data'[ValueBuf] = data[ValueBuf]
    BY <2>6, Buffers
  <2> QED
    BY <1>1, <2>1, <2>3, <2>4, <2>5, <2>7, ReplaceReleases
<1>5. CASE HandleCapsule
  <2>1. Top.op = "capsule" /\ Then(<<>>)
    BY <1>5 DEF HandleCapsule, Doing
  <2>2. \A t \in Stream : ~Holds(Top, t)
    BY <1>1, <2>1, TopReleases
  <2>3. {ValueBuf} \in SUBSET Buffer
    BY <1>2
  <2>4. CASE MarkClosed(ses, "peer", {ValueBuf}) \/ MarkClosed(ses, "flow", {ValueBuf})
    BY <1>1, <2>1, <2>2, <2>3, <2>4, CloseReleases DEF Causes
  <2>5. CASE ses'.cause = ses.cause /\ Cleared({ValueBuf})
    <3>1. \A x \in Buffer : data'[x] = IF x \in {ValueBuf} THEN <<>> ELSE data[x]
      BY <1>1, <2>3, <2>5, BytesAfter
    <3> QED
      BY <1>1, <1>2, <2>1, <2>2, <2>5, <3>1, LeaveReleases
  <2> QED
    BY <1>1, <1>5, <2>4, <2>5 DEF HandleCapsule, SessionRecord
<1> QED
  BY <1>3, <1>4, <1>5

\* A refused push, and the checks at the end of process_recv.
LEMMA EndReleases ==
  ASSUME Typed, Releasing, LimitExceeded \/ After
  PROVE  Releasing'
<1> DEFINE stopped == [ses EXCEPT !.shut = @ \cup {Top.id}]
<1>1. /\ task # <<>> /\ task \in Seq(TaskItem) /\ MemInv /\ ses \in SessionRecord /\ Then(<<>>)
      /\ Top.op \in {"limit", "after"}
  BY DEF Typed, LimitExceeded, After, Doing
<1>2. \A t \in Stream : ~Holds(Top, t)
  BY <1>1, TopReleases
<1>3. stopped \in SessionRecord
  <2>1. Top.id \in Stream
    BY <1>1, TopTyped
  <2> QED
    BY <1>1, <2>1 DEF SessionRecord
<1> HIDE DEF stopped
<1>4. CASE UNCHANGED <<memVars, ses>>
  BY <1>1, <1>2, <1>4, BytesAfter, LeaveReleases
<1>5. CASE \E cause \in {"protocol", "peer", "limit"} : MarkClosed(ses, cause, {})
  BY <1>1, <1>2, <1>5, CloseReleases DEF Causes
<1>6. CASE MarkClosed(stopped, "malformed", {})
  BY <1>1, <1>2, <1>3, <1>6, CloseReleases DEF Causes
<1> QED
  BY <1>4, <1>5, <1>6 DEF LimitExceeded, After, stopped

\* When nothing is being processed there are no copies.
LEMMA IdleHoldsNoCopy ==
  ASSUME Releasing, task = <<>>
  PROVE  data[ValueBuf] = <<>> /\ \A s \in Stream : data[PayloadBuf(s)] = <<>>
<1>1. 1 .. Len(task) = {}
  OBVIOUS
<1> QED
  BY <1>1 DEF Releasing

\* Steps between chunks make no copy, and leave nothing in the parsers when they close.
LEMMA IdleReleases ==
  ASSUME Releasing, task = <<>>, task' = <<>>,
         \A s \in Stream : data'[PayloadBuf(s)] \in {<<>>, data[PayloadBuf(s)]},
         data'[ValueBuf] \in {<<>>, data[ValueBuf]},
         Closed' => \A b \in ParserBuffers : data'[b] = <<>>
  PROVE  Releasing'
<1>1. data'[ValueBuf] = <<>> /\ \A s \in Stream : data'[PayloadBuf(s)] = <<>>
  BY IdleHoldsNoCopy
<1>2. 1 .. Len(task') = {} /\ 2 .. Len(task') = {}
  OBVIOUS
<1>3. (Closed => \A b \in ParserBuffers : data[b] = <<>>)'
  BY DEF ParserBuffers, FramesBuf, ClassBuf, CapsuleBuf, Connect, Stream
<1>4. (\A s \in Stream : data[PayloadBuf(s)] # <<>> => \E i \in 1 .. Len(task) : Holds(task[i], s))'
  BY <1>1 DEF PayloadBuf
<1>5. (data[ValueBuf] # <<>> => task # <<>> /\ task[1].op \in {"cut", "capsule"})'
  BY <1>1 DEF ValueBuf, Connect
<1> QED
  BY <1>2, <1>3, <1>4, <1>5 DEF Releasing, Rest

\* A chunk, or the report of a reset.
LEMMA ReadReleases ==
  ASSUME Typed, Releasing, NEW s \in Stream,
         \/ \E n \in {0} \cup ChunkSizes, fin \in BOOLEAN, pressed \in BOOLEAN :
              OnReadable(s, n, fin, pressed)
         \/ \E code \in Int : OnReset(s, code)
  PROVE  Releasing'
<1>1. MemInv /\ ses \in SessionRecord /\ task = <<>> /\ ~Closed
  BY DEF Typed, OnReadable, OnReset, Readable, Idle
<1>2. data[ValueBuf] = <<>> /\ \A t \in Stream : data[PayloadBuf(t)] = <<>>
  BY <1>1, IdleHoldsNoCopy
<1>3. ASSUME NEW n \in {0} \cup ChunkSizes, NEW fin \in BOOLEAN, NEW pressed \in BOOLEAN,
             OnReadable(s, n, fin, pressed)
      PROVE  Releasing'
  <2>1. data' = data /\ ses'.cause = ses.cause
    BY <1>1, <1>3 DEF OnReadable, memVars, SessionRecord
  <2>2. ~Closed'
    BY <1>1, <2>1 DEF Closed
  <2>3. Len(task') = 1
    <3> DEFINE item == [op |-> "recv", id |-> s, fin |-> fin,
                        bytes |-> SubSeq(script.of[s], peer[s].pos + 1, peer[s].pos + n)]
    <3>1. task' = <<item>>
      BY <1>3 DEF OnReadable
    <3> HIDE DEF item
    <3> QED
      BY <3>1
  <2>4. 2 .. Len(task') = {}
    BY <2>3
  <2>5. (\A t \in Stream : data[PayloadBuf(t)] # <<>> => \E i \in 1 .. Len(task) : Holds(task[i], t))'
    BY <1>2, <2>1 DEF PayloadBuf
  <2>6. (data[ValueBuf] # <<>> => task # <<>> /\ task[1].op \in {"cut", "capsule"})'
    BY <1>2, <2>1 DEF ValueBuf, Connect
  <2> QED
    BY <2>2, <2>4, <2>5, <2>6 DEF Releasing, Rest
<1>4. ASSUME NEW code \in Int, OnReset(s, code)
      PROVE  Releasing'
  <2> DEFINE known == [ses EXCEPT !.role[s] = RoleOf(s), !.dead = @ \cup {s}]
  <2>1. known \in SessionRecord /\ known.cause = ses.cause
    BY <1>1, RoleOfTyped DEF SessionRecord
  <2>2. task' = <<>>
    BY <1>1, <1>4 DEF OnReset
  <2> HIDE DEF known
  <2>3. CASE ses' = known /\ UNCHANGED memVars
    <3>1. data' = data /\ ~Closed'
      BY <1>1, <2>1, <2>3 DEF memVars, Closed
    <3> QED
      BY <1>1, <2>2, <3>1, IdleReleases
  <2>4. CASE MarkClosed(known, "protocol", {}) \/ MarkClosed(known, "peer", {})
    <3>1. data' = [b \in Buffer |-> IF b \in ParserBuffers \cup {} THEN <<>> ELSE data[b]]
      BY <1>1, <2>1, <2>4, MarkClosedTyped DEF Causes
    <3>2. /\ \A b \in ParserBuffers : data'[b] = <<>>
          /\ \A b \in Buffer : data'[b] \in {<<>>, data[b]}
      BY <3>1, Buffers
    <3> QED
      BY <1>1, <2>2, <3>2, Buffers, IdleReleases
  <2> QED
    BY <1>4, <2>3, <2>4 DEF OnReset, known
<1> QED
  BY <1>3, <1>4

\* What happens between chunks.
LEMMA BetweenReleases ==
  ASSUME Typed, Releasing, Prune \/ ConnectionLost \/ OtherSession \/ \E s \in Bidis : FinishSend(s)
  PROVE  Releasing'
<1>1. MemInv /\ ses \in SessionRecord /\ task = <<>> /\ task' = <<>>
  BY DEF Typed, Prune, ConnectionLost, OtherSession, FinishSend, Idle
<1>2. CASE Prune
  <2> DEFINE gone == {s \in Stream : Prunable(s)}
             B == {FramesBuf(s) : s \in gone} \cup {ClassBuf(s) : s \in gone}
  <2>1. B \in SUBSET Buffer
    BY Buffers
  <2>2. Cleared(B) /\ ses'.cause = ses.cause
    BY <1>1, <1>2 DEF Prune, SessionRecord
  <2> HIDE DEF B
  <2>3. \A b \in Buffer : data'[b] \in {<<>>, data[b]}
    BY <1>1, <2>1, <2>2, BytesAfter
  <2>4. Closed' => \A b \in ParserBuffers : data'[b] = <<>>
    BY <2>2, <2>3, Buffers DEF Closed, Releasing
  <2> QED
    BY <1>1, <2>3, <2>4, Buffers, IdleReleases
<1>3. CASE ConnectionLost
  <2>1. MarkClosed(ses, "peer", {})
    BY <1>3 DEF ConnectionLost
  <2>2. data' = [b \in Buffer |-> IF b \in ParserBuffers \cup {} THEN <<>> ELSE data[b]]
    BY <1>1, <2>1, MarkClosedTyped DEF Causes
  <2>3. /\ \A b \in ParserBuffers : data'[b] = <<>>
        /\ \A b \in Buffer : data'[b] \in {<<>>, data[b]}
    BY <2>2, Buffers
  <2> QED
    BY <1>1, <2>3, Buffers, IdleReleases
<1>4. CASE OtherSession
  <2> DEFINE zeros == [i \in 1 .. OtherSize |-> 0]
  <2>1. zeros \in Seq(Byte) /\ OtherBuf \in Buffer /\ {OtherBuf} \in SUBSET Buffer
    BY PeerAssumption, Buffers
  <2>2. ses' = ses /\ ~Closed /\ (Extended(OtherBuf, zeros) \/ Cleared({OtherBuf}))
    BY <1>4 DEF OtherSession
  <2> HIDE DEF zeros
  <2>3. \A b \in Buffer \ {OtherBuf} : data'[b] = data[b]
    BY <1>1, <2>1, <2>2, BytesAfter
  <2>4. ~Closed'
    BY <2>2 DEF Closed
  <2> QED
    BY <1>1, <2>3, <2>4, Buffers, IdleReleases
<1>5. ASSUME NEW s \in Bidis, FinishSend(s) PROVE Releasing'
  <2>1. data' = data /\ ses'.cause = ses.cause
    BY <1>1, <1>5 DEF FinishSend, memVars, SessionRecord
  <2>2. Closed' => \A b \in ParserBuffers : data'[b] = <<>>
    BY <2>1 DEF Closed, Releasing
  <2> QED
    BY <1>1, <2>1, <2>2, IdleReleases
<1> QED
  BY <1>2, <1>3, <1>4, <1>5

\* The initial state.
LEMMA InitReleases ==
  ASSUME Init PROVE Releasing
<1>1. task = <<>> /\ ~Closed /\ data = [b \in Buffer |-> <<>>]
  BY DEF Init, Closed, MemInit
<1>2. 1 .. Len(task) = {} /\ 2 .. Len(task) = {}
  BY <1>1
<1>3. data[ValueBuf] = <<>> /\ \A s \in Stream : data[PayloadBuf(s)] = <<>>
  BY <1>1, Buffers
<1> QED
  BY <1>1, <1>2, <1>3 DEF Releasing

\* Every step keeps the invariant.
LEMMA NextReleases ==
  ASSUME Typed, Releasing, [Next]_vars PROVE Releasing'
<1>1. CASE UNCHANGED vars
  BY <1>1 DEF vars, memVars, Releasing, Closed, Rest, Holds, ParserBuffers, FramesBuf, ClassBuf,
       CapsuleBuf, PayloadBuf, ValueBuf, Connect, Stream
<1>2. ASSUME NEW s \in Stream, NEW n \in {0} \cup ChunkSizes, NEW fin \in BOOLEAN,
             NEW pressed \in BOOLEAN, OnReadable(s, n, fin, pressed)
      PROVE  Releasing'
  BY <1>2, ReadReleases
<1>3. ASSUME NEW s \in Stream, NEW code \in {ToHttp(c) : c \in PeerCodes} \cup RawCodes,
             OnReset(s, code)
      PROVE  Releasing'
  BY <1>3, ResetCodes, ReadReleases
<1>4. CASE Processing
  BY <1>4, RecvReleases, ResolveReleases, FrameReleases, ControlReleases, ConnectReleases,
     CapsuleReleases, EndReleases DEF Processing
<1>5. CASE Prune \/ ConnectionLost \/ OtherSession \/ \E s \in Bidis : FinishSend(s)
  BY <1>5, BetweenReleases
<1> QED
  BY <1>1, <1>2, <1>3, <1>4, <1>5 DEF Next

\* mark_closed gives everything back: once the session is closed and the chunk that
\* closed it is done with, it holds nothing of the server's memory, whatever was half
\* received on however many streams and wherever in a frame or capsule it closed.
THEOREM ClosedHoldsNothing == Spec => []ClosedReleases
<1> DEFINE Inv == Typed /\ Releasing
<1>1. Init => Inv
  BY InitTyped, InitReleases
<1>2. Inv /\ [Next]_vars => Inv'
  BY NextTyped, NextReleases
<1>3. Inv => ClosedReleases
  <2> SUFFICES ASSUME Typed, Releasing, Idle, Closed PROVE used["this"] = 0
    BY DEF ClosedReleases
  <2>1. data[ValueBuf] = <<>> /\ \A s \in Stream : data[PayloadBuf(s)] = <<>>
    BY IdleHoldsNoCopy DEF Idle
  <2>2. \A b \in ParserBuffers : data[b] = <<>>
    BY DEF Releasing
  <2>3. \A b \in Buffer \ {OtherBuf} : data[b] = <<>>
    BY <2>1, <2>2, LayoutAssumption DEF ParserBuffers
  <2>4. /\ cap \in [Buffer -> Nat] /\ \A b \in Buffer : data[b] = <<>> => cap[b] = 0
        /\ \A s \in Session : used[s] = Held(cap, BuffersOf(s))
    BY DEF Typed, MemInv, MemTypeOK, Budget, ChargedExactly, EmptyHoldsNothing
  <2>5. "this" \in Session /\ BuffersOf("this") \in SUBSET Buffer
        /\ \A b \in BuffersOf("this") : b # OtherBuf
    BY LayoutAssumption DEF BuffersOf
  <2>6. Held(cap, BuffersOf("this")) = 0
    BY <2>3, <2>4, <2>5, HeldNone
  <2> QED
    BY <2>4, <2>5, <2>6
<1> QED
  BY <1>1, <1>2, <1>3, PTL DEF Spec

-----------------------------------------------------------------------------
(* Nothing is delivered under backpressure *)

\* What was handed on: stream data to the application, frames and capsules.
UnitRecord == [ty : Nat, val : Seq(Byte)]
AppRecord == [known : BOOLEAN, data : Seq(Byte), end : {"open", "fin", "reset"}, code : Int]
SeenRecord ==
  [app : [Stream -> AppRecord], frames : [Stream -> Seq(UnitRecord)], capsules : Seq(UnitRecord)]

\* Handing on a frame or a capsule delivers nothing.
LEMMA LogTyped ==
  ASSUME seen \in SeenRecord, NEW s \in Stream, NEW u \in UnitRecord
  PROVE  /\ seen' = [seen EXCEPT !.frames[s] = Append(@, u)]
              => seen' \in SeenRecord /\ seen'.app = seen.app
         /\ seen' = [seen EXCEPT !.capsules = Append(@, u)]
              => seen' \in SeenRecord /\ seen'.app = seen.app
<1>1. /\ seen.frames \in [Stream -> Seq(UnitRecord)] /\ seen.capsules \in Seq(UnitRecord)
      /\ seen.app \in [Stream -> AppRecord]
  BY DEF SeenRecord
<1>2. /\ Append(seen.frames[s], u) \in Seq(UnitRecord)
      /\ Append(seen.capsules, u) \in Seq(UnitRecord)
  BY <1>1
<1> DEFINE f == Append(seen.frames[s], u)
           c == Append(seen.capsules, u)
<1> HIDE DEF f, c
<1>3. ASSUME seen' = [seen EXCEPT !.frames[s] = Append(@, u)]
      PROVE  seen' \in SeenRecord /\ seen'.app = seen.app
  <2>1. seen' = [seen EXCEPT !.frames[s] = f]
    BY <1>3 DEF f
  <2> QED
    BY <1>1, <1>2, <2>1 DEF SeenRecord, f
<1>4. ASSUME seen' = [seen EXCEPT !.capsules = Append(@, u)]
      PROVE  seen' \in SeenRecord /\ seen'.app = seen.app
  <2>1. seen' = [seen EXCEPT !.capsules = c]
    BY <1>4 DEF c
  <2> QED
    BY <1>1, <1>2, <2>1 DEF SeenRecord, c
<1> QED
  BY <1>3, <1>4

\* Stream data that is delivered.
LEMMA DeliverTyped ==
  ASSUME seen \in SeenRecord, NEW s \in Stream, NEW bytes \in Seq(Byte), NEW fin \in BOOLEAN,
         Deliver(s, bytes, fin)
  PROVE  seen' \in SeenRecord
<1> DEFINE Put(x, a) == [x EXCEPT !.app = [@ EXCEPT ![s] = a]]
           a1 == [seen.app[s] EXCEPT !.known = TRUE]
           s1 == Put(seen, a1)
           a2 == [s1.app[s] EXCEPT !.data = @ \o bytes]
           s2 == Put(s1, a2)
           a3 == [s2.app[s] EXCEPT !.end = IF fin THEN "fin" ELSE @]
           s3 == Put(s2, a3)
<1>1. ASSUME NEW x \in SeenRecord, NEW a \in AppRecord
      PROVE  Put(x, a) \in SeenRecord
  BY DEF SeenRecord
<1>2. ASSUME NEW x \in SeenRecord PROVE x.app[s] \in AppRecord
  BY DEF SeenRecord
<1>3. seen' = s3
  <2> DEFINE fins == IF fin THEN "fin" ELSE s2.app[s].end
             datas == s1.app[s].data \o bytes
  <2>1. s3 = [s2 EXCEPT !.app[s].end = fins] /\ s2 = [s1 EXCEPT !.app[s].data = datas]
        /\ s1 = [seen EXCEPT !.app[s].known = TRUE]
    OBVIOUS
  <2>2. seen' = [[[seen EXCEPT !.app[s].known = TRUE] EXCEPT !.app[s].data = @ \o bytes]
                   EXCEPT !.app[s].end = IF fin THEN "fin" ELSE @]
    BY DEF Deliver
  <2> HIDE DEF s3, s2, s1, fins, datas, Put
  <2> QED
    BY <2>1, <2>2 DEF fins, datas
<1> HIDE DEF Put, s3, s2, s1
<1>4. a1 \in AppRecord
  BY <1>2 DEF AppRecord
<1>5. s1 \in SeenRecord
  BY <1>1, <1>4 DEF s1
<1>6. a2 \in AppRecord
  <2> DEFINE b == s1.app[s]
             all == b.data \o bytes
  <2>1. b \in AppRecord
    BY <1>2, <1>5
  <2>2. all \in Seq(Byte)
    BY <2>1 DEF AppRecord
  <2>3. a2 = [b EXCEPT !.data = all]
    OBVIOUS
  <2> HIDE DEF a2, all, b
  <2> QED
    BY <2>1, <2>2, <2>3 DEF AppRecord
<1>7. s2 \in SeenRecord
  BY <1>1, <1>5, <1>6 DEF s2
<1>8. a3 \in AppRecord
  <2> DEFINE b == s2.app[s]
             end == IF fin THEN "fin" ELSE b.end
  <2>1. b \in AppRecord
    BY <1>2, <1>7
  <2>2. end \in {"open", "fin", "reset"}
    BY <2>1 DEF AppRecord
  <2>3. a3 = [b EXCEPT !.end = end]
    OBVIOUS
  <2> HIDE DEF a3, end, b
  <2> QED
    BY <2>1, <2>2, <2>3 DEF AppRecord
<1> QED
  BY <1>1, <1>3, <1>7, <1>8 DEF s3

\* A reset that is reported to the application.
LEMMA ResetSeen ==
  ASSUME Typed, seen \in SeenRecord, NEW s \in Stream, NEW code \in Int, OnReset(s, code)
  PROVE  seen' \in SeenRecord
<1> DEFINE c == IF FromHttp(code) = None THEN code ELSE FromHttp(code)
<1>1. c \in Int
  <2>1. FromHttp(code) \in Int
    BY CodeAssumption DEF FromHttp, None
  <2> QED
    BY <2>1
<1>2. CASE UNCHANGED seen
  BY <1>2
<1>3. CASE seen' = [seen EXCEPT !.app[s].end = "reset", !.app[s].code = c]
  <2> DEFINE a == seen.app[s]
             new == [a EXCEPT !.end = "reset", !.code = c]
  <2>1. /\ seen.app \in [Stream -> AppRecord] /\ a \in AppRecord
    BY DEF SeenRecord
  <2> HIDE DEF c
  <2>2. seen' = [seen EXCEPT !.app[s] = new]
    BY <1>3, <2>1 DEF SeenRecord, AppRecord
  <2>3. new \in AppRecord
    BY <1>1, <2>1 DEF AppRecord
  <2> HIDE DEF new, a
  <2> QED
    BY <2>1, <2>2, <2>3 DEF SeenRecord
<1> QED
  BY <1>2, <1>3 DEF OnReset, c

\* The steps that deliver to the application.
Delivers == RecvData \/ \E s \in Unis \cup Bidis : ResolveData(s)

\* Every step keeps the type of what was handed on, and those that deliver are
\* RecvData, ResolveData and the report of a reset.
LEMMA SeenStep ==
  ASSUME Typed, seen \in SeenRecord, [Next]_vars
  PROVE  seen' \in SeenRecord /\ (bp' /\ ~Delivers => seen'.app = seen.app)
<1>0. MemInv /\ task \in Seq(TaskItem)
  BY DEF Typed
<1>1. CASE UNCHANGED seen
  BY <1>1
<1>2. ASSUME NEW s \in Stream, NEW code \in {ToHttp(c) : c \in PeerCodes} \cup RawCodes,
             OnReset(s, code)
      PROVE  seen' \in SeenRecord /\ bp' = FALSE
  BY <1>2, ResetCodes, ResetSeen DEF OnReset
<1>3. CASE RecvData
  <2>1. task # <<>> /\ Top.op = "recv" /\ Deliver(Top.id, Top.bytes, Top.fin)
    BY <1>3 DEF RecvData, Doing
  <2>2. Top.id \in Stream /\ Top.bytes \in Seq(Byte) /\ Top.fin \in BOOLEAN
    BY <1>0, <2>1, TopTyped
  <2>3. seen' \in SeenRecord
    BY <2>1, <2>2, DeliverTyped
  <2> QED
    BY <1>3, <2>3 DEF Delivers
<1>4. ASSUME NEW s \in Unis \cup Bidis, ResolveData(s)
      PROVE  seen' \in SeenRecord /\ Delivers
  <2> DEFINE d == data[ClassBuf(s)]
             k == TypeOf(s).len
             r == Suffix(d, k)
             m == SessionOf(s).len
  <2>1. /\ task # <<>> /\ Top.op = "resolve" /\ s \in Stream
        /\ Deliver(s, Suffix(d, HeaderLen(s)), Top.fin)
    BY <1>4 DEF ResolveData, Resolving, Doing, Stream
  <2>2. Top.fin \in BOOLEAN
    BY <1>0, <2>1, TopTyped
  <2>3. d \in Seq(Octet) /\ k \in Nat /\ k <= Len(d) /\ r \in Seq(Octet)
    BY <1>0, <2>1, TypeOfTyped, ByteIsOctet
  <2>4. Len(r) = Len(d) - k
    <3> HIDE DEF d, k
    <3> QED
      BY <2>3, SuffixType
  <2>5. m \in Nat /\ m <= Len(r)
    <3>1. m = ReadVarint(r).len
      BY DEF SessionOf
    <3> HIDE DEF r, m
    <3>2. ReadVarint(r) \in [val : Nat, len : {0, 1, 2, 4, 8}] /\ ReadVarint(r).len <= Len(r)
      BY <2>3, ReadVarintType
    <3> QED
      BY <3>1, <3>2
  <2>6. HeaderLen(s) = k + m
    BY DEF HeaderLen
  <2>7. Suffix(d, HeaderLen(s)) \in Seq(Byte)
    <3> HIDE DEF d, k, m, r
    <3>1. HeaderLen(s) \in Nat /\ HeaderLen(s) <= Len(d)
      BY <2>3, <2>4, <2>5, <2>6
    <3> QED
      BY <2>3, <3>1, SuffixType, ByteIsOctet
  <2>8. seen' \in SeenRecord
    BY <2>1, <2>2, <2>7, DeliverTyped
  <2> QED
    BY <1>4, <2>8 DEF Delivers
<1>5. ASSUME NEW s \in Stream, Handling(s), Log(s)
      PROVE  seen' \in SeenRecord /\ seen'.app = seen.app
  <2> DEFINE u == [ty |-> Top.ty, val |-> Payload(s)]
  <2>1. task # <<>> /\ Top.op = "frame"
    BY <1>5 DEF Handling, Doing
  <2>2. Top.ty \in Nat /\ Payload(s) \in Seq(Byte)
    BY <1>0, <2>1, TopTyped, Buffers DEF Payload, MemInv, MemTypeOK
  <2>3. u \in UnitRecord
    BY <2>2 DEF UnitRecord
  <2>4. seen' = [seen EXCEPT !.frames[s] = Append(@, u)]
    BY <1>5 DEF Log
  <2> HIDE DEF u
  <2> QED
    BY <2>3, <2>4, LogTyped
<1>6. CASE HandleCapsule
  <2> DEFINE u == [ty |-> Top.ty, val |-> data[ValueBuf]]
  <2>1. task # <<>> /\ Top.op = "capsule"
    BY <1>6 DEF HandleCapsule, Doing
  <2>2. Top.ty \in Nat /\ data[ValueBuf] \in Seq(Byte)
    BY <1>0, <2>1, TopTyped, Buffers DEF MemInv, MemTypeOK
  <2>3. u \in UnitRecord
    BY <2>2 DEF UnitRecord
  <2>4. seen' = [seen EXCEPT !.capsules = Append(@, u)]
    BY <1>6 DEF HandleCapsule
  <2>5. Connect \in Stream
    BY DEF Stream
  <2> HIDE DEF u
  <2> QED
    BY <2>3, <2>4, <2>5, LogTyped
<1>7. CASE Processing
  <2>1. ASSUME NEW s \in Unis, ControlSettings(s) \/ ControlFrame(s)
        PROVE  seen' \in SeenRecord /\ seen'.app = seen.app
    BY <1>5, <2>1 DEF ControlSettings, ControlFrame, Stream
  <2>2. CASE ConnectHeaders \/ ConnectData \/ ConnectOther
    BY <1>5, <2>2 DEF ConnectHeaders, ConnectData, ConnectOther, Stream
  <2>3. CASE \/ RecvFrames \/ RecvDiscarded \/ RecvPending \/ Parse \/ ConsumeFrame \/ Drop
             \/ LimitExceeded \/ Scan \/ CutCapsule \/ After
    BY <1>1, <2>3 DEF RecvFrames, RecvDiscarded, RecvPending, Parse, ConsumeFrame, Drop,
                      LimitExceeded, Scan, CutCapsule, After
  <2>4. ASSUME NEW s \in Unis \cup Bidis, ResolveLater(s) \/ ResolveCritical(s) \/ ResolveIgnored(s)
        PROVE  UNCHANGED seen
    BY <2>4 DEF ResolveLater, ResolveCritical, ResolveIgnored
  <2> QED
    BY <1>1, <1>3, <1>4, <1>6, <1>7, <2>1, <2>2, <2>3, <2>4 DEF Processing
<1>8. CASE \E s \in Stream, n \in {0} \cup ChunkSizes, fin \in BOOLEAN, pressed \in BOOLEAN :
             OnReadable(s, n, fin, pressed)
  BY <1>1, <1>8 DEF OnReadable
<1>9. CASE Prune \/ ConnectionLost \/ OtherSession \/ \E s \in Bidis : FinishSend(s)
  BY <1>1, <1>9 DEF Prune, ConnectionLost, OtherSession, FinishSend
<1>10. CASE UNCHANGED vars
  BY <1>1, <1>10 DEF vars
<1> QED
  BY <1>2, <1>7, <1>8, <1>9, <1>10 DEF Next

\* A chunk read under backpressure is never of a data stream or of a stream that
\* turns out to be one: no byte beyond the one that completes a stream's type is read,
\* so that the session id behind it is not complete.
Pressed ==
  /\ \A s \in Stream : ses.role[s] = "pending_uni" => s \in Unis
  /\ bp /\ Doing("recv") =>
       /\ ses.role[Top.id] \notin {"data", "pending_bidi"}
       /\ ses.role[Top.id] = "pending_uni" => Len(Top.bytes) <= 1 /\ ~IsType(Top.id, WtUni)
  /\ bp /\ Doing("resolve") => ~(IsWebTransport(Top.id) /\ SessionOf(Top.id).len > 0)

\* The turns after which the parsers neither read nor classify.
LEMMA NewTop ==
  ASSUME Typed, Releasing, task # <<>>, NEW items \in Seq(TaskItem), Then(items),
         items # <<>> => items[1].op \notin {"recv", "resolve"}
  PROVE  ~Doing("recv")' /\ ~Doing("resolve")'
<1> DEFINE n == Len(items)
<1>1. /\ task \in Seq(TaskItem) /\ task' \in Seq(TaskItem) /\ Len(task') = n + Len(task) - 1
      /\ Len(task) \in Nat /\ Len(task) > 0 /\ n \in Nat
      /\ \A i \in 1 .. n : task'[i] = items[i]
      /\ \A i \in n + 1 .. Len(task') : task'[i] = task[i - n + 1]
  BY ThenStack DEF Typed
<1>2. items # <<>> <=> n > 0
  OBVIOUS
<1> HIDE DEF n
<1>3. ASSUME task' # <<>> PROVE task'[1].op \notin {"recv", "resolve"} /\ Head(task') = task'[1]
  <2>1. Len(task') > 0 /\ Head(task') = task'[1]
    BY <1>1, <1>3
  <2>2. CASE n > 0
    BY <1>1, <1>2, <2>1, <2>2
  <2>3. CASE n = 0
    <3>1. task'[1] = task[2] /\ 2 \in 2 .. Len(task)
      BY <1>1, <2>1, <2>3
    <3>2. task[2].op \in Rest
      BY <3>1 DEF Releasing
    <3> QED
      BY <2>1, <3>1, <3>2 DEF Rest
  <2> QED
    BY <1>1, <2>2, <2>3
<1> QED
  BY <1>3 DEF Doing, Top

\* Dropping the top item leaves one of those.
LEMMA NoTop ==
  ASSUME Typed, Releasing, task # <<>>, Then(<<>>)
  PROVE  ~Doing("recv")' /\ ~Doing("resolve")'
<1> DEFINE none == <<>>
<1>1. none \in Seq(TaskItem) /\ Then(none) /\ none = <<>>
  BY EmptySeq
<1> HIDE DEF none
<1> QED
  BY <1>1, NewTop

\* Every turn but the two that go on with what they read.
LEMMA TurnTop ==
  ASSUME Typed, Releasing, Processing, ~RecvPending,
         \A s \in Unis \cup Bidis : ~ResolveCritical(s)
  PROVE  ~Doing("recv")' /\ ~Doing("resolve")'
<1>1. /\ task # <<>> /\ task \in Seq(TaskItem)
  BY DEF Typed, Processing, RecvFrames, RecvDiscarded, RecvData, RecvPending, ResolveLater,
     ResolveData, ResolveIgnored, Resolving, Parse, ConsumeFrame, ControlSettings, ControlFrame,
     ConnectHeaders, ConnectData, ConnectOther, Handling, Drop, LimitExceeded, Scan, CutCapsule,
     HandleCapsule, After, Doing
<1>2. CASE Then(<<>>)
  BY <1>1, <1>2, NoTop
<1> DEFINE s == Top.id
<1>3. s \in Stream /\ Top \in TaskItem
  BY <1>1, TopTyped
<1>4. ASSUME NEW x \in TaskItem, x.op \notin {"recv", "resolve"},
             Then(<<x>>) \/ (\E y \in TaskItem : Then(<<x, y>>)) \/ task' = <<x>> \o task
      PROVE  ~Doing("recv")' /\ ~Doing("resolve")'
  <2>1. ASSUME NEW items \in Seq(TaskItem), items[1] = x, Then(items)
        PROVE  ~Doing("recv")' /\ ~Doing("resolve")'
    BY <1>1, <1>4, <2>1, NewTop
  <2>2. CASE Then(<<x>>)
    <3>1. <<x>> \in Seq(TaskItem) /\ <<x>>[1] = x
      OBVIOUS
    <3> QED
      BY <2>1, <2>2, <3>1
  <2>3. ASSUME NEW y \in TaskItem, Then(<<x, y>>)
        PROVE  ~Doing("recv")' /\ ~Doing("resolve")'
    <3>1. <<x, y>> \in Seq(TaskItem) /\ <<x, y>>[1] = x
      OBVIOUS
    <3> QED
      BY <2>1, <2>3, <3>1
  <2>4. CASE task' = <<x>> \o task
    <3>1. Then(<<x, Top>>)
      BY <1>1, <2>4, PushIsThen
    <3> QED
      BY <1>3, <2>3, <3>1
  <2> QED
    BY <1>4, <2>2, <2>3, <2>4
<1>5. /\ \A op \in {"parse", "taken", "drop", "scan", "cut", "limit"} :
           Item(op, s) \in TaskItem /\ Item(op, s).op = op
      /\ \A op \in {"parse", "taken", "drop", "scan", "cut", "limit"} :
           Item(op, Connect) \in TaskItem /\ Item(op, Connect).op = op
      /\ [op |-> "after", id |-> s, fin |-> Top.fin].op = "after"
  BY <1>3, ItemsTyped DEF Item, Stream
<1>6. CASE RecvFrames
  <2>1. Top.op = "recv"
    BY <1>6 DEF RecvFrames, Doing
  <2>2. Top.fin \in BOOLEAN
    BY <1>1, <2>1, TopTyped
  <2> DEFINE y == [op |-> "after", id |-> s, fin |-> Top.fin]
             x == Item("parse", s)
  <2>3. y \in TaskItem /\ x \in TaskItem /\ x.op = "parse"
    BY <1>3, <1>5, <2>2, ItemsTyped
  <2>4. Then(<<x, y>>)
    BY <1>6 DEF RecvFrames
  <2> HIDE DEF x, y
  <2> QED
    BY <1>4, <2>3, <2>4
<1>7. CASE Parse
  BY <1>2, <1>4, <1>5, <1>7 DEF Parse
<1>8. CASE ConsumeFrame
  <2> DEFINE x == [op |-> "frame", id |-> s, ty |-> NextUnit(FramesBuf(s)).ty]
  <2>1. x \in TaskItem /\ x.op = "frame"
    BY <1>3, UnitTyped, ItemsTyped, Buffers DEF Typed
  <2>2. Then(<<x>>)
    BY <1>8 DEF ConsumeFrame
  <2> HIDE DEF x
  <2> QED
    BY <1>4, <2>1, <2>2
<1>9. ASSUME NEW t \in Unis, ControlSettings(t)
      PROVE  ~Doing("recv")' /\ ~Doing("resolve")'
  <2> DEFINE items == (IF ses.role[Connect] # "none" THEN <<Item("parse", Connect)>> ELSE <<>>)
                        \o <<Item("drop", t)>>
  <2>1. t \in Stream
    BY DEF Stream
  <2>2. /\ items \in Seq(TaskItem) /\ items # <<>>
        /\ \A i \in 1 .. Len(items) : items[i].op \in Rest
    BY <2>1, SettingsItems
  <2>3. Then(<<>>) \/ Then(items)
    BY <1>9 DEF ControlSettings, Dropped
  <2> HIDE DEF items
  <2>4. 1 \in 1 .. Len(items)
    BY <2>2
  <2>5. items[1].op \notin {"recv", "resolve"}
    BY <2>2, <2>4 DEF Rest
  <2> QED
    BY <1>1, <1>2, <2>2, <2>3, <2>5, NewTop
<1>10. CASE ConnectData
  BY <1>4, <1>5, <1>10 DEF ConnectData
<1>11. CASE Scan
  BY <1>2, <1>4, <1>5, <1>11 DEF Scan
<1>12. CASE CutCapsule
  <2> DEFINE x == [op |-> "capsule", id |-> s, ty |-> NextUnit(CapsuleBuf).ty]
  <2>1. x \in TaskItem /\ x.op = "capsule"
    BY <1>3, UnitTyped, ItemsTyped, Buffers DEF Typed
  <2>2. Then(<<x>>)
    BY <1>12 DEF CutCapsule
  <2> HIDE DEF x
  <2> QED
    BY <1>4, <2>1, <2>2
<1>13. CASE \/ RecvDiscarded \/ RecvData \/ ConnectHeaders \/ ConnectOther \/ Drop \/ LimitExceeded
            \/ HandleCapsule \/ After
  BY <1>2, <1>13 DEF RecvDiscarded, RecvData, ConnectHeaders, ConnectOther, Drop, LimitExceeded,
                     HandleCapsule, After, Dropped
<1>14. ASSUME NEW t \in Unis \cup Bidis, ResolveLater(t) \/ ResolveData(t) \/ ResolveIgnored(t)
       PROVE  Then(<<>>)
  BY <1>14 DEF ResolveLater, ResolveData, ResolveIgnored
<1>15. ASSUME NEW t \in Unis, ControlFrame(t)
       PROVE  Then(<<>>)
  BY <1>15 DEF ControlFrame, Dropped
<1> QED
  BY <1>2, <1>6, <1>7, <1>8, <1>9, <1>10, <1>11, <1>12, <1>13, <1>14, <1>15 DEF Processing

\* Only unidirectional streams wait for their stream type.
LEMMA RolesKeep ==
  ASSUME Typed, \A s \in Stream : ses.role[s] = "pending_uni" => s \in Unis, [Next]_vars
  PROVE  \A s \in Stream : ses'.role[s] = "pending_uni" => s \in Unis
<1>0. ses \in SessionRecord /\ ses.role \in [Stream -> RoleName]
  BY DEF Typed, SessionRecord
<1>1. CASE ses'.role = ses.role
  BY <1>1
<1>2. ASSUME NEW t \in Stream, NEW r \in RoleName, r = "pending_uni" => t \in Unis,
             ses'.role = [ses.role EXCEPT ![t] = r]
      PROVE  \A s \in Stream : ses'.role[s] = "pending_uni" => s \in Unis
  BY <1>0, <1>2
<1>3. ASSUME NEW t \in Stream
      PROVE  RoleOf(t) \in RoleName /\ (RoleOf(t) = "pending_uni" => t \in Unis)
  <2>1. t = Connect \/ t \in Unis \/ t \in Bidis
    BY DEF Stream
  <2> QED
    BY <2>1, RoleOfTyped, PeerAssumption DEF RoleOf, ClassifyNew
<1>4. ASSUME NEW t \in Stream, NEW n, NEW fin, NEW pressed, OnReadable(t, n, fin, pressed)
      PROVE  \A s \in Stream : ses'.role[s] = "pending_uni" => s \in Unis
  <2>1. ses'.role = [ses.role EXCEPT ![t] = RoleOf(t)]
    BY <1>0, <1>4 DEF OnReadable, SessionRecord
  <2> QED
    BY <1>2, <1>3, <2>1
<1>5. ASSUME NEW t \in Stream, NEW code, OnReset(t, code)
      PROVE  \A s \in Stream : ses'.role[s] = "pending_uni" => s \in Unis
  <2>1. ses'.role = [ses.role EXCEPT ![t] = RoleOf(t)]
    BY <1>0, <1>5 DEF OnReset, MarkClosed, SessionRecord
  <2> QED
    BY <1>2, <1>3, <2>1
<1>6. ASSUME NEW t \in Unis \cup Bidis,
             ResolveLater(t) \/ ResolveCritical(t) \/ ResolveData(t) \/ ResolveIgnored(t)
      PROVE  \A s \in Stream : ses'.role[s] = "pending_uni" => s \in Unis
  <2>1. t \in Stream
    BY DEF Stream
  <2>2. CASE ResolveLater(t) \/ ResolveData(t) \/ ResolveIgnored(t)
    <3>1. \/ ses'.role = ses.role
          \/ \E r \in {"none", "data", "ignored"} : ses'.role = [ses.role EXCEPT ![t] = r]
      BY <1>0, <2>2 DEF ResolveLater, ResolveData, ResolveIgnored, SessionRecord
    <3>2. CASE ses'.role = ses.role
      BY <1>1, <3>2
    <3>3. ASSUME NEW r \in {"none", "data", "ignored"}, ses'.role = [ses.role EXCEPT ![t] = r]
          PROVE  \A s \in Stream : ses'.role[s] = "pending_uni" => s \in Unis
      <4>1. r \in RoleName /\ r # "pending_uni"
        BY DEF RoleName
      <4> QED
        BY <1>2, <2>1, <3>3, <4>1
    <3> QED
      BY <3>1, <3>2, <3>3
  <2>3. CASE ResolveCritical(t)
    <3> DEFINE new == CriticalRole(TypeOf(t).val)
    <3>1. new \in RoleName /\ new # "pending_uni"
      BY <2>3 DEF ResolveCritical, IsCritical, CriticalRole, RoleName, H3Control, QpackEncoder, QpackDecoder
    <3>2. ses'.role = ses.role \/ ses'.role = [ses.role EXCEPT ![t] = new]
      <4>1. \/ ses' = [ses EXCEPT !.role[t] = new]
            \/ MarkClosed(ses, "protocol", {})
            \/ MarkClosed([ses EXCEPT !.role[t] = new], "protocol", {})
        BY <2>3 DEF ResolveCritical
      <4> HIDE DEF new
      <4> QED
        BY <1>0, <2>1, <3>1, <4>1 DEF MarkClosed, SessionRecord
    <3> QED
      BY <1>1, <1>2, <2>1, <3>1, <3>2
  <2> QED
    BY <1>6, <2>2, <2>3
<1>7. ASSUME NEW t \in Unis, ControlSettings(t)
      PROVE  \A s \in Stream : ses'.role[s] = "pending_uni" => s \in Unis
  <2>1. ses'.role = ses.role \/ ses'.role = [ses.role EXCEPT ![Connect] = "connect"]
    BY <1>0, <1>7 DEF ControlSettings, MarkClosed, SessionRecord
  <2>2. Connect \in Stream /\ "connect" \in RoleName
    BY DEF Stream, RoleName
  <2> QED
    BY <1>1, <1>2, <2>1, <2>2
<1>8. CASE Prune
  BY <1>0, <1>8 DEF Prune, SessionRecord
<1>9. ASSUME NEW t \in Unis, ControlFrame(t) PROVE ses'.role = ses.role
  BY <1>0, <1>9 DEF ControlFrame, MarkClosed, SessionRecord
<1>10. CASE RecvFrames \/ RecvDiscarded \/ RecvData \/ RecvPending
  BY <1>0, <1>1, <1>10 DEF RecvFrames, RecvDiscarded, RecvData, RecvPending, MarkClosed, SessionRecord
<1>11. CASE Parse \/ ConsumeFrame \/ Scan \/ CutCapsule
  BY <1>0, <1>1, <1>11 DEF Parse, ConsumeFrame, Scan, CutCapsule, MarkClosed, SessionRecord
<1>12. CASE ConnectHeaders \/ ConnectData \/ ConnectOther \/ Drop \/ LimitExceeded
  BY <1>0, <1>1, <1>12
     DEF ConnectHeaders, ConnectData, ConnectOther, Drop, LimitExceeded, MarkClosed, SessionRecord
<1>13. CASE HandleCapsule \/ After
  BY <1>0, <1>1, <1>13 DEF HandleCapsule, After, MarkClosed, SessionRecord
<1>14. CASE ConnectionLost \/ OtherSession \/ \E t \in Bidis : FinishSend(t)
  BY <1>0, <1>1, <1>14 DEF ConnectionLost, OtherSession, FinishSend, MarkClosed, SessionRecord
<1>15. CASE UNCHANGED vars
  BY <1>1, <1>15 DEF vars
<1> QED
  BY <1>1, <1>4, <1>5, <1>6, <1>7, <1>8, <1>9, <1>10, <1>11, <1>12, <1>13, <1>14, <1>15
     DEF Next, Processing

\* One byte of a stream that was not known to carry data does not complete its header.
LEMMA OneByteIsTooFew ==
  ASSUME NEW d \in Seq(Octet), NEW bytes \in Seq(Octet), Len(bytes) <= 1,
         ~(ReadVarint(d).len > 0 /\ ReadVarint(d).val = WtUni)
  PROVE  LET ty == ReadVarint(d \o bytes)
         IN  ~(ty.len > 0 /\ ty.val = WtUni /\ ReadVarint(Suffix(d \o bytes, ty.len)).len > 0)
<1> DEFINE all == d \o bytes
           ty == ReadVarint(all)
<1> SUFFICES ASSUME ty.len > 0, ty.val = WtUni PROVE ~(ReadVarint(Suffix(all, ty.len)).len > 0)
  OBVIOUS
<1>1. ReadVarint(d).len = 0
  <2>1. ReadVarint(d).len \in {0, 1, 2, 4, 8}
    BY ReadVarintType
  <2>2. CASE ReadVarint(d).len > 0
    BY <2>2, ReadVarintStable
  <2> QED
    BY <2>1, <2>2
<1>2. all \in Seq(Octet)
  OBVIOUS
<1>3. ty.len = Len(all)
  BY <1>1, LastByteCompletes
<1> HIDE DEF all
<1>4. Suffix(all, Len(all)) = <<>>
  BY <1>2 DEF Suffix
<1>5. ReadVarint(<<>>).len = 0
  BY DEF ReadVarint
<1> QED
  BY <1>3, <1>4, <1>5

\* A chunk of a stream that is not yet classified.
LEMMA PendingPressed ==
  ASSUME Typed, Releasing, Pressed, RecvPending
  PROVE  /\ ~Doing("recv")'
         /\ bp' /\ Doing("resolve")' => ~(IsWebTransport(Top.id) /\ SessionOf(Top.id).len > 0)'
<1> DEFINE s == Top.id
           d == data[ClassBuf(s)]
           bytes == Top.bytes
<1>1. /\ task # <<>> /\ task \in Seq(TaskItem) /\ MemInv /\ Top.op = "recv" /\ bp' = bp
      /\ ses.role[s] \in {"pending_uni", "pending_bidi"} /\ Doing("recv")
  BY DEF Typed, RecvPending, Doing, Quiet
<1>2. s \in Stream /\ bytes \in Seq(Byte) /\ Top.fin \in BOOLEAN /\ ClassBuf(s) \in Buffer
  BY <1>1, TopTyped, Buffers
<1>3. CASE Then(<<Item("limit", s)>>)
  <2> DEFINE x == Item("limit", s)
             items == <<x>>
  <2>0. x \in TaskItem /\ x.op = "limit"
    BY <1>2, ItemsTyped DEF Item
  <2> HIDE DEF x
  <2>1. items \in Seq(TaskItem) /\ items[1] = x /\ Then(items)
    BY <1>3, <2>0 DEF x
  <2> HIDE DEF items
  <2> QED
    BY <1>1, <2>0, <2>1, NewTop
<1>4. CASE /\ Extended(ClassBuf(s), bytes)
           /\ Then(<<[op |-> "resolve", id |-> s, fin |-> Top.fin]>>)
  <2> DEFINE item == [op |-> "resolve", id |-> s, fin |-> Top.fin]
             items == <<item>>
  <2>1. items \in Seq(TaskItem) /\ Len(items) = 1 /\ items[1] = item /\ Then(items)
    BY <1>2, <1>4, ItemsTyped
  <2> HIDE DEF items
  <2>2. task' # <<>> /\ Top' = item
    <3>1. task' \in Seq(TaskItem) /\ Len(task') > 0 /\ task'[1] = item
      BY <1>1, <2>1, ThenStack
    <3> HIDE DEF item
    <3> QED
      BY <3>1 DEF Top
  <2>3. ~Doing("recv")' /\ Top.id' = s
    BY <2>2 DEF Doing
  <2>4. data'[ClassBuf(s)] = d \o bytes
    BY <1>1, <1>2, <1>4 DEF Extended, MemInv, MemTypeOK
  <2>5. ASSUME bp' PROVE ~(IsWebTransport(s)' /\ SessionOf(s)'.len > 0)
    <3>1. /\ s \in Unis /\ Len(bytes) <= 1
          /\ ~(ReadVarint(d).len > 0 /\ ReadVarint(d).val = WtUni)
      BY <1>1, <1>2, <2>5 DEF Pressed, IsType, TypeOf
    <3>2. d \in Seq(Octet) /\ bytes \in Seq(Octet)
      BY <1>1, <1>2, ByteIsOctet DEF MemInv, MemTypeOK
    <3> DEFINE ty == ReadVarint(d \o bytes)
    <3>3. ~(ty.len > 0 /\ ty.val = WtUni /\ ReadVarint(Suffix(d \o bytes, ty.len)).len > 0)
      BY <3>1, <3>2, OneByteIsTooFew
    <3> QED
      BY <2>3, <2>4, <3>1, <3>3 DEF IsWebTransport, IsType, SessionOf, TypeOf, ClassBuf
  <2> QED
    BY <2>3, <2>5 DEF IsWebTransport, IsType, SessionOf, TypeOf, ClassBuf
<1> QED
  BY <1>3, <1>4 DEF RecvPending

\* A critical stream: what follows its type is read as the control stream's.
LEMMA CriticalPressed ==
  ASSUME Typed, Releasing, NEW s \in Unis \cup Bidis, ResolveCritical(s)
  PROVE  ~Doing("resolve")' /\ (Doing("recv")' => (ses.role[Top.id] = "control")')
<1> DEFINE new == CriticalRole(TypeOf(s).val)
           rest == Suffix(data[ClassBuf(s)], TypeOf(s).len)
           item == [op |-> "recv", id |-> s, fin |-> Top.fin, bytes |-> rest]
<1>1. /\ task # <<>> /\ task \in Seq(TaskItem) /\ MemInv /\ ses \in SessionRecord /\ s \in Stream
      /\ Top.op = "resolve"
  BY DEF Typed, ResolveCritical, Resolving, Doing, Stream
<1>2. CASE Then(<<>>)
  BY <1>1, <1>2, NoTop
<1>3. CASE new = "control" /\ ses' = [ses EXCEPT !.role[s] = new] /\ Then(<<item>>)
  <2>1. Top.fin \in BOOLEAN /\ rest \in Seq(Byte)
    BY <1>1, TopTyped, TypeOfTyped
  <2> HIDE DEF rest
  <2>2. item \in TaskItem
    BY <1>1, <2>1, ItemsTyped
  <2>3. item.op = "recv" /\ item.id = s
    OBVIOUS
  <2> HIDE DEF item
  <2> DEFINE items == <<item>>
  <2>4. items \in Seq(TaskItem) /\ Len(items) = 1 /\ items[1] = item /\ Then(items)
    BY <1>3, <2>2
  <2> HIDE DEF items
  <2>5. task' # <<>> /\ Top' = item
    <3>1. /\ task' \in Seq(TaskItem) /\ Len(task') = Len(items) + Len(task) - 1
          /\ Len(task) \in Nat /\ Len(task) > 0
          /\ \A i \in 1 .. Len(items) : task'[i] = items[i]
      BY <1>1, <2>4, ThenStack
    <3>2. Len(task') > 0 /\ task'[1] = item
      BY <2>4, <3>1
    <3> QED
      BY <3>1, <3>2 DEF Top
  <2>6. ses'.role[s] = "control"
    BY <1>1, <1>3 DEF SessionRecord
  <2> QED
    BY <2>3, <2>5, <2>6 DEF Doing
<1> QED
  BY <1>2, <1>3 DEF ResolveCritical

\* A chunk that is read: what on_readable checks first.
LEMMA ReadPressed ==
  ASSUME Typed, Pressed, NEW s \in Stream, NEW n \in {0} \cup ChunkSizes, NEW fin \in BOOLEAN,
         NEW pressed \in BOOLEAN, OnReadable(s, n, fin, pressed)
  PROVE  /\ ~Doing("resolve")'
         /\ bp' => /\ (ses.role[Top.id])' \notin {"data", "pending_bidi"}
                   /\ (ses.role[Top.id])' = "pending_uni"
                        => Len(Top.bytes)' <= 1 /\ ~IsType(Top.id, WtUni)'
<1> DEFINE all == script.of[s]
           pos == peer[s].pos
           bytes == SubSeq(all, pos + 1, pos + n)
           item == [op |-> "recv", id |-> s, fin |-> fin, bytes |-> bytes]
<1>1. /\ ses \in SessionRecord /\ all \in Seq(Byte) /\ pos \in Nat /\ n \in Nat /\ pos + n <= Len(all)
  BY PeerAssumption DEF Typed, OnReadable, PeerRecord
<1>2. task' = <<item>> /\ ses' = [ses EXCEPT !.role[s] = RoleOf(s)] /\ bp' = pressed /\ data' = data
  BY DEF OnReadable, memVars
<1> HIDE DEF all, pos
<1>3. Len(bytes) = n
  BY <1>1
<1> HIDE DEF bytes
<1>4. item.op = "recv" /\ item.id = s /\ item.bytes = bytes
  OBVIOUS
<1> HIDE DEF item
<1>5. task' # <<>> /\ Top' = item
  BY <1>2 DEF Top
<1>6. ses'.role[s] = RoleOf(s)
  BY <1>1, <1>2 DEF SessionRecord
<1>7. pressed => Urgent(s, n)
  BY DEF OnReadable
<1>8. IsType(s, WtUni)' <=> IsType(s, WtUni)
  BY <1>2 DEF IsType, TypeOf, ClassBuf
<1>9. ASSUME bp'
      PROVE  /\ RoleOf(s) \notin {"data", "pending_bidi"}
             /\ RoleOf(s) = "pending_uni" => n <= 1 /\ ~IsType(s, WtUni)
  BY <1>2, <1>7, <1>9 DEF Urgent, IsType
<1>10. Top.id' = s /\ Top.bytes' = bytes /\ ~Doing("resolve")'
  BY <1>4, <1>5 DEF Doing
<1>11. IsType(Top.id, WtUni)' <=> IsType(s, WtUni)'
  BY <1>10 DEF IsType, TypeOf, ClassBuf
<1> QED
  BY <1>3, <1>6, <1>8, <1>9, <1>10, <1>11

\* Every step keeps the invariant.
LEMMA NextPressed ==
  ASSUME Typed, Releasing, Pressed, [Next]_vars PROVE Pressed'
<1>1. \A s \in Stream : ses'.role[s] = "pending_uni" => s \in Unis
  BY RolesKeep DEF Pressed
<1>2. (\A s \in Stream : ses.role[s] = "pending_uni" => s \in Unis)'
  BY <1>1 DEF Stream, Connect
<1>3. CASE ~Doing("recv")' /\ ~Doing("resolve")'
  BY <1>2, <1>3 DEF Pressed
<1>4. CASE Processing
  <2>1. CASE RecvPending
    BY <1>2, <2>1, PendingPressed DEF Pressed
  <2>2. ASSUME NEW s \in Unis \cup Bidis, ResolveCritical(s) PROVE Pressed'
    <3>1. ~Doing("resolve")' /\ (Doing("recv")' => (ses.role[Top.id] = "control")')
      BY <2>2, CriticalPressed
    <3> QED
      BY <1>2, <3>1 DEF Pressed
  <2> QED
    BY <1>3, <1>4, <2>1, <2>2, TurnTop
<1>5. ASSUME NEW s \in Stream, NEW n \in {0} \cup ChunkSizes, NEW fin \in BOOLEAN,
             NEW pressed \in BOOLEAN, OnReadable(s, n, fin, pressed)
      PROVE  Pressed'
  BY <1>2, <1>5, ReadPressed DEF Pressed
<1>6. CASE task' = <<>>
  BY <1>3, <1>6 DEF Doing
<1>7. ASSUME NEW s \in Stream, NEW code, OnReset(s, code) PROVE Pressed'
  BY <1>6, <1>7 DEF OnReset, Readable, Idle
<1>8. CASE Prune \/ ConnectionLost \/ OtherSession \/ \E s \in Bidis : FinishSend(s)
  BY <1>6, <1>8 DEF Prune, ConnectionLost, OtherSession, FinishSend, Idle
<1>9. CASE UNCHANGED vars
  BY <1>9 DEF vars, memVars, Pressed, Doing, Top, IsWebTransport, IsType, SessionOf, TypeOf, ClassBuf,
     Stream, Connect
<1> QED
  BY <1>4, <1>5, <1>7, <1>8, <1>9 DEF Next

\* The promise of on_readable's backpressure mode: while the application is behind,
\* whatever the peer sends and however it is cut, no chunk that is read delivers
\* anything to it, although control and CONNECT streams go on being processed.
THEOREM NothingUnderPressure == Spec => BackpressureHolds
<1> DEFINE Inv == Typed /\ Releasing /\ Pressed /\ seen \in SeenRecord
<1>1. Init => Inv
  <2> SUFFICES ASSUME Init PROVE Inv
    OBVIOUS
  <2>1. task = <<>> /\ \A s \in Stream : ses.role[s] = "none"
    BY DEF Init
  <2>2. Pressed
    BY <2>1 DEF Pressed, Doing
  <2>3. seen \in SeenRecord
    <3> DEFINE new == [known |-> FALSE, data |-> <<>>, end |-> "open", code |-> 0]
    <3>1. new \in AppRecord
      BY DEF AppRecord
    <3>2. seen = [app |-> [s \in Stream |-> new], frames |-> [s \in Stream |-> <<>>],
                  capsules |-> <<>>]
      BY DEF Init
    <3> HIDE DEF new
    <3> QED
      BY <3>1, <3>2 DEF SeenRecord
  <2> QED
    BY <2>2, <2>3, InitTyped, InitReleases
<1>2. Inv /\ [Next]_vars => Inv'
  <2> SUFFICES ASSUME Inv, [Next]_vars PROVE Inv'
    OBVIOUS
  <2>1. seen' \in SeenRecord
    BY SeenStep
  <2>2. (seen \in SeenRecord)'
    BY <2>1 DEF SeenRecord, AppRecord, UnitRecord, Stream, Connect
  <2> QED
    BY <2>2, NextTyped, NextReleases, NextPressed
<1>3. Inv /\ [Next]_vars => [bp' => seen'.app = seen.app]_vars
  <2> SUFFICES ASSUME Inv, [Next]_vars, bp', Delivers PROVE FALSE
    BY SeenStep
  <2>1. bp' = bp
    BY DEF Delivers, RecvData, ResolveData, Resolving, Quiet
  <2>2. ~RecvData
    BY <2>1 DEF RecvData, Pressed
  <2>3. ~\E s \in Unis \cup Bidis : ResolveData(s)
    BY <2>1 DEF ResolveData, Resolving, Pressed, Doing
  <2> QED
    BY <2>2, <2>3 DEF Delivers
<1> QED
  BY <1>1, <1>2, <1>3, PTL DEF Spec, BackpressureHolds
=============================================================================
