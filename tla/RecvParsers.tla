---------------------------- MODULE RecvParsers ----------------------------
(***************************************************************************)
(* The receive side of a WtSession (crates/native/src/session.rs): how the *)
(* bytes of the peer's streams, which QUIC hands over in chunks of any     *)
(* size and in any order between streams, are classified, reassembled into *)
(* HTTP/3 frames and capsules, acted upon and delivered, all within the    *)
(* budget of ParserMemory.                                                 *)
(*                                                                         *)
(* The session runs on one thread: a chunk is processed to the end before  *)
(* anything else happens.  What is left to do is the stack `task`, and an  *)
(* action is one turn of one of the parsers' loops, which makes at most    *)
(* one change to a buffer.  QUIC, QPACK and the application are external.  *)
(***************************************************************************)
EXTENDS ParserMemory, H3Codec, ErrorCodes

CONSTANTS
  Unis, Bidis,    \* the streams the peer opens, by kind
  Roles,          \* the values is_server takes
  Scripts,        \* what the peer may send: [honest, of : stream -> bytes]
  MaxFrame,       \* MAX_CONTROL_FRAME
  ChunkSizes,     \* bound: the sizes of the chunks QUIC hands over
  PeerCodes,      \* application codes the peer resets streams with
  RawCodes,       \* codes it uses that are not in the WebTransport range
  OtherSize       \* bound: the bytes another session of the server buffers

Connect == "connect"            \* CONNECT_ID
Stream == {Connect} \cup Unis \cup Bidis

FramesBuf(s)  == <<"frames", s>>
ClassBuf(s)   == <<"class", s>>
PayloadBuf(s) == <<"payload", s>>
CapsuleBuf    == <<"capsule", Connect>>
ValueBuf      == <<"value", Connect>>
OtherBuf      == <<"other", Connect>>

ASSUME LayoutAssumption ==
  /\ Buffer = {FramesBuf(s) : s \in Stream} \cup {ClassBuf(s) : s \in Stream}
                \cup {PayloadBuf(s) : s \in Stream} \cup {CapsuleBuf, ValueBuf, OtherBuf}
  /\ Session = {"this", "other"}
  /\ Owner = [b \in Buffer |-> IF b = OtherBuf THEN "other" ELSE "this"]
  /\ Roles \subseteq BOOLEAN
  /\ PeerCodes \subseteq 0 .. MaxCode

\* A stream has one kind, and what the peer sends on it is bytes.
ASSUME PeerAssumption ==
  /\ Connect \notin Unis \cup Bidis /\ Unis \cap Bidis = {}
  /\ Byte = 0 .. 255
  /\ \A sc \in Scripts : sc.of \in [Stream -> Seq(Byte)]
  /\ ChunkSizes \subseteq Nat /\ RawCodes \subseteq Nat /\ OtherSize \in Nat

VARIABLES
  server,   \* is_server
  script,   \* what the peer sends on each stream
  peer,     \* per stream: bytes handed over so far, and how the peer ended it
  ses,      \* the WtSession
  seen,     \* what was handed on: stream data to the application, frames, capsules
  task,     \* what remains to be done for the chunk being processed
  bp        \* whether that chunk was read under backpressure

vars == <<memVars, server, script, peer, ses, seen, task, bp>>

NoSettings == <<[id |-> -2, val |-> 0]>>     \* peer_settings is None
Ops == {"recv", "resolve", "parse", "taken", "frame", "drop", "scan", "cut", "capsule",
        "after", "limit"}
RoleName == {"none", "connect", "control", "qpack_encoder", "qpack_decoder",
             "pending_uni", "pending_bidi", "data", "ignored"}
Causes == {"none", "protocol", "malformed", "flow", "limit", "rejected", "peer"}

\* Type invariant: no account goes negative, and only data streams are the application's.
TypeOK ==
  /\ MemTypeOK
  /\ server \in Roles /\ script \in Scripts /\ bp \in BOOLEAN
  /\ \A s \in Stream :
       /\ peer[s].pos \in 0 .. Len(script.of[s]) /\ peer[s].end \in {"open", "fin", "reset"}
       /\ ses.role[s] \in RoleName
       /\ seen.app[s].end \in {"open", "fin", "reset"}
       /\ seen.app[s].data \in Seq(Byte)
       /\ seen.app[s].known => ses.role[s] \in {"data", "none"}
  /\ ses.dead \subseteq Stream /\ ses.shut \subseteq Stream /\ ses.bad \subseteq Stream
  /\ ses.headersDone \subseteq Stream /\ ses.finSent \subseteq Bidis
  /\ ses.limit \in Nat /\ ses.ready \in BOOLEAN /\ ses.draining \in BOOLEAN
  /\ ses.cause \in Causes
  /\ \A i \in DOMAIN task : task[i].op \in Ops /\ task[i].id \in Stream

Closed == ses.cause # "none"
Idle == task = <<>>

Init ==
  /\ MemInit
  /\ server \in Roles /\ script \in Scripts
  /\ peer = [s \in Stream |-> [pos |-> 0, end |-> "open", code |-> 0]]
  /\ ses = [role |-> [s \in Stream |-> "none"], dead |-> {}, shut |-> {}, bad |-> {},
            headersDone |-> {}, finSent |-> {}, settings |-> NoSettings, limit |-> 0,
            ready |-> FALSE, draining |-> FALSE, cause |-> "none"]
  /\ seen = [app |-> [s \in Stream |-> [known |-> FALSE, data |-> <<>>, end |-> "open", code |-> 0]],
             frames |-> [s \in Stream |-> <<>>], capsules |-> <<>>]
  /\ task = <<>> /\ bp = FALSE
-----------------------------------------------------------------------------
(* Closing *)

\* Mutant: mark_closed keeps a half-received capsule.
StreamBuffersOnly == {FramesBuf(s) : s \in Stream} \cup {ClassBuf(s) : s \in Stream}

\* The buffers mark_closed clears.
ParserBuffers == {FramesBuf(s) : s \in Stream} \cup {ClassBuf(s) : s \in Stream} \cup {CapsuleBuf}

\* mark_closed, and the drop of the copies in `locals`.
MarkClosed(s, cause, locals) ==
  /\ ses' = [s EXCEPT !.cause = cause, !.dead = @ \cup {x \in Stream : s.role[x] # "none"}]
  /\ Cleared(ParserBuffers \cup locals)
-----------------------------------------------------------------------------
(* Reading a stream: on_readable *)

\* classify_new; a client's CONNECT stream is its own (queue_connect).
ClassifyNew(s) ==
  CASE s = Connect -> "connect" [] s \in Unis -> "pending_uni" [] s \in Bidis -> "pending_bidi"

RoleOf(s) == IF ses.role[s] = "none" THEN ClassifyNew(s) ELSE ses.role[s]

\* The peer has opened the stream and not ended it, and its bytes are wanted.
Readable(s) ==
  /\ Idle /\ ~Closed
  /\ script.of[s] # <<>>
  /\ peer[s].end = "open" /\ s \notin ses.dead \cup ses.shut
  /\ s = Connect => server \/ ses.role[s] = "connect"

TypeOf(s) == ReadVarint(data[ClassBuf(s)])

\* Mutant: a pending stream is read as a whole under pressure too.
UrgentWhole(s, n) == RoleOf(s) \notin {"data", "pending_bidi"}

\* What is read while the application is behind: no data stream, and of a stream
\* that is not yet classified one byte at a time, until it is known to carry data.
Urgent(s, n) ==
  /\ RoleOf(s) \notin {"data", "pending_bidi"}
  /\ RoleOf(s) = "pending_uni"
       => n <= 1 /\ ~(TypeOf(s).len > 0 /\ TypeOf(s).val = WtUni)

OnReadable(s, n, fin, pressed) ==
  /\ Readable(s)
  /\ n > 0 \/ fin
  /\ peer[s].pos + n <= Len(script.of[s])
  /\ pressed => Urgent(s, n)
  /\ peer' = [peer EXCEPT ![s].pos = @ + n, ![s].end = IF fin THEN "fin" ELSE @]
  /\ ses' = [ses EXCEPT !.role[s] = RoleOf(s)]
  /\ task' = <<[op |-> "recv", id |-> s, fin |-> fin,
                bytes |-> SubSeq(script.of[s], peer[s].pos + 1, peer[s].pos + n)]>>
  /\ bp' = pressed
  /\ UNCHANGED <<memVars, server, script, seen>>

\* stream_recv reported that the peer reset the stream with `code`.
OnReset(s, code) ==
  LET known == [ses EXCEPT !.role[s] = RoleOf(s), !.dead = @ \cup {s}]
  IN  /\ Readable(s)
      /\ peer' = [peer EXCEPT ![s].end = "reset", ![s].code = code]
      /\ bp' = FALSE
      /\ UNCHANGED <<server, script, task>>
      /\ \/ /\ RoleOf(s) = "data"
            /\ seen' = [seen EXCEPT !.app[s].end = "reset",
                          !.app[s].code = IF FromHttp(code) = None THEN code ELSE FromHttp(code)]
            /\ ses' = known /\ UNCHANGED memVars
         \/ /\ RoleOf(s) \in {"control", "qpack_encoder", "qpack_decoder"}
            /\ MarkClosed(known, "protocol", {}) /\ UNCHANGED seen
         \/ /\ RoleOf(s) = "connect"
            /\ MarkClosed(known, "peer", {}) /\ UNCHANGED seen
         \/ /\ RoleOf(s) \in {"pending_uni", "pending_bidi", "ignored"}
            /\ ses' = known /\ UNCHANGED <<memVars, seen>>
-----------------------------------------------------------------------------
(* Processing a chunk *)

Top == Head(task)
Doing(op) == task # <<>> /\ Top.op = op
Then(items) == task' = items \o Tail(task)
Item(op, s) == [op |-> op, id |-> s]
Quiet == UNCHANGED <<server, script, peer, bp>>

\* FrameParser::push, for the control stream and the CONNECT stream.
RecvFrames ==
  LET s == Top.id
  IN  /\ Doing("recv") /\ ses.role[s] \in {"control", "connect"}
      /\ Then(<<Item("parse", s), [op |-> "after", id |-> s, fin |-> Top.fin]>>)
      /\ \/ s \in ses.bad /\ UNCHANGED <<memVars, ses>>
         \/ s \notin ses.bad /\ Extended(FramesBuf(s), Top.bytes) /\ UNCHANGED ses
         \/ /\ s \notin ses.bad /\ Refused(FramesBuf(s), Top.bytes)
            /\ ses' = [ses EXCEPT !.bad = @ \cup {s}]
      /\ UNCHANGED seen /\ Quiet

\* Bytes of QPACK and ignored streams are discarded.
RecvDiscarded ==
  LET s == Top.id
  IN  /\ Doing("recv") /\ Then(<<>>) /\ UNCHANGED seen /\ Quiet
      /\ \/ /\ ses.role[s] \in {"qpack_encoder", "qpack_decoder"} /\ Top.fin
            /\ MarkClosed(ses, "protocol", {})
         \/ /\ ses.role[s] \in {"qpack_encoder", "qpack_decoder"} /\ ~Top.fin
            /\ UNCHANGED <<memVars, ses>>
         \/ /\ ses.role[s] = "ignored"
            /\ ses' = [ses EXCEPT !.dead = IF Top.fin THEN @ \cup {s} ELSE @]
            /\ UNCHANGED memVars

\* StreamData and StreamFinished.
Deliver(s, bytes, fin) ==
  seen' = [seen EXCEPT !.app[s].known = TRUE, !.app[s].data = @ \o bytes,
                       !.app[s].end = IF fin THEN "fin" ELSE @]

RecvData ==
  LET s == Top.id
  IN  /\ Doing("recv") /\ ses.role[s] = "data"
      /\ Then(<<>>)
      /\ Deliver(s, Top.bytes, Top.fin)
      /\ ses' = [ses EXCEPT !.dead = IF Top.fin THEN @ \cup {s} ELSE @]
      /\ UNCHANGED memVars /\ Quiet

RecvPending ==
  LET s == Top.id
  IN  /\ Doing("recv") /\ ses.role[s] \in {"pending_uni", "pending_bidi"}
      /\ UNCHANGED seen /\ Quiet
      /\ \/ /\ Extended(ClassBuf(s), Top.bytes)
            /\ Then(<<[op |-> "resolve", id |-> s, fin |-> Top.fin]>>)
            /\ UNCHANGED ses
         \/ /\ Refused(ClassBuf(s), Top.bytes)
            /\ Then(<<Item("limit", s)>>) /\ UNCHANGED ses
-----------------------------------------------------------------------------
(* resolve_pending_uni and resolve_pending_bidi *)

\* The session id that follows the type of a WebTransport stream.
SessionOf(s) == ReadVarint(Suffix(data[ClassBuf(s)], TypeOf(s).len))
HeaderLen(s) == TypeOf(s).len + SessionOf(s).len

IsType(s, ty) == TypeOf(s).len > 0 /\ TypeOf(s).val = ty
IsWebTransport(s) == IsType(s, IF s \in Unis THEN WtUni ELSE WtBidi)
CriticalRole(ty) ==
  CASE ty = H3Control -> "control" [] ty = QpackEncoder -> "qpack_encoder"
    [] ty = QpackDecoder -> "qpack_decoder"
IsCritical(s) ==
  s \in Unis /\ TypeOf(s).len > 0 /\ TypeOf(s).val \in {H3Control, QpackEncoder, QpackDecoder}

Resolving(s) == Doing("resolve") /\ Top.id = s /\ Quiet

\* The header is not complete: wait, or drop the entry if no more will come.
ResolveLater(s) ==
  /\ Resolving(s)
  /\ TypeOf(s).len = 0 \/ (IsWebTransport(s) /\ SessionOf(s).len = 0)
  /\ Then(<<>>) /\ UNCHANGED seen
  /\ \/ ~Top.fin /\ UNCHANGED <<memVars, ses>>
     \/ /\ Top.fin
        /\ ses' = [ses EXCEPT !.role[s] = "none"]
        /\ Cleared({ClassBuf(s)})

\* A control or QPACK stream; there may be one of each.
ResolveCritical(s) ==
  LET new == CriticalRole(TypeOf(s).val)
      known == [ses EXCEPT !.role[s] = new]
      rest == Suffix(data[ClassBuf(s)], TypeOf(s).len)
  IN  /\ Resolving(s) /\ IsCritical(s) /\ UNCHANGED seen
      /\ \/ /\ \E other \in Stream \ {s} : ses.role[other] = new
            /\ MarkClosed(ses, "protocol", {}) /\ Then(<<>>)
         \/ /\ \A other \in Stream \ {s} : ses.role[other] # new
            /\ new = "control"
            /\ ses' = known /\ Cleared({ClassBuf(s)})
            /\ Then(<<[op |-> "recv", id |-> s, fin |-> Top.fin, bytes |-> rest]>>)
         \/ /\ \A other \in Stream \ {s} : ses.role[other] # new
            /\ new # "control" /\ ~Top.fin
            /\ ses' = known /\ Cleared({ClassBuf(s)}) /\ Then(<<>>)
         \/ /\ \A other \in Stream \ {s} : ses.role[other] # new
            /\ new # "control" /\ Top.fin
            /\ MarkClosed(known, "protocol", {}) /\ Then(<<>>)

\* A data stream of this session (session id 0).
ResolveData(s) ==
  /\ Resolving(s) /\ IsWebTransport(s) /\ SessionOf(s).len > 0 /\ SessionOf(s).val = 0
  /\ Deliver(s, Suffix(data[ClassBuf(s)], HeaderLen(s)), Top.fin)
  /\ ses' = [ses EXCEPT !.role[s] = "data", !.dead = IF Top.fin THEN @ \cup {s} ELSE @]
  /\ Cleared({ClassBuf(s)}) /\ Then(<<>>)

\* Any other stream is ignored.  A foreign session's stream and a bidi stream of
\* another protocol are also stopped.
ResolveIgnored(s) ==
  /\ Resolving(s) /\ TypeOf(s).len > 0
  /\ \/ ~IsWebTransport(s) /\ ~IsCritical(s)
     \/ IsWebTransport(s) /\ SessionOf(s).len > 0 /\ SessionOf(s).val # 0
  /\ ses' = [ses EXCEPT !.role[s] = "ignored",
                        !.shut = IF s \in Bidis \/ IsWebTransport(s) THEN @ \cup {s} ELSE @]
  /\ Cleared({ClassBuf(s)}) /\ Then(<<>>) /\ UNCHANGED seen
-----------------------------------------------------------------------------
(* HTTP/3 frames: FrameParser::next_frame and the loops over it *)

\* parse_server_connect_frames waits for SETTINGS.
Waits(s) == s = Connect /\ server /\ ses.settings = NoSettings
Refuses(s) == s = Connect /\ server /\ ~Waits(s) /\ ~WebTransportOk(ses.settings, TRUE)

NextUnit(b) == ReadUnit(data[b])
Total(u) == u.start + u.len
Whole(b) == NextUnit(b).known /\ NextUnit(b).len <= MaxFrame /\ Len(data[b]) >= Total(NextUnit(b))
Oversized(b) == NextUnit(b).known /\ NextUnit(b).len > MaxFrame

Parse ==
  LET s == Top.id
      b == FramesBuf(s)
      live == ~Closed /\ ~Waits(s) /\ ~Refuses(s) /\ s \notin ses.bad
  IN  /\ Doing("parse") /\ UNCHANGED seen /\ Quiet
      /\ \/ /\ Closed \/ Waits(s) \/ (s \in ses.bad /\ ~Refuses(s)) \/ (live /\ ~Whole(b) /\ ~Oversized(b))
            /\ Then(<<>>) /\ UNCHANGED <<memVars, ses>>
         \/ /\ ~Closed /\ Refuses(s)                       \* reject_connect
            /\ Then(<<>>) /\ MarkClosed(ses, "rejected", {})
         \/ /\ live /\ Oversized(b)
            /\ Then(<<>>) /\ ses' = [ses EXCEPT !.bad = @ \cup {s}] /\ UNCHANGED memVars
         \/ /\ live /\ Whole(b)
            /\ Extended(PayloadBuf(s), UnitValue(data[b], NextUnit(b)))
            /\ task' = <<Item("taken", s)>> \o task /\ UNCHANGED ses
         \/ /\ live /\ Whole(b)
            /\ Refused(PayloadBuf(s), UnitValue(data[b], NextUnit(b)))
            /\ Then(<<>>) /\ ses' = [ses EXCEPT !.bad = @ \cup {s}]

ConsumeFrame ==
  LET s == Top.id
      u == NextUnit(FramesBuf(s))
  IN  /\ Doing("taken")
      /\ Consumed(FramesBuf(s), Total(u))
      /\ Then(<<[op |-> "frame", id |-> s, ty |-> u.ty]>>)
      /\ UNCHANGED <<ses, seen>> /\ Quiet

Handling(s) == Doing("frame") /\ Top.id = s /\ Quiet
Payload(s) == data[PayloadBuf(s)]
Log(s) == seen' = [seen EXCEPT !.frames[s] = Append(@, [ty |-> Top.ty, val |-> Payload(s)])]
Dropped(s) == Cleared({PayloadBuf(s)}) /\ Then(<<>>)

\* Mutant: CONNECT bytes that came before SETTINGS are not looked at again.
ControlSettingsOnly(s) ==
  LET pairs == SettingsPairs(Payload(s))
  IN  /\ Handling(s) /\ ses.role[s] = "control"
      /\ s \notin ses.headersDone /\ Top.ty = FrameSettings
      /\ Log(s)
      /\ ses' = [ses EXCEPT !.headersDone = @ \cup {s}, !.settings = pairs,
                            !.limit = Setting(pairs, SettingsInitialMaxData)]
      /\ Dropped(s)

\* parse_control_frames, first frame: SETTINGS.
ControlSettings(s) ==
  LET pairs == SettingsPairs(Payload(s))
      known == [ses EXCEPT !.headersDone = @ \cup {s}, !.settings = pairs,
                           !.limit = Setting(pairs, SettingsInitialMaxData)]
  IN  /\ Handling(s) /\ ses.role[s] = "control"
      /\ s \notin ses.headersDone /\ Top.ty = FrameSettings
      /\ Log(s)
      /\ \/ /\ ~LegalPairs(pairs)
            /\ Then(<<>>)
            /\ MarkClosed([ses EXCEPT !.headersDone = @ \cup {s}], "protocol", {PayloadBuf(s)})
         \/ /\ LegalPairs(pairs) /\ ~server /\ ~WebTransportOk(pairs, FALSE)
            /\ Then(<<>>) /\ MarkClosed(known, "rejected", {PayloadBuf(s)})
         \/ /\ LegalPairs(pairs) /\ ~server /\ WebTransportOk(pairs, FALSE)
            /\ ses' = [known EXCEPT !.role[Connect] = "connect"]      \* queue_connect
            /\ Dropped(s)
         \/ /\ LegalPairs(pairs) /\ server
            /\ ses' = known /\ UNCHANGED memVars
            /\ Then((IF ses.role[Connect] # "none" THEN <<Item("parse", Connect)>> ELSE <<>>)
                      \o <<Item("drop", s)>>)

\* Every other frame of the control stream.
ControlFrame(s) ==
  LET first == s \notin ses.headersDone
  IN  /\ Handling(s) /\ ses.role[s] = "control"
      /\ ~(first /\ Top.ty = FrameSettings)
      /\ Log(s)
      /\ \/ /\ first \/ Top.ty \in {FrameSettings, FrameData, FrameHeaders, 2, 6, 8, 9}
            /\ Then(<<>>) /\ MarkClosed(ses, "protocol", {PayloadBuf(s)})
         \/ /\ ~first /\ Top.ty \notin {FrameSettings, FrameData, FrameHeaders, 2, 6, 8, 9}
            /\ ses' = [ses EXCEPT !.draining = @ \/ Top.ty = FrameGoaway]
            /\ Dropped(s)

\* QPACK is external: the first byte of a header block says whether it decodes to
\* an acceptable request (1) or response, to one that is refused (2), or not (0).
ConnectHeaders ==
  LET s == Connect
      block == IF Payload(s) = <<>> THEN 0 ELSE Payload(s)[1]
      known == [ses EXCEPT !.headersDone = @ \cup {s}]
  IN  /\ Handling(s) /\ Top.ty = FrameHeaders /\ s \notin ses.headersDone
      /\ Log(s)
      /\ \/ /\ block = 1
            /\ ses' = [known EXCEPT !.ready = TRUE] /\ Dropped(s)
         \/ /\ block = 0 /\ ~server                      \* reported, not fatal
            /\ ses' = known /\ Dropped(s)
         \/ /\ block = 2 \/ (block = 0 /\ server)
            /\ Then(<<>>) /\ MarkClosed(known, "rejected", {PayloadBuf(s)})

ConnectOther ==
  LET s == Connect
  IN  /\ Handling(s) /\ Top.ty # FrameData
      /\ Top.ty = FrameHeaders => s \in ses.headersDone
      /\ Log(s) /\ Dropped(s) /\ UNCHANGED ses

\* scan_capsules appends the DATA payload to what is left of the last one.
ConnectData ==
  LET s == Connect
  IN  /\ Handling(s) /\ Top.ty = FrameData
      /\ Log(s)
      /\ \/ /\ Extended(CapsuleBuf, Payload(s)) /\ UNCHANGED ses
            /\ Then(<<Item("scan", s), Item("drop", s)>>)
         \/ /\ Refused(CapsuleBuf, Payload(s))
            /\ Then(<<Item("limit", s), Item("drop", s)>>) /\ UNCHANGED ses

Drop == Doing("drop") /\ Dropped(Top.id) /\ UNCHANGED <<ses, seen>> /\ Quiet

\* parser_limit_exceeded, after a refused push that is not a frame's.
LimitExceeded ==
  /\ Doing("limit") /\ Then(<<>>) /\ UNCHANGED seen /\ Quiet
  /\ MarkClosed(ses, "limit", {})
-----------------------------------------------------------------------------
(* Capsules: the loop of scan_capsules *)

Scan ==
  LET u == NextUnit(CapsuleBuf)
      s == Top.id
  IN  /\ Doing("scan") /\ UNCHANGED seen /\ Quiet
      /\ \/ /\ Closed \/ ~(Whole(CapsuleBuf) \/ Oversized(CapsuleBuf))
            /\ Then(<<>>) /\ UNCHANGED <<memVars, ses>>
         \/ /\ ~Closed /\ Oversized(CapsuleBuf)
            /\ Then(<<>>) /\ MarkClosed(ses, "protocol", {})
         \/ /\ ~Closed /\ Whole(CapsuleBuf)
            /\ Extended(ValueBuf, UnitValue(data[CapsuleBuf], u))
            /\ task' = <<Item("cut", s)>> \o task /\ UNCHANGED ses
         \/ /\ ~Closed /\ Whole(CapsuleBuf)
            /\ Refused(ValueBuf, UnitValue(data[CapsuleBuf], u))
            /\ Then(<<Item("limit", s)>>) /\ UNCHANGED ses

CutCapsule ==
  LET u == NextUnit(CapsuleBuf)
      s == Top.id
  IN  /\ Doing("cut")
      /\ Consumed(CapsuleBuf, Total(u))
      /\ Then(<<[op |-> "capsule", id |-> s, ty |-> u.ty]>>)
      /\ UNCHANGED <<ses, seen>> /\ Quiet

\* A WT_MAX_DATA value: one integer and nothing else, above the last one.  The other
\* limits are handled alike.
RaisesLimit(value) ==
  ReadVarint(value).len = Len(value) /\ value # <<>> /\ ReadVarint(value).val > ses.limit

HandleCapsule ==
  LET value == data[ValueBuf]
  IN  /\ Doing("capsule") /\ Then(<<>>) /\ Quiet
      /\ seen' = [seen EXCEPT !.capsules = Append(@, [ty |-> Top.ty, val |-> value])]
      /\ \/ /\ Top.ty = WtCloseSession
            /\ MarkClosed(ses, "peer", {ValueBuf})
         \/ /\ Top.ty = WtDrainSession
            /\ ses' = [ses EXCEPT !.draining = TRUE] /\ Cleared({ValueBuf})
         \/ /\ Top.ty = WtMaxData /\ RaisesLimit(value)
            /\ ses' = [ses EXCEPT !.limit = ReadVarint(value).val] /\ Cleared({ValueBuf})
         \/ /\ Top.ty = WtMaxData /\ ~RaisesLimit(value)
            /\ MarkClosed(ses, "flow", {ValueBuf})
         \/ /\ Top.ty \notin {WtCloseSession, WtDrainSession, WtMaxData}
            /\ Cleared({ValueBuf}) /\ UNCHANGED ses
-----------------------------------------------------------------------------
(* The end of process_recv *)

\* Bytes of the CONNECT stream that are not a whole frame or capsule.
Unfinished == data[FramesBuf(Connect)] # <<>> \/ data[CapsuleBuf] # <<>>

\* The checks that follow the parse of a control or CONNECT chunk.
After ==
  LET s == Top.id
  IN  /\ Doing("after") /\ Then(<<>>) /\ UNCHANGED seen /\ Quiet
      /\ \/ /\ Closed \/ (s \notin ses.bad /\ ~Top.fin)
            /\ UNCHANGED <<memVars, ses>>
         \/ /\ ~Closed /\ s \in Unis /\ Top.fin
            /\ MarkClosed(ses, "protocol", {})
         \/ /\ ~Closed /\ s \in ses.bad /\ ~(s \in Unis /\ Top.fin)          \* kill_recv
            /\ MarkClosed([ses EXCEPT !.shut = @ \cup {s}], "malformed", {})
         \/ /\ ~Closed /\ s = Connect /\ s \notin ses.bad /\ Top.fin
            /\ MarkClosed(ses, IF Unfinished THEN "protocol" ELSE "peer", {})
-----------------------------------------------------------------------------
(* The rest of the session and of the server *)

\* flush drops the entries of streams that ended in both directions.
Prunable(s) ==
  /\ s # Connect /\ ses.role[s] # "none" /\ s \in ses.dead
  /\ s \in Bidis => s \in ses.finSent

Prune ==
  LET gone == {s \in Stream : Prunable(s)}
  IN  /\ Idle /\ gone # {}
      /\ ses' = [ses EXCEPT !.role = [s \in Stream |-> IF s \in gone THEN "none" ELSE @[s]]]
      /\ Cleared({FramesBuf(s) : s \in gone} \cup {ClassBuf(s) : s \in gone})
      /\ UNCHANGED <<server, script, peer, seen, task, bp>>

\* The application's side of a bidi stream was flushed to its FIN.
FinishSend(s) ==
  /\ Idle /\ ses.role[s] = "data" /\ s \notin ses.finSent
  /\ ses' = [ses EXCEPT !.finSent = @ \cup {s}]
  /\ UNCHANGED <<memVars, server, script, peer, seen, task, bp>>

\* The driver closes the session: the connection ended or timed out.
ConnectionLost ==
  /\ Idle /\ ~Closed
  /\ MarkClosed(ses, "peer", {})
  /\ UNCHANGED <<server, script, peer, seen, task, bp>>

\* Another session of the same server buffers bytes, or lets go of them (bound:
\* as long as this session is open).
OtherSession ==
  /\ Idle /\ server /\ ~Closed
  /\ \/ Extended(OtherBuf, [i \in 1 .. OtherSize |-> 0])
     \/ data[OtherBuf] # <<>> /\ Cleared({OtherBuf})
  /\ UNCHANGED <<server, script, peer, ses, seen, task, bp>>

Processing ==
  \/ RecvFrames \/ RecvDiscarded \/ RecvData \/ RecvPending
  \/ \E s \in Unis \cup Bidis :
       ResolveLater(s) \/ ResolveCritical(s) \/ ResolveData(s) \/ ResolveIgnored(s)
  \/ Parse \/ ConsumeFrame
  \/ \E s \in Unis : ControlSettings(s) \/ ControlFrame(s)
  \/ ConnectHeaders \/ ConnectData \/ ConnectOther \/ Drop \/ LimitExceeded
  \/ Scan \/ CutCapsule \/ HandleCapsule \/ After

Next ==
  \/ \E s \in Stream, n \in {0} \cup ChunkSizes, fin \in BOOLEAN, pressed \in BOOLEAN :
       OnReadable(s, n, fin, pressed)
  \/ \E s \in Stream, code \in {ToHttp(c) : c \in PeerCodes} \cup RawCodes : OnReset(s, code)
  \/ Processing
  \/ Prune \/ ConnectionLost \/ OtherSession
  \/ \E s \in Bidis : FinishSend(s)

Spec == Init /\ [][Next]_vars
-----------------------------------------------------------------------------
(* Properties *)

Received(s) == SubSeq(script.of[s], 1, peer[s].pos)

\* What a parse of all the bytes at once finds: the whole units at their front.
Units(bytes) ==
  LET from[i \in 0 .. Len(bytes)] ==
        LET rest == Suffix(bytes, i)
            u == ReadUnit(rest)
        IN  IF u.known /\ u.len <= MaxFrame /\ Total(u) <= Len(rest)
            THEN <<[ty |-> u.ty, val |-> UnitValue(rest, u)]>> \o from[i + Total(u)]
            ELSE <<>>
  IN  from[0]

\* The bytes are whole frames, and their DATA whole capsules.
Size(units) == Len(FlattenSeq([i \in DOMAIN units |-> Frame(units[i].ty, units[i].val)]))

DataOf(frames) ==
  FlattenSeq([i \in DOMAIN frames |-> IF frames[i].ty = FrameData THEN frames[i].val ELSE <<>>])

WholeUnits(bytes) ==
  LET frames == Units(bytes)
  IN  Size(frames) = Len(bytes) /\ Size(Units(DataOf(frames))) = Len(DataOf(frames))

AfterVarint(bytes) == Suffix(bytes, ReadVarint(bytes).len)

\* The peer's frames, capsules and stream data are handed on exactly as they were
\* sent, however QUIC cut them into chunks, whichever stream came first (CONNECT
\* waits for SETTINGS) and whether or not some were read under backpressure; a
\* reset carries the application code the peer reset with.  The exception: a
\* CONNECT parse that failed while SETTINGS were handled stops there, and the
\* session notices only when more of CONNECT arrives.
Reassembled ==
  Idle /\ ~Closed =>
    /\ \A s \in Unis : ses.role[s] = "control" =>
         seen.frames[s] = Units(AfterVarint(Received(s)))
    /\ ses.role[Connect] = "connect" /\ ~Waits(Connect) =>
         /\ Connect \notin ses.bad => seen.frames[Connect] = Units(Received(Connect))
         /\ IsPrefix(seen.frames[Connect], Units(Received(Connect)))
         /\ seen.capsules = Units(DataOf(seen.frames[Connect]))
    /\ \A s \in Stream : seen.app[s].known =>
         /\ seen.app[s].data = AfterVarint(AfterVarint(Received(s)))
         /\ seen.app[s].end = peer[s].end
         /\ \A c \in PeerCodes : peer[s].end = "reset" /\ peer[s].code = ToHttp(c)
                                   => seen.app[s].code = c

\* A closed session holds nothing of the budget, whatever was half received.
ClosedReleases == Idle /\ Closed => used["this"] = 0

\* While the application is behind, nothing is delivered to it.
BackpressureHolds == [][bp' => seen'.app = seen.app]_vars

\* A peer that follows the protocol is not accused of breaking it, unless it ended
\* one of its critical streams, ended CONNECT in the middle of a frame or capsule,
\* or ended it before its SETTINGS arrived (CONNECT then still waits to be parsed
\* and counts as unfinished).
NoFalseAccusation ==
  ses.cause \in {"protocol", "flow"} /\ script.honest =>
    \/ \E s \in Unis : /\ peer[s].end # "open"
                          /\ ReadVarint(Received(s)).val \in {H3Control, QpackEncoder, QpackDecoder}
    \/ peer[Connect].end = "fin" /\ (Waits(Connect) \/ ~WholeUnits(Received(Connect)))

\* What the comments on Ignored streams and on pruning promise: once the peer has
\* ended a stream that is being discarded, its entry can be pruned, so that the
\* map does not grow with the streams a peer opens and ends.
DrainedIsPrunable ==
  Idle /\ ~Closed =>
    \A s \in Unis : ses.role[s] = "ignored" /\ peer[s].end # "open" => Prunable(s)
=============================================================================
