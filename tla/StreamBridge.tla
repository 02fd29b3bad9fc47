---------------------------- MODULE StreamBridge ----------------------------
(***************************************************************************)
(* The bridge between the streams of a WtSession, on the driver thread,    *)
(* and the WHATWG streams of its SessionCore, on the JavaScript thread.    *)
(* Commands cross in a channel, events in batches (one per iteration of    *)
(* the driver loop, one callback per batch); the driver sleeps until a     *)
(* packet or the Waker wakes it, and backs off from reading QUIC while too *)
(* many batches are in flight.                                             *)
(*                                                                         *)
(* All streams are bidirectional; a unidirectional stream uses one half.   *)
(* Chunks are counted.  The peer and QUIC are the environment.  Session    *)
(* flow control is SessionFlow's subject: here an open or a write just     *)
(* waits for credit.                                                       *)
(*                                                                         *)
(* What else crosses the bridge is inbound datagrams and the requests that *)
(* are answered by an event (sendDatagram, getStats,                       *)
(* exportKeyingMaterial).  A scenario says which of all this a behaviour   *)
(* uses.                                                                   *)
(***************************************************************************)
EXTENDS Naturals, Sequences, FiniteSets, SequencesExt

CONSTANTS
  LocalStreams,   \* streams this application may open
  PeerStreams,    \* streams the peer may open
  HighWater,      \* highWaterMark of a receive stream (32)
  MaxInflight,    \* MAX_INFLIGHT_BATCHES (128)
  MaxIncoming,    \* MAX_PENDING_INCOMING_STREAMS (128)
  MaxChunks,      \* bound: chunks the peer sends on a stream
  MaxWrites,      \* bound: chunks the application writes to a stream
  DgramHighWater, \* highWaterMark of the datagrams' readable (64)
  MaxDatagrams,   \* bound: datagrams the peer sends
  Scenarios,      \* what the session is used for: one of these per behaviour
  MayClose        \* the peer may close the session

Stream == LocalStreams \cup PeerStreams
Half == {"recv", "send"}

\* Requests that the driver answers with an event of the same request id.
Request == {"SendDatagram", "GetStats", "ExportKeyingMaterial"}

\* The streams in use, the halves of them that carry chunks and those that may be cut
\* short, the requests the application may make, and whether datagrams arrive.
Scenario == [streams : SUBSET Stream, carries : SUBSET Half, cuts : SUBSET Half,
             requests : SUBSET Request, datagrams : BOOLEAN]

ASSUME BridgeAssumption ==
  /\ IsFiniteSet(Stream) /\ LocalStreams \cap PeerStreams = {}
  /\ {HighWater, MaxInflight, MaxIncoming, DgramHighWater} \subseteq Nat \ {0}
  /\ {MaxChunks, MaxWrites, MaxDatagrams} \subseteq Nat
  /\ Scenarios \subseteq Scenario
  /\ MayClose \in BOOLEAN

VARIABLES
  uses,      \* the scenario of this behaviour
  nat,       \* per stream: the driver's Stream entry
  net,       \* per stream: what the peer did and QUIC holds
  js,        \* per stream: its promise, its sinks and its WHATWG streams
  dgram,     \* inbound datagrams: sent by the peer, in QUIC's queue, taken by the driver
  core,      \* SessionCore: closedState, the queue of incoming streams, the pending
             \* requests, and the datagrams' readable
  closed,    \* WtSession.closed; closing: a CLOSE capsule waits to be read
  closing,
  alive,     \* the driver thread runs
  cmds,      \* the command channel
  batches,   \* batches scheduled on the JavaScript thread (inflight counts them)
  evs,       \* events of the current iteration
  stage,     \* of the driver loop: "poll", or after step 3, "low" / "high" pressure
  woken      \* the Waker, or a packet on the socket

driver == <<uses, nat, dgram, closed, alive, evs, stage>>
vars == <<uses, nat, net, dgram, js, core, closed, closing, alive, cmds, batches, evs, stage, woken>>

Item(type, s) == [type |-> type, stream |-> s]

NewNat == [present |-> FALSE, wanted |-> FALSE, out |-> 0, finQueued |-> FALSE,
           finSent |-> FALSE, dead |-> FALSE, paused |-> FALSE, taken |-> 0]

NewNet == [buffered |-> 0, sent |-> 0, fin |-> FALSE, reset |-> FALSE, stop |-> FALSE,
           credit |-> FALSE, room |-> 0, known |-> FALSE]

NewJs == [open |-> "idle", recv |-> FALSE, send |-> FALSE,
          queue |-> 0, got |-> 0, asked |-> FALSE, readable |-> "none",
          pending |-> 0, writes |-> 0, writing |-> FALSE, closeCalled |-> FALSE, writable |-> "none"]

NewCore == [closed |-> FALSE, incoming |-> 0, cancelled |-> FALSE,
            requests |-> [k \in Request |-> "idle"],
            readable |-> "open", queue |-> 0, asked |-> FALSE, got |-> 0, dropped |-> 0]

Init ==
  /\ uses \in Scenarios
  /\ dgram = [sent |-> 0, buffered |-> 0, taken |-> 0]
  /\ nat = [s \in Stream |-> NewNat]
  /\ net = [s \in Stream |-> NewNet]
  /\ js = [s \in Stream |-> NewJs]
  /\ core = NewCore
  /\ closed = FALSE /\ closing = FALSE /\ alive = TRUE
  /\ cmds = <<>> /\ batches = <<>> /\ evs = <<>>
  /\ stage = "poll" /\ woken = FALSE

-----------------------------------------------------------------------------
(* The driver thread.  A step of one stream gives its new entry and the items it       *)
(* produces, which are events here and commands on the JavaScript thread.             *)

Step(entry, items) == [entry |-> entry, items |-> items]
Quiet(entry) == Step(entry, <<>>)
Entries(steps) == [s \in Stream |-> steps[s].entry]

\* The items of the steps of several streams, in the order in which these take them; only
\* the order of the streams that tell anything matters.
Told(steps, order) == FlattenSeq([i \in DOMAIN order |-> steps[order[i]].items])
Tellers(steps) == {s \in Stream : steps[s].items # <<>>}
Orders(steps) == SetToSeqs(Tellers(steps))

\* Mutant: an open that finds no credit is forgotten instead of kept waiting.
ReleaseOrForget(s, e) ==
  IF closed \/ ~e.wanted THEN Quiet(e)
  ELSE IF ~net[s].credit THEN Quiet([e EXCEPT !.wanted = FALSE])
  ELSE Step([e EXCEPT !.wanted = FALSE, !.present = TRUE], <<Item("StreamOpened", s)>>)

\* release_pending_opens and allocate_stream, for one waiting open.
Release(s, e) ==
  IF closed \/ ~e.wanted \/ ~net[s].credit THEN Quiet(e)
  ELSE Step([e EXCEPT !.wanted = FALSE, !.present = TRUE], <<Item("StreamOpened", s)>>)

\* A command for a stream that has an entry.
Obeyed(type, e) ==
  CASE type = "Write" -> [e EXCEPT !.out = @ + 1]
    [] type = "Fin" -> [e EXCEPT !.finQueued = TRUE]
    [] type = "ResetStream" -> [e EXCEPT !.out = 0, !.finSent = TRUE]
    [] type = "StopSending" -> [e EXCEPT !.dead = TRUE]
    [] type = "Pause" -> [e EXCEPT !.paused = TRUE]
    [] type = "Resume" -> [e EXCEPT !.paused = FALSE]

\* A write to a stream that is gone is acknowledged at once.
Commanded(c, e) ==
  IF c.type = "OpenStream" THEN Release(c.stream, [e EXCEPT !.wanted = TRUE])
  ELSE IF e.present THEN Quiet(Obeyed(c.type, e))
  ELSE Step(e, IF c.type = "Write" THEN <<Item("WriteAck", c.stream)>> ELSE <<>>)

\* d is a record [st, ev]: the streams and the events so far.
ApplyCommand(d, c) ==
  IF c.type \in Request THEN [d EXCEPT !.ev = Append(@, Item("Answer", c.type))]
  ELSE LET step == Commanded(c, d.st[c.stream])
       IN [st |-> [d.st EXCEPT ![c.stream] = step.entry], ev |-> d.ev \o step.items]

\* Step 3: every command of the channel, in order.
Drained ==
  LET after[n \in 0 .. Len(cmds)] ==
        IF n = 0 THEN [st |-> nat, ev |-> <<>>] ELSE ApplyCommand(after[n - 1], cmds[n])
  IN after[Len(cmds)]

\* Steps 1 to 3 of run_inner, and the load of the in-flight counter.
DriverWake ==
  /\ alive /\ stage = "poll" /\ woken
  /\ woken' = FALSE
  /\ cmds' = <<>>
  /\ IF \E i \in 1 .. Len(cmds) : cmds[i].type = "Shutdown"
     THEN alive' = FALSE /\ UNCHANGED <<nat, evs, stage>>
     ELSE \E d \in {Drained} :
             /\ nat' = d.st /\ evs' = d.ev
             /\ stage' = IF Len(batches) >= MaxInflight THEN "high" ELSE "low"
             /\ UNCHANGED alive
  /\ UNCHANGED <<uses, net, dgram, js, core, closed, closing, batches>>

\* on_readable, down to process_recv: everything QUIC has for s, unless it is withheld.
Withheld(e) == e.dead \/ stage = "high" \/ (e.present /\ e.paused)
Announces(s, e) == ~e.present /\ ~net[s].reset
Classified(s, e) == IF Announces(s, e) THEN [NewNat EXCEPT !.present = TRUE] ELSE e
Announcement(s, e) == IF Announces(s, e) THEN <<Item("Stream", s)>> ELSE <<>>
Chunks(s, n) == [i \in 1 .. n |-> Item("StreamData", s)]

\* Mutant: the FIN is reported before the chunks read with it.
OnReadableFinFirst(s, e) ==
  LET n == net[s]
  IN IF Withheld(e) THEN Quiet(e)
     ELSE Step([Classified(s, e) EXCEPT !.taken = @ + n.buffered, !.dead = @ \/ n.fin],
               Announcement(s, e) \o (IF n.fin THEN <<Item("StreamFinished", s)>> ELSE <<>>)
                 \o Chunks(s, n.buffered))

\* Mutant: the last chunk is reported again with the FIN.
OnReadableTwice(s, e) ==
  LET n == net[s]
      chunks == IF n.fin THEN n.buffered + 1 ELSE n.buffered
  IN IF Withheld(e) THEN Quiet(e)
     ELSE Step([Classified(s, e) EXCEPT !.taken = @ + chunks, !.dead = @ \/ n.fin],
               Announcement(s, e) \o Chunks(s, chunks)
                 \o (IF n.fin THEN <<Item("StreamFinished", s)>> ELSE <<>>))

OnReadable(s, e) ==
  LET n == net[s]
      chunks == IF n.reset THEN 0 ELSE n.buffered
      known == Classified(s, e)
      end == IF n.reset THEN "StreamReset" ELSE "StreamFinished"
  IN IF Withheld(e) THEN Quiet(e)
     ELSE Step([known EXCEPT !.taken = @ + chunks, !.dead = @ \/ n.reset \/ n.fin],
               Announcement(s, e) \o Chunks(s, chunks)
                 \o (IF (n.reset \/ n.fin) /\ known.present THEN <<Item(end, s)>> ELSE <<>>))

Readable == {s \in Stream : net[s].buffered > 0 \/ net[s].fin \/ net[s].reset}

\* What an iteration reads: all that is readable; what comes before the CLOSE capsule,
\* if that is there; nothing on a closed session.
Readings ==
  IF closed THEN {{}} ELSE IF closing THEN SUBSET Readable ELSE {Readable}

\* flush_stream: QUIC takes what there is room for.  A STOP_SENDING is noticed only by a
\* stream_send, which a stream with nothing to send, or without credit, does not reach;
\* and the FIN of a stopped stream fails.
Acks(s, n) == [i \in 1 .. n |-> Item("WriteAck", s)]
Fits(s, e) == IF e.out <= net[s].room THEN e.out ELSE net[s].room

\* Mutant: a STOP_SENDING drops the queued writes without acknowledging them.
FlushStreamUnacked(s, e) ==
  LET n == Fits(s, e)
  IN IF ~e.present THEN Quiet(e)
     ELSE IF net[s].stop /\ n > 0
     THEN Step([e EXCEPT !.out = 0, !.finSent = TRUE], <<Item("StreamStopSending", s)>>)
     ELSE Step([e EXCEPT !.out = @ - n], Acks(s, n))

FlushStream(s, e) ==
  LET n == Fits(s, e)
  IN IF ~e.present THEN Quiet(e)
     ELSE IF net[s].stop /\ n > 0
     THEN Step([e EXCEPT !.out = 0, !.finSent = TRUE],
               <<Item("StreamStopSending", s)>> \o Acks(s, e.out))
     ELSE Step([e EXCEPT !.out = @ - n,
                         !.finSent = @ \/ (e.finQueued /\ n = e.out /\ ~net[s].stop)], Acks(s, n))

\* retain(): an entry goes once both halves are done.
Prune(e) == IF e.dead /\ e.finSent /\ e.out = 0 THEN [e EXCEPT !.present = FALSE] ELSE e

\* What QUIC no longer holds after the iteration took the entry from before to after;
\* flushing the signal prefix makes a stream known to the peer.
AfterRead(n, before, after) ==
  [n EXCEPT !.buffered = @ - (after.taken - before.taken),
            !.room = @ - (IF before.out > after.out /\ ~n.stop THEN before.out - after.out ELSE 0),
            !.known = @ \/ after.present]

\* on_datagrams: everything in QUIC's queue, unless it is withheld.
OnDatagrams == IF stage = "high" THEN 0 ELSE dgram.buffered

\* One iteration's steps: reading; then the session is closed or the waiting opens are
\* released; then every stream is flushed.
ReadAll(reads) ==
  [s \in Stream |-> IF s \in reads THEN OnReadable(s, nat[s]) ELSE Quiet(nat[s])]
Ends == closing /\ ~closed
CloseOrRelease(st) ==
  [s \in Stream |-> IF Ends THEN Quiet([st[s] EXCEPT !.dead = st[s].present])
                    ELSE Release(s, st[s])]
FlushAll(st) == [s \in Stream |-> FlushStream(s, st[s])]

\* Steps 4 to 6: read the datagrams, then the streams in some order, the CLOSE capsule among
\* them (nothing is read after it), release the waiting opens, flush, and emit the batch.
DriverRun ==
  /\ stage # "poll"
  /\ \E reads \in Readings :
     \E read \in {ReadAll(reads)} :
     \E ready \in {CloseOrRelease(Entries(read))} :
     \E flushed \in {FlushAll(Entries(ready))} :
     \E after \in {[s \in Stream |-> Prune(flushed[s].entry)]} :
     \E reading \in Orders(read), opening \in Orders(ready), flushing \in Orders(flushed) :
     \E ev \in {evs \o [i \in 1 .. OnDatagrams |-> Item("Datagram", "session")]
                    \o Told(read, reading)
                    \o (IF Ends THEN <<Item("Closed", "session")>> ELSE <<>>)
                    \o Told(ready, opening) \o Told(flushed, flushing)} :
       /\ nat' = after
       /\ net' = [s \in Stream |-> AfterRead(net[s], nat[s], after[s])]
       /\ batches' = IF ev = <<>> THEN batches ELSE Append(batches, ev)
  /\ closed' = (closed \/ Ends)
  /\ dgram' = [dgram EXCEPT !.buffered = @ - OnDatagrams, !.taken = @ + OnDatagrams]
  /\ evs' = <<>> /\ stage' = "poll"
  /\ UNCHANGED <<uses, js, core, closing, alive, cmds, woken>>

-----------------------------------------------------------------------------
(* The JavaScript thread.  j is a record [st, core, cmds]: the streams, the core, and  *)
(* the commands issued in this turn.                                                  *)

Send(j, type, s) == [j EXCEPT !.cmds = Append(@, Item(type, s))]
Set(j, s, entry) == [j EXCEPT !.st[s] = entry]

\* Mutant: the receive sink is registered later than the constructor.
ConstructedUnregistered(e) ==
  [e EXCEPT !.open = "live", !.send = TRUE, !.readable = "open", !.writable = "open"]

\* The constructors of WebTransportReceiveStream and WebTransportSendStream.
Constructed(e) ==
  [e EXCEPT !.open = "live", !.recv = TRUE, !.send = TRUE, !.readable = "open", !.writable = "open"]

\* Mutant: finish() forgets the receive sinks.
FinishStreamSendOnly(e) ==
  [e EXCEPT !.open = IF @ = "requested" THEN "rejected" ELSE @,
            !.writing = FALSE,
            !.writable = IF e.send \/ e.writing THEN "errored" ELSE @,
            !.send = FALSE]

\* SessionCore.finish
FinishStream(e) ==
  [e EXCEPT !.open = IF @ = "requested" THEN "rejected" ELSE @,
            !.writing = FALSE,
            !.writable = IF e.send \/ e.writing THEN "errored" ELSE @,
            !.readable = IF e.recv THEN "errored" ELSE @,
            !.queue = IF e.recv THEN 0 ELSE @,
            !.asked = FALSE, !.recv = FALSE, !.send = FALSE]

\* Mutant: finish() forgets the requests.
FinishCoreOnly(c) == [c EXCEPT !.closed = TRUE, !.readable = IF @ = "open" THEN "closed" ELSE @]

\* The pending requests, and the datagrams' readable, which closes when the session does.
FinishCore(c) ==
  [c EXCEPT !.closed = TRUE,
            !.requests = [k \in Request |-> IF @[k] = "pending" THEN "settled" ELSE @[k]],
            !.readable = IF @ = "open" THEN "closed" ELSE @,
            !.asked = FALSE]

Finish(j) ==
  IF j.core.closed THEN j
  ELSE [st |-> [s \in Stream |-> FinishStream(j.st[s])],
        core |-> FinishCore(j.core),
        cmds |-> Append(j.cmds, Item("Shutdown", "session"))]

\* onData: a waiting read() takes the chunk, otherwise it is queued; the controller
\* pulls while it wants more, and the stream is paused when the queue is full.
OnData(j, s) ==
  LET e == j.st[s]
      queue == IF e.asked THEN e.queue ELSE e.queue + 1
  IN Send(Set(j, s, [e EXCEPT !.queue = queue, !.asked = FALSE, !.got = @ + 1]),
          IF queue >= HighWater THEN "Pause" ELSE "Resume", s)

\* onBidi of the incoming handler.
OnIncoming(j, s) ==
  IF j.core.cancelled THEN Send(Send(j, "StopSending", s), "ResetStream", s)
  ELSE IF j.core.incoming >= MaxIncoming THEN Finish(j)
  ELSE [Set(j, s, Constructed(j.st[s])) EXCEPT !.core.incoming = @ + 1]

\* The datagram sink: a waiting read() takes the datagram, otherwise it is queued or,
\* when desiredSize leaves no room, dropped and counted.
OnDatagram(c) ==
  IF c.readable = "open" /\ c.asked THEN [c EXCEPT !.asked = FALSE, !.got = @ + 1]
  ELSE IF c.readable = "open" /\ c.queue < DgramHighWater THEN [c EXCEPT !.queue = @ + 1]
  ELSE [c EXCEPT !.dropped = @ + 1]

\* SessionCore.dispatch
Dispatch(j, ev) ==
  LET s == ev.stream
      e == j.st[s]
  IN IF j.core.closed THEN j
     ELSE CASE ev.type = "Closed" -> Finish(j)
            [] ev.type = "Datagram" -> [j EXCEPT !.core = OnDatagram(@)]
            [] ev.type = "Answer" -> [j EXCEPT !.core.requests[s] = "settled"]
            [] ev.type = "Stream" -> OnIncoming(j, s)
            [] ev.type = "StreamOpened" ->
                 IF e.open = "requested" THEN Set(j, s, [e EXCEPT !.open = "resolved"]) ELSE j
            [] ev.type = "WriteAck" -> Set(j, s, [e EXCEPT !.writing = FALSE])
            [] ev.type = "StreamData" -> IF e.recv THEN OnData(j, s) ELSE j
            [] ev.type = "StreamFinished" ->
                 IF e.recv THEN Set(j, s, [e EXCEPT !.readable = "closed", !.recv = FALSE, !.asked = FALSE])
                 ELSE j
            [] ev.type = "StreamReset" ->
                 IF e.recv THEN Set(j, s, [e EXCEPT !.readable = "errored", !.recv = FALSE,
                                                    !.queue = 0, !.asked = FALSE]) ELSE j
            [] ev.type = "StreamStopSending" ->
                 IF e.send THEN Set(j, s, [e EXCEPT !.writable = "errored", !.send = FALSE]) ELSE j

\* Every event of a batch, in order.
Dispatched(j, events) ==
  LET after[n \in 0 .. Len(events)] ==
        IF n = 0 THEN j ELSE Dispatch(after[n - 1], events[n])
  IN after[Len(events)]

\* The microtasks that end a turn: an awaited open continues with the constructor, and
\* the WritableStream starts its next sink operation.
Continue(e) == IF e.open = "resolved" THEN Constructed(e) ELSE e

StartSink(s, e, over) ==
  IF e.writable # "open" \/ e.writing THEN Quiet(e)
  ELSE IF e.pending > 0
  THEN IF over THEN Quiet([e EXCEPT !.writable = "errored"])
       ELSE Step([e EXCEPT !.pending = @ - 1, !.writing = TRUE], <<Item("Write", s)>>)
  ELSE IF e.closeCalled
  THEN Step([e EXCEPT !.writable = "closed", !.send = FALSE], <<Item("Fin", s)>>)
  ELSE Quiet(e)

Sunk(j) == [s \in Stream |-> StartSink(s, Continue(j.st[s]), j.core.closed)]

\* Mutant: release_inflight_batch does not wake the driver.
TurnUnwoken(j) ==
  \E sunk \in {Sunk(j)} : \E order \in Orders(sunk) :
  \E issued \in {j.cmds \o Told(sunk, order)} :
     /\ js' = Entries(sunk) /\ core' = j.core
     /\ cmds' = IF alive THEN cmds \o issued ELSE cmds
     /\ woken' = (woken \/ issued # <<>>)
     /\ UNCHANGED <<driver, net, closing>>

\* The JavaScript turn that ends in j: its commands reach the channel, waking the driver.
Turn(j) ==
  \E sunk \in {Sunk(j)} : \E order \in Orders(sunk) :
  \E issued \in {j.cmds \o Told(sunk, order)} :
     /\ js' = Entries(sunk) /\ core' = j.core
     /\ cmds' = IF alive THEN cmds \o issued ELSE cmds
     /\ woken' = (woken \/ issued # <<>>
                        \/ (batches' # batches /\ Len(batches) = MaxInflight))
     /\ UNCHANGED <<driver, net, closing>>

Now == [st |-> js, core |-> core, cmds |-> <<>>]

\* One callback: release_inflight_batch, then every event of the batch.
JsBatch ==
  /\ batches # <<>>
  /\ batches' = Tail(batches)
  /\ \E j \in {Dispatched(Now, Head(batches))} : Turn(j)

AppTurn(j) == UNCHANGED batches /\ \E m \in {j} : Turn(m)

AppOpen(s) ==
  /\ s \in uses.streams \cap LocalStreams /\ js[s].open = "idle"
  /\ AppTurn(IF core.closed THEN Set(Now, s, [js[s] EXCEPT !.open = "rejected"])
             ELSE Send(Set(Now, s, [js[s] EXCEPT !.open = "requested"]), "OpenStream", s))

\* read(): a chunk from the queue, or a read that waits; either way the stream pulls.
AppRead(s) ==
  LET e == js[s]
      taken == IF e.queue > 0 THEN [e EXCEPT !.queue = @ - 1] ELSE [e EXCEPT !.asked = TRUE]
  IN /\ e.queue > 0 \/ (e.readable = "open" /\ ~e.asked)
     /\ AppTurn(IF e.readable = "open" THEN Send(Set(Now, s, taken), "Resume", s)
                ELSE Set(Now, s, taken))

AppCancel(s) ==
  /\ "recv" \in uses.cuts /\ js[s].readable = "open"
  /\ AppTurn(Send(Set(Now, s, [js[s] EXCEPT !.readable = "cancelled", !.recv = FALSE,
                                            !.queue = 0, !.asked = FALSE]), "StopSending", s))

AppWrite(s) ==
  /\ js[s].writable = "open" /\ ~js[s].closeCalled
  /\ "send" \in uses.carries /\ js[s].writes < MaxWrites
  /\ AppTurn(Set(Now, s, [js[s] EXCEPT !.pending = @ + 1, !.writes = @ + 1]))

AppCloseWriter(s) ==
  /\ js[s].writable = "open" /\ ~js[s].closeCalled
  /\ AppTurn(Set(Now, s, [js[s] EXCEPT !.closeCalled = TRUE]))

\* abort(): the signal resets the stream and rejects its write at once.
AppAbort(s) ==
  /\ "send" \in uses.cuts /\ js[s].writable = "open"
  /\ AppTurn(Send(Set(Now, s, [js[s] EXCEPT !.writable = "errored", !.writing = FALSE,
                                            !.send = FALSE]), "ResetStream", s))

\* The application takes an incoming stream, or stops taking them.
AppAccept ==
  /\ core.incoming > 0
  /\ AppTurn([Now EXCEPT !.core.incoming = @ - 1])

AppCancelIncoming ==
  /\ uses.streams \cap PeerStreams # {} /\ "recv" \in uses.cuts /\ ~core.cancelled
  /\ AppTurn([Now EXCEPT !.core.cancelled = TRUE, !.core.incoming = 0])

\* sendDatagram, getStats and exportKeyingMaterial; on a session that has ended they
\* settle at once.
AppRequest(k) ==
  /\ k \in uses.requests /\ core.requests[k] = "idle"
  /\ AppTurn(IF core.closed THEN [Now EXCEPT !.core.requests[k] = "settled"]
             ELSE Send([Now EXCEPT !.core.requests[k] = "pending"], k, "session"))

AppReadDatagram ==
  /\ uses.datagrams
  /\ \/ core.queue > 0 /\ AppTurn([Now EXCEPT !.core.queue = @ - 1, !.core.got = @ + 1])
     \/ /\ core.queue = 0 /\ core.readable = "open" /\ ~core.asked
        /\ AppTurn([Now EXCEPT !.core.asked = TRUE])

\* cancel() discards the queue: the datagrams in it had reached the application.
AppCancelDatagrams ==
  /\ uses.datagrams /\ "recv" \in uses.cuts /\ core.readable = "open"
  /\ AppTurn([Now EXCEPT !.core.readable = "cancelled", !.core.queue = 0, !.core.asked = FALSE,
                         !.core.got = @ + core.queue])

-----------------------------------------------------------------------------
(* The peer and QUIC: every one of these is a packet, which wakes the driver. *)

Packet(s, entry) ==
  /\ net' = [net EXCEPT ![s] = entry]
  /\ woken' = TRUE
  /\ UNCHANGED <<driver, js, core, closing, cmds, batches>>

PeerKnows(s) == s \in uses.streams /\ (s \in PeerStreams \/ net[s].known)

PeerSends(s) ==
  /\ PeerKnows(s) /\ ~net[s].fin /\ ~net[s].reset
  /\ "recv" \in uses.carries /\ net[s].sent < MaxChunks
  /\ Packet(s, [net[s] EXCEPT !.sent = @ + 1, !.buffered = @ + 1])

PeerFins(s) ==
  /\ PeerKnows(s) /\ ~net[s].fin /\ ~net[s].reset
  /\ Packet(s, [net[s] EXCEPT !.fin = TRUE])

PeerResets(s) ==
  /\ "recv" \in uses.cuts /\ PeerKnows(s) /\ ~net[s].reset
  /\ net[s].fin => net[s].buffered > 0
  /\ Packet(s, [net[s] EXCEPT !.reset = TRUE])

PeerStops(s) ==
  /\ "send" \in uses.cuts /\ net[s].known /\ ~net[s].stop
  /\ Packet(s, [net[s] EXCEPT !.stop = TRUE])

\* Stream credit for an open, or credit to send a chunk.
PeerCredits(s) ==
  /\ s \in uses.streams
  /\ \/ s \in LocalStreams /\ ~net[s].credit /\ Packet(s, [net[s] EXCEPT !.credit = TRUE])
     \/ "send" \in uses.carries /\ net[s].room = 0 /\ Packet(s, [net[s] EXCEPT !.room = 1])

PeerSendsDatagram ==
  /\ uses.datagrams /\ dgram.sent < MaxDatagrams
  /\ dgram' = [dgram EXCEPT !.sent = @ + 1, !.buffered = @ + 1]
  /\ woken' = TRUE
  /\ UNCHANGED <<uses, nat, net, js, core, closed, closing, alive, cmds, batches, evs, stage>>

PeerCloses ==
  /\ MayClose /\ ~closing
  /\ closing' = TRUE /\ woken' = TRUE
  /\ UNCHANGED <<driver, net, js, core, cmds, batches>>

-----------------------------------------------------------------------------
Next ==
  \/ DriverWake \/ DriverRun \/ JsBatch
  \/ AppAccept \/ AppCancelIncoming \/ PeerCloses
  \/ AppReadDatagram \/ AppCancelDatagrams \/ PeerSendsDatagram
  \/ \E k \in Request : AppRequest(k)
  \/ \E s \in Stream : \/ AppOpen(s) \/ AppRead(s) \/ AppCancel(s)
                       \/ AppWrite(s) \/ AppCloseWriter(s) \/ AppAbort(s)
                       \/ PeerSends(s) \/ PeerFins(s) \/ PeerResets(s) \/ PeerStops(s)
                       \/ PeerCredits(s)

Spec == Init /\ [][Next]_vars

\* Both threads keep running, the peer keeps granting credit, and the application
\* keeps reading some stream that it can read; what it opens, writes or cancels is up to it.
Fairness ==
  /\ WF_vars(DriverWake) /\ WF_vars(DriverRun) /\ WF_vars(JsBatch)
  /\ WF_vars(\E s \in Stream : AppRead(s)) /\ WF_vars(\E s \in Stream : PeerCredits(s))

FairSpec == Spec /\ Fairness

-----------------------------------------------------------------------------
(***************************************************************************)
(* Properties                                                              *)
(***************************************************************************)

\* The events on their way to JavaScript, the oldest first.
InTransit == FlattenSeq(batches) \o evs

InFlight(type, s) ==
  LET w == InTransit IN Cardinality({i \in DOMAIN w : w[i] = Item(type, s)})

\* Type invariant; among others no queue of the driver or of a stream goes negative.
TypeOK ==
  /\ \A s \in Stream :
       /\ nat[s].out \in 0 .. MaxWrites /\ nat[s].taken \in 0 .. MaxChunks
       /\ net[s].buffered \in 0 .. MaxChunks /\ net[s].room \in 0 .. 1
       /\ js[s].queue \in 0 .. MaxChunks /\ js[s].got \in 0 .. MaxChunks
       /\ js[s].pending \in 0 .. MaxWrites
       /\ js[s].open \in {"idle", "requested", "live", "rejected"}
       /\ js[s].readable \in {"none", "open", "closed", "errored", "cancelled"}
       /\ js[s].writable \in {"none", "open", "closed", "errored"}
  /\ core.incoming \in 0 .. MaxIncoming /\ core.queue \in 0 .. DgramHighWater
  /\ stage \in {"poll", "low", "high"}

\* No chunk is lost between QUIC and a readable stream: what the driver took is what the
\* stream got plus what is in flight to it, even if it was opened in the same batch.  A
\* datagram may be dropped when the queue is full, but droppedIncoming counts it.
NoChunkLost ==
  ~core.closed =>
    /\ \A s \in Stream :
         js[s].readable = "open" => nat[s].taken = js[s].got + InFlight("StreamData", s)
    /\ dgram.taken = core.got + core.queue + core.dropped + InFlight("Datagram", "session")

\* A pending sendDatagram(), getStats() or exportKeyingMaterial() is on its way to the
\* driver or its answer is on its way back: whatever ends the session, and wherever the
\* request is then, its promise settles.
RequestAccounted ==
  \A k \in Request :
    core.requests[k] = "pending" =>
      InFlight("Answer", k) > 0 \/ \E i \in 1 .. Len(cmds) : cmds[i] = Item(k, "session")

\* A stream that ends cleanly delivered everything the peer sent before its FIN.
CleanEndIsComplete ==
  \A s \in Stream : js[s].readable = "closed" => net[s].fin /\ js[s].got = net[s].sent

\* A pending write() is known to the driver, or its acknowledgement is on its way: no
\* reset, STOP_SENDING, prune or close leaves a write whose promise nobody will settle.
WriteAccounted ==
  \A s \in Stream :
    js[s].writing /\ alive =>
      \/ nat[s].out > 0
      \/ InFlight("WriteAck", s) > 0
      \/ \E i \in 1 .. Len(cmds) : cmds[i] = Item("Write", s)

\* When a session ends, every stream the peer opened ends with it.
SessionTakesPeerStreams ==
  core.closed => \A s \in PeerStreams : js[s].readable # "open"

\* "A closed session takes its streams with it": also those it had just opened.
SessionTakesStreams ==
  core.closed => \A s \in Stream : js[s].readable # "open"

\* A stream the peer finished ends at the application too, whatever the pauses, resumes
\* and back-pressure on the way: no wake-up and no resume is lost.  (What the end of the
\* session leaves of this application's own streams is the subject of SessionTakesStreams.)
Unfinished ==
  {s \in Stream : /\ net[s].fin /\ js[s].readable = "open"
                  /\ core.closed => s \in PeerStreams}
FinArrives == (Unfinished # {}) ~> (Unfinished = {})

\* Every write() settles, as long as the peer grants credit.
Writing == {s \in Stream : js[s].writing}
WritesSettle == (Writing # {}) ~> (Writing = {})

\* Every open settles, as long as the peer grants credit.
Awaited == {s \in LocalStreams : js[s].open = "requested"}
OpensSettle == (Awaited # {}) ~> (Awaited = {})
=============================================================================
