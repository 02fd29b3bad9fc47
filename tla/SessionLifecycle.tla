------------------------- MODULE SessionLifecycle -------------------------
(***************************************************************************)
(* The life of one WebTransport session between two endpoints that both    *)
(* run this code: SETTINGS and Extended CONNECT, readiness, DRAIN, and the *)
(* closing sequence down to the promises the applications wait on.         *)
(*                                                                         *)
(* An endpoint is a driver thread (driver.rs on the client, the loop of    *)
(* server.rs on the server) that owns a WtSession and a QUIC connection,   *)
(* and a JavaScript SessionCore that exchanges commands and events with it *)
(* through two queues.  The driver only meets the network at the start of  *)
(* a loop iteration (recv) and at its end (flush_send), so an iteration is *)
(* one step; each function it calls is an operator on the endpoint's       *)
(* record.  Close codes are abstracted to who supplied them.               *)
(***************************************************************************)
EXTENDS Naturals, Sequences, SequencesExt

CONSTANT Environments  \* what surrounds the session: one of these per behaviour

Endpoint == {"client", "server"}
Peer(e) == IF e = "client" THEN "server" ELSE "client"

\* accept: 200; refuse: 200, but server.ts has no room for the session and closes
\* it; reject: 403; unsupported: the peer is an HTTP/3 server without WebTransport.
Answer == {"accept", "refuse", "reject", "unsupported"}

\* What may go wrong around the session:
\*   loss        packets are lost, or overtaken by CONNECTION_CLOSE
\*   congestion  flush_send leaves accepted bytes unserialized
\*   path        the path dies (idle timeouts)
\*   shutdown    WebTransportServer.close() is called
\*   receive     the client's socket or QUIC stack reports a receive error
\*   driver      a driver thread fails to set up, to poll, or panics
Fault == {"loss", "congestion", "path", "shutdown", "receive", "driver"}

\* How the server answers, which applications may call close() and drain(), which cores
\* may hit a resource limit (abort()), and what may go wrong.
Environment ==
  [answer : Answer, closers : SUBSET Endpoint, drainers : SUBSET Endpoint,
   aborters : SUBSET Endpoint, faults : SUBSET Fault]

ASSUME LifecycleAssumption == Environments \subseteq Environment

\* A close code: the application's own, 0, H3_NO_ERROR or H3_FRAME_ERROR.
Code == Endpoint \cup {"zero", "h3_no_error", "h3_frame_error"}

VARIABLES
  env,       \* the environment of this behaviour
  ep,        \* per endpoint: driver thread, WtSession and QUIC connection
  wire,      \* per sender: CONNECT-stream frames serialized, not yet received
  ctl,       \* per sender: SETTINGS serialized on the control stream
  cc,        \* per sender: the code of a CONNECTION_CLOSE in flight, or "none"
  pathUp,
  cmds,      \* per endpoint: the command channel to the driver
  evq,       \* per endpoint: events queued for the JavaScript thread
  js,        \* per endpoint: the SessionCore
  log        \* per endpoint: every event emitted so far (history)

vars == <<env, ep, wire, ctl, cc, pathUp, cmds, evq, js, log>>

NewSession ==
  [alive |-> TRUE, est |-> FALSE, setup |-> FALSE, connectPending |-> FALSE,
   settings |-> FALSE, headersDone |-> FALSE, ready |-> FALSE, closed |-> FALSE,
   drainEmitted |-> FALSE, drainSent |-> FALSE,
   closeReq |-> "none", capsuleQueued |-> FALSE, want |-> FALSE,
   deferred |-> FALSE, issued |-> FALSE,
   connect |-> FALSE, out |-> <<>>, finQueued |-> FALSE, finSent |-> FALSE,
   ctlOut |-> FALSE, ctlBuf |-> FALSE, buf |-> <<>>, rx |-> <<>>,
   conn |-> "open", err |-> "none", ccSent |-> FALSE, ev |-> <<>>]

NewCore(e) ==
  [core |-> e = "client", ready |-> "pending", closed |-> "pending",
   draining |-> "pending", closeCalled |-> FALSE, drainCalled |-> FALSE,
   stopping |-> FALSE]

Init ==
  /\ env \in Environments
  /\ ep = [e \in Endpoint |-> NewSession]
  /\ wire = [e \in Endpoint |-> <<>>]
  /\ ctl = [e \in Endpoint |-> FALSE]
  /\ cc = [e \in Endpoint |-> "none"]
  /\ pathUp = TRUE
  /\ cmds = [e \in Endpoint |-> <<>>]
  /\ evq = [e \in Endpoint |-> <<>>]
  /\ js = [e \in Endpoint |-> NewCore(e)]
  /\ log = [e \in Endpoint |-> <<>>]

-----------------------------------------------------------------------------
(* WtSession *)

\* A frame, event or command: its type, and a close code where it carries one.
Coded(type, code) == [type |-> type, code |-> code]
Msg(type) == Coded(type, "none")

Push(s, event) == [s EXCEPT !.ev = Append(@, event)]

\* Mutant: mark_closed reports the end of the session without recording it.
MarkClosedUnset(s, code) == Push([s EXCEPT !.rx = <<>>], Coded("Closed", code))

MarkClosed(s, code) ==
  IF s.closed THEN s
  ELSE Push([s EXCEPT !.closed = TRUE, !.rx = <<>>], Coded("Closed", code))

\* quiche: only the first close of a live connection has an effect.
ConnClose(s, code) ==
  IF s.conn = "open" THEN [s EXCEPT !.conn = "closing", !.err = code] ELSE s

OnEstablished(s, e) ==
  IF ~s.est \/ s.setup THEN s
  ELSE [s EXCEPT !.setup = TRUE, !.ctlOut = TRUE, !.connectPending = e = "client"]

\* Mutant: the drain is marked as sent before there is a CONNECT stream to send it on.
SendDrainMarked(s) ==
  IF s.closed \/ s.drainSent THEN s
  ELSE [s EXCEPT !.out = IF s.connect THEN Append(@, Msg("DRAIN")) ELSE @, !.drainSent = TRUE]

SendDrain(s) ==
  IF s.closed \/ s.drainSent \/ ~s.connect THEN s
  ELSE [s EXCEPT !.out = Append(@, Msg("DRAIN")), !.drainSent = TRUE]

RequestClose(s, code) == IF s.closeReq = "none" THEN [s EXCEPT !.closeReq = code] ELSE s

AcceptConnect(s) ==
  Push([s EXCEPT !.out = Append(@, Msg("200")), !.ready = TRUE], Msg("Ready"))

RejectConnect(s) ==
  MarkClosed(Push([s EXCEPT !.out = Append(@, Msg("403")), !.finQueued = TRUE], Msg("Error")), "zero")

\* parse_connect_frames, parse_server_connect_frames and scan_capsules on one frame.  The
\* headers of a CONNECT or of its response count once.
Headers == {"CONNECT", "200", "403"}

ParseHeaders(s, f) ==
  CASE f.type = "200" -> IF s.ready THEN s ELSE Push([s EXCEPT !.ready = TRUE], Msg("Ready"))
    [] f.type = "403" -> ConnClose(MarkClosed(Push(s, Msg("Rejected")), "zero"), "zero")
    [] OTHER -> IF env.answer # "reject" THEN AcceptConnect(s) ELSE RejectConnect(s)

ParseConnectFrame(s, f) ==
  IF s.closed THEN s
  ELSE CASE f.type \in Headers -> IF s.headersDone THEN s ELSE ParseHeaders([s EXCEPT !.headersDone = TRUE], f)
         [] f.type = "DRAIN" -> IF s.drainEmitted THEN s
                           ELSE Push([s EXCEPT !.drainEmitted = TRUE], Msg("Draining"))
         [] f.type = "CLOSE" -> MarkClosed(s, f.code)
         [] OTHER -> s

ParseAll(s, frames) ==
  LET after[n \in 0 .. Len(frames)] == IF n = 0 THEN s ELSE ParseConnectFrame(after[n - 1], frames[n])
  IN  after[Len(frames)]

\* Mutant: CONNECT frames are parsed before the peer's SETTINGS.
ParseConnectFramesEarly(s) == ParseAll([s EXCEPT !.rx = <<>>], s.rx)

\* CONNECT frames stay buffered until the peer's SETTINGS are known.
ParseConnectFrames(s) ==
  IF ~s.settings THEN s ELSE ParseAll([s EXCEPT !.rx = <<>>], s.rx)

ConnectFin(s) ==
  IF s.closed THEN s
  ELSE IF s.rx # <<>>
       THEN ConnClose(MarkClosed(Push(s, Msg("Error")), "zero"), "h3_frame_error")
       ELSE MarkClosed(s, "zero")

\* A FIN comes with the last frame.
ReadConnect(s, frames) ==
  IF s.closed \/ frames = <<>> THEN s
  ELSE LET fin == Last(frames).type = "FIN"
           s1 == [s EXCEPT !.connect = TRUE, !.rx = @ \o (IF fin THEN Front(frames) ELSE frames)]
           s2 == ParseConnectFrames(s1)
       IN IF fin THEN ConnectFin(s2) ELSE s2

ReadControl(s, arrived) ==
  IF s.closed \/ ~arrived THEN s
  ELSE LET s1 == [s EXCEPT !.settings = TRUE, !.connectPending = FALSE]
       IN IF s.connectPending
          THEN IF env.answer = "unsupported"
               THEN MarkClosed(Push(s1, Msg("Error")), "zero")
               ELSE [s1 EXCEPT !.connect = TRUE, !.out = <<Msg("CONNECT")>>]
          ELSE ParseConnectFrames(s1)

\* flush_stream on the control plane and on the CONNECT stream: QUIC takes all but the
\* last `held` frames, and nothing after a FIN.
Accepted(s, held) == IF s.finSent \/ held > Len(s.out) THEN 0 ELSE Len(s.out) - held

FlushStreams(s, held) ==
  IF ~s.est THEN s
  ELSE LET n == Accepted(s, held)
           s1 == [s EXCEPT !.ctlBuf = @ \/ s.ctlOut, !.ctlOut = FALSE,
                           !.buf = @ \o SubSeq(s.out, 1, n),
                           !.out = SubSeq(@, n + 1, Len(@))]
       IN IF s1.out = <<>> /\ s1.finQueued /\ ~s1.finSent
          THEN [s1 EXCEPT !.buf = Append(@, Msg("FIN")), !.finSent = TRUE] ELSE s1

QueueClose(s) ==
  IF s.closeReq = "none" \/ s.capsuleQueued THEN s
  ELSE IF s.connect
       THEN [s EXCEPT !.capsuleQueued = TRUE, !.finQueued = TRUE,
                      !.out = Append(@, Coded("CLOSE", s.closeReq))]
       ELSE [s EXCEPT !.capsuleQueued = TRUE, !.want = TRUE]

ConnectDrained(s) == s.connect => s.out = <<>> /\ s.finSent

GracefulClose(s) ==
  LET want == s.want \/ (s.capsuleQueued /\ ConnectDrained(s))
  IN IF s.issued THEN s
     ELSE IF ~want THEN s
     ELSE IF s.deferred
          THEN ConnClose([s EXCEPT !.want = FALSE, !.issued = TRUE], "h3_no_error")
          ELSE [s EXCEPT !.want = TRUE, !.deferred = TRUE]

Flush(s, held) == GracefulClose(FlushStreams(QueueClose(s), held))

-----------------------------------------------------------------------------
(* The driver loop *)

ApplyCommand(s, c) ==
  CASE c.type = "Drain" -> SendDrain(s)
    [] OTHER -> RequestClose(s, c.code)

ApplyAll(s, cs) ==
  LET after[n \in 0 .. Len(cs)] == IF n = 0 THEN s ELSE ApplyCommand(after[n - 1], cs[n])
  IN  after[Len(cs)]

\* Commands up to the first Shutdown; what follows it is dropped with the channel.
CommandsBefore(q) ==
  LET stops == {i \in 1 .. Len(q) : q[i].type = "Shutdown"}
  IN IF stops = {} THEN q ELSE SubSeq(q, 1, (CHOOSE i \in stops : \A j \in stops : i <= j) - 1)

\* server.rs: a session that ended closes its connection before flush_send.
CloseEnded(s, e) ==
  IF e = "server" /\ s.closed THEN ConnClose(s, "h3_no_error") ELSE s

\* Mutant: the driver returns without reporting the end of the session.
TerminalSilent(s) == IF s.conn = "closed" THEN [s EXCEPT !.alive = FALSE] ELSE s

\* Mutant: a close this session asked for is reported with the code of the QUIC close.
TerminalWireCode(s) ==
  IF s.conn # "closed" THEN s
  ELSE IF s.err = "timeout" THEN [MarkClosed(Push(s, Msg("Error")), "zero") EXCEPT !.alive = FALSE]
  ELSE [MarkClosed(s, s.err) EXCEPT !.alive = FALSE]

\* Terminal branch: the connection is gone, so the session must be.
Terminal(s) ==
  IF s.conn # "closed" THEN s
  ELSE LET s1 == IF s.closed THEN s
                 ELSE IF s.closeReq # "none" THEN MarkClosed(s, s.closeReq)
                 ELSE IF s.err = "timeout" THEN MarkClosed(Push(s, Msg("Error")), "zero")
                 ELSE MarkClosed(s, s.err)
       IN [s1 EXCEPT !.alive = FALSE]

\* conn.recv on what arrived and conn.on_timeout, as far as they decide the state; a
\* receive error is reported to the application, and the connection goes on.
Receive(s, e, closeArrives, timer) ==
  LET s1 == IF closeArrives THEN [s EXCEPT !.conn = "draining", !.err = cc[Peer(e)]] ELSE s
  IN CASE timer = "drain" -> [s1 EXCEPT !.conn = "closed"]
       [] timer = "idle"  -> [s1 EXCEPT !.conn = "closed", !.err = "timeout"]
       [] timer = "error" -> Push(s1, Msg("Error"))
       [] OTHER -> s1

\* Bound: a receive error is reported only while fewer Errors than this were.
MaxErrors == 1

TimerDue(e, timer) ==
  CASE timer = "none"  -> TRUE
    [] timer = "drain" -> ep[e].conn = "draining" \/ (ep[e].conn = "closing" /\ ep[e].ccSent)
    [] timer = "idle"  -> /\ ep[e].conn = "open"
                          /\ ~pathUp \/ (~ep[Peer(e)].alive /\ cc[Peer(e)] = "none")
    [] timer = "error" -> /\ "receive" \in env.faults /\ e = "client"
                          /\ Len(SelectSeq(log[e], LAMBDA ev : ev.type = "Error")) < MaxErrors

\* What may reach e at the start of an iteration: n CONNECT-stream frames, the
\* peer's SETTINGS, and its CONNECTION_CLOSE (in order unless packets get lost).
Arrives(e, n, settingsArrive, closeArrives) ==
  /\ n \in 0 .. Len(wire[Peer(e)])
  /\ settingsArrive => ctl[Peer(e)]
  /\ closeArrives => cc[Peer(e)] # "none"
  /\ (n > 0 \/ settingsArrive \/ closeArrives) => pathUp /\ ep[e].conn = "open"
  /\ closeArrives /\ "loss" \notin env.faults => n = Len(wire[Peer(e)]) /\ settingsArrive = ctl[Peer(e)]

\* flush_send: all but the last `held` accepted frames, or the CONNECTION_CLOSE.
SerializedFrames(s, held) ==
  IF s.conn = "open" /\ held <= Len(s.buf) THEN SubSeq(s.buf, 1, Len(s.buf) - held) ELSE <<>>

SendsClose(s) == s.conn = "closing" /\ ~s.ccSent

AfterSend(s, held) ==
  IF s.conn = "open"
  THEN [s EXCEPT !.buf = SubSeq(@, Len(SerializedFrames(s, held)) + 1, Len(@)), !.ctlBuf = FALSE]
  ELSE [s EXCEPT !.ccSent = TRUE]

\* The network's share of an iteration: received packets and an elapsed timer.
Woken(e, closeArrives, timer, handshake) ==
  LET est == ep[e].est \/ (handshake /\ pathUp /\ (e = "server" => ep["client"].est))
  IN Receive([ep[e] EXCEPT !.est = est], e, closeArrives, timer)

ReadStreams(s, frames, settingsArrive, controlFirst) ==
  IF controlFirst THEN ReadConnect(ReadControl(s, settingsArrive), frames)
                  ELSE ReadControl(ReadConnect(s, frames), settingsArrive)

\* One iteration of run_inner, stage by stage: the session after the commands, after
\* the readable streams, and after flush.  The handshake matters until it is done, the
\* order of the two streams when both have something to read.
Iterate(e, n, settingsArrive, closeArrives, timer, handshake, controlFirst, held, unsent) ==
  /\ ep[e].alive
  /\ Arrives(e, n, settingsArrive, closeArrives)
  /\ TimerDue(e, timer)
  /\ ep[e].est => ~handshake
  /\ n = 0 \/ ~settingsArrive => controlFirst
  /\ ~Contains(cmds[e], Msg("Shutdown"))
  /\ cmds' = [cmds EXCEPT ![e] = <<>>]
  /\ UNCHANGED <<env, pathUp, js>>
  /\ \E commanded \in {ApplyAll(Woken(e, closeArrives, timer, handshake), cmds[e])} :
     \E read \in {ReadStreams(OnEstablished(commanded, e), SubSeq(wire[Peer(e)], 1, n),
                              settingsArrive, controlFirst)} :
     \E flushed \in {CloseEnded(Flush(read, held), e)} :
     \E final \in {Terminal(AfterSend(flushed, unsent))} :
       /\ held <= Len(QueueClose(read).out) /\ unsent <= Len(flushed.buf)
       /\ wire' = [wire EXCEPT ![Peer(e)] = SubSeq(@, n + 1, Len(@)),
                               ![e] = @ \o SerializedFrames(flushed, unsent)]
       /\ ctl' = [ctl EXCEPT ![Peer(e)] = @ /\ ~settingsArrive,
                             ![e] = @ \/ (flushed.conn = "open" /\ flushed.ctlBuf)]
       /\ cc' = [cc EXCEPT ![Peer(e)] = IF closeArrives THEN "none" ELSE @,
                           ![e] = IF SendsClose(flushed) THEN flushed.err ELSE @]
       /\ ep' = [ep EXCEPT ![e] = [final EXCEPT !.ev = <<>>]]
       /\ evq' = [evq EXCEPT ![e] = @ \o final.ev]
       /\ log' = [log EXCEPT ![e] = @ \o final.ev]

\* The iteration that drains a Shutdown command closes the connection and returns; the
\* server then reports ServerClosed.
ShutdownStep(e) ==
  /\ ep[e].alive
  /\ Contains(cmds[e], Msg("Shutdown"))
  /\ LET last == ConnClose(ApplyAll(ep[e], CommandsBefore(cmds[e])), "zero")
         events == IF e = "server" THEN <<Msg("ServerClosed")>> ELSE <<>>
     IN /\ cc' = [cc EXCEPT ![e] = IF SendsClose(last) THEN last.err ELSE @]
        /\ ep' = [ep EXCEPT ![e] = [AfterSend(last, 0) EXCEPT !.alive = FALSE]]
        /\ evq' = [evq EXCEPT ![e] = @ \o events]
        /\ log' = [log EXCEPT ![e] = @ \o events]
  /\ cmds' = [cmds EXCEPT ![e] = <<>>]
  /\ UNCHANGED <<env, wire, ctl, pathUp, js>>

Timer == {"none", "drain", "idle"}

\* A driver thread ends without a working loop: setup or poll fails, or it panics.  The
\* server's reports end all its sessions.
DriverFails(e) ==
  /\ "driver" \in env.faults /\ ep[e].alive
  /\ \E events \in IF e = "server" THEN {<<Msg("ServerClosed")>>}
                   ELSE {<<Msg("Error")>>, <<Msg("Error"), Coded("Closed", "zero")>>} :
       /\ evq' = [evq EXCEPT ![e] = @ \o events]
       /\ log' = [log EXCEPT ![e] = @ \o events]
  /\ ep' = [ep EXCEPT ![e].alive = FALSE]
  /\ cmds' = [cmds EXCEPT ![e] = <<>>]
  /\ UNCHANGED <<env, wire, ctl, cc, pathUp, js>>

\* Bound: the frames QUIC may hold back at a time, a CLOSE capsule and its FIN.
MaxHeld == IF "congestion" \in env.faults THEN 2 ELSE 0

\* Any iteration the network and the congestion controller allow.
DriverStep(e) ==
  \E n \in 0 .. Len(wire[Peer(e)]), settingsArrive, closeArrives, handshake, controlFirst \in BOOLEAN,
     timer \in Timer \cup {"error"} :
  \E held, unsent \in 0 .. MaxHeld :
    Iterate(e, n, settingsArrive, closeArrives, timer, handshake, controlFirst, held, unsent)

\* The iteration in which everything under way arrives, is accepted and is sent.
ProgressStep(e) ==
  \E timer \in Timer, controlFirst \in BOOLEAN :
    LET p == Peer(e)
        up == pathUp /\ ep[e].conn = "open"
    IN /\ timer = "none" => \A t \in Timer \ {"none"} : ~TimerDue(e, t)
       /\ Iterate(e, IF up THEN Len(wire[p]) ELSE 0, up /\ ctl[p], up /\ cc[p] # "none",
                  timer, ~ep[e].est, controlFirst, 0, 0)

-----------------------------------------------------------------------------
(* The network *)

\* The CONNECTION_CLOSE is lost and its sender is gone before it can repeat it.
LoseClose(e) ==
  /\ "loss" \in env.faults /\ cc[e] # "none"
  /\ cc' = [cc EXCEPT ![e] = "none"]
  /\ UNCHANGED <<env, ep, wire, ctl, pathUp, cmds, evq, js, log>>

PathFails ==
  /\ "path" \in env.faults /\ pathUp
  /\ pathUp' = FALSE
  /\ UNCHANGED <<env, ep, wire, ctl, cc, cmds, evq, js, log>>

-----------------------------------------------------------------------------
(* The JavaScript side: SessionCore and WebTransportServer *)

Finished(c) == c.closed # "pending"

\* A command of e; the channel of a driver that has returned drops it.
Command(e, cs) == cmds' = [cmds EXCEPT ![e] = IF ep[e].alive THEN @ \o cs ELSE @]

\* Mutant: an error is stored as if it were a close code.
FinishWithError(c, info) ==
  IF Finished(c) THEN c
  ELSE [c EXCEPT !.draining = "resolved", !.closed = info,
                 !.ready = IF @ = "pending" THEN "rejected" ELSE @]

\* SessionCore.finish: info is a close code, or "error".
Finish(c, info) ==
  IF Finished(c) THEN c
  ELSE [c EXCEPT !.draining = "resolved",
                 !.ready  = IF @ = "pending" THEN "rejected" ELSE @,
                 !.closed = IF c.ready # "resolved" \/ info = "error" THEN "rejected" ELSE info]

\* SessionCore.dispatch
Dispatch(c, ev) ==
  IF Finished(c) THEN c
  ELSE CASE ev.type = "Ready" -> [c EXCEPT !.ready = "resolved"]
         [] ev.type = "Draining" -> [c EXCEPT !.draining = "resolved"]
         [] ev.type \in {"Error", "Rejected"} -> Finish(c, "error")
         [] ev.type = "ServerClosed" -> Finish(c, "zero")
         [] OTHER -> Finish(c, ev.code)

\* WebTransportServer.onEvent creates the core of an accepted session.
Refuses(e, ev) ==
  e = "server" /\ ev.type = "Ready" /\ (js[e].stopping \/ env.answer = "refuse")

JsDispatch(e) ==
  /\ evq[e] # <<>>
  /\ LET ev == Head(evq[e])
         c0 == IF e = "server" /\ ev.type = "Ready" /\ ~Refuses(e, ev)
               THEN [js[e] EXCEPT !.core = TRUE] ELSE js[e]
         c1 == IF c0.core THEN Dispatch(c0, ev) ELSE c0
         shutsDown == e = "client" /\ Finished(c1) /\ ~Finished(c0)
     IN /\ js' = [js EXCEPT ![e] = c1]
        /\ Command(e, (IF Refuses(e, ev) THEN <<Coded("Close", "zero")>> ELSE <<>>)
                        \o (IF shutsDown THEN <<Msg("Shutdown")>> ELSE <<>>))
  /\ evq' = [evq EXCEPT ![e] = Tail(@)]
  /\ UNCHANGED <<env, ep, wire, ctl, cc, pathUp, log>>

JsClose(e) ==
  /\ e \in env.closers /\ ~js[e].closeCalled
  /\ js[e].core /\ ~Finished(js[e])
  /\ js' = [js EXCEPT ![e].closeCalled = TRUE]
  /\ Command(e, <<Coded("Close", e)>>)
  /\ UNCHANGED <<env, ep, wire, ctl, cc, pathUp, evq, log>>

JsDrain(e) ==
  /\ e \in env.drainers /\ ~js[e].drainCalled /\ js[e].core
  /\ js' = [js EXCEPT ![e].drainCalled = TRUE]
  /\ Command(e, <<Msg("Drain")>>)
  /\ UNCHANGED <<env, ep, wire, ctl, cc, pathUp, evq, log>>

\* SessionCore.abort: the queue of incoming streams overflowed.
JsAbort(e) ==
  /\ e \in env.aborters /\ js[e].ready = "resolved" /\ ~Finished(js[e])
  /\ js' = [js EXCEPT ![e] = Finish(@, "error")]
  /\ Command(e, <<Coded("Close", "zero")>> \o (IF e = "client" THEN <<Msg("Shutdown")>> ELSE <<>>))
  /\ UNCHANGED <<env, ep, wire, ctl, cc, pathUp, evq, log>>

\* WebTransportServer.close
ServerShutdown ==
  /\ "shutdown" \in env.faults /\ ~js["server"].stopping
  /\ js' = [js EXCEPT !["server"].stopping = TRUE]
  /\ Command("server", <<Msg("Shutdown")>>)
  /\ UNCHANGED <<env, ep, wire, ctl, cc, pathUp, evq, log>>

-----------------------------------------------------------------------------
Next ==
  \/ \E e \in Endpoint : \/ DriverStep(e) \/ ShutdownStep(e) \/ DriverFails(e) \/ LoseClose(e) \/ JsDispatch(e)
                         \/ JsClose(e) \/ JsDrain(e) \/ JsAbort(e)
  \/ PathFails \/ ServerShutdown

Spec == Init /\ [][Next]_vars

\* A driver thread keeps iterating (every QUIC timer and every datagram wakes its
\* poll), a path that is up eventually delivers, and Node keeps dispatching events.
Fairness ==
  \A e \in Endpoint : WF_vars(ProgressStep(e)) /\ WF_vars(ShutdownStep(e)) /\ WF_vars(JsDispatch(e))

FairSpec == Spec /\ Fairness

-----------------------------------------------------------------------------
(***************************************************************************)
(* Properties                                                              *)
(***************************************************************************)
Frame == {Msg(t) : t \in {"CONNECT", "200", "403", "DRAIN", "FIN"}} \cup {Coded("CLOSE", c) : c \in Code}
Event == {Msg(t) : t \in {"Ready", "Draining", "Error", "Rejected", "ServerClosed"}}
           \cup {Coded("Closed", c) : c \in Code}
Cmd   == {Msg(t) : t \in {"Drain", "Shutdown"}} \cup {Coded("Close", c) : c \in Code}
Flags == {"alive", "est", "setup", "connectPending", "settings", "headersDone", "ready", "closed",
          "drainEmitted", "drainSent", "capsuleQueued", "want", "deferred", "issued",
          "connect", "finQueued", "finSent", "ctlOut", "ctlBuf", "ccSent"}

\* Every variable keeps its type; in particular `closed` of a SessionCore only ever
\* settles once with a close code or a rejection.
TypeOK ==
  /\ env \in Environments /\ pathUp \in BOOLEAN
  /\ \A e \in Endpoint :
       /\ \A f \in Flags : ep[e][f] \in BOOLEAN
       /\ ep[e].closeReq \in Code \cup {"none"}
       /\ ep[e].conn \in {"open", "closing", "draining", "closed"}
       /\ ep[e].err \in Code \cup {"none", "timeout"}
       /\ ep[e].ev = <<>>
       /\ Range(ep[e].out \o ep[e].buf \o ep[e].rx \o wire[e]) \subseteq Frame
       /\ ctl[e] \in BOOLEAN /\ cc[e] \in Code \cup {"none"}
       /\ Range(cmds[e]) \subseteq Cmd
       /\ Range(evq[e] \o log[e]) \subseteq Event
       /\ js[e].ready \in {"pending", "resolved", "rejected"}
       /\ js[e].draining \in {"pending", "resolved"}
       /\ js[e].closed \in Code \cup {"pending", "rejected"}

\* Whatever ends the session first (capsule, FIN, CONNECTION_CLOSE, timeout, local
\* close, rejection), its driver reports each milestone at most once and, after Closed,
\* at most receive errors or its own end, so no SessionCore sees a stream or readiness
\* after its end.  A thread that fails reports Closed behind an Error, even if it had
\* reported one before; only such a pair may repeat it.
EventDiscipline ==
  \A e \in Endpoint :
    LET l == log[e]
        At(type) == {i \in 1 .. Len(l) : l[i].type = type}
        Failure  == {i \in At("Closed") : i - 1 \in At("Error")}
        Ended    == At("Closed") \ Failure
    IN /\ \A M \in {At("Ready"), At("Draining"), At("ServerClosed"), Ended} : \A i, j \in M : i = j
       /\ \A i \in At("Closed") : i + 1 .. Len(l) \subseteq At("Error") \cup At("ServerClosed") \cup Failure

\* Readiness is negotiated: an endpoint reports Ready only once it validated the peer's
\* SETTINGS, although QUIC may deliver the CONNECT stream before the control stream,
\* and the client reports it only after the server accepted the very same session.
ReadyAgreement ==
  /\ \A e \in Endpoint : Contains(log[e], Msg("Ready")) => ep[e].settings
  /\ Contains(log["client"], Msg("Ready")) => Contains(log["server"], Msg("Ready"))

\* The end of a server's close(), or of a session whose core gave up (abort(), an error).
GaveUp(c) == c.stopping \/ c.closed = "rejected"

\* docs/client.md promises the caller of close() that "`closed` resolves with the code and
\* reason you supplied".  Once the driver has taken the command, and whatever is lost, held
\* back or overtaken, an end it reports carries that code: unless the peer's application
\* closed the session too and its capsule was read first, or the peer ended the session
\* without a code, or something failed, which an Error says first.
CloserKeepsCode ==
  [][\A e \in Endpoint :
       LET Told == {i \in Len(log[e]) + 1 .. Len(log'[e]) : log'[e][i].type = "Closed"}
           p == js[Peer(e)]
       IN ep'[e].closeReq = e =>
            \A i \in Told :
              \/ log'[e][i].code = e
              \/ log'[e][i].code = Peer(e) /\ p.closeCalled
              \/ log'[e][i].code = "zero" /\ \/ env.answer = "refuse" \/ GaveUp(p)
                                             \/ i > 1 /\ log'[e][i - 1].type \in {"Error", "Rejected"}]_vars

\* "The WebTransport code/reason ride the capsule, never the QUIC error field": the
\* deferred CONNECTION_CLOSE leaves flush_send a pass to serialize the capsule, so the
\* peer's `closed` never resolves with the H3_NO_ERROR of the QUIC close.
CodesRideTheCapsule == \A e \in Endpoint : js[e].closed # "h3_no_error"

AllSettled ==
  \A e \in Endpoint : ~ep[e].alive /\ (js[e].core => Finished(js[e]))

Ending ==
  \/ \E e \in Endpoint : js[e].closeCalled \/ js[e].closed = "rejected" \/ js[e].stopping
                         \/ ~ep[e].alive
  \/ env.answer # "accept" \/ ~pathUp

\* Nothing hangs: once either application closes, the server answers anything but an
\* acceptance, a side gives up, the server stops or the path dies, every promise
\* settles and both drivers release the connection.
SessionEnds == Ending ~> AllSettled

\* A DRAIN capsule that was marked as sent is never lost while both ends are up: it is in
\* one of the queues on the way, or the peer has reported it, although CONNECT's response,
\* the CLOSE capsule and the FIN share those queues, and SETTINGS may hold them up.
DrainAccounted ==
  \A e \in Endpoint :
    LET p == Peer(e)
        Up(s) == s.alive /\ s.conn = "open" /\ ~s.closed
    IN ep[e].drainSent /\ Up(ep[e]) /\ Up(ep[p])
         => \/ Contains(ep[e].out \o ep[e].buf \o wire[e] \o ep[p].rx, Msg("DRAIN"))
            \/ Contains(log[p], Msg("Draining"))

\* "A drain() issued before establishment retries later": it reaches the peer's
\* `draining` promise unless the session ends first.
DrainDelivered ==
  \A e \in Endpoint :
    js[e].drainCalled ~> (js[Peer(e)].draining = "resolved" \/ Finished(js[e]))

\* A client whose CONNECT is refused by allowedOrigins learns the HTTP 403.
RejectionStatusSeen ==
  env.answer = "reject" /\ Finished(js["client"]) /\ ~js["client"].closeCalled
    => Contains(log["client"], Msg("Rejected"))
=============================================================================
