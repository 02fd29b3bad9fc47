---------------------------- MODULE ServerTable ----------------------------
(***************************************************************************)
(* The server: the tables the thread of server.rs keeps (connections by    *)
(* connection id, routes, connection ids by session id), the Retry that    *)
(* comes before any of them is filled, and the WebTransportServer of       *)
(* server.ts, which turns the thread's messages into sessions.             *)
(*                                                                         *)
(* A connection is reduced to where its session and its QUIC state stand;  *)
(* how they get there is the subject of SessionLifecycle.                  *)
(***************************************************************************)
EXTENDS Naturals, Sequences, FiniteSets, SequencesExt

CONSTANTS
  Key,             \* connection ids clients put into an Initial packet
  Addr,            \* source addresses
  MaxConnections,  \* MAX_CONNECTIONS (16384)
  MaxPending,      \* MAX_PENDING_SESSIONS (128)
  MaxInflight,     \* MAX_INFLIGHT_BATCHES (128)
  MaxSessions,     \* bound: session ids handed out
  MayPanic         \* the server thread may panic

ASSUME ServerAssumption ==
  /\ {MaxConnections, MaxPending, MaxInflight, MaxSessions} \subseteq Nat \ {0}
  /\ MayPanic \in BOOLEAN

Id == 1 .. MaxSessions

VARIABLES
  thread,     \* the server thread: "starting", "serving" or "stopped"
  clients,    \* connection id -> ServerConn
  routing,    \* destination connection id -> connection id
  sessions,   \* session id -> connection id
  nextId,     \* next_session_id
  retried,    \* addresses that were sent a Retry token
  cmds,       \* the command channel
  batches,    \* batches scheduled on the JavaScript thread; inflight is their number
  core,       \* session id -> what became of its SessionCore
  asked,      \* session ids whose application called close()
  unread,     \* sessions in the queue of incomingSessions
  server      \* the rest of WebTransportServer

vars == <<thread, clients, routing, sessions, nextId, retried, cmds, batches, core, asked,
          unread, server>>
tables == <<clients, routing, sessions>>
jsVars == <<core, asked, unread, server>>

Init ==
  /\ thread = "starting"
  /\ clients = <<>> /\ routing = <<>> /\ sessions = <<>>
  /\ nextId = 1 /\ retried = {}
  /\ cmds = <<>> /\ batches = <<>>
  /\ core = [i \in Id |-> "none"] /\ asked = {} /\ unread = 0
  /\ server = [ready |-> "pending", closed |-> "pending", closeCalled |-> FALSE, cancelled |-> FALSE]

Msg(type, id) == [type |-> type, id |-> id]
ServerMsg(type) == Msg(type, 0)

Put(f, x, v) == [y \in DOMAIN f \cup {x} |-> IF y = x THEN v ELSE f[y]]
Keep(f, S) == [y \in DOMAIN f \cap S |-> f[y]]

Emit(b) == batches' = IF b = <<>> THEN batches ELSE Append(batches, b)

-----------------------------------------------------------------------------
(* The server thread *)

\* run_inner up to its loop: the socket is bound, or the server never starts.
Listen ==
  /\ thread = "starting"
  /\ thread' = "serving"
  /\ Emit(<<ServerMsg("Listening")>>)
  /\ UNCHANGED <<tables, nextId, retried, cmds, jsVars>>

SetupFails ==
  /\ thread = "starting"
  /\ thread' = "stopped"
  /\ batches' = batches \o << <<ServerMsg("ServerError")>>, <<ServerMsg("ServerClosed")>> >>
  /\ cmds' = <<>>
  /\ UNCHANGED <<tables, nextId, retried, jsVars>>

Admits == Cardinality(DOMAIN clients) < MaxConnections /\ Len(batches) < MaxInflight

\* An Initial without a token from address a: a Retry, and no state.
Retry(a) ==
  /\ thread = "serving" /\ Admits
  /\ retried' = retried \cup {a}
  /\ UNCHANGED <<thread, tables, nextId, cmds, batches, jsVars>>

NewConn(id, a) == [id |-> id, addr |-> a, phase |-> "connecting", closing |-> FALSE, conn |-> "open"]

\* validate_token: the token was minted for the address it comes back from.
ValidToken(a) == a \in retried

\* Mutant: a session id is the number of connections, not a counter of its own.
FreeId == Cardinality(DOMAIN clients) + 1

NewId == nextId

\* An Initial with a token, from address a and for connection id k.
Accept(k, a) ==
  /\ thread = "serving" /\ k \notin DOMAIN routing /\ Admits /\ ValidToken(a)
  /\ nextId \in Id
  /\ routing' = Put(routing, k, k)
  /\ sessions' = Put(sessions, NewId, k)
  /\ clients' = Put(clients, k, NewConn(NewId, a))
  /\ nextId' = nextId + 1
  /\ UNCHANGED <<thread, retried, cmds, batches, jsVars>>

\* apply_command: a close command reaches the connection its session id leads to, and one
\* for a session that is gone is dropped.
Commanded(k) ==
  [clients[k] EXCEPT !.closing = \/ @
                                 \/ \E n \in 1 .. Len(cmds) : /\ cmds[n].id \in DOMAIN sessions
                                                             /\ sessions[cmds[n].id] = k]

\* conn.recv and conn.on_timeout on one connection: the peer's CONNECTION_CLOSE starts
\* its draining period; a timer ends an idle or a closing connection.
Net == {"none", "drains", "expires"}

NetOf(c, net) ==
  CASE net = "drains"  -> [c EXCEPT !.conn = IF @ = "open" THEN "closing" ELSE @]
    [] net = "expires" -> [c EXCEPT !.conn = "closed"]
    [] OTHER -> c

\* What on_readable and flush can make of a session in one iteration; what makes it ready
\* may be read together with what ends it.
Outcome == {"nothing", "ready", "rejected", "ended", "failed", "ready and ended",
            "ready and failed", "flushed"}
Readying == {"ready", "ready and ended", "ready and failed"}

Possible(c, net, o) ==
  CASE net = "drains" /\ c.conn # "open" -> FALSE
    [] o = "nothing" -> TRUE
    [] o = "flushed" -> c.closing /\ c.conn = "open" /\ net = "none"
    [] o \in Readying \cup {"rejected"} -> c.phase = "connecting" /\ c.conn = "open" /\ net # "expires"
    [] OTHER -> c.phase # "closed" /\ c.conn = "open" /\ net # "expires"

SessionAfter(c, o) ==
  CASE o = "ready" -> [c EXCEPT !.phase = "ready"]
    [] o = "nothing" -> c
    [] o = "flushed" -> [c EXCEPT !.conn = "closing"]
    [] OTHER -> [c EXCEPT !.phase = "closed"]

MessagesOf(c, o) ==
  CASE o = "ready" -> <<Msg("Ready", c.id)>>
    [] o = "ended" -> <<Msg("Closed", c.id)>>
    [] o \in {"rejected", "failed"} -> <<Msg("Error", c.id), Msg("Closed", c.id)>>
    [] o = "ready and ended" -> <<Msg("Ready", c.id), Msg("Closed", c.id)>>
    [] o = "ready and failed" -> <<Msg("Ready", c.id), Msg("Error", c.id), Msg("Closed", c.id)>>
    [] OTHER -> <<>>

\* Mutant: a session that ended leaves its connection to the idle timeout.
LeaveConn(c) == c

\* A session that ended closes its connection.
CloseEnded(c) == IF c.phase = "closed" /\ c.conn = "open" THEN [c EXCEPT !.conn = "closing"] ELSE c

\* Mutant: a connection is reaped without a word.
LastWordsNone(c) == <<>>

\* The reaper's final Closed (after an Error, if the connection failed), unless the
\* session had reported its end.
LastWords(c) ==
  IF c.conn = "closed" /\ c.phase # "closed" THEN <<Msg("Closed", c.id)>> ELSE <<>>

\* Mutant: the reaper waits for the session to end by itself.
GoneWithSession(c) == c.conn = "closed" /\ c.phase = "closed"

\* retain(): the connections to drop.
Gone(c) == c.conn = "closed"

\* Mutant: the reaper forgets the session table.
SessionsKept(left) == sessions

\* The session table after the reaper.
SessionsOf(left) == Keep(sessions, {i \in DOMAIN sessions : sessions[i] \in left})

\* One iteration for connection c: QUIC does net to it, then the session does o.
Step(c, net, o) == [conn |-> CloseEnded(SessionAfter(NetOf(c, net), o)), said |-> MessagesOf(c, o)]

Steps(c) == {Step(c, p[1], p[2]) : p \in {q \in Net \X Outcome : Possible(c, q[1], q[2])}}

\* Steps 2 to 5 of an iteration, in which connection k takes step[k].
DriveWith(step) ==
  LET left == {k \in DOMAIN step : ~Gone(step[k].conn)}
      ks == SetToSeq(DOMAIN step)
  IN /\ cmds' = <<>>
     /\ UNCHANGED <<thread, nextId, retried, jsVars>>
     /\ clients' = [k \in left |-> step[k].conn]
     /\ sessions' = SessionsOf(left)
     /\ routing' = Keep(routing, {k \in DOMAIN routing : routing[k] \in left})
     /\ Emit(FlattenSeq([i \in 1 .. Len(ks) |-> step[ks[i]].said])
               \o FlattenSeq([i \in 1 .. Len(ks) |-> LastWords(step[ks[i]].conn)]))

Shutdown == ServerMsg("Shutdown")

Drive ==
  /\ thread = "serving" /\ ~Contains(cmds, Shutdown)
  /\ \E may \in {[k \in DOMAIN clients |-> Steps(Commanded(k))]} :
       \E step \in [DOMAIN clients -> UNION {may[k] : k \in DOMAIN clients}] :
         /\ \A k \in DOMAIN clients : step[k] \in may[k]
         /\ DriveWith(step)

\* The same, when nothing holds a closing connection up.
Unhindered(c) ==
  Step(c, IF c.conn = "closing" THEN "expires" ELSE "none",
          IF c.closing /\ c.conn = "open" THEN "flushed" ELSE "nothing")

DriveProgress ==
  /\ thread = "serving" /\ ~Contains(cmds, Shutdown)
  /\ \E step \in {[k \in DOMAIN clients |-> Unhindered(Commanded(k))]} : DriveWith(step)

\* The thread ends, and its tables and channel with it.
Stop(last) ==
  /\ thread' = "stopped"
  /\ clients' = <<>> /\ routing' = <<>> /\ sessions' = <<>>
  /\ cmds' = <<>>
  /\ Emit(last)
  /\ UNCHANGED <<nextId, retried, jsVars>>

\* An iteration that finds a Shutdown command returns before it emits anything.
ShutdownStep == thread = "serving" /\ Contains(cmds, Shutdown) /\ Stop(<<ServerMsg("ServerClosed")>>)

\* run's panic boundary.
Panic == MayPanic /\ thread = "serving" /\ Stop(<<ServerMsg("ServerError"), ServerMsg("ServerClosed")>>)

-----------------------------------------------------------------------------
(* WebTransportServer.  j is a record [core, unread, server, cmds]. *)

Settle(promise, outcome) == IF promise = "pending" THEN outcome ELSE promise

\* Mutant: the server's end settles its own promises only.
FinishNoSessions(j) == j

FinishAllSessions(j) ==
  [j EXCEPT !.core = [i \in Id |-> IF @[i] = "live" THEN "done" ELSE @[i]]]

\* Mutant: serverReady without the check of the queue.
RefusesNoOverflow(j) == j.server.closeCalled \/ j.server.cancelled

\* A session is refused when nobody would read it.
Refuses(j) == j.server.closeCalled \/ j.server.cancelled \/ j.unread >= MaxPending

OnEvent(j, ev) ==
  CASE ev.type = "Listening" -> [j EXCEPT !.server.ready = Settle(@, "resolved")]
    [] ev.type = "ServerError" ->
         FinishAllSessions([j EXCEPT !.server.ready = Settle(@, "rejected"),
                                     !.server.closed = Settle(@, "rejected")])
    [] ev.type = "ServerClosed" -> FinishAllSessions([j EXCEPT !.server.closed = Settle(@, "resolved")])
    [] ev.type = "Ready" ->
         IF Refuses(j)
         THEN [j EXCEPT !.core[ev.id] = "refused", !.cmds = Append(@, Msg("Close", ev.id))]
         ELSE [j EXCEPT !.core[ev.id] = "live", !.unread = @ + 1]
    [] OTHER -> IF j.core[ev.id] = "live" THEN [j EXCEPT !.core[ev.id] = "done"] ELSE j

\* Commands reach the channel while the thread runs.
Command(cs) == cmds' = IF thread = "stopped" THEN cmds ELSE cmds \o cs

\* The events of a batch are handled in order.
Handled(j, events) ==
  LET after[n \in 0 .. Len(events)] == IF n = 0 THEN j ELSE OnEvent(after[n - 1], events[n])
  IN  after[Len(events)]

JsBatch ==
  /\ batches # <<>>
  /\ batches' = Tail(batches)
  /\ \E j \in {Handled([core |-> core, unread |-> unread, server |-> server, cmds |-> <<>>],
                       Head(batches))} :
       /\ core' = j.core /\ unread' = j.unread /\ server' = j.server
       /\ Command(j.cmds)
  /\ UNCHANGED <<thread, tables, nextId, retried, asked>>

\* WebTransportServer.close
Close ==
  /\ ~server.closeCalled
  /\ server' = [server EXCEPT !.closeCalled = TRUE]
  /\ Command(<<Shutdown>>)
  /\ UNCHANGED <<thread, tables, nextId, retried, batches, core, asked, unread>>

\* The application closes a session, or its core gives up (abort).
CloseSession(i) ==
  /\ core[i] = "live" /\ i \notin asked
  /\ asked' = asked \cup {i}
  /\ \/ UNCHANGED core
     \/ core' = [core EXCEPT ![i] = "done"]
  /\ Command(<<Msg("Close", i)>>)
  /\ UNCHANGED <<thread, tables, nextId, retried, batches, unread, server>>

\* The application takes a session from incomingSessions, or cancels it.
Take ==
  /\ unread > 0
  /\ unread' = unread - 1
  /\ UNCHANGED <<thread, tables, nextId, retried, cmds, batches, core, asked, server>>

Cancel ==
  /\ ~server.cancelled /\ server.closed = "pending"
  /\ server' = [server EXCEPT !.cancelled = TRUE] /\ unread' = 0
  /\ UNCHANGED <<thread, tables, nextId, retried, cmds, batches, core, asked>>

-----------------------------------------------------------------------------
Next ==
  \/ Listen \/ SetupFails \/ Drive \/ ShutdownStep \/ Panic
  \/ JsBatch \/ Close \/ Take \/ Cancel
  \/ \E a \in Addr : Retry(a) \/ \E k \in Key : Accept(k, a)
  \/ \E i \in Id : CloseSession(i)

Spec == Init /\ [][Next]_vars

\* The thread keeps iterating, QUIC ends the connections it is told to close, and Node
\* keeps running the callbacks.
Fairness ==
  /\ WF_vars(Listen \/ SetupFails)
  /\ WF_vars(DriveProgress) /\ WF_vars(ShutdownStep) /\ WF_vars(JsBatch)

FairSpec == Spec /\ Fairness

-----------------------------------------------------------------------------
(***************************************************************************)
(* Properties                                                              *)
(***************************************************************************)
Conn == [id : Id, addr : Addr, phase : {"connecting", "ready", "closed"}, closing : BOOLEAN,
         conn : {"open", "closing"}]

\* Every variable keeps its type; no closed connection survives an iteration.
TypeOK ==
  /\ thread \in {"starting", "serving", "stopped"}
  /\ \A k \in DOMAIN clients : k \in Key /\ clients[k] \in Conn
  /\ \A k \in DOMAIN routing : k \in Key /\ routing[k] \in Key
  /\ \A i \in DOMAIN sessions : i \in Id /\ sessions[i] \in Key
  /\ nextId \in 1 .. MaxSessions + 1
  /\ retried \subseteq Addr /\ asked \subseteq Id
  /\ \A i \in Id : core[i] \in {"none", "live", "done", "refused"}
  /\ unread \in Nat
  /\ server \in [ready : {"pending", "resolved", "rejected"}, closed : {"pending", "resolved", "rejected"},
                 closeCalled : BOOLEAN, cancelled : BOOLEAN]

\* The three tables describe the same connections: every connection is routed and has a
\* session id that leads back to it, and no route or id leads nowhere, so no command and
\* no packet ever reaches the connection of another client.
TablesAgree ==
  /\ DOMAIN routing = DOMAIN clients
  /\ \A k \in DOMAIN routing : routing[k] = k
  /\ DOMAIN sessions = {clients[k].id : k \in DOMAIN clients}
  /\ \A k \in DOMAIN clients : sessions[clients[k].id] = k /\ clients[k].id < nextId

InFlight(type, id) == \E b \in 1 .. Len(batches) : Contains(batches[b], Msg(type, id))

\* A session the application holds will hear of its end: its connection is still there
\* and has not reported Closed, or the report, or the server's own, is on its way.
SessionAccounted ==
  \A i \in Id :
    core[i] = "live" =>
      \/ i \in DOMAIN sessions /\ clients[sessions[i]].phase = "ready"
      \/ InFlight("Closed", i) \/ InFlight("ServerClosed", 0)

\* The limits hold at both ends: connections, and sessions nobody has read yet.
Bounded == Cardinality(DOMAIN clients) <= MaxConnections /\ unread <= MaxPending

\* A connection id that is reused after its connection was reaped gets a new session: a
\* session is announced once, also while messages about the connection's last session are
\* still on their way, and its end is reported once.
AnnouncedOnce ==
  \A i \in Id :
    LET At(type) == {p \in UNION {{b} \X (1 .. Len(batches[b])) : b \in 1 .. Len(batches)} :
                       batches[p[1]][p[2]] = Msg(type, i)}
    IN /\ Cardinality(At("Ready")) <= (IF core[i] = "none" THEN 1 ELSE 0)
       /\ Cardinality(At("Closed")) <= 1

\* close() ends everything: the server's promise and every session settle.
CloseSettles ==
  server.closeCalled ~> (server.closed # "pending" /\ \A i \in Id : core[i] # "live")

\* A session that was refused for lack of room, closed by its application or ended in any
\* way gives its connection back, even if the peer stays silent: it does not linger until
\* an idle timeout, counting against MAX_CONNECTIONS.
ConnectionReturned ==
  \A i \in Id : (i \in asked \/ core[i] \in {"refused", "done"}) ~> i \notin DOMAIN sessions
=============================================================================
