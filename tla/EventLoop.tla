----------------------------- MODULE EventLoop -----------------------------
(***************************************************************************)
(* The event loop that both driver threads run (run_inner of               *)
(* crates/native/src/server.rs and driver.rs) against its three sources of *)
(* work: datagrams in an edge-triggered UDP socket, commands the JS thread *)
(* queues and wakes the driver for (lib.rs), and QUIC timers.  What the    *)
(* work consists of is the subject of the other modules.                   *)
(*                                                                         *)
(* mio and quiche are external.  mio promises to report a socket that      *)
(* becomes readable only after it was read until it would block; otherwise *)
(* it may or may not.  A connection always has a timer (its idle timeout). *)
(***************************************************************************)
EXTENDS Naturals, Sequences

CONSTANTS
  Roles,         \* the loops to check: a subset of {"server", "client"}
  Budget,        \* MAX_RECV_PER_WAKE
  SocketCap,     \* bound: datagrams the socket's buffer holds (more are lost)
  MaxCommands    \* bound: commands the application issues

ASSUME BoundsAssumption ==
  /\ Roles \subseteq {"server", "client"}
  /\ Budget \in Nat \ {0} /\ SocketCap \in Nat /\ MaxCommands \in Nat

VARIABLES
  role,       \* which of the two loops
  sock,       \* datagrams in the socket
  mark,       \* the place in the socket of one datagram that is followed (0: none)
  drained,    \* the socket was read until it would block since it was reported
  faulty,     \* a read of the socket may still fail (once)
  storm,      \* datagrams keep coming
  ready,      \* mio has the socket to report
  woken,      \* mio has the waker to report
  queue,      \* the command channel
  handled,    \* commands handled
  js,         \* the JS thread
  live,       \* there is a connection
  due,        \* a timer of it has elapsed
  at,         \* where the driver is
  budget,     \* datagrams it may still read
  quiet       \* events is empty and got_packet is false

netVars == <<sock, mark, drained, faulty, storm, ready>>
jsVars == <<queue, handled, js>>
connVars == <<live, due>>
loopVars == <<at, budget, quiet>>
vars == <<role, netVars, woken, jsVars, connVars, loopVars>>

\* A client's loop starts with its connection, a server's with none.
Init ==
  /\ role \in Roles
  /\ sock = 0 /\ mark = 0 /\ drained = TRUE /\ faulty = TRUE /\ storm = TRUE
  /\ ready = FALSE /\ woken = FALSE
  /\ queue = <<>> /\ handled = 0 /\ js = "free"
  /\ live = (role = "client") /\ due = FALSE
  /\ at = "poll" /\ budget = 0 /\ quiet = FALSE
-----------------------------------------------------------------------------
(* The world outside the driver *)

Arrive(followed) ==
  /\ storm /\ sock < SocketCap
  /\ followed => mark = 0
  /\ sock' = sock + 1
  /\ mark' = IF followed THEN sock + 1 ELSE mark
  /\ ready' \in IF drained THEN {TRUE} ELSE {ready, TRUE}
  /\ UNCHANGED <<role, drained, faulty, storm, woken, jsVars, connVars, loopVars>>

StormEnds ==
  /\ storm /\ storm' = FALSE
  /\ UNCHANGED <<role, sock, mark, drained, faulty, ready, woken, jsVars, connVars, loopVars>>

TimerElapses ==
  /\ live /\ ~due /\ due' = TRUE
  /\ UNCHANGED <<role, netVars, woken, jsVars, live, loopVars>>

\* The handle's send: the command goes into the channel, then the driver is woken.
\* A channel whose driver is gone loses it.
JsSend(cmd) ==
  /\ js = "free" /\ handled + Len(queue) < MaxCommands
  /\ queue' = IF at = "gone" THEN queue ELSE Append(queue, cmd)
  /\ js' = IF cmd = "shutdown" THEN "sent_last" ELSE "sent"
  /\ UNCHANGED <<role, netVars, woken, handled, connVars, loopVars>>

\* After the Shutdown that finalize sends, the JS thread joins the driver's.
JsWake ==
  /\ js \in {"sent", "sent_last"}
  /\ woken' = TRUE
  /\ js' = IF js = "sent" THEN "free" ELSE "joining"
  /\ UNCHANGED <<role, netVars, queue, handled, connVars, loopVars>>

JsJoin ==
  /\ js = "joining" /\ at = "gone"
  /\ js' = "finalized"
  /\ UNCHANGED <<role, netVars, woken, queue, handled, connVars, loopVars>>
-----------------------------------------------------------------------------
(* One turn of the loop *)

\* poll blocks until something is reported or a timer elapses.
PollReturns ==
  /\ at = "poll" /\ (ready \/ woken \/ due)
  /\ quiet' = ~(ready \/ woken)
  /\ drained' = (drained /\ ~ready)
  /\ ready' = FALSE /\ woken' = FALSE
  /\ at' = "read" /\ budget' = Budget
  /\ UNCHANGED <<role, sock, mark, faulty, storm, jsVars, connVars>>

\* Only the server's reads are limited.
MayRead == role = "server" => budget > 0

\* A datagram of a new client may make a connection; a client passes over empty ones.
ReadPacket ==
  /\ at = "read" /\ MayRead /\ sock > 0
  /\ sock' = sock - 1
  /\ mark' = IF mark = 0 THEN 0 ELSE mark - 1
  /\ budget' = IF role = "server" THEN budget - 1 ELSE budget
  /\ quiet' \in IF role = "server" THEN {FALSE} ELSE {FALSE, quiet}
  /\ live' \in {live, TRUE}
  /\ UNCHANGED <<role, drained, faulty, storm, ready, woken, jsVars, due, at>>

\* The socket would block, or the read fails, or the budget is used up.
ReadEnds ==
  /\ at = "read" /\ at' = "timers"
  /\ \/ MayRead /\ sock = 0 /\ drained' = TRUE /\ UNCHANGED faulty
     \/ MayRead /\ faulty /\ faulty' = FALSE /\ UNCHANGED drained
     \/ ~MayRead /\ UNCHANGED <<drained, faulty>>
  /\ UNCHANGED <<role, sock, mark, storm, ready, woken, jsVars, connVars, budget, quiet>>

\* Mutant: the server, too, looks at its timers only when nothing else happened.
FiresWhenQuiet == quiet

\* Whether on_timeout is called.
Fires == role = "server" \/ quiet

FireTimers ==
  /\ at = "timers" /\ at' = "commands"
  /\ due' = (due /\ ~Fires)
  /\ UNCHANGED <<role, netVars, woken, jsVars, live, budget, quiet>>

HandleCommand ==
  /\ at = "commands" /\ queue # <<>>
  /\ queue' = Tail(queue)
  /\ handled' = handled + 1
  /\ at' = IF Head(queue) = "shutdown" THEN "gone" ELSE at
  /\ UNCHANGED <<role, netVars, woken, js, connVars, budget, quiet>>

\* Mutant: a turn handles what it finds of the commands in one go and may leave some.
CommandsLeft ==
  /\ at = "commands" /\ at' = "drive"
  /\ UNCHANGED <<role, netVars, woken, jsVars, connVars, budget, quiet>>

CommandsDone ==
  /\ at = "commands" /\ queue = <<>> /\ at' = "drive"
  /\ UNCHANGED <<role, netVars, woken, jsVars, connVars, budget, quiet>>

\* The sessions are driven.  Connections that ended are reaped; a client's loop ends
\* with its connection.
Drive ==
  /\ at = "drive"
  /\ live' \in {live, FALSE}
  /\ due' = (due /\ live')
  /\ at' = IF role = "client" /\ ~live' THEN "gone" ELSE "poll"
  /\ UNCHANGED <<role, netVars, woken, jsVars, budget, quiet>>

Turn ==
  \/ PollReturns \/ ReadPacket \/ ReadEnds \/ FireTimers
  \/ HandleCommand \/ CommandsDone \/ Drive

Next ==
  \/ \E followed \in BOOLEAN : Arrive(followed)
  \/ StormEnds \/ TimerElapses
  \/ \E cmd \in {"op", "shutdown"} : JsSend(cmd)
  \/ JsWake \/ JsJoin
  \/ Turn

Spec == Init /\ [][Next]_vars

\* The driver and the JS thread run, and time passes.  A server is asked to do its
\* work in a flood that never ends; a client, which reads until the socket is empty,
\* only if the network lets it get that far.
FairSpec ==
  /\ Spec
  /\ WF_vars(Turn) /\ WF_vars(JsWake) /\ WF_vars(JsJoin) /\ WF_vars(TimerElapses)
  /\ WF_vars(role = "client" /\ StormEnds)
-----------------------------------------------------------------------------
(* Properties *)

\* No wake-up is lost between tx.send and poll: every command is handled, unless the
\* driver ended first, and finalize's join returns.
CommandsHandled ==
  /\ \A n \in 1 .. MaxCommands :
       handled + Len(queue) >= n ~> handled >= n \/ at = "gone"
  /\ js = "joining" ~> js = "finalized"

\* Neither a flood nor the budget starves the rest: an elapsed timer is acted upon,
\* and a datagram the budget or a failed read left in the socket is read, at the
\* latest when a timer of some connection returns the driver to the socket.
WorkDone ==
  /\ due ~> ~due \/ at = "gone"
  /\ mark > 0 /\ live ~> mark = 0 \/ ~live \/ at = "gone"
=============================================================================
