------------------------- MODULE MCSessionLifecycle -------------------------
(* The environments in which TLC runs SessionLifecycle. *)
EXTENDS SessionLifecycle

Undisturbed == [answer : {"accept"}, closers : {{}}, drainers : {{}}, aborters : {{}}, faults : {{}}]

\* Both applications may close the session at any time, the server may stop, whatever it
\* answers, and the path may die: packets that arrive do so in order and in time.
Orderly == [answer : Answer, closers : {Endpoint}, drainers : {{}}, aborters : {{}},
            faults : {{"path", "shutdown"}}]

\* Both ends announce the end of a session before the client closes it.
Draining == [answer : {"accept"}, closers : {{"client"}}, drainers : {Endpoint}, aborters : {{}},
             faults : {{}}]

\* The client closes or aborts while packets get lost, and either its socket and the
\* threads fail or the connection is congested.
Faulty == [answer : {"accept"}, closers : {{"client"}}, drainers : {{}}, aborters : {{"client"}},
           faults : {{"loss", "receive", "driver"}, {"loss", "congestion"}}]

\* Both applications close while the connection is congested and packets get lost.
Contended == [answer : {"accept"}, closers : {Endpoint}, drainers : {{}}, aborters : {{}},
              faults : {{"loss", "congestion"}}]

MCLife == Orderly \cup Draining \cup Contended \cup Faulty

MCRejected == {[e EXCEPT !.answer = "reject"] : e \in Undisturbed}
MCEarlyDrain == {[e EXCEPT !.drainers = {"client"}] : e \in Undisturbed}
MCCongested == {[e EXCEPT !.closers = {"client"}, !.faults = {"congestion"}] : e \in Undisturbed}
=============================================================================
