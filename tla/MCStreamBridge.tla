--------------------------- MODULE MCStreamBridge ---------------------------
(* The scenarios in which TLC runs StreamBridge, with the streams "p" and "q" of the  *)
(* peer and "l" of this application.                                                 *)
EXTENDS StreamBridge

Unused == [streams |-> {}, carries |-> {}, cuts |-> {}, requests |-> {}, datagrams |-> FALSE]

\* The peer's stream is read; its receiving half may be reset or cancelled.
Incoming == [Unused EXCEPT !.streams = {"p"}, !.carries = {"recv"}, !.cuts = {"recv"}]

\* A stream of this application is opened and written; its sending half may be stopped
\* or aborted.
Outgoing == [Unused EXCEPT !.streams = LocalStreams, !.carries = {"send"}, !.cuts = {"send"}]

\* A stream of this application is written, and the peer answers on it.
Answered == [Unused EXCEPT !.streams = LocalStreams, !.carries = Half]

\* The peer opens more streams than the application takes.
Flooded == [Unused EXCEPT !.streams = PeerStreams]

\* Requests cross inbound datagrams, which the application may stop reading.
Messages == [Unused EXCEPT !.cuts = {"recv"}, !.requests = {"SendDatagram", "GetStats"},
                           !.datagrams = TRUE]

MCBridge == {Incoming, Outgoing, Answered, Flooded, Messages}
MCOrphan == {[Unused EXCEPT !.streams = LocalStreams]}
=============================================================================
