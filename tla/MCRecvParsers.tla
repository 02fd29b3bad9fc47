--------------------------- MODULE MCRecvParsers ---------------------------
(***************************************************************************)
(* Instances of RecvParsers for TLC: what peers send.                      *)
(***************************************************************************)
EXTENDS RecvParsers

MCStream == {"connect", "u1", "u2", "b1"}
MCBuffer == {<<k, s>> : k \in {"frames", "class", "payload"}, s \in MCStream}
              \cup {<<k, "connect">> : k \in {"capsule", "value", "other"}}
MCOwner == [b \in MCBuffer |-> IF b[1] = "other" THEN "other" ELSE "this"]
MCByte == 0 .. 255

Sends(honest, connect, u1, u2, b1) ==
  [honest |-> honest,
   of |-> [s \in MCStream |-> CASE s = "connect" -> connect [] s = "u1" -> u1
                                [] s = "u2" -> u2 [] s = "b1" -> b1]]

SettingsBytes == PutVarint(SettingsConnectProtocol) \o <<1>> \o PutVarint(SettingsH3Datagram) \o <<1>>
                   \o PutVarint(SettingsWebTransport) \o <<1>>
ControlStream == PutVarint(H3Control) \o Frame(FrameSettings, SettingsBytes)
Headers == Frame(FrameHeaders, <<1>>)
Drain == Frame(WtDrainSession, <<>>)
Raise(n) == Frame(WtMaxData, PutVarint(n))
Data(bytes) == Frame(FrameData, bytes)
WtStream(ty, payload) == PutVarint(ty) \o PutVarint(0) \o payload

\* A session that is accepted and drains, by a capsule that two DATA frames carry.
Orderly == Sends(TRUE,
  Headers \o Data(SubSeq(Drain, 1, 3)) \o Data(SubSeq(Drain, 4, 5)),
  ControlStream, <<>>, <<>>)

\* Data streams of both kinds, the uni one under way before SETTINGS.
Streams == Sends(TRUE, <<>>, <<>>, WtStream(WtUni, <<7, 8>>), WtStream(WtBidi, <<9>>))

\* The limit is raised, then lowered; GOAWAY follows SETTINGS.
Lowering == Sends(FALSE,
  Headers \o Data(Raise(2) \o Raise(1)), ControlStream \o Frame(FrameGoaway, <<>>), <<>>, <<>>)

\* Frames that may not be there, and lengths that may not be.
Oversize == Sends(FALSE, Headers \o Data(<<33, 40>>), ControlStream \o <<33, 40>>, <<>>, <<>>)
Unexpected == Sends(FALSE, Frame(FrameHeaders, <<0>>), ControlStream \o Frame(FrameData, <<>>), <<>>, <<>>)

\* SETTINGS that repeat an identifier, and control bytes that are no SETTINGS.
Repeated == Sends(FALSE, Headers, <<H3Control>> \o Frame(FrameSettings, <<8, 1, 8, 1>>), <<>>, <<>>)
NoSettingsSent == Sends(FALSE, Headers, <<H3Control>> \o Frame(FrameGoaway, <<>>), <<>>, <<>>)
TooFew == Sends(FALSE, Headers, <<H3Control>> \o Frame(FrameSettings, <<8, 1>>), <<>>, <<>>)

\* Two control streams; QPACK streams; streams of unknown kinds and sessions.
Twice == Sends(FALSE, <<>>, <<H3Control>>, <<H3Control>>, <<>>)
Qpack == Sends(TRUE, <<>>, <<QpackEncoder, 1>>, <<QpackDecoder, 1>>, <<>>)
Unknown == Sends(TRUE, <<>>, <<33, 1>>, PutVarint(WtUni) \o <<4, 5>>, <<1, 2>>)

\* The peer closes with a capsule of its own, after one that is not known.
Leaving == Sends(TRUE, Headers \o Frame(33, <<>>) \o Data(<<33, 0>> \o Frame(WtCloseSession, <<0, 0, 0, 5>>)),
                 ControlStream, <<>>, <<>>)
Refusing == Sends(TRUE, Frame(FrameHeaders, <<2>>), ControlStream, <<>>, <<>>)

MCUnknown == {Unknown}

MCScripts == {Orderly, Streams, Lowering, Oversize, Unexpected, Repeated, NoSettingsSent, TooFew,
              Twice, Qpack, Unknown, Leaving, Refusing}
=============================================================================
