------------------------------ MODULE H3Codec ------------------------------
(***************************************************************************)
(* crates/wtcore/src/h3.rs: variable-length integers, frames and SETTINGS, *)
(* as operators on sequences of bytes.  The code points are the code's.    *)
(* Values of 2^30 and more, which take eight bytes, are beyond TLC's       *)
(* integers: no instance uses one, and the limit of 2^60 streams, the only  *)
(* bound that needs one, is left out.                                      *)
(***************************************************************************)
EXTENDS Integers, Sequences, SequencesExt

\* Stream types, frame types, capsule types and SETTINGS identifiers.
H3Control == 0
QpackEncoder == 2
QpackDecoder == 3
WtUni == 84                 \* 0x54
WtBidi == 65                \* 0x41
FrameData == 0
FrameHeaders == 1
FrameSettings == 4
FrameGoaway == 7
WtCloseSession == 10307     \* 0x2843
WtDrainSession == 30894     \* 0x78ae
WtMaxData == 420171069      \* 0x190b_4d3d
SettingsConnectProtocol == 8
SettingsH3Datagram == 51
SettingsWebTransport == 727725890     \* 0x2b60_3742
SettingsMaxSessions == 350866729      \* 0x14e9_cd29
SettingsInitialMaxData == 11105       \* 0x2b61

\* The rest of a sequence after its first n elements.
Suffix(s, n) == SubSeq(s, n + 1, Len(s))

VarintBytes(first) == 2 ^ (first \div 64)

\* The value of the first n bytes of buf, without the two bits that say how many.
VarintValue(buf, n) ==
  LET v[i \in 1 .. n] == IF i = 1 THEN buf[1] % 64 ELSE v[i - 1] * 256 + buf[i]
  IN  v[n]

\* read_varint: the value and its length (0: None, the buffer is incomplete).
ReadVarint(buf) ==
  IF buf = <<>> \/ Len(buf) < VarintBytes(buf[1])
  THEN [val |-> 0, len |-> 0]
  ELSE [val |-> VarintValue(buf, VarintBytes(buf[1])), len |-> VarintBytes(buf[1])]

\* varint_len and put_varint: the shortest encoding.
VarintLen(v) == CASE v < 2 ^ 6 -> 1 [] v >= 2 ^ 6 /\ v < 2 ^ 14 -> 2 [] OTHER -> 4

PutVarint(v) ==
  LET n == VarintLen(v)
      tag == CASE n = 1 -> 0 [] n = 2 -> 64 [] n = 4 -> 128
  IN  [i \in 1 .. n |-> ((v \div 256 ^ (n - i)) % 256) + (IF i = 1 THEN tag ELSE 0)]

Frame(ty, payload) == PutVarint(ty) \o PutVarint(Len(payload)) \o payload

\* A type-length-value unit at the front of buf, the form of frames and capsules:
\* its type, where its value starts, and how long the value is declared to be.
ReadUnit(buf) ==
  LET ty == ReadVarint(buf)
      length == ReadVarint(Suffix(buf, ty.len))
  IN  [known |-> ty.len > 0 /\ length.len > 0,
       ty |-> ty.val, start |-> ty.len + length.len, len |-> length.val]

UnitValue(buf, u) == SubSeq(buf, u.start + 1, u.start + u.len)

(***************************************************************************)
(* parse_settings                                                          *)
(***************************************************************************)
BooleanSettings == {SettingsConnectProtocol, SettingsH3Datagram, SettingsWebTransport}
ReservedSettings == 2 .. 5

\* The identifier-value pairs of a payload; the last one is truncated if it is
\* not whole.
SettingsPairs(payload) ==
  LET from[i \in 0 .. Len(payload)] ==
        LET id == ReadVarint(Suffix(payload, i))
            val == ReadVarint(Suffix(payload, i + id.len))
        IN  IF i = Len(payload) THEN <<>>
            ELSE IF id.len = 0 \/ val.len = 0 THEN <<[id |-> -1, val |-> 0]>>
            ELSE <<[id |-> id.val, val |-> val.val]>> \o from[i + id.len + val.len]
  IN  from[0]

\* Mutant: repetition is looked for among the values.
LegalPairsByValue(pairs) ==
  /\ \A i \in DOMAIN pairs : pairs[i].id >= 0 /\ pairs[i].id \notin ReservedSettings
  /\ \A i, j \in DOMAIN pairs : pairs[i].val = pairs[j].val => i = j

LegalPairs(pairs) ==
  /\ \A i \in DOMAIN pairs :
       /\ pairs[i].id >= 0                                \* not truncated
       /\ pairs[i].id \notin ReservedSettings
       /\ pairs[i].id \in BooleanSettings => pairs[i].val <= 1
  /\ \A i, j \in DOMAIN pairs : pairs[i].id = pairs[j].id => i = j

Setting(pairs, id) ==
  IF \E i \in DOMAIN pairs : pairs[i].id = id
  THEN pairs[CHOOSE i \in DOMAIN pairs : pairs[i].id = id].val
  ELSE 0

\* PeerSettings::webtransport_ok, and the server's test, which does not ask a
\* client for ENABLE_CONNECT_PROTOCOL.
WebTransportOk(pairs, server) ==
  /\ server \/ Setting(pairs, SettingsConnectProtocol) = 1
  /\ Setting(pairs, SettingsH3Datagram) = 1
  /\ Setting(pairs, SettingsWebTransport) = 1 \/ Setting(pairs, SettingsMaxSessions) > 0
=============================================================================
