----------------------- MODULE SessionLifecycleProofs -----------------------
(***************************************************************************)
(* The safety invariants of SessionLifecycle that hold whatever fails:     *)
(* types, the order of the events each driver reports, and the agreement   *)
(* on readiness.                                                           *)
(***************************************************************************)
EXTENDS SessionLifecycle, SequenceTheorems, WellFoundedInduction, TLAPS

\* The frames an endpoint sends on the CONNECT stream.
Sends(e) == {Msg(t) : t \in {"DRAIN", "FIN"} \cup (IF e = "client" THEN {"CONNECT"} ELSE {"200", "403"})}
              \cup {Coded("CLOSE", c) : c \in Code}

\* The record of an endpoint, in the middle of an iteration too.
Rec(e) ==
  [alive : BOOLEAN, est : BOOLEAN, setup : BOOLEAN, connectPending : BOOLEAN,
   settings : BOOLEAN, headersDone : BOOLEAN, ready : BOOLEAN, closed : BOOLEAN,
   drainEmitted : BOOLEAN, drainSent : BOOLEAN,
   closeReq : Code \cup {"none"}, capsuleQueued : BOOLEAN, want : BOOLEAN,
   deferred : BOOLEAN, issued : BOOLEAN,
   connect : BOOLEAN, out : Seq(Sends(e)), finQueued : BOOLEAN, finSent : BOOLEAN,
   ctlOut : BOOLEAN, ctlBuf : BOOLEAN, buf : Seq(Sends(e)), rx : Seq(Sends(Peer(e))),
   conn : {"open", "closing", "draining", "closed"}, err : Code \cup {"none", "timeout"},
   ccSent : BOOLEAN, ev : Seq(Event)]

-----------------------------------------------------------------------------
(* Stories: the events of one endpoint, in order. *)

Told(l, type) == \E i \in 1 .. Len(l) : l[i].type = type

\* EventDiscipline of one story: no milestone twice, and after Closed only errors, the
\* server's end, or a Closed behind an Error.
Disciplined(l) ==
  /\ \A t \in {"Ready", "Draining", "ServerClosed"} : \A i, j \in 1 .. Len(l) :
       l[i].type = t /\ l[j].type = t => i = j
  /\ \A i, j \in 1 .. Len(l) : i < j /\ l[i].type = "Closed" =>
       \/ l[j].type \in {"Error", "ServerClosed"}
       \/ l[j].type = "Closed" /\ j - 1 \in 1 .. Len(l) /\ l[j - 1].type = "Error"

\* What may be added to a story.
Next1(l, x) ==
  /\ x.type \in {"Ready", "Draining", "ServerClosed"} => ~Told(l, x.type)
  /\ Told(l, "Closed") =>
       \/ x.type \in {"Error", "ServerClosed"}
       \/ x.type = "Closed" /\ Len(l) \in 1 .. Len(l) /\ l[Len(l)].type = "Error"

\* A story that grows by such an event stays disciplined.
LEMMA StoryGrows ==
  ASSUME NEW l \in Seq(Event), NEW x \in Event
  PROVE  /\ Append(l, x) \in Seq(Event)
         /\ \A t : Told(Append(l, x), t) <=> Told(l, t) \/ x.type = t
         /\ Disciplined(l) /\ Next1(l, x) => Disciplined(Append(l, x))
<1> DEFINE m == Append(l, x)
           n == Len(l)
<1>1. /\ n \in Nat /\ m \in Seq(Event) /\ Len(m) = n + 1
      /\ \A i \in 1 .. n : m[i] = l[i]
      /\ m[n + 1] = x
  BY AppendProperties, LenProperties
<1> HIDE DEF m
<1>2. 1 .. n + 1 = (1 .. n) \cup {n + 1}
  BY <1>1
<1>3. \A t : Told(m, t) <=> Told(l, t) \/ x.type = t
  BY <1>1, <1>2 DEF Told
<1>4. ASSUME Disciplined(l), Next1(l, x) PROVE Disciplined(m)
  <2>1. ASSUME NEW t \in {"Ready", "Draining", "ServerClosed"}, NEW i \in 1 .. n + 1, NEW j \in 1 .. n + 1,
               m[i].type = t, m[j].type = t
        PROVE  i = j
    <3>1. CASE i \in 1 .. n /\ j \in 1 .. n
      BY <1>1, <1>4, <2>1, <3>1 DEF Disciplined
    <3>2. CASE i = n + 1 /\ j \in 1 .. n
      BY <1>1, <1>4, <2>1, <3>2 DEF Next1, Told
    <3>3. CASE j = n + 1 /\ i \in 1 .. n
      BY <1>1, <1>4, <2>1, <3>3 DEF Next1, Told
    <3> QED
      BY <1>2, <3>1, <3>2, <3>3
  <2>2. ASSUME NEW i \in 1 .. n + 1, NEW j \in 1 .. n + 1, i < j, m[i].type = "Closed"
        PROVE  \/ m[j].type \in {"Error", "ServerClosed"}
               \/ m[j].type = "Closed" /\ j - 1 \in 1 .. n + 1 /\ m[j - 1].type = "Error"
    <3>1. i \in 1 .. n /\ l[i].type = "Closed"
      BY <1>1, <2>2
    <3>2. CASE j \in 1 .. n
      <4>1. \/ l[j].type \in {"Error", "ServerClosed"}
            \/ l[j].type = "Closed" /\ j - 1 \in 1 .. n /\ l[j - 1].type = "Error"
        BY <1>4, <2>2, <3>1, <3>2 DEF Disciplined
      <4> QED
        BY <1>1, <1>2, <3>2, <4>1
    <3>3. CASE j = n + 1
      <4>1. Told(l, "Closed") /\ m[j] = x /\ j - 1 = n
        BY <1>1, <3>1, <3>3 DEF Told
      <4>2. \/ x.type \in {"Error", "ServerClosed"}
            \/ x.type = "Closed" /\ n \in 1 .. n /\ l[n].type = "Error"
        BY <1>4, <4>1 DEF Next1
      <4> QED
        BY <1>1, <1>2, <4>1, <4>2
    <3> QED
      BY <1>2, <3>2, <3>3
  <2> QED
    BY <1>1, <2>1, <2>2 DEF Disciplined
<1> QED
  BY <1>1, <1>3, <1>4 DEF m

\* A story continued by the events of an iteration, and by one event more.
LEMMA StoryJoins ==
  ASSUME NEW l \in Seq(Event), NEW v \in Seq(Event), NEW x \in Event
  PROVE  l \o v \in Seq(Event) /\ l \o Append(v, x) = Append(l \o v, x)
<1>1. l \o v \in Seq(Event) /\ <<x>> \in Seq(Event)
  BY ConcatProperties
<1>2. Append(v, x) = v \o <<x>> /\ Append(l \o v, x) = (l \o v) \o <<x>>
  BY <1>1, AppendIsConcat
<1>3. (l \o v) \o <<x>> = l \o (v \o <<x>>)
  BY <1>1, ConcatAssociative
<1> QED
  BY <1>1, <1>2, <1>3

-----------------------------------------------------------------------------
(* The session of one endpoint in the middle of an iteration: l is what the endpoint
   told before the iteration, accepted whether the server announced the session. *)

Story(s, l) == l \o s.ev

Truthful(s, l) ==
  /\ Disciplined(Story(s, l))
  /\ Told(Story(s, l), "Ready") => s.settings /\ s.headersDone
  /\ Told(Story(s, l), "Draining") => s.drainEmitted
  /\ Told(Story(s, l), "Closed") => s.closed
  /\ ~Told(Story(s, l), "ServerClosed")

Holds200(frames) == Contains(frames, Msg("200"))

\* The server sends 200 only for a session it announced, and the client announces one,
\* or has 200 before it, only then.
Agreed(e, s, l, accepted) ==
  IF e = "server" THEN Holds200(s.out) \/ Holds200(s.buf) => Told(Story(s, l), "Ready")
  ELSE Holds200(s.rx) \/ Told(Story(s, l), "Ready") => accepted

\* A connection that is closing has a reason.
Reasoned(s) ==
  /\ s.conn \in {"closing", "draining"} => s.err \in Code
  /\ s.conn = "closed" => s.err \in Code \cup {"timeout"}

Good(e, s, l, accepted) ==
  /\ s \in Rec(e) /\ (s.connectPending => e = "client") /\ Reasoned(s)
  /\ Truthful(s, l) /\ Agreed(e, s, l, accepted)

\* The fields the story of s depends on.
Same(s, t) ==
  /\ t.ev = s.ev /\ t.settings = s.settings /\ t.headersDone = s.headersDone
  /\ t.drainEmitted = s.drainEmitted /\ t.closed = s.closed

\* A change that tells nothing.
LEMMA SilentStep ==
  ASSUME NEW e \in Endpoint, NEW l, NEW accepted, NEW s, Good(e, s, l, accepted), NEW t \in Rec(e),
         t.connectPending => e = "client", t.ev = s.ev, Reasoned(t),
         s.settings => t.settings, s.headersDone => t.headersDone, s.drainEmitted => t.drainEmitted,
         s.closed => t.closed,
         Holds200(t.out) \/ Holds200(t.buf) =>
           Holds200(s.out) \/ Holds200(s.buf) \/ Told(Story(s, l), "Ready"),
         Holds200(t.rx) => Holds200(s.rx) \/ (e = "client" => accepted)
  PROVE  Good(e, t, l, accepted)
<1>1. Story(t, l) = Story(s, l)
  BY DEF Story
<1>2. Truthful(t, l)
  BY <1>1 DEF Good, Truthful
<1>3. Agreed(e, t, l, accepted)
  <2>1. CASE e = "server"
    BY <1>1, <2>1 DEF Good, Agreed
  <2>2. CASE e = "client"
    BY <1>1, <2>2 DEF Good, Agreed
  <2> QED
    BY <2>1, <2>2 DEF Endpoint
<1> QED
  BY <1>2, <1>3 DEF Good

\* A change that tells x.
LEMMA PushStep ==
  ASSUME NEW e \in Endpoint, NEW l \in Seq(Event), NEW accepted, NEW s, Good(e, s, l, accepted), NEW x \in Event,
         x.type # "ServerClosed",
         x.type \in {"Ready", "Draining"} => ~Told(Story(s, l), x.type),
         x.type # "Error" => ~Told(Story(s, l), "Closed"),
         x.type = "Ready" => s.settings /\ s.headersDone /\ (e = "client" => accepted),
         x.type = "Draining" => s.drainEmitted,
         x.type = "Closed" => s.closed
  PROVE  Good(e, Push(s, x), l, accepted) /\ Story(Push(s, x), l) = Append(Story(s, l), x)
<1> DEFINE t == Push(s, x)
           h == Story(s, l)
<1>1. s \in Rec(e) /\ s.ev \in Seq(Event)
  BY DEF Good, Rec
<1> DEFINE v == Append(s.ev, x)
<1>2. v \in Seq(Event)
  BY <1>1, AppendProperties
<1>3. t = [s EXCEPT !.ev = v]
  BY DEF Push
<1> HIDE DEF v, t
<1>4. /\ t \in Rec(e) /\ t.ev = v /\ t.connectPending = s.connectPending
      /\ t.settings = s.settings /\ t.headersDone = s.headersDone /\ t.drainEmitted = s.drainEmitted
      /\ t.closed = s.closed /\ t.out = s.out /\ t.buf = s.buf /\ t.rx = s.rx
      /\ t.conn = s.conn /\ t.err = s.err
  BY <1>1, <1>2, <1>3 DEF Rec
<1>5. h \in Seq(Event) /\ Story(t, l) = Append(h, x)
  BY <1>1, <1>4, StoryJoins DEF Story, v
<1> HIDE DEF h
<1>6. /\ \A y : Told(Append(h, x), y) <=> Told(h, y) \/ x.type = y
      /\ Disciplined(h) /\ Next1(h, x) => Disciplined(Append(h, x))
  BY <1>5, StoryGrows
<1>7. Next1(h, x)
  BY DEF Next1, h
<1>8. Truthful(t, l)
  BY <1>4, <1>5, <1>6, <1>7 DEF Good, Truthful, h
<1>9. Agreed(e, t, l, accepted)
  BY <1>4, <1>5, <1>6 DEF Good, Agreed, Endpoint, h
<1>10. Good(e, t, l, accepted)
  BY <1>4, <1>8, <1>9 DEF Good, Reasoned
<1> QED
  BY <1>5, <1>10 DEF t, h

\* The codes the session itself uses.
LEMMA OwnCodes == {"zero", "h3_no_error", "h3_frame_error"} \subseteq Code
BY DEF Code

\* The events of the session itself.
LEMMA OwnEvents ==
  /\ \A t \in {"Ready", "Draining", "Error", "Rejected", "ServerClosed"} : Msg(t) \in Event /\ Msg(t).type = t
  /\ \A c \in Code : Coded("Closed", c) \in Event /\ Coded("Closed", c).type = "Closed"
BY DEF Event, Msg, Coded

\* mark_closed tells Closed, once.
LEMMA MarkClosedGood ==
  ASSUME NEW e \in Endpoint, NEW l \in Seq(Event), NEW accepted, NEW s, Good(e, s, l, accepted), NEW c \in Code
  PROVE  /\ Good(e, MarkClosed(s, c), l, accepted) /\ MarkClosed(s, c).closed
         /\ MarkClosed(s, c).settings = s.settings /\ MarkClosed(s, c).conn = s.conn
<1>0. s \in Rec(e)
  BY DEF Good
<1>1. CASE s.closed
  BY <1>1 DEF MarkClosed
<1>2. CASE ~s.closed
  <2> DEFINE none == <<>>
             t == [s EXCEPT !.closed = TRUE, !.rx = none]
             x == Coded("Closed", c)
  <2>1. MarkClosed(s, c) = Push(t, x)
    BY <1>2 DEF MarkClosed
  <2>2. none \in Seq(Sends(Peer(e))) /\ Len(none) = 0
    BY EmptySeq
  <2> HIDE DEF none
  <2>3. /\ t \in Rec(e) /\ t.connectPending = s.connectPending /\ t.ev = s.ev /\ t.closed
        /\ t.settings = s.settings /\ t.headersDone = s.headersDone /\ t.drainEmitted = s.drainEmitted
        /\ t.out = s.out /\ t.buf = s.buf /\ t.rx = none /\ t.conn = s.conn /\ t.err = s.err
    BY <1>0, <2>2 DEF Rec
  <2> HIDE DEF t
  <2>4. ~Holds200(t.rx)
    BY <2>2, <2>3 DEF Holds200, Contains
  <2>5. Good(e, t, l, accepted)
    BY <2>3, <2>4, SilentStep DEF Good, Reasoned
  <2>6. ~Told(Story(t, l), "Closed")
    BY <1>2, <2>3 DEF Good, Truthful, Story
  <2>7. x \in Event /\ x.type = "Closed"
    BY OwnEvents
  <2> HIDE DEF x
  <2>8. Good(e, Push(t, x), l, accepted)
    BY <2>3, <2>5, <2>6, <2>7, PushStep
  <2>9. Push(t, x).closed = t.closed /\ Push(t, x).settings = t.settings /\ Push(t, x).conn = t.conn
    BY <2>3 DEF Push, Rec
  <2> QED
    BY <2>1, <2>3, <2>8, <2>9
<1> QED
  BY <1>1, <1>2

\* An error may be told at any time.
LEMMA ErrorGood ==
  ASSUME NEW e \in Endpoint, NEW l \in Seq(Event), NEW accepted, NEW s, Good(e, s, l, accepted)
  PROVE  /\ Good(e, Push(s, Msg("Error")), l, accepted)
         /\ Push(s, Msg("Error")).settings = s.settings /\ Push(s, Msg("Error")).conn = s.conn
         /\ Push(s, Msg("Error")).closed = s.closed
<1> DEFINE x == Msg("Error")
<1>1. x \in Event /\ x.type = "Error"
  BY OwnEvents
<1>2. s \in Rec(e)
  BY DEF Good
<1> HIDE DEF x
<1>3. Good(e, Push(s, x), l, accepted)
  BY <1>1, PushStep
<1>4. Push(s, x).settings = s.settings /\ Push(s, x).conn = s.conn /\ Push(s, x).closed = s.closed
  BY <1>2 DEF Push, Rec
<1> QED
  BY <1>3, <1>4 DEF x

\* Closing the connection tells nothing.
LEMMA ConnCloseGood ==
  ASSUME NEW e \in Endpoint, NEW l \in Seq(Event), NEW accepted, NEW s, Good(e, s, l, accepted), NEW c \in Code
  PROVE  /\ Good(e, ConnClose(s, c), l, accepted)
         /\ ConnClose(s, c).settings = s.settings /\ ConnClose(s, c).closed = s.closed
         /\ ConnClose(s, c).ev = s.ev
<1> DEFINE t == ConnClose(s, c)
<1>0. s \in Rec(e) /\ Reasoned(s) /\ (s.connectPending => e = "client")
  BY DEF Good
<1>1. CASE s.conn # "open"
  <2>1. t = s
    BY <1>1 DEF ConnClose
  <2> QED
    BY <2>1
<1>2. CASE s.conn = "open"
  <2>1. t = [s EXCEPT !.conn = "closing", !.err = c]
    BY <1>2 DEF ConnClose
  <2> HIDE DEF t
  <2>2. t \in Rec(e) /\ Same(s, t) /\ t.connectPending = s.connectPending
        /\ t.out = s.out /\ t.buf = s.buf /\ t.rx = s.rx /\ t.conn = "closing" /\ t.err = c
    BY <1>0, <2>1 DEF Rec, Same
  <2>3. Good(e, t, l, accepted)
    BY <1>0, <2>2, SilentStep DEF Same, Reasoned
  <2> QED
    BY <2>2, <2>3 DEF t, Same
<1> QED
  BY <1>1, <1>2

\* A sequence of frames that grows, is cut or is joined holds 200 only if its parts do.
LEMMA FramesHold ==
  ASSUME NEW e \in Endpoint, NEW u \in Seq(Sends(e)), NEW v \in Seq(Sends(e)), NEW x \in Sends(e)
  PROVE  /\ Append(u, x) \in Seq(Sends(e)) /\ u \o v \in Seq(Sends(e))
         /\ Holds200(Append(u, x)) => Holds200(u) \/ x = Msg("200")
         /\ Holds200(u \o v) => Holds200(u) \/ Holds200(v)
<1> DEFINE S == Sends(e)
           y == Msg("200")
<1>1. /\ Append(u, x) \in Seq(S) /\ Len(Append(u, x)) = Len(u) + 1 /\ Len(u) \in Nat /\ Len(v) \in Nat
      /\ \A i \in 1 .. Len(u) : Append(u, x)[i] = u[i]
      /\ Append(u, x)[Len(u) + 1] = x
  <2> HIDE DEF S
  <2> QED
    BY AppendProperties, LenProperties DEF S
<1>2. /\ u \o v \in Seq(S) /\ Len(u \o v) = Len(u) + Len(v)
      /\ \A i \in 1 .. Len(u) + Len(v) : (u \o v)[i] = IF i <= Len(u) THEN u[i] ELSE v[i - Len(u)]
  <2> HIDE DEF S
  <2> QED
    BY ConcatProperties DEF S
<1> HIDE DEF y
<1>3. ASSUME NEW i \in 1 .. Len(u) + 1, Append(u, x)[i] = y PROVE Contains(u, y) \/ x = y
  <2>1. i \in 1 .. Len(u) \/ i = Len(u) + 1
    BY <1>1
  <2> QED
    BY <1>1, <1>3, <2>1 DEF Contains
<1>4. ASSUME NEW i \in 1 .. Len(u) + Len(v), (u \o v)[i] = y PROVE Contains(u, y) \/ Contains(v, y)
  <2>1. CASE i <= Len(u)
    BY <1>1, <1>2, <1>4, <2>1 DEF Contains
  <2>2. CASE ~(i <= Len(u))
    <3>1. i - Len(u) \in 1 .. Len(v) /\ v[i - Len(u)] = y
      BY <1>1, <1>2, <1>4, <2>2
    <3> QED
      BY <3>1 DEF Contains
  <2> QED
    BY <2>1, <2>2
<1>5. Contains(Append(u, x), y) => Contains(u, y) \/ x = y
  BY <1>1, <1>3 DEF Contains
<1>6. Contains(u \o v, y) => Contains(u, y) \/ Contains(v, y)
  BY <1>2, <1>4 DEF Contains
<1> QED
  BY <1>1, <1>2, <1>5, <1>6 DEF Holds200, y

\* So does a part of one.
LEMMA FramesCut ==
  ASSUME NEW e \in Endpoint, NEW u \in Seq(Sends(e)), NEW m \in Nat \ {0}, NEW n \in Int, n <= Len(u)
  PROVE  SubSeq(u, m, n) \in Seq(Sends(e)) /\ (Holds200(SubSeq(u, m, n)) => Holds200(u))
<1> DEFINE S == Sends(e)
           y == Msg("200")
           w == SubSeq(u, m, n)
<1>1. Len(u) \in Nat /\ \A i \in 1 .. Len(u) : u[i] \in S
  BY LenProperties
<1>2. \A i \in m .. n : u[i] \in S
  BY <1>1
<1>3. /\ w \in Seq(S)
      /\ Len(w) = IF m <= n THEN n - m + 1 ELSE 0
      /\ \A i \in 1 .. n - m + 1 : w[i] = u[m + i - 1]
  <2> HIDE DEF S
  <2> QED
    BY <1>2, SubSeqProperties
<1> HIDE DEF y, w
<1>4. ASSUME NEW i \in 1 .. Len(w), w[i] = y PROVE Contains(u, y)
  <2>1. i \in 1 .. n - m + 1 /\ m + i - 1 \in 1 .. Len(u)
    BY <1>1, <1>3
  <2>2. u[m + i - 1] = y
    BY <1>3, <1>4, <2>1
  <2> QED
    BY <2>1, <2>2 DEF Contains
<1> QED
  BY <1>3, <1>4 DEF Holds200, Contains, w, y

-----------------------------------------------------------------------------
(* Each operator on the session keeps it good; the ones that tell nothing first. *)

\* The control streams of an established connection.
LEMMA OnEstablishedGood ==
  ASSUME NEW e \in Endpoint, NEW l, NEW accepted, NEW s, Good(e, s, l, accepted)
  PROVE  Good(e, OnEstablished(s, e), l, accepted)
<1> DEFINE t == OnEstablished(s, e)
           b == (e = "client")
<1>0. s \in Rec(e) /\ Reasoned(s)
  BY DEF Good
<1>1. CASE ~s.est \/ s.setup
  BY <1>1 DEF OnEstablished
<1>2. CASE ~(~s.est \/ s.setup)
  <2>1. t = [s EXCEPT !.setup = TRUE, !.ctlOut = TRUE, !.connectPending = b]
    BY <1>2 DEF OnEstablished
  <2>2. b \in BOOLEAN
    OBVIOUS
  <2> HIDE DEF t, b
  <2>3. t \in Rec(e) /\ Same(s, t) /\ t.connectPending = b
        /\ t.out = s.out /\ t.buf = s.buf /\ t.rx = s.rx /\ t.conn = s.conn /\ t.err = s.err
    BY <1>0, <2>1, <2>2 DEF Rec, Same
  <2>4. t.connectPending => e = "client"
    BY <2>3 DEF b
  <2>5. Good(e, t, l, accepted)
    BY <1>0, <2>3, <2>4, SilentStep DEF Same, Reasoned
  <2> QED
    BY <2>5 DEF t
<1> QED
  BY <1>1, <1>2

\* What an endpoint sends of its own accord is one of its frames, and is not 200.
LEMMA OwnFrames ==
  ASSUME NEW e \in Endpoint
  PROVE  /\ \A t \in {"DRAIN", "FIN"} : Msg(t) \in Sends(e) /\ Msg(t) # Msg("200")
         /\ \A c \in Code : Coded("CLOSE", c) \in Sends(e) /\ Coded("CLOSE", c) # Msg("200")
         /\ e = "client" => Msg("CONNECT") \in Sends(e) /\ Msg("CONNECT") # Msg("200")
         /\ e = "server" => Msg("200") \in Sends(e) /\ Msg("403") \in Sends(e) /\ Msg("403") # Msg("200")
BY DEF Sends, Msg, Coded, Endpoint

\* send_drain
LEMMA SendDrainGood ==
  ASSUME NEW e \in Endpoint, NEW l, NEW accepted, NEW s, Good(e, s, l, accepted)
  PROVE  Good(e, SendDrain(s), l, accepted) /\ SendDrain(s).ev = s.ev
<1> DEFINE t == SendDrain(s)
           x == Msg("DRAIN")
           o == Append(s.out, x)
<1>0. s \in Rec(e) /\ Reasoned(s) /\ (s.connectPending => e = "client")
  BY DEF Good
<1>1. CASE s.closed \/ s.drainSent \/ ~s.connect
  BY <1>1 DEF SendDrain
<1>2. CASE ~(s.closed \/ s.drainSent \/ ~s.connect)
  <2>1. t = [s EXCEPT !.out = o, !.drainSent = TRUE]
    BY <1>2 DEF SendDrain
  <2>2. x \in Sends(e) /\ x # Msg("200") /\ s.out \in Seq(Sends(e))
    BY <1>0, OwnFrames DEF Rec
  <2> HIDE DEF x
  <2>3. o \in Seq(Sends(e)) /\ (Holds200(o) => Holds200(s.out))
    BY <2>2, FramesHold
  <2> HIDE DEF t, o
  <2>4. t \in Rec(e) /\ Same(s, t) /\ t.connectPending = s.connectPending
        /\ t.out = o /\ t.buf = s.buf /\ t.rx = s.rx /\ t.conn = s.conn /\ t.err = s.err
    BY <1>0, <2>1, <2>3 DEF Rec, Same
  <2>5. Good(e, t, l, accepted)
    BY <1>0, <2>3, <2>4, SilentStep DEF Same, Reasoned
  <2> QED
    BY <2>4, <2>5 DEF t, Same
<1> QED
  BY <1>1, <1>2

\* request_close
LEMMA RequestCloseGood ==
  ASSUME NEW e \in Endpoint, NEW l, NEW accepted, NEW s, Good(e, s, l, accepted), NEW c \in Code \cup {"none"}
  PROVE  Good(e, RequestClose(s, c), l, accepted) /\ RequestClose(s, c).ev = s.ev
<1> DEFINE t == RequestClose(s, c)
<1>0. s \in Rec(e) /\ Reasoned(s) /\ (s.connectPending => e = "client")
  BY DEF Good
<1>1. CASE s.closeReq # "none"
  BY <1>1 DEF RequestClose
<1>2. CASE s.closeReq = "none"
  <2>1. t = [s EXCEPT !.closeReq = c]
    BY <1>2 DEF RequestClose
  <2> HIDE DEF t
  <2>4. t \in Rec(e) /\ Same(s, t) /\ t.connectPending = s.connectPending
        /\ t.out = s.out /\ t.buf = s.buf /\ t.rx = s.rx /\ t.conn = s.conn /\ t.err = s.err
    BY <1>0, <2>1 DEF Rec, Same
  <2>5. Good(e, t, l, accepted)
    BY <1>0, <2>4, SilentStep DEF Same, Reasoned
  <2> QED
    BY <2>4, <2>5 DEF t, Same
<1> QED
  BY <1>1, <1>2

\* A queued close becomes a CLOSE capsule, or a wish to close the connection.
LEMMA QueueCloseGood ==
  ASSUME NEW e \in Endpoint, NEW l, NEW accepted, NEW s, Good(e, s, l, accepted)
  PROVE  Good(e, QueueClose(s), l, accepted)
<1> DEFINE t == QueueClose(s)
<1>0. s \in Rec(e) /\ Reasoned(s) /\ (s.connectPending => e = "client")
  BY DEF Good
<1>1. CASE s.closeReq = "none" \/ s.capsuleQueued
  BY <1>1 DEF QueueClose
<1>2. CASE ~(s.closeReq = "none" \/ s.capsuleQueued) /\ s.connect
  <2> DEFINE x == Coded("CLOSE", s.closeReq)
             o == Append(s.out, x)
  <2>1. t = [s EXCEPT !.capsuleQueued = TRUE, !.finQueued = TRUE, !.out = o]
    BY <1>2 DEF QueueClose
  <2>2. s.closeReq \in Code /\ s.out \in Seq(Sends(e))
    BY <1>0, <1>2 DEF Rec
  <2>3. x \in Sends(e) /\ x # Msg("200")
    BY <2>2, OwnFrames
  <2> HIDE DEF x
  <2>4. o \in Seq(Sends(e)) /\ (Holds200(o) => Holds200(s.out))
    BY <2>2, <2>3, FramesHold
  <2> HIDE DEF t, o
  <2>5. t \in Rec(e) /\ Same(s, t) /\ t.connectPending = s.connectPending
        /\ t.out = o /\ t.buf = s.buf /\ t.rx = s.rx /\ t.conn = s.conn /\ t.err = s.err
    BY <1>0, <2>1, <2>4 DEF Rec, Same
  <2>6. Good(e, t, l, accepted)
    BY <1>0, <2>4, <2>5, SilentStep DEF Same, Reasoned
  <2> QED
    BY <2>6 DEF t
<1>3. CASE ~(s.closeReq = "none" \/ s.capsuleQueued) /\ ~s.connect
  <2>1. t = [s EXCEPT !.capsuleQueued = TRUE, !.want = TRUE]
    BY <1>3 DEF QueueClose
  <2> HIDE DEF t
  <2>2. t \in Rec(e) /\ Same(s, t) /\ t.connectPending = s.connectPending
        /\ t.out = s.out /\ t.buf = s.buf /\ t.rx = s.rx /\ t.conn = s.conn /\ t.err = s.err
    BY <1>0, <2>1 DEF Rec, Same
  <2>3. Good(e, t, l, accepted)
    BY <1>0, <2>2, SilentStep DEF Same, Reasoned
  <2> QED
    BY <2>3 DEF t
<1> QED
  BY <1>1, <1>2, <1>3

\* The graceful close of the connection, deferred by one pass.
LEMMA GracefulCloseGood ==
  ASSUME NEW e \in Endpoint, NEW l \in Seq(Event), NEW accepted, NEW s, Good(e, s, l, accepted)
  PROVE  Good(e, GracefulClose(s), l, accepted)
<1> DEFINE w == s.want \/ (s.capsuleQueued /\ ConnectDrained(s))
           u == [s EXCEPT !.want = FALSE, !.issued = TRUE]
           v == [s EXCEPT !.want = TRUE, !.deferred = TRUE]
<1>0. s \in Rec(e) /\ Reasoned(s) /\ (s.connectPending => e = "client")
  BY DEF Good
<1>1. /\ u \in Rec(e) /\ Same(s, u) /\ u.connectPending = s.connectPending
      /\ u.out = s.out /\ u.buf = s.buf /\ u.rx = s.rx /\ u.conn = s.conn /\ u.err = s.err
  <2>1. u \in Rec(e)
    BY <1>0 DEF Rec
  <2>2. /\ Same(s, u) /\ u.connectPending = s.connectPending
        /\ u.out = s.out /\ u.buf = s.buf /\ u.rx = s.rx /\ u.conn = s.conn /\ u.err = s.err
    BY <1>0 DEF Rec, Same
  <2> QED
    BY <2>1, <2>2
<1>2. /\ v \in Rec(e) /\ Same(s, v) /\ v.connectPending = s.connectPending
      /\ v.out = s.out /\ v.buf = s.buf /\ v.rx = s.rx /\ v.conn = s.conn /\ v.err = s.err
  <2>1. v \in Rec(e)
    BY <1>0 DEF Rec
  <2>2. /\ Same(s, v) /\ v.connectPending = s.connectPending
        /\ v.out = s.out /\ v.buf = s.buf /\ v.rx = s.rx /\ v.conn = s.conn /\ v.err = s.err
    BY <1>0 DEF Rec, Same
  <2> QED
    BY <2>1, <2>2
<1>3. \/ GracefulClose(s) = s
      \/ GracefulClose(s) = ConnClose(u, "h3_no_error")
      \/ GracefulClose(s) = v
  <2> HIDE DEF u, v, w
  <2> QED
    BY DEF GracefulClose, w, u, v
<1> HIDE DEF u, v, w
<1>4. Good(e, u, l, accepted)
  BY <1>0, <1>1, SilentStep DEF Same, Reasoned
<1>5. Good(e, v, l, accepted)
  BY <1>0, <1>2, SilentStep DEF Same, Reasoned
<1>6. Good(e, ConnClose(u, "h3_no_error"), l, accepted)
  BY <1>4, OwnCodes, ConnCloseGood
<1> QED
  BY <1>3, <1>5, <1>6

\* flush_stream moves frames from the session's queue to QUIC's.
LEMMA FlushStreamsGood ==
  ASSUME NEW e \in Endpoint, NEW l, NEW accepted, NEW s, Good(e, s, l, accepted), NEW held \in Nat
  PROVE  Good(e, FlushStreams(s, held), l, accepted)
<1> DEFINE t == FlushStreams(s, held)
           n == Accepted(s, held)
           b == s.ctlBuf \/ s.ctlOut
           o == SubSeq(s.out, n + 1, Len(s.out))
           g == SubSeq(s.out, 1, n)
           f == s.buf \o g
           u == [s EXCEPT !.ctlBuf = b, !.ctlOut = FALSE, !.buf = f, !.out = o]
<1>0. s \in Rec(e) /\ Reasoned(s) /\ (s.connectPending => e = "client")
  BY DEF Good
<1>1. s.out \in Seq(Sends(e)) /\ s.buf \in Seq(Sends(e)) /\ s.ctlBuf \in BOOLEAN /\ s.ctlOut \in BOOLEAN
  BY <1>0 DEF Rec
<1>2. Len(s.out) \in Nat
  BY <1>1, LenProperties
<1>3. n \in 0 .. Len(s.out)
  BY <1>2 DEF Accepted
<1>4. b \in BOOLEAN
  BY <1>1
<1>5. CASE ~s.est
  BY <1>5 DEF FlushStreams
<1>6. CASE s.est
  <2>1. t = IF u.out = <<>> /\ u.finQueued /\ ~u.finSent
            THEN [u EXCEPT !.buf = Append(@, Msg("FIN")), !.finSent = TRUE] ELSE u
    BY <1>6 DEF FlushStreams
  <2> HIDE DEF n
  <2>2. o \in Seq(Sends(e)) /\ (Holds200(o) => Holds200(s.out))
    BY <1>1, <1>2, <1>3, FramesCut
  <2>3. g \in Seq(Sends(e)) /\ (Holds200(g) => Holds200(s.out))
    BY <1>1, <1>2, <1>3, FramesCut
  <2> HIDE DEF o, g, b
  <2> DEFINE x == Msg("FIN")
             d == Append(f, x)
  <2>4. x \in Sends(e) /\ x # Msg("200")
    BY OwnFrames
  <2>5. f \in Seq(Sends(e)) /\ (Holds200(f) => Holds200(s.buf) \/ Holds200(s.out))
    BY <1>1, <2>3, <2>4, FramesHold
  <2> HIDE DEF f, x
  <2>6. d \in Seq(Sends(e)) /\ (Holds200(d) => Holds200(f))
    BY <2>4, <2>5, FramesHold
  <2> DEFINE u1 == [s EXCEPT !.ctlBuf = b, !.ctlOut = FALSE]
  <2>a. u = [u1 EXCEPT !.buf = f, !.out = o]
    BY <1>0 DEF Rec
  <2> HIDE DEF u
  <2>b. b \in BOOLEAN
    BY <1>4 DEF b
  <2>c. u1 \in Rec(e) /\ Same(s, u1) /\ u1.connectPending = s.connectPending
        /\ u1.out = s.out /\ u1.buf = s.buf /\ u1.rx = s.rx /\ u1.conn = s.conn /\ u1.err = s.err
    <3>1. u1 \in Rec(e)
      BY <1>0, <2>b DEF Rec
    <3>2. Same(s, u1)
      BY <1>0 DEF Rec, Same
    <3> QED
      BY <1>0, <3>1, <3>2 DEF Rec
  <2> HIDE DEF u1
  <2>d. u \in Rec(e) /\ Same(u1, u) /\ u.connectPending = u1.connectPending
        /\ u.out = o /\ u.buf = f /\ u.rx = u1.rx /\ u.conn = u1.conn /\ u.err = u1.err
    BY <2>a, <2>c, <2>2, <2>5 DEF Rec, Same
  <2>7. u \in Rec(e) /\ Same(s, u) /\ u.connectPending = s.connectPending
        /\ u.out = o /\ u.buf = f /\ u.rx = s.rx /\ u.conn = s.conn /\ u.err = s.err
    BY <2>c, <2>d DEF Same
  <2>8. Good(e, u, l, accepted)
    BY <1>0, <2>2, <2>5, <2>7, SilentStep DEF Same, Reasoned
  <2> DEFINE v == [u EXCEPT !.buf = d, !.finSent = TRUE]
  <2>9. t = u \/ t = v
    BY <2>1, <2>7 DEF x
  <2> HIDE DEF t, d
  <2>10. v \in Rec(e) /\ Same(u, v) /\ v.connectPending = u.connectPending
        /\ v.out = u.out /\ v.buf = d /\ v.rx = u.rx /\ v.conn = u.conn /\ v.err = u.err
    BY <2>6, <2>7 DEF Rec, Same
  <2> HIDE DEF v
  <2>11. Good(e, v, l, accepted)
    BY <1>0, <2>6, <2>7, <2>8, <2>10, SilentStep DEF Same, Reasoned
  <2> QED
    BY <2>8, <2>9, <2>11 DEF t
<1> QED
  BY <1>5, <1>6

\* flush: queue a close, hand frames to QUIC, close gracefully.
LEMMA FlushGood ==
  ASSUME NEW e \in Endpoint, NEW l \in Seq(Event), NEW accepted, NEW s, Good(e, s, l, accepted), NEW held \in Nat
  PROVE  Good(e, Flush(s, held), l, accepted)
BY QueueCloseGood, FlushStreamsGood, GracefulCloseGood DEF Flush

\* The server closes the connection of a session that ended.
LEMMA CloseEndedGood ==
  ASSUME NEW e \in Endpoint, NEW l \in Seq(Event), NEW accepted, NEW s, Good(e, s, l, accepted)
  PROVE  Good(e, CloseEnded(s, e), l, accepted)
BY ConnCloseGood, OwnCodes DEF CloseEnded

\* flush_send, as far as the endpoint's own record goes.
LEMMA AfterSendGood ==
  ASSUME NEW e \in Endpoint, NEW l, NEW accepted, NEW s, Good(e, s, l, accepted), NEW held \in Nat
  PROVE  /\ Good(e, AfterSend(s, held), l, accepted)
         /\ SerializedFrames(s, held) \in Seq(Sends(e))
         /\ Holds200(SerializedFrames(s, held)) => Holds200(s.buf)
         /\ AfterSend(s, held).ev = s.ev
<1> DEFINE t == AfterSend(s, held)
           z == SerializedFrames(s, held)
           none == <<>>
           g == SubSeq(s.buf, Len(z) + 1, Len(s.buf))
<1>0. s \in Rec(e) /\ Reasoned(s) /\ (s.connectPending => e = "client")
  BY DEF Good
<1>1. s.buf \in Seq(Sends(e)) /\ Len(s.buf) \in Nat
  BY <1>0, LenProperties DEF Rec
<1>2. none \in Seq(Sends(e)) /\ Len(none) = 0
  BY EmptySeq
<1>3. ~Holds200(none)
  <2> HIDE DEF none
  <2> QED
    BY <1>2 DEF Holds200, Contains
<1>4. z \in Seq(Sends(e)) /\ (Holds200(z) => Holds200(s.buf))
  <2>1. CASE s.conn = "open" /\ held <= Len(s.buf)
    <3>1. Len(s.buf) - held \in Int /\ Len(s.buf) - held <= Len(s.buf)
      BY <1>1
    <3>2. z = SubSeq(s.buf, 1, Len(s.buf) - held)
      BY <2>1 DEF SerializedFrames
    <3> QED
      BY <1>1, <3>1, <3>2, FramesCut
  <2>2. CASE ~(s.conn = "open" /\ held <= Len(s.buf))
    <3>1. z = none
      BY <2>2 DEF SerializedFrames
    <3> HIDE DEF none, z
    <3> QED
      BY <1>2, <1>3, <3>1
  <2> QED
    BY <2>1, <2>2
<1> HIDE DEF none
<1>5. CASE s.conn = "open"
  <2>1. t = [s EXCEPT !.buf = g, !.ctlBuf = FALSE]
    BY <1>5 DEF AfterSend
  <2> HIDE DEF z, t
  <2>2. Len(z) \in Nat
    BY <1>4, LenProperties
  <2>3. g \in Seq(Sends(e)) /\ (Holds200(g) => Holds200(s.buf))
    BY <1>1, <2>2, FramesCut
  <2> HIDE DEF g
  <2>4. t \in Rec(e) /\ Same(s, t) /\ t.connectPending = s.connectPending
        /\ t.out = s.out /\ t.buf = g /\ t.rx = s.rx /\ t.conn = s.conn /\ t.err = s.err
    BY <1>0, <2>1, <2>3 DEF Rec, Same
  <2>5. Good(e, t, l, accepted)
    BY <1>0, <2>3, <2>4, SilentStep DEF Same, Reasoned
  <2> QED
    BY <1>4, <2>4, <2>5 DEF t, z, Same
<1>6. CASE s.conn # "open"
  <2>1. t = [s EXCEPT !.ccSent = TRUE]
    BY <1>6 DEF AfterSend
  <2> HIDE DEF z, t
  <2>4. t \in Rec(e) /\ Same(s, t) /\ t.connectPending = s.connectPending
        /\ t.out = s.out /\ t.buf = s.buf /\ t.rx = s.rx /\ t.conn = s.conn /\ t.err = s.err
    BY <1>0, <2>1 DEF Rec, Same
  <2>5. Good(e, t, l, accepted)
    BY <1>0, <2>4, SilentStep DEF Same, Reasoned
  <2> QED
    BY <1>4, <2>4, <2>5 DEF t, z, Same
<1> QED
  BY <1>5, <1>6

\* The terminal branch ends the session it finds open, with a code it has.
LEMMA TerminalGood ==
  ASSUME NEW e \in Endpoint, NEW l \in Seq(Event), NEW accepted, NEW s, Good(e, s, l, accepted)
  PROVE  Good(e, Terminal(s), l, accepted)
<1> DEFINE u == IF s.closed THEN s
                 ELSE IF s.closeReq # "none" THEN MarkClosed(s, s.closeReq)
                 ELSE IF s.err = "timeout" THEN MarkClosed(Push(s, Msg("Error")), "zero")
                 ELSE MarkClosed(s, s.err)
           t == [u EXCEPT !.alive = FALSE]
<1>0. s \in Rec(e) /\ Reasoned(s)
  BY DEF Good
<1>1. CASE s.conn # "closed"
  BY <1>1 DEF Terminal
<1>2. CASE s.conn = "closed"
  <2>1. Terminal(s) = t
    BY <1>2 DEF Terminal
  <2>2. Good(e, u, l, accepted)
    <3>1. s.closeReq # "none" => s.closeReq \in Code
      BY <1>0 DEF Rec
    <3>2. s.err # "timeout" => s.err \in Code
      BY <1>0, <1>2 DEF Reasoned
    <3>3. Good(e, Push(s, Msg("Error")), l, accepted) /\ "zero" \in Code
      BY ErrorGood, OwnCodes
    <3>4. CASE s.closed
      BY <3>4
    <3>5. CASE ~s.closed /\ s.closeReq # "none"
      BY <3>1, <3>5, MarkClosedGood
    <3>6. CASE ~s.closed /\ s.closeReq = "none" /\ s.err = "timeout"
      BY <3>3, <3>6, MarkClosedGood
    <3>7. CASE ~s.closed /\ s.closeReq = "none" /\ s.err # "timeout"
      BY <3>2, <3>7, MarkClosedGood
    <3> QED
      BY <3>4, <3>5, <3>6, <3>7
  <2> HIDE DEF u
  <2>3. u \in Rec(e) /\ Reasoned(u) /\ (u.connectPending => e = "client")
    BY <2>2 DEF Good
  <2>4. t \in Rec(e) /\ Same(u, t) /\ t.connectPending = u.connectPending
        /\ t.out = u.out /\ t.buf = u.buf /\ t.rx = u.rx /\ t.conn = u.conn /\ t.err = u.err
    BY <2>3 DEF Rec, Same
  <2> HIDE DEF t
  <2>5. Good(e, t, l, accepted)
    BY <2>2, <2>3, <2>4, SilentStep DEF Same, Reasoned
  <2> QED
    BY <2>1, <2>5
<1> QED
  BY <1>1, <1>2

\* What the network and the timers do to the connection.
LEMMA ReceiveGood ==
  ASSUME NEW e \in Endpoint, NEW l \in Seq(Event), NEW accepted, NEW s, Good(e, s, l, accepted),
         NEW closeArrives \in BOOLEAN, closeArrives => cc[Peer(e)] \in Code,
         NEW timer, timer = "drain" => s.conn \in {"draining", "closing"}
  PROVE  Good(e, Receive(s, e, closeArrives, timer), l, accepted)
<1> DEFINE c == cc[Peer(e)]
           u == IF closeArrives THEN [s EXCEPT !.conn = "draining", !.err = c] ELSE s
           v == [u EXCEPT !.conn = "closed"]
           w == [u EXCEPT !.conn = "closed", !.err = "timeout"]
<1>0. s \in Rec(e) /\ Reasoned(s) /\ (s.connectPending => e = "client")
  BY DEF Good
<1>1. u \in Rec(e) /\ Same(s, u) /\ u.connectPending = s.connectPending
      /\ u.out = s.out /\ u.buf = s.buf /\ u.rx = s.rx
      /\ (IF closeArrives THEN u.conn = "draining" /\ u.err = c ELSE u.conn = s.conn /\ u.err = s.err)
  <2> HIDE DEF c
  <2>1. CASE closeArrives
    <3>1. u = [s EXCEPT !.conn = "draining", !.err = c]
      BY <2>1
    <3> HIDE DEF u
    <3>2. c \in Code
      BY <2>1 DEF c
    <3> QED
      BY <1>0, <2>1, <3>1, <3>2 DEF Rec, Same
  <2>2. CASE ~closeArrives
    BY <1>0, <2>2 DEF Same
  <2> QED
    BY <2>1, <2>2
<1>2. /\ Receive(s, e, closeArrives, timer) = IF timer = "drain" THEN v ELSE IF timer = "idle" THEN w
                                              ELSE IF timer = "error" THEN Push(u, Msg("Error")) ELSE u
  <2> HIDE DEF u, v, w
  <2> QED
    BY DEF Receive, u, v, w
<1> HIDE DEF c, u
<1>3. Good(e, u, l, accepted)
  <2>1. Reasoned(u)
    BY <1>0, <1>1 DEF Reasoned, c
  <2> QED
    BY <1>0, <1>1, <2>1, SilentStep DEF Same
<1>4. CASE timer = "drain"
  <2>1. v \in Rec(e) /\ Same(u, v) /\ v.connectPending = u.connectPending
        /\ v.out = u.out /\ v.buf = u.buf /\ v.rx = u.rx /\ v.conn = "closed" /\ v.err = u.err
    BY <1>1 DEF Rec, Same
  <2> HIDE DEF v
  <2>2. u.err \in Code
    BY <1>0, <1>1, <1>4 DEF Reasoned, c
  <2>3. Good(e, v, l, accepted)
    BY <1>0, <1>1, <1>3, <2>1, <2>2, SilentStep DEF Same, Reasoned
  <2> QED
    BY <1>2, <1>4, <2>3
<1>5. CASE timer = "idle"
  <2>1. w \in Rec(e) /\ Same(u, w) /\ w.connectPending = u.connectPending
        /\ w.out = u.out /\ w.buf = u.buf /\ w.rx = u.rx /\ w.conn = "closed" /\ w.err = "timeout"
    BY <1>1 DEF Rec, Same
  <2> HIDE DEF w
  <2>3. Good(e, w, l, accepted)
    BY <1>0, <1>1, <1>3, <2>1, SilentStep DEF Same, Reasoned
  <2> QED
    BY <1>2, <1>5, <2>3
<1>6. CASE timer \notin {"drain", "idle"}
  <2>1. Good(e, Push(u, Msg("Error")), l, accepted)
    BY <1>3, ErrorGood
  <2> QED
    BY <1>2, <1>3, <1>6, <2>1
<1> QED
  BY <1>4, <1>5, <1>6

\* The network's share of an iteration.
LEMMA WokenGood ==
  ASSUME NEW e \in Endpoint, NEW l \in Seq(Event), NEW accepted, Good(e, ep[e], l, accepted),
         NEW closeArrives \in BOOLEAN, closeArrives => cc[Peer(e)] \in Code,
         NEW timer, timer = "drain" => ep[e].conn \in {"draining", "closing"},
         NEW handshake
  PROVE  Good(e, Woken(e, closeArrives, timer, handshake), l, accepted)
<1> DEFINE s == ep[e]
           b == ep[e].est \/ (handshake /\ pathUp /\ (e = "server" => ep["client"].est))
           t == [s EXCEPT !.est = b]
<1>0. s \in Rec(e) /\ Reasoned(s) /\ (s.connectPending => e = "client")
  BY DEF Good
<1>1. b \in BOOLEAN
  BY Zenon
<1>2. Woken(e, closeArrives, timer, handshake) = Receive(t, e, closeArrives, timer)
  BY Zenon DEF Woken
<1> HIDE DEF b, s
<1>3. t \in Rec(e) /\ Same(s, t) /\ t.connectPending = s.connectPending
      /\ t.out = s.out /\ t.buf = s.buf /\ t.rx = s.rx /\ t.conn = s.conn /\ t.err = s.err
  BY <1>0, <1>1 DEF Rec, Same
<1> HIDE DEF t
<1>4. Good(e, s, l, accepted) /\ (timer = "drain" => s.conn \in {"draining", "closing"})
  BY DEF s
<1>5. Good(e, t, l, accepted)
  BY <1>0, <1>3, <1>4, SilentStep DEF Same, Reasoned
<1> QED
  BY <1>2, <1>3, <1>4, <1>5, ReceiveGood

-----------------------------------------------------------------------------
(* Reading the CONNECT stream. *)

\* accept_connect tells Ready and only then answers 200.
LEMMA AcceptConnectGood ==
  ASSUME NEW e \in Endpoint, NEW l \in Seq(Event), NEW accepted, NEW s, Good(e, s, l, accepted),
         e = "server", s.settings, s.headersDone, ~s.closed, ~Told(Story(s, l), "Ready")
  PROVE  Good(e, AcceptConnect(s), l, accepted) /\ AcceptConnect(s).settings = s.settings
<1> DEFINE x == Msg("Ready")
           y == Msg("200")
           o == Append(s.out, y)
           u == Push(s, x)
           t == [u EXCEPT !.out = o, !.ready = TRUE]
           v == Append(s.ev, x)
<1>0. s \in Rec(e) /\ Reasoned(s) /\ (s.connectPending => e = "client")
  BY DEF Good
<1>1. x \in Event /\ x.type = "Ready"
  BY OwnEvents
<1>2. ~Told(Story(s, l), "Closed")
  BY DEF Good, Truthful
<1> HIDE DEF x
<1>3. Good(e, u, l, accepted) /\ Story(u, l) = Append(Story(s, l), x)
  BY <1>1, <1>2, PushStep
<1>4. u.out = s.out /\ u.settings = s.settings
  BY <1>0 DEF Push, Rec
<1>5. y \in Sends(e) /\ s.out \in Seq(Sends(e)) /\ s.ev \in Seq(Event)
  BY <1>0, OwnFrames DEF Rec
<1> HIDE DEF y
<1>6. o \in Seq(Sends(e))
  BY <1>5, FramesHold
<1>7. Told(Story(u, l), "Ready")
  <2>1. Story(s, l) \in Seq(Event)
    BY <1>5, StoryJoins, <1>1 DEF Story
  <2>2. Told(Append(Story(s, l), x), "Ready")
    <3> DEFINE h == Story(s, l)
    <3> HIDE DEF h
    <3>1. \A z : Told(Append(h, x), z) <=> Told(h, z) \/ x.type = z
      BY <1>1, <2>1, StoryGrows DEF h
    <3> QED
      BY <1>1, <3>1 DEF h
  <2> QED
    BY <1>3, <2>2
<1>8. AcceptConnect(s) = t
  <2> HIDE DEF o, v
  <2>1. AcceptConnect(s) = Push([s EXCEPT !.out = o, !.ready = TRUE], x)
    BY DEF AcceptConnect, x, y, o
  <2>2. Push([s EXCEPT !.out = o, !.ready = TRUE], x) = [[s EXCEPT !.out = o, !.ready = TRUE] EXCEPT !.ev = v]
    BY <1>0 DEF Push, Rec, v
  <2>3. t = [[s EXCEPT !.ev = v] EXCEPT !.out = o, !.ready = TRUE]
    BY DEF Push, v
  <2>4. [[s EXCEPT !.out = o, !.ready = TRUE] EXCEPT !.ev = v] = [[s EXCEPT !.ev = v] EXCEPT !.out = o, !.ready = TRUE]
    BY <1>0 DEF Rec
  <2> QED
    BY <2>1, <2>2, <2>3, <2>4
<1> HIDE DEF o, u
<1>9. u \in Rec(e) /\ Reasoned(u) /\ (u.connectPending => e = "client")
  BY <1>3 DEF Good
<1>10. t \in Rec(e) /\ Same(u, t) /\ t.connectPending = u.connectPending
       /\ t.out = o /\ t.buf = u.buf /\ t.rx = u.rx /\ t.conn = u.conn /\ t.err = u.err
  <2>1. t \in Rec(e)
    BY <1>6, <1>9 DEF Rec
  <2>2. /\ Same(u, t) /\ t.connectPending = u.connectPending
        /\ t.out = o /\ t.buf = u.buf /\ t.rx = u.rx /\ t.conn = u.conn /\ t.err = u.err
    BY <1>9 DEF Rec, Same
  <2> QED
    BY <2>1, <2>2
<1> HIDE DEF t
<1>11. Good(e, t, l, accepted)
  BY <1>3, <1>7, <1>9, <1>10, SilentStep DEF Same, Reasoned
<1> QED
  BY <1>4, <1>8, <1>10, <1>11 DEF Same

\* reject_connect
LEMMA RejectConnectGood ==
  ASSUME NEW e \in Endpoint, NEW l \in Seq(Event), NEW accepted, NEW s, Good(e, s, l, accepted), e = "server"
  PROVE  Good(e, RejectConnect(s), l, accepted) /\ RejectConnect(s).settings = s.settings
<1> DEFINE y == Msg("403")
           o == Append(s.out, y)
           t == [s EXCEPT !.out = o, !.finQueued = TRUE]
<1>0. s \in Rec(e) /\ Reasoned(s) /\ (s.connectPending => e = "client")
  BY DEF Good
<1>1. y \in Sends(e) /\ y # Msg("200") /\ s.out \in Seq(Sends(e))
  BY <1>0, OwnFrames DEF Rec
<1>a. RejectConnect(s) = MarkClosed(Push(t, Msg("Error")), "zero")
  BY DEF RejectConnect
<1> HIDE DEF y
<1>2. o \in Seq(Sends(e)) /\ (Holds200(o) => Holds200(s.out))
  BY <1>1, FramesHold
<1> HIDE DEF o
<1>3. t \in Rec(e) /\ Same(s, t) /\ t.connectPending = s.connectPending
      /\ t.out = o /\ t.buf = s.buf /\ t.rx = s.rx /\ t.conn = s.conn /\ t.err = s.err
  <2>1. t \in Rec(e)
    BY <1>0, <1>2 DEF Rec
  <2>2. /\ Same(s, t) /\ t.connectPending = s.connectPending
        /\ t.out = o /\ t.buf = s.buf /\ t.rx = s.rx /\ t.conn = s.conn /\ t.err = s.err
    BY <1>0 DEF Rec, Same
  <2> QED
    BY <2>1, <2>2
<1> HIDE DEF t
<1>4. Good(e, t, l, accepted)
  BY <1>0, <1>2, <1>3, SilentStep DEF Same, Reasoned
<1>5. Good(e, Push(t, Msg("Error")), l, accepted) /\ Push(t, Msg("Error")).settings = t.settings
  BY <1>4, ErrorGood
<1> QED
  BY <1>a, <1>3, <1>5, OwnCodes, MarkClosedGood DEF Same

\* The headers of a CONNECT or of its response.
LEMMA ParseHeadersGood ==
  ASSUME NEW e \in Endpoint, NEW l \in Seq(Event), NEW accepted, NEW s, Good(e, s, l, accepted),
         s.settings, s.headersDone, ~s.closed, ~Told(Story(s, l), "Ready"),
         NEW f \in Sends(Peer(e)), f.type \in Headers,
         f = Msg("200") => (e = "client" => accepted)
  PROVE  Good(e, ParseHeaders(s, f), l, accepted) /\ ParseHeaders(s, f).settings = s.settings
<1>0. s \in Rec(e) /\ Reasoned(s) /\ (s.connectPending => e = "client") /\ ~Told(Story(s, l), "Closed")
  BY DEF Good, Truthful
<1>1. CASE f.type = "200"
  <2>1. e = "client" /\ f = Msg("200")
    BY <1>1 DEF Sends, Peer, Endpoint, Msg, Coded
  <2> DEFINE x == Msg("Ready")
             u == [s EXCEPT !.ready = TRUE]
  <2>2. ParseHeaders(s, f) = IF s.ready THEN s ELSE Push(u, x)
    BY <1>1 DEF ParseHeaders
  <2>3. x \in Event /\ x.type = "Ready"
    BY OwnEvents
  <2> HIDE DEF x
  <2>4. u \in Rec(e) /\ Same(s, u) /\ u.connectPending = s.connectPending
        /\ u.out = s.out /\ u.buf = s.buf /\ u.rx = s.rx /\ u.conn = s.conn /\ u.err = s.err
    BY <1>0 DEF Rec, Same
  <2> HIDE DEF u
  <2>5. Good(e, u, l, accepted)
    BY <1>0, <2>4, SilentStep DEF Same, Reasoned
  <2>6. Story(u, l) = Story(s, l) /\ u.settings /\ u.headersDone
    BY <2>4 DEF Same, Story
  <2>7. Good(e, Push(u, x), l, accepted)
    BY <1>0, <2>1, <2>3, <2>5, <2>6, PushStep
  <2>8. Push(u, x).settings = u.settings
    BY <2>4 DEF Push, Rec
  <2> QED
    BY <2>2, <2>4, <2>7, <2>8 DEF Same
<1>2. CASE f.type = "403"
  <2> DEFINE x == Msg("Rejected")
             u == Push(s, x)
  <2>1. ParseHeaders(s, f) = ConnClose(MarkClosed(u, "zero"), "zero")
    BY <1>2 DEF ParseHeaders
  <2>2. x \in Event /\ x.type = "Rejected"
    BY OwnEvents
  <2> HIDE DEF x
  <2>3. Good(e, u, l, accepted)
    BY <1>0, <2>2, PushStep
  <2>4. u.settings = s.settings
    BY <1>0 DEF Push, Rec
  <2> HIDE DEF u
  <2>5. Good(e, MarkClosed(u, "zero"), l, accepted) /\ MarkClosed(u, "zero").settings = u.settings
    BY <2>3, OwnCodes, MarkClosedGood
  <2> DEFINE w == MarkClosed(u, "zero")
  <2> HIDE DEF w
  <2>6. Good(e, ConnClose(w, "zero"), l, accepted) /\ ConnClose(w, "zero").settings = w.settings
    BY <2>5, OwnCodes, ConnCloseGood DEF w
  <2>7. ParseHeaders(s, f) = ConnClose(w, "zero") /\ w.settings = s.settings
    BY <2>1, <2>4, <2>5 DEF w
  <2> QED
    BY <2>6, <2>7
<1>3. CASE f.type = "CONNECT"
  <2>0. f.type # "200" /\ f.type # "403"
    BY <1>3
  <2>1. e = "server"
    BY <1>3 DEF Sends, Peer, Endpoint, Msg, Coded
  <2>2. ParseHeaders(s, f) = IF env.answer # "reject" THEN AcceptConnect(s) ELSE RejectConnect(s)
    BY <2>0 DEF ParseHeaders
  <2>3. Good(e, AcceptConnect(s), l, accepted) /\ AcceptConnect(s).settings = s.settings
    BY <2>1, AcceptConnectGood
  <2>4. Good(e, RejectConnect(s), l, accepted) /\ RejectConnect(s).settings = s.settings
    BY <2>1, RejectConnectGood
  <2> QED
    BY <2>2, <2>3, <2>4
<1> QED
  BY <1>1, <1>2, <1>3 DEF Headers

\* One frame of the CONNECT stream.
LEMMA ParseConnectFrameGood ==
  ASSUME NEW e \in Endpoint, NEW l \in Seq(Event), NEW accepted, NEW s, Good(e, s, l, accepted),
         s.settings, NEW f \in Sends(Peer(e)), f = Msg("200") => (e = "client" => accepted)
  PROVE  Good(e, ParseConnectFrame(s, f), l, accepted) /\ ParseConnectFrame(s, f).settings
<1> DEFINE t == ParseConnectFrame(s, f)
<1>0. s \in Rec(e) /\ Reasoned(s) /\ (s.connectPending => e = "client")
  BY DEF Good
<1>1. CASE s.closed
  BY <1>1 DEF ParseConnectFrame
<1>2. CASE ~s.closed /\ f.type \in Headers
  <2> DEFINE u == [s EXCEPT !.headersDone = TRUE]
  <2>1. t = IF s.headersDone THEN s ELSE ParseHeaders(u, f)
    <3> DEFINE h == f.type \in Headers
               d == IF s.drainEmitted THEN s ELSE Push([s EXCEPT !.drainEmitted = TRUE], Msg("Draining"))
    <3>1. t = IF s.closed THEN s
              ELSE CASE h -> IF s.headersDone THEN s ELSE ParseHeaders(u, f)
                     [] f.type = "DRAIN" -> d
                     [] f.type = "CLOSE" -> MarkClosed(s, f.code)
                     [] OTHER -> s
      BY DEF ParseConnectFrame
    <3>2. f.type # "DRAIN" /\ f.type # "CLOSE"
      BY <1>2 DEF Headers
    <3>3. h /\ ~s.closed
      BY <1>2
    <3> HIDE DEF t, u, h, d
    <3> QED
      BY <3>1, <3>2, <3>3
  <2>2. CASE s.headersDone
    BY <2>1, <2>2
  <2>3. CASE ~s.headersDone
    <3>1. u \in Rec(e) /\ u.ev = s.ev /\ u.settings = s.settings /\ u.headersDone /\ u.closed = s.closed
          /\ u.drainEmitted = s.drainEmitted /\ u.connectPending = s.connectPending
          /\ u.out = s.out /\ u.buf = s.buf /\ u.rx = s.rx /\ u.conn = s.conn /\ u.err = s.err
      BY <1>0 DEF Rec
    <3> HIDE DEF u
    <3>2. Good(e, u, l, accepted)
      BY <1>0, <3>1, SilentStep DEF Reasoned
    <3>3. ~Told(Story(u, l), "Ready")
      BY <2>3, <3>1 DEF Good, Truthful, Story
    <3>4. Good(e, ParseHeaders(u, f), l, accepted) /\ ParseHeaders(u, f).settings
      BY <1>2, <3>1, <3>2, <3>3, ParseHeadersGood
    <3> QED
      BY <2>1, <2>3, <3>4
  <2> QED
    BY <2>2, <2>3
<1>3. CASE ~s.closed /\ f.type = "DRAIN"
  <2> DEFINE u == [s EXCEPT !.drainEmitted = TRUE]
             x == Msg("Draining")
  <2>1. t = IF s.drainEmitted THEN s ELSE Push(u, x)
    BY <1>3 DEF ParseConnectFrame, Headers
  <2>2. CASE s.drainEmitted
    BY <2>1, <2>2
  <2>3. CASE ~s.drainEmitted
    <3>0. x \in Event /\ x.type = "Draining"
      BY OwnEvents
    <3> HIDE DEF x
    <3>1. u \in Rec(e) /\ u.ev = s.ev /\ u.settings = s.settings /\ u.headersDone = s.headersDone
          /\ u.closed = s.closed /\ u.drainEmitted /\ u.connectPending = s.connectPending
          /\ u.out = s.out /\ u.buf = s.buf /\ u.rx = s.rx /\ u.conn = s.conn /\ u.err = s.err
      BY <1>0 DEF Rec
    <3> HIDE DEF u
    <3>2. Good(e, u, l, accepted)
      BY <1>0, <3>1, SilentStep DEF Reasoned
    <3>3. ~Told(Story(u, l), "Draining") /\ ~Told(Story(u, l), "Closed")
      BY <1>3, <2>3, <3>1 DEF Good, Truthful, Story
    <3>4. Good(e, Push(u, x), l, accepted)
      BY <3>0, <3>1, <3>2, <3>3, PushStep
    <3>5. Push(u, x).settings = u.settings
      BY <3>1 DEF Push, Rec
    <3> QED
      BY <2>1, <2>3, <3>1, <3>4, <3>5
  <2> QED
    BY <2>2, <2>3
<1>4. CASE ~s.closed /\ f.type = "CLOSE"
  <2>1. f.code \in Code
    BY <1>4 DEF Sends, Msg, Coded
  <2>2. t = MarkClosed(s, f.code)
    BY <1>4 DEF ParseConnectFrame, Headers
  <2> QED
    BY <2>1, <2>2, MarkClosedGood
<1>5. CASE ~s.closed /\ f.type \notin Headers \cup {"DRAIN", "CLOSE"}
  BY <1>5 DEF ParseConnectFrame, Headers
<1> QED
  BY <1>1, <1>2, <1>3, <1>4, <1>5

\* Induction over the naturals, for sets.
LEMMA SetInduction ==
  ASSUME NEW S, 0 \in S, \A n \in Nat : n \in S => n + 1 \in S
  PROVE  Nat \subseteq S
<1> DEFINE R == OpToRel(<, Nat)
           T == Nat \ S
<1>1. ASSUME T # {} PROVE FALSE
  <2>1. IsWellFoundedOn(R, Nat) /\ T \subseteq Nat
    BY NatLessThanWellFounded
  <2> HIDE DEF R, T
  <2>2. PICK x \in T : \A y \in T : ~ (<<y, x>> \in R)
    BY <1>1, <2>1, WFMin
  <2>3. x \in Nat /\ x # 0 /\ x - 1 \in Nat
    BY DEF T
  <2>4. <<x - 1, x>> \in R
    BY <2>3 DEF R, OpToRel
  <2>5. x - 1 \in S
    BY <2>2, <2>3, <2>4 DEF T
  <2> QED
    BY <2>3, <2>5 DEF T
<1> QED
  BY <1>1

\* The recursive function ParseAll is defined with exists.
LEMMA ParseAllUnfolds ==
  ASSUME NEW s, NEW frames, Len(frames) \in Nat
  PROVE  \E f : /\ f[0] = s
                /\ \A n \in 1 .. Len(frames) : f[n] = ParseConnectFrame(f[n - 1], frames[n])
                /\ ParseAll(s, frames) = f[Len(frames)]
<1> DEFINE e(g, m) == IF m = 0 THEN s ELSE ParseConnectFrame(g[m - 1], frames[m])
           Is(g, n) == g = [m \in 0 .. n |-> e(g, m)]
           S == {n \in Nat : \E g : Is(g, n)}
<1>1. 0 \in S
  <2> DEFINE g == [m \in 0 .. 0 |-> s]
  <2>1. \A m \in 0 .. 0 : e(g, m) = s
    OBVIOUS
  <2>2. Is(g, 0)
    <3> HIDE DEF e
    <3> QED
      BY <2>1
  <2> HIDE DEF g, Is
  <2> QED
    BY <2>2
<1>2. ASSUME NEW n \in Nat, n \in S PROVE n + 1 \in S
  <2>1. PICK g : Is(g, n)
    BY <1>2
  <2> DEFINE h == [m \in 0 .. n + 1 |-> IF m <= n THEN g[m] ELSE ParseConnectFrame(g[n], frames[m])]
  <2>2. ASSUME NEW m \in 0 .. n + 1 PROVE h[m] = e(h, m)
    <3>1. CASE m <= n
      <4>1. m \in 0 .. n
        BY <3>1
      <4>2. g[m] = e(g, m)
        <5> HIDE DEF e
        <5> QED
          BY <2>1, <4>1
      <4>3. m = 0 \/ (m - 1 \in 0 .. n + 1 /\ m - 1 <= n)
        BY <3>1
      <4> QED
        BY <3>1, <4>2, <4>3
    <3>2. CASE m = n + 1
      <4>1. m # 0 /\ m - 1 = n /\ n \in 0 .. n + 1 /\ n <= n /\ ~(m <= n)
        BY <3>2
      <4> QED
        BY <4>1
    <3> QED
      BY <3>1, <3>2
  <2>3. h = [m \in 0 .. n + 1 |-> h[m]]
    OBVIOUS
  <2>4. Is(h, n + 1)
    <3> HIDE DEF h, e
    <3> QED
      BY <2>2, <2>3
  <2> HIDE DEF h, Is
  <2> QED
    BY <2>4
<1>3. Len(frames) \in S
  <2> HIDE DEF S
  <2> QED
    BY <1>1, <1>2, SetInduction
<1>4. \E g : Is(g, Len(frames))
  BY <1>3
<1> DEFINE f == CHOOSE g : Is(g, Len(frames))
<1>5. Is(f, Len(frames))
  BY <1>4
<1>6. ParseAll(s, frames) = f[Len(frames)]
  BY DEF ParseAll
<1> HIDE DEF f
<1>7. \A m \in 0 .. Len(frames) : f[m] = e(f, m)
  <2> HIDE DEF e
  <2> QED
    BY <1>5
<1>8. f[0] = s
  BY <1>7
<1>9. \A n \in 1 .. Len(frames) : f[n] = ParseConnectFrame(f[n - 1], frames[n])
  BY <1>7
<1> QED
  BY <1>6, <1>8, <1>9

\* parse_connect_frames on all the frames read so far.
LEMMA ParseAllGood ==
  ASSUME NEW e \in Endpoint, NEW l \in Seq(Event), NEW accepted, NEW s, Good(e, s, l, accepted),
         s.settings, NEW frames \in Seq(Sends(Peer(e))), Holds200(frames) => (e = "client" => accepted)
  PROVE  Good(e, ParseAll(s, frames), l, accepted) /\ ParseAll(s, frames).settings
<1> DEFINE L == Len(frames)
<1>1. L \in Nat /\ \A n \in 1 .. L : frames[n] \in Sends(Peer(e))
  BY LenProperties
<1>2. PICK f : /\ f[0] = s
               /\ \A n \in 1 .. L : f[n] = ParseConnectFrame(f[n - 1], frames[n])
               /\ ParseAll(s, frames) = f[L]
  BY <1>1, ParseAllUnfolds
<1> DEFINE Fine(n) == Good(e, f[n], l, accepted) /\ f[n].settings
           S == {n \in Nat : n \in 0 .. L => Fine(n)}
<1>3. 0 \in S
  BY <1>2
<1>4. ASSUME NEW n \in Nat, n \in S PROVE n + 1 \in S
  <2>1. SUFFICES ASSUME n + 1 \in 0 .. L PROVE Fine(n + 1)
    OBVIOUS
  <2>2. n \in 0 .. L /\ n + 1 \in 1 .. L /\ Fine(n)
    BY <1>1, <1>4, <2>1
  <2> DEFINE x == frames[n + 1]
             a == f[n]
             z == f[n + 1]
  <2>3. z = ParseConnectFrame(a, x) /\ x \in Sends(Peer(e))
    <3>1. (n + 1) - 1 = n
      OBVIOUS
    <3>2. f[n + 1] = ParseConnectFrame(f[(n + 1) - 1], frames[n + 1])
      BY <1>2, <2>2
    <3> QED
      BY <1>1, <2>2, <3>1, <3>2
  <2>4. Good(e, a, l, accepted) /\ a.settings
    BY <2>2
  <2>5. x = Msg("200") => (e = "client" => accepted)
    BY <2>2 DEF Holds200, Contains
  <2> HIDE DEF a, x, z
  <2>6. Good(e, z, l, accepted) /\ z.settings
    BY <2>3, <2>4, <2>5, ParseConnectFrameGood
  <2> QED
    BY <2>6 DEF z
<1>5. L \in S
  <2> HIDE DEF S
  <2> QED
    BY <1>1, <1>3, <1>4, SetInduction
<1>6. Fine(L)
  BY <1>1, <1>5
<1> QED
  BY <1>2, <1>6

\* The recursive function ApplyAll is defined with exists.
LEMMA ApplyAllUnfolds ==
  ASSUME NEW s, NEW cs, Len(cs) \in Nat
  PROVE  \E f : /\ f[0] = s
                /\ \A n \in 1 .. Len(cs) : f[n] = ApplyCommand(f[n - 1], cs[n])
                /\ ApplyAll(s, cs) = f[Len(cs)]
<1> DEFINE e(g, m) == IF m = 0 THEN s ELSE ApplyCommand(g[m - 1], cs[m])
           Is(g, n) == g = [m \in 0 .. n |-> e(g, m)]
           S == {n \in Nat : \E g : Is(g, n)}
<1>1. 0 \in S
  <2> DEFINE g == [m \in 0 .. 0 |-> s]
  <2>1. \A m \in 0 .. 0 : e(g, m) = s
    OBVIOUS
  <2>2. Is(g, 0)
    <3> HIDE DEF e
    <3> QED
      BY <2>1
  <2> HIDE DEF g, Is
  <2> QED
    BY <2>2
<1>2. ASSUME NEW n \in Nat, n \in S PROVE n + 1 \in S
  <2>1. PICK g : Is(g, n)
    BY <1>2
  <2> DEFINE h == [m \in 0 .. n + 1 |-> IF m <= n THEN g[m] ELSE ApplyCommand(g[n], cs[m])]
  <2>2. ASSUME NEW m \in 0 .. n + 1 PROVE h[m] = e(h, m)
    <3>1. CASE m <= n
      <4>1. m \in 0 .. n
        BY <3>1
      <4>2. g[m] = e(g, m)
        <5> HIDE DEF e
        <5> QED
          BY <2>1, <4>1
      <4>3. m = 0 \/ (m - 1 \in 0 .. n + 1 /\ m - 1 <= n)
        BY <3>1
      <4> QED
        BY <3>1, <4>2, <4>3
    <3>2. CASE m = n + 1
      <4>1. m # 0 /\ m - 1 = n /\ n \in 0 .. n + 1 /\ n <= n /\ ~(m <= n)
        BY <3>2
      <4> QED
        BY <4>1
    <3> QED
      BY <3>1, <3>2
  <2>3. h = [m \in 0 .. n + 1 |-> h[m]]
    OBVIOUS
  <2>4. Is(h, n + 1)
    <3> HIDE DEF h, e
    <3> QED
      BY <2>2, <2>3
  <2> HIDE DEF h, Is
  <2> QED
    BY <2>4
<1>3. Len(cs) \in S
  <2> HIDE DEF S
  <2> QED
    BY <1>1, <1>2, SetInduction
<1>4. \E g : Is(g, Len(cs))
  BY <1>3
<1> DEFINE f == CHOOSE g : Is(g, Len(cs))
<1>5. Is(f, Len(cs))
  BY <1>4
<1>6. ApplyAll(s, cs) = f[Len(cs)]
  BY DEF ApplyAll
<1> HIDE DEF f
<1>7. \A m \in 0 .. Len(cs) : f[m] = e(f, m)
  <2> HIDE DEF e
  <2> QED
    BY <1>5
<1>8. f[0] = s
  BY <1>7
<1>9. \A n \in 1 .. Len(cs) : f[n] = ApplyCommand(f[n - 1], cs[n])
  BY <1>7
<1> QED
  BY <1>6, <1>8, <1>9

\* A command of the JavaScript thread.
LEMMA ApplyCommandGood ==
  ASSUME NEW e \in Endpoint, NEW l \in Seq(Event), NEW accepted, NEW s, Good(e, s, l, accepted), NEW c \in Cmd
  PROVE  Good(e, ApplyCommand(s, c), l, accepted) /\ ApplyCommand(s, c).ev = s.ev
<1>1. c.code \in Code \cup {"none"}
  BY DEF Cmd, Msg, Coded
<1>2. /\ Good(e, SendDrain(s), l, accepted) /\ Good(e, RequestClose(s, c.code), l, accepted)
      /\ SendDrain(s).ev = s.ev /\ RequestClose(s, c.code).ev = s.ev
  BY <1>1, SendDrainGood, RequestCloseGood
<1>3. ApplyCommand(s, c) = SendDrain(s) \/ ApplyCommand(s, c) = RequestClose(s, c.code)
  BY DEF ApplyCommand
<1> QED
  BY <1>2, <1>3

\* All the commands an iteration drains.
LEMMA ApplyAllGood ==
  ASSUME NEW e \in Endpoint, NEW l \in Seq(Event), NEW accepted, NEW s, Good(e, s, l, accepted),
         NEW cs \in Seq(Cmd)
  PROVE  Good(e, ApplyAll(s, cs), l, accepted) /\ ApplyAll(s, cs).ev = s.ev
<1> DEFINE L == Len(cs)
<1>1. L \in Nat /\ \A n \in 1 .. L : cs[n] \in Cmd
  BY LenProperties
<1>2. PICK f : /\ f[0] = s
               /\ \A n \in 1 .. L : f[n] = ApplyCommand(f[n - 1], cs[n])
               /\ ApplyAll(s, cs) = f[L]
  BY <1>1, ApplyAllUnfolds
<1> DEFINE Fine(n) == Good(e, f[n], l, accepted) /\ f[n].ev = s.ev
           S == {n \in Nat : n \in 0 .. L => Fine(n)}
<1>3. 0 \in S
  BY <1>2
<1>4. ASSUME NEW n \in Nat, n \in S PROVE n + 1 \in S
  <2>1. SUFFICES ASSUME n + 1 \in 0 .. L PROVE Fine(n + 1)
    OBVIOUS
  <2>2. n \in 0 .. L /\ n + 1 \in 1 .. L /\ Fine(n)
    BY <1>1, <1>4, <2>1
  <2> DEFINE x == cs[n + 1]
             a == f[n]
             z == f[n + 1]
  <2>3. z = ApplyCommand(a, x) /\ x \in Cmd
    <3>1. (n + 1) - 1 = n
      OBVIOUS
    <3>2. f[n + 1] = ApplyCommand(f[(n + 1) - 1], cs[n + 1])
      BY <1>2, <2>2
    <3> QED
      BY <1>1, <2>2, <3>1, <3>2
  <2>4. Good(e, a, l, accepted) /\ a.ev = s.ev
    BY <2>2
  <2> HIDE DEF a, x, z
  <2>5. Good(e, z, l, accepted) /\ z.ev = s.ev
    BY <2>3, <2>4, ApplyCommandGood
  <2> QED
    BY <2>5 DEF z
<1>5. L \in S
  <2> HIDE DEF S
  <2> QED
    BY <1>1, <1>3, <1>4, SetInduction
<1>6. Fine(L)
  BY <1>1, <1>5
<1> QED
  BY <1>2, <1>6

\* Those before a Shutdown are commands too.
LEMMA CommandsBeforeTyped ==
  ASSUME NEW q \in Seq(Cmd)
  PROVE  CommandsBefore(q) \in Seq(Cmd)
<1> DEFINE stops == {i \in 1 .. Len(q) : q[i].type = "Shutdown"}
           k == CHOOSE i \in stops : \A j \in stops : i <= j
<1>1. Len(q) \in Nat /\ \A i \in 1 .. Len(q) : q[i] \in Cmd
  BY LenProperties
<1>2. CASE stops = {}
  BY <1>2 DEF CommandsBefore
<1>3. CASE stops # {}
  <2> DEFINE R == OpToRel(<, Nat)
  <2>1. \E i \in stops : \A j \in stops : i <= j
    <3>0. IsWellFoundedOn(R, Nat)
      BY NatLessThanWellFounded
    <3>a. stops \subseteq Nat
      BY <1>1
    <3>1. IsWellFoundedOn(R, Nat) /\ stops \subseteq Nat
      BY <3>0, <3>a
    <3> HIDE DEF R, stops
    <3>2. PICK i \in stops : \A j \in stops : ~(<<j, i>> \in R)
      BY <1>3, <3>1, WFMin
    <3>3. \A j \in stops : ~(j < i)
      BY <3>1, <3>2 DEF R, OpToRel
    <3>4. \A j \in stops : i <= j
      BY <3>1, <3>3
    <3> QED
      BY <3>4
  <2>2. k \in stops
    BY <2>1
  <2>3. k \in 1 .. Len(q)
    BY <2>2
  <2>4. CommandsBefore(q) = SubSeq(q, 1, k - 1)
    BY <1>3 DEF CommandsBefore
  <2> HIDE DEF k, stops
  <2>5. k - 1 \in Int /\ \A i \in 1 .. k - 1 : q[i] \in Cmd
    BY <1>1, <2>3
  <2> DEFINE S == Cmd
  <2> HIDE DEF S
  <2>6. SubSeq(q, 1, k - 1) \in Seq(S)
    BY <2>5, SubSeqProperties DEF S
  <2> QED
    BY <2>4, <2>6 DEF S
<1> QED
  BY <1>2, <1>3

\* Frames wait until SETTINGS are known.
LEMMA ParseConnectFramesGood ==
  ASSUME NEW e \in Endpoint, NEW l \in Seq(Event), NEW accepted, NEW s, Good(e, s, l, accepted)
  PROVE  Good(e, ParseConnectFrames(s), l, accepted)
<1> DEFINE none == <<>>
           t == [s EXCEPT !.rx = none]
<1>0. s \in Rec(e) /\ Reasoned(s) /\ (s.connectPending => e = "client")
  BY DEF Good
<1>1. CASE ~s.settings
  BY <1>1 DEF ParseConnectFrames
<1>2. CASE s.settings
  <2>1. ParseConnectFrames(s) = ParseAll(t, s.rx)
    BY <1>2 DEF ParseConnectFrames
  <2>2. none \in Seq(Sends(Peer(e))) /\ Len(none) = 0
    BY EmptySeq
  <2> HIDE DEF none
  <2>3. ~Holds200(none)
    BY <2>2 DEF Holds200, Contains
  <2>4. t \in Rec(e) /\ Same(s, t) /\ t.connectPending = s.connectPending
        /\ t.out = s.out /\ t.buf = s.buf /\ t.rx = none /\ t.conn = s.conn /\ t.err = s.err
    BY <1>0, <2>2 DEF Rec, Same
  <2> HIDE DEF t
  <2>5. Good(e, t, l, accepted)
    BY <1>0, <2>3, <2>4, SilentStep DEF Same, Reasoned
  <2>6. s.rx \in Seq(Sends(Peer(e)))
    BY <1>0 DEF Rec
  <2>7. Holds200(s.rx) => (e = "client" => accepted)
    BY DEF Good, Agreed
  <2>8. t.settings
    BY <1>2, <2>4 DEF Same
  <2> QED
    BY <2>1, <2>5, <2>6, <2>7, <2>8, ParseAllGood
<1> QED
  BY <1>1, <1>2

\* A FIN ends the session, in error if a frame is incomplete.
LEMMA ConnectFinGood ==
  ASSUME NEW e \in Endpoint, NEW l \in Seq(Event), NEW accepted, NEW s, Good(e, s, l, accepted)
  PROVE  Good(e, ConnectFin(s), l, accepted)
<1> DEFINE u == Push(s, Msg("Error"))
           w == MarkClosed(u, "zero")
<1>1. Good(e, u, l, accepted)
  BY ErrorGood
<1> HIDE DEF u
<1>2. Good(e, w, l, accepted)
  BY <1>1, OwnCodes, MarkClosedGood
<1> HIDE DEF w
<1>3. Good(e, ConnClose(w, "h3_frame_error"), l, accepted)
  BY <1>2, OwnCodes, ConnCloseGood
<1>4. Good(e, MarkClosed(s, "zero"), l, accepted)
  BY OwnCodes, MarkClosedGood
<1>5. ConnectFin(s) \in {s, ConnClose(w, "h3_frame_error"), MarkClosed(s, "zero")}
  BY DEF ConnectFin, u, w
<1> QED
  BY <1>3, <1>4, <1>5

\* The CONNECT stream of an iteration.
LEMMA ReadConnectGood ==
  ASSUME NEW e \in Endpoint, NEW l \in Seq(Event), NEW accepted, NEW s, Good(e, s, l, accepted),
         NEW frames \in Seq(Sends(Peer(e))), Holds200(frames) => (e = "client" => accepted)
  PROVE  Good(e, ReadConnect(s, frames), l, accepted)
<1> DEFINE fin == Last(frames).type = "FIN"
           g == IF fin THEN Front(frames) ELSE frames
           r == s.rx \o g
           t == [s EXCEPT !.connect = TRUE, !.rx = r]
           p == ParseConnectFrames(t)
<1>0. s \in Rec(e) /\ Reasoned(s) /\ (s.connectPending => e = "client")
  BY DEF Good
<1>1. CASE s.closed \/ frames = <<>>
  BY <1>1 DEF ReadConnect
<1>2. CASE ~(s.closed \/ frames = <<>>)
  <2>1. ReadConnect(s, frames) = IF fin THEN ConnectFin(p) ELSE p
    BY <1>2 DEF ReadConnect
  <2>2. Peer(e) \in Endpoint /\ Len(frames) \in Nat /\ s.rx \in Seq(Sends(Peer(e)))
    BY <1>0, LenProperties DEF Peer, Endpoint, Rec
  <2>3. g \in Seq(Sends(Peer(e))) /\ (Holds200(g) => Holds200(frames))
    <3>1. CASE fin
      <4>1. g = SubSeq(frames, 1, Len(frames) - 1)
        BY <3>1 DEF Front
      <4>2. Len(frames) - 1 \in Int /\ Len(frames) - 1 <= Len(frames)
        BY <2>2
      <4>3. SubSeq(frames, 1, Len(frames) - 1) \in Seq(Sends(Peer(e)))
            /\ (Holds200(SubSeq(frames, 1, Len(frames) - 1)) => Holds200(frames))
        BY <2>2, <4>2, FramesCut
      <4> HIDE DEF g
      <4> QED
        BY <4>1, <4>3
    <3>2. CASE ~fin
      BY <3>2
    <3> QED
      BY <3>1, <3>2
  <2> HIDE DEF g, fin
  <2>4. r \in Seq(Sends(Peer(e))) /\ (Holds200(r) => Holds200(s.rx) \/ Holds200(g))
    <3>1. Msg("FIN") \in Sends(Peer(e))
      BY <2>2, OwnFrames
    <3> QED
      BY <2>2, <2>3, <3>1, FramesHold
  <2> HIDE DEF r
  <2>5. t \in Rec(e) /\ Same(s, t) /\ t.connectPending = s.connectPending
        /\ t.out = s.out /\ t.buf = s.buf /\ t.rx = r /\ t.conn = s.conn /\ t.err = s.err
    BY <1>0, <2>4 DEF Rec, Same
  <2> HIDE DEF t
  <2>6. Good(e, t, l, accepted)
    <3>1. Holds200(t.rx) => Holds200(s.rx) \/ (e = "client" => accepted)
      BY <2>3, <2>4, <2>5
    <3> QED
      BY <1>0, <2>5, <3>1, SilentStep DEF Same, Reasoned
  <2>7. Good(e, p, l, accepted)
    BY <2>6, ParseConnectFramesGood
  <2> HIDE DEF p
  <2>8. Good(e, ConnectFin(p), l, accepted)
    BY <2>7, ConnectFinGood
  <2> QED
    BY <2>1, <2>7, <2>8
<1> QED
  BY <1>1, <1>2

\* The control stream: the peer's SETTINGS, and the CONNECT that waited for them.
LEMMA ReadControlGood ==
  ASSUME NEW e \in Endpoint, NEW l \in Seq(Event), NEW accepted, NEW s, Good(e, s, l, accepted), NEW arrived
  PROVE  Good(e, ReadControl(s, arrived), l, accepted)
<1> DEFINE t == [s EXCEPT !.settings = TRUE, !.connectPending = FALSE]
           x == Msg("CONNECT")
           o == <<x>>
           v == [t EXCEPT !.connect = TRUE, !.out = o]
<1>0. s \in Rec(e) /\ Reasoned(s) /\ (s.connectPending => e = "client")
  BY DEF Good
<1>1. t \in Rec(e) /\ t.ev = s.ev /\ t.settings /\ t.headersDone = s.headersDone /\ t.closed = s.closed
      /\ t.drainEmitted = s.drainEmitted /\ ~t.connectPending
      /\ t.out = s.out /\ t.buf = s.buf /\ t.rx = s.rx /\ t.conn = s.conn /\ t.err = s.err
  <2>1. t \in Rec(e)
    BY <1>0 DEF Rec
  <2>2. /\ t.ev = s.ev /\ t.settings /\ t.headersDone = s.headersDone /\ t.closed = s.closed
        /\ t.drainEmitted = s.drainEmitted /\ ~t.connectPending
        /\ t.out = s.out /\ t.buf = s.buf /\ t.rx = s.rx /\ t.conn = s.conn /\ t.err = s.err
    BY <1>0 DEF Rec
  <2> QED
    BY <2>1, <2>2
<1>2. ReadControl(s, arrived) = IF s.closed \/ ~arrived THEN s
                                ELSE IF s.connectPending
                                     THEN IF env.answer = "unsupported" THEN MarkClosed(Push(t, Msg("Error")), "zero") ELSE v
                                     ELSE ParseConnectFrames(t)
  BY Zenon DEF ReadControl
<1> HIDE DEF t
<1>3. Good(e, t, l, accepted)
  BY <1>0, <1>1, SilentStep DEF Reasoned
<1>4. Good(e, ParseConnectFrames(t), l, accepted)
  BY <1>3, ParseConnectFramesGood
<1>5. Good(e, MarkClosed(Push(t, Msg("Error")), "zero"), l, accepted)
  BY <1>3, OwnCodes, ErrorGood, MarkClosedGood
<1>6. ASSUME s.connectPending PROVE Good(e, v, l, accepted)
  <2>1. e = "client"
    BY <1>0, <1>6
  <2>2. x \in Sends(e) /\ x # Msg("200")
    BY <2>1, OwnFrames
  <2> HIDE DEF x
  <2>3. o \in Seq(Sends(e)) /\ Len(o) = 1 /\ o[1] = x
    BY <2>2
  <2> HIDE DEF o
  <2>4. ~Holds200(o)
    BY <2>2, <2>3 DEF Holds200, Contains
  <2>5. v \in Rec(e) /\ Same(t, v) /\ v.connectPending = t.connectPending
        /\ v.out = o /\ v.buf = t.buf /\ v.rx = t.rx /\ v.conn = t.conn /\ v.err = t.err
    BY <1>1, <2>3 DEF Rec, Same
  <2> HIDE DEF v
  <2>6. Reasoned(v)
    BY <1>0, <1>1, <2>5 DEF Reasoned
  <2> QED
    BY <1>1, <1>3, <2>4, <2>5, <2>6, SilentStep DEF Same
<1> HIDE DEF v
<1> QED
  BY <1>2, <1>4, <1>5, <1>6

\* The readable streams of an iteration, in either order.
LEMMA ReadStreamsGood ==
  ASSUME NEW e \in Endpoint, NEW l \in Seq(Event), NEW accepted, NEW s, Good(e, s, l, accepted),
         NEW frames \in Seq(Sends(Peer(e))), Holds200(frames) => (e = "client" => accepted),
         NEW settingsArrive, NEW controlFirst
  PROVE  Good(e, ReadStreams(s, frames, settingsArrive, controlFirst), l, accepted)
<1> DEFINE c == ReadControl(s, settingsArrive)
           r == ReadConnect(s, frames)
<1>1. Good(e, c, l, accepted) /\ Good(e, r, l, accepted)
  BY ReadControlGood, ReadConnectGood
<1> HIDE DEF c, r
<1>2. Good(e, ReadConnect(c, frames), l, accepted) /\ Good(e, ReadControl(r, settingsArrive), l, accepted)
  BY <1>1, ReadControlGood, ReadConnectGood
<1> QED
  BY <1>2 DEF ReadStreams, c, r

-----------------------------------------------------------------------------
(* The inductive invariant. *)

CoreRec ==
  [core : BOOLEAN, ready : {"pending", "resolved", "rejected"},
   closed : Code \cup {"pending", "rejected"}, draining : {"pending", "resolved"},
   closeCalled : BOOLEAN, drainCalled : BOOLEAN, stopping : BOOLEAN]

\* The channels between the parties carry what they are for.
Channels ==
  /\ env \in Environments /\ pathUp \in BOOLEAN
  /\ ep = [e \in Endpoint |-> ep[e]] /\ wire = [e \in Endpoint |-> wire[e]] /\ ctl = [e \in Endpoint |-> ctl[e]]
  /\ cc = [e \in Endpoint |-> cc[e]] /\ cmds = [e \in Endpoint |-> cmds[e]] /\ evq = [e \in Endpoint |-> evq[e]]
  /\ js = [e \in Endpoint |-> js[e]] /\ log = [e \in Endpoint |-> log[e]]
  /\ \A e \in Endpoint :
       /\ wire[e] \in Seq(Sends(e)) /\ ctl[e] \in BOOLEAN /\ cc[e] \in Code \cup {"none"}
       /\ cmds[e] \in Seq(Cmd) /\ evq[e] \in Seq(Event) /\ log[e] \in Seq(Event)
       /\ js[e] \in CoreRec

\* The server announced the session.
Announced == Told(log["server"], "Ready")

\* An endpoint between two iterations: what it told is disciplined and was negotiated, and
\* as long as its driver runs, its flags say what it told.
Standing(e) ==
  /\ ep[e] \in Rec(e) /\ ep[e].ev = <<>>
  /\ Disciplined(log[e])
  /\ Told(log[e], "Ready") => ep[e].settings
  /\ ep[e].alive => Good(e, ep[e], log[e], Announced)

\* 200 is under way, and the client announced the session, only after the server did.
InOrder ==
  /\ Holds200(wire["server"]) => Announced
  /\ Told(log["client"], "Ready") => Announced

Inv ==
  /\ Channels
  /\ \A e \in Endpoint : Standing(e)
  /\ InOrder

\* The two endpoints.
LEMMA TwoEndpoints ==
  ASSUME NEW e \in Endpoint
  PROVE  /\ Peer(e) \in Endpoint /\ Peer(e) # e /\ \A p \in Endpoint : p = e \/ p = Peer(e)
         /\ e = "server" \/ (e = "client" /\ Peer(e) = "server")
         /\ "server" \in Endpoint /\ "client" \in Endpoint
BY DEF Endpoint, Peer

\* The empty story.
LEMMA NothingTold ==
  ASSUME NEW l \in Seq(Event), Len(l) = 0
  PROVE  (\A t : ~Told(l, t)) /\ Disciplined(l)
BY DEF Told, Disciplined

\* What an iteration told is part of the log when the next one starts.
LEMMA Settles ==
  ASSUME NEW e \in Endpoint, NEW l \in Seq(Event), NEW a, NEW b, NEW f, Good(e, f, l, a), e = "client" /\ a => b
  PROVE  /\ Story(f, l) \in Seq(Event) /\ Disciplined(Story(f, l))
         /\ [f EXCEPT !.ev = <<>>] \in Rec(e) /\ [f EXCEPT !.ev = <<>>].ev = <<>>
         /\ Told(Story(f, l), "Ready") => [f EXCEPT !.ev = <<>>].settings
         /\ Good(e, [f EXCEPT !.ev = <<>>], Story(f, l), b)
         /\ [f EXCEPT !.ev = <<>>].alive = f.alive
<1> DEFINE none == <<>>
           t == [f EXCEPT !.ev = none]
           h == Story(f, l)
<1>0. f \in Rec(e) /\ Reasoned(f) /\ (f.connectPending => e = "client")
  BY DEF Good
<1>1. none \in Seq(Event) /\ \A q \in Seq(Event) : q \o none = q
  BY EmptySeq, ConcatEmptySeq
<1>2. f.ev \in Seq(Event)
  BY <1>0 DEF Rec
<1>3. h \in Seq(Event)
  BY <1>2, ConcatProperties DEF Story
<1> HIDE DEF none
<1>4. /\ t \in Rec(e) /\ t.ev = none /\ t.settings = f.settings /\ t.headersDone = f.headersDone
      /\ t.closed = f.closed /\ t.drainEmitted = f.drainEmitted /\ t.connectPending = f.connectPending
      /\ t.out = f.out /\ t.buf = f.buf /\ t.rx = f.rx /\ t.conn = f.conn /\ t.err = f.err /\ t.alive = f.alive
  BY <1>0, <1>1 DEF Rec
<1> HIDE DEF t, h
<1>5. Story(t, h) = h
  BY <1>1, <1>3, <1>4 DEF Story
<1>6. Truthful(t, h)
  BY <1>4, <1>5 DEF Good, Truthful, h
<1>7. Agreed(e, t, h, b)
  <2>1. CASE e = "server"
    BY <1>4, <1>5, <2>1 DEF Good, Agreed, h
  <2>2. CASE e = "client"
    BY <1>4, <1>5, <2>2 DEF Good, Agreed, h
  <2> QED
    BY <2>1, <2>2 DEF Endpoint
<1>8. Good(e, t, h, b)
  BY <1>0, <1>4, <1>6, <1>7 DEF Good, Reasoned
<1>9. Disciplined(h) /\ (Told(h, "Ready") => t.settings)
  BY <1>5, <1>6 DEF Truthful, h
<1> QED
  BY <1>3, <1>4, <1>8, <1>9 DEF t, h, none

\* The peer's announcement only helps.
LEMMA AnnouncedHelps ==
  ASSUME NEW e \in Endpoint, NEW l, NEW a, NEW b, NEW s, Good(e, s, l, a), a => b
  PROVE  Good(e, s, l, b)
<1>1. CASE e = "server"
  BY <1>1 DEF Good, Agreed
<1>2. CASE e = "client"
  BY <1>2 DEF Good, Agreed
<1> QED
  BY <1>1, <1>2 DEF Endpoint

\* The initial states.
LEMMA InitInv == Init => Inv
<1> DEFINE none == <<>>
<1>1. /\ none \in Seq(Event) /\ none \in Seq(Cmd) /\ Len(none) = 0
      /\ \A e \in Endpoint : none \in Seq(Sends(e)) /\ none \in Seq(Sends(Peer(e)))
      /\ none \o none = none
  BY EmptySeq, ConcatEmptySeq
<1> SUFFICES ASSUME Init PROVE Inv
  OBVIOUS
<1> USE DEF Init
<1>2. Channels
  <2>1. \A e \in Endpoint : NewCore(e) \in CoreRec
    <3> SUFFICES ASSUME NEW e \in Endpoint PROVE NewCore(e) \in CoreRec
      OBVIOUS
    <3> DEFINE b == (e = "client")
    <3>1. b \in BOOLEAN
      OBVIOUS
    <3>2. NewCore(e) = [core |-> b, ready |-> "pending", closed |-> "pending", draining |-> "pending",
                        closeCalled |-> FALSE, drainCalled |-> FALSE, stopping |-> FALSE]
      BY DEF NewCore
    <3> HIDE DEF b
    <3> QED
      BY <3>1, <3>2 DEF CoreRec
  <2> HIDE DEF none
  <2>2. /\ ep = [e \in Endpoint |-> NewSession] /\ wire = [e \in Endpoint |-> none]
        /\ ctl = [e \in Endpoint |-> FALSE] /\ cc = [e \in Endpoint |-> "none"]
        /\ cmds = [e \in Endpoint |-> none] /\ evq = [e \in Endpoint |-> none]
        /\ js = [e \in Endpoint |-> NewCore(e)] /\ log = [e \in Endpoint |-> none]
        /\ env \in Environments /\ pathUp = TRUE
    BY DEF none
  <2> HIDE DEF Init
  <2> QED
    BY <1>1, <2>1, <2>2 DEF Channels
<1>3. ASSUME NEW e \in Endpoint
      PROVE  Standing(e) /\ ~Holds200(wire[e]) /\ ~Told(log[e], "Ready")
  <2>1. /\ ep[e] = NewSession /\ log[e] = none /\ wire[e] = none
    OBVIOUS
  <2>2. (\A t : ~Told(log[e], t)) /\ Disciplined(log[e])
    <3> HIDE DEF none, Init
    <3> QED
      BY <1>1, <2>1, NothingTold
  <2> DEFINE s == ep[e]
  <2>3. s = [alive |-> TRUE, est |-> FALSE, setup |-> FALSE, connectPending |-> FALSE,
             settings |-> FALSE, headersDone |-> FALSE, ready |-> FALSE, closed |-> FALSE,
             drainEmitted |-> FALSE, drainSent |-> FALSE,
             closeReq |-> "none", capsuleQueued |-> FALSE, want |-> FALSE,
             deferred |-> FALSE, issued |-> FALSE,
             connect |-> FALSE, out |-> none, finQueued |-> FALSE, finSent |-> FALSE,
             ctlOut |-> FALSE, ctlBuf |-> FALSE, buf |-> none, rx |-> none,
             conn |-> "open", err |-> "none", ccSent |-> FALSE, ev |-> none]
    BY <2>1 DEF NewSession
  <2> HIDE DEF none, s, Init
  <2>4. s \in Rec(e)
    BY <1>1, <2>3 DEF Rec
  <2>5. s.ev = none /\ s.out = none /\ s.buf = none /\ s.rx = none /\ ~s.connectPending /\ s.conn = "open"
    BY <2>3
  <2>6. ~Holds200(none)
    BY <1>1 DEF Holds200, Contains
  <2>7. Story(s, log[e]) = log[e]
    BY <1>1, <2>1, <2>5 DEF Story
  <2>8. Truthful(s, log[e]) /\ Agreed(e, s, log[e], Announced)
    BY <2>2, <2>5, <2>6, <2>7 DEF Truthful, Agreed
  <2>9. Good(e, s, log[e], Announced)
    BY <2>4, <2>5, <2>8 DEF Good, Reasoned
  <2> QED
    BY <2>1, <2>2, <2>4, <2>5, <2>6, <2>9 DEF Standing, s, none
<1> QED
  BY <1>2, <1>3 DEF Inv, InOrder, Endpoint

-----------------------------------------------------------------------------
(* Every step keeps the invariant. *)

\* A step of the JavaScript side or of the path leaves sessions, stories and frames alone.
LEMMA QuietInv ==
  ASSUME Inv, Channels', UNCHANGED <<ep, wire, log>>
  PROVE  Inv'
<1>1. Announced' = Announced
  BY DEF Announced
<1>2. ASSUME NEW e \in Endpoint PROVE Standing(e)'
  BY <1>1 DEF Inv, Standing
<1>3. InOrder'
  BY <1>1 DEF Inv, InOrder
<1> QED
  BY <1>2, <1>3 DEF Inv

\* A step of the driver of e: its new story continues the old one.
LEMMA DriverInv ==
  ASSUME Inv, Channels', NEW e \in Endpoint,
         \A p \in Endpoint \ {e} : ep'[p] = ep[p] /\ log'[p] = log[p],
         \A t : Told(log[e], t) => Told(log'[e], t),
         Disciplined(log'[e]), Told(log'[e], "Ready") => ep'[e].settings,
         ep'[e] \in Rec(e), ep'[e].ev = <<>>,
         ep'[e].alive => Good(e, ep'[e], log'[e], Announced'),
         e = "client" /\ Told(log'[e], "Ready") => Announced,
         Holds200(wire'["server"]) => Announced'
  PROVE  Inv'
<1>1. Announced => Announced'
  <2>1. CASE e = "server"
    BY <2>1 DEF Announced
  <2>2. CASE e # "server"
    BY <2>2, TwoEndpoints DEF Announced
  <2> QED
    BY <2>1, <2>2
<1>2. Standing(e)'
  BY DEF Standing
<1>3. ASSUME NEW p \in Endpoint, p # e PROVE Standing(p)'
  <2>1. Standing(p) /\ ep'[p] = ep[p] /\ log'[p] = log[p]
    BY <1>3 DEF Inv
  <2>2. ep[p].alive => Good(p, ep[p], log[p], Announced')
    BY <1>1, <2>1, AnnouncedHelps DEF Standing
  <2> QED
    BY <2>1, <2>2 DEF Standing
<1>4. Told(log'["client"], "Ready") => Announced'
  <2>1. CASE e = "client"
    BY <1>1, <2>1
  <2>2. CASE e # "client"
    BY <1>1, <2>2, TwoEndpoints DEF Inv, InOrder
  <2> QED
    BY <2>1, <2>2
<1> QED
  BY <1>2, <1>3, <1>4 DEF Inv, InOrder

\* A story continued holds all that was told.
LEMMA StoryKeeps ==
  ASSUME NEW l \in Seq(Event), NEW v \in Seq(Event), NEW t, Told(l, t)
  PROVE  Told(l \o v, t)
<1>1. PICK i \in 1 .. Len(l) : l[i].type = t
  BY DEF Told
<1>2. Len(l) \in Nat /\ Len(v) \in Nat /\ Len(l \o v) = Len(l) + Len(v)
      /\ \A j \in 1 .. Len(l) + Len(v) : (l \o v)[j] = IF j <= Len(l) THEN l[j] ELSE v[j - Len(l)]
  BY ConcatProperties, LenProperties
<1>3. i \in 1 .. Len(l) + Len(v) /\ (l \o v)[i] = l[i]
  BY <1>2
<1> QED
  BY <1>1, <1>2, <1>3 DEF Told

\* An iteration of a driver.
LEMMA IterateInv ==
  ASSUME Inv, NEW e \in Endpoint, NEW n \in 0 .. Len(wire[Peer(e)]),
         NEW settingsArrive \in BOOLEAN, NEW closeArrives \in BOOLEAN, NEW timer,
         NEW handshake, NEW controlFirst, NEW held \in Nat, NEW unsent \in Nat,
         Iterate(e, n, settingsArrive, closeArrives, timer, handshake, controlFirst, held, unsent)
  PROVE  Inv'
<1> DEFINE p == Peer(e)
           l == log[e]
           frames == SubSeq(wire[p], 1, n)
           commanded == ApplyAll(Woken(e, closeArrives, timer, handshake), cmds[e])
           read == ReadStreams(OnEstablished(commanded, e), frames, settingsArrive, controlFirst)
           flushed == CloseEnded(Flush(read, held), e)
           sent == AfterSend(flushed, unsent)
           final == Terminal(sent)
           z == SerializedFrames(flushed, unsent)
<1>1. /\ ep[e].alive /\ Arrives(e, n, settingsArrive, closeArrives) /\ TimerDue(e, timer)
      /\ wire' = [wire EXCEPT ![p] = SubSeq(@, n + 1, Len(@)), ![e] = @ \o z]
      /\ ctl' = [ctl EXCEPT ![p] = @ /\ ~settingsArrive,
                            ![e] = @ \/ (flushed.conn = "open" /\ flushed.ctlBuf)]
      /\ cc' = [cc EXCEPT ![p] = IF closeArrives THEN "none" ELSE @,
                          ![e] = IF SendsClose(flushed) THEN flushed.err ELSE @]
      /\ ep' = [ep EXCEPT ![e] = [final EXCEPT !.ev = <<>>]]
      /\ evq' = [evq EXCEPT ![e] = @ \o final.ev]
      /\ log' = [log EXCEPT ![e] = @ \o final.ev]
      /\ cmds' = [cmds EXCEPT ![e] = <<>>]
      /\ UNCHANGED <<env, pathUp, js>>
  BY DEF Iterate
<1>2. /\ p \in Endpoint /\ p # e /\ \A q \in Endpoint : q = e \/ q = p
      /\ e = "server" \/ (e = "client" /\ p = "server")
  BY TwoEndpoints
<1>3. /\ l \in Seq(Event) /\ Good(e, ep[e], l, Announced) /\ cmds[e] \in Seq(Cmd)
      /\ wire[p] \in Seq(Sends(p)) /\ Len(wire[p]) \in Nat /\ wire[e] \in Seq(Sends(e))
  BY <1>1, <1>2, LenProperties DEF Inv, Channels, Standing
<1> HIDE DEF p
<1>4. frames \in Seq(Sends(p)) /\ (Holds200(frames) => Holds200(wire[p]))
  BY <1>2, <1>3, FramesCut DEF p
<1>5. Holds200(frames) => (e = "client" => Announced)
  BY <1>2, <1>4 DEF Inv, InOrder
<1> HIDE DEF frames
<1>6. closeArrives => cc[Peer(e)] \in Code
  BY <1>1, <1>2 DEF Arrives, Inv, Channels, p
<1>7. timer = "drain" => ep[e].conn \in {"draining", "closing"}
  BY <1>1 DEF TimerDue
<1> HIDE DEF l
<1>8. Good(e, commanded, l, Announced)
  <2>1. Good(e, Woken(e, closeArrives, timer, handshake), l, Announced)
    BY <1>3, <1>6, <1>7, WokenGood
  <2> QED
    BY <1>3, <2>1, ApplyAllGood
<1> HIDE DEF commanded
<1>9. Good(e, read, l, Announced)
  <2>1. Good(e, OnEstablished(commanded, e), l, Announced)
    BY <1>8, OnEstablishedGood
  <2> QED
    BY <1>3, <1>4, <1>5, <2>1, ReadStreamsGood DEF p
<1> HIDE DEF read
<1>10. Good(e, flushed, l, Announced)
  <2>1. Good(e, Flush(read, held), l, Announced)
    BY <1>3, <1>9, FlushGood
  <2> QED
    BY <1>3, <2>1, CloseEndedGood
<1> HIDE DEF flushed
<1>11. /\ Good(e, sent, l, Announced) /\ z \in Seq(Sends(e))
       /\ (Holds200(z) => Holds200(flushed.buf)) /\ sent.ev = flushed.ev
  BY <1>10, AfterSendGood
<1>12. Holds200(z) => flushed.conn = "open" /\ final = sent
  <2>1. CASE flushed.conn = "open"
    <3>1. flushed \in Rec(e)
      BY <1>10 DEF Good
    <3>2. sent.conn = "open"
      BY <2>1, <3>1 DEF AfterSend, Rec
    <3> QED
      BY <2>1, <3>2 DEF Terminal
  <2>2. CASE flushed.conn # "open"
    <3> DEFINE none == <<>>
    <3>1. z = none
      BY <2>2 DEF SerializedFrames
    <3>2. Len(none) = 0
      BY EmptySeq
    <3> HIDE DEF none, z
    <3> QED
      BY <3>1, <3>2 DEF Holds200, Contains
  <2> QED
    BY <2>1, <2>2
<1> HIDE DEF z, sent
<1>13. Good(e, final, l, Announced)
  BY <1>3, <1>11, TerminalGood
<1> HIDE DEF final
<1> DEFINE none == <<>>
           t == [final EXCEPT !.ev = none]
           h == Story(final, l)
<1>14. /\ log'[e] = h /\ ep'[e] = t /\ wire'[e] = wire[e] \o z
       /\ wire'[p] = SubSeq(wire[p], n + 1, Len(wire[p]))
       /\ evq'[e] = evq[e] \o final.ev /\ cmds'[e] = none
       /\ ctl'[p] = (ctl[p] /\ ~settingsArrive)
       /\ ctl'[e] = (ctl[e] \/ (flushed.conn = "open" /\ flushed.ctlBuf))
       /\ cc'[p] = (IF closeArrives THEN "none" ELSE cc[p])
       /\ cc'[e] = (IF SendsClose(flushed) THEN flushed.err ELSE cc[e])
       /\ js' = js /\ env' = env /\ pathUp' = pathUp
       /\ log'[p] = log[p] /\ ep'[p] = ep[p] /\ evq'[p] = evq[p] /\ cmds'[p] = cmds[p]
       /\ ep' = [q \in Endpoint |-> ep'[q]] /\ wire' = [q \in Endpoint |-> wire'[q]]
       /\ ctl' = [q \in Endpoint |-> ctl'[q]] /\ cc' = [q \in Endpoint |-> cc'[q]]
       /\ cmds' = [q \in Endpoint |-> cmds'[q]] /\ evq' = [q \in Endpoint |-> evq'[q]]
       /\ log' = [q \in Endpoint |-> log'[q]]
  BY <1>1, <1>2 DEF Inv, Channels, Story, l
<1>15. final.ev \in Seq(Event)
  BY <1>13 DEF Good, Rec
<1>16. Announced => Announced'
  <2>1. CASE e = "server"
    <3> SUFFICES ASSUME Announced PROVE Announced'
      OBVIOUS
    <3>1. Told(l, "Ready") /\ l \in Seq(Event)
      BY <1>3, <2>1 DEF Announced, l
    <3> DEFINE grown == l \o final.ev
    <3>2. Told(grown, "Ready")
      BY <1>15, <3>1, StoryKeeps
    <3>3. log'["server"] = grown
      BY <1>14, <2>1 DEF Story
    <3> HIDE DEF grown, h
    <3> QED
      BY <3>2, <3>3 DEF Announced
  <2>2. CASE e = "client"
    BY <1>2, <1>14, <2>2 DEF Announced
  <2> QED
    BY <1>2, <2>1, <2>2
<1>17. /\ h \in Seq(Event) /\ Disciplined(h) /\ t \in Rec(e) /\ t.ev = none
       /\ Told(h, "Ready") => t.settings
       /\ Good(e, t, h, Announced')
  BY <1>3, <1>13, <1>16, Settles
<1>18. Channels'
  <2>1. wire'[e] \in Seq(Sends(e)) /\ wire'[p] \in Seq(Sends(p))
    <3>1. wire[e] \o z \in Seq(Sends(e))
      BY <1>3, <1>11, OwnFrames, FramesHold
    <3>2. SubSeq(wire[p], n + 1, Len(wire[p])) \in Seq(Sends(p))
      BY <1>2, <1>3, FramesCut
    <3> QED
      BY <1>14, <3>1, <3>2
  <2>2. evq'[e] \in Seq(Event)
    <3>1. evq[e] \in Seq(Event)
      BY DEF Inv, Channels
    <3>2. evq[e] \o final.ev \in Seq(Event)
      BY <1>15, <3>1, ConcatProperties
    <3> QED
      BY <1>14, <3>2
  <2>3. cmds'[e] \in Seq(Cmd)
    BY <1>14, EmptySeq
  <2>4. ctl'[e] \in BOOLEAN /\ ctl'[p] \in BOOLEAN
    BY <1>14, Zenon
  <2>5. cc'[e] \in Code \cup {"none"} /\ cc'[p] \in Code \cup {"none"}
    <3>1. SendsClose(flushed) => flushed.err \in Code
      BY <1>10 DEF Good, Reasoned, SendsClose
    <3>2. cc[e] \in Code \cup {"none"} /\ cc[p] \in Code \cup {"none"}
      BY <1>2 DEF Inv, Channels
    <3> QED
      BY <1>14, <3>1, <3>2
  <2>6. log'[e] \in Seq(Event)
    BY <1>14, <1>17
  <2>7. ASSUME NEW q \in Endpoint
        PROVE  /\ wire'[q] \in Seq(Sends(q)) /\ ctl'[q] \in BOOLEAN /\ cc'[q] \in Code \cup {"none"}
               /\ cmds'[q] \in Seq(Cmd) /\ evq'[q] \in Seq(Event) /\ log'[q] \in Seq(Event)
               /\ js'[q] \in CoreRec
    <3>1. js[q] \in CoreRec /\ cmds[p] \in Seq(Cmd) /\ evq[p] \in Seq(Event) /\ log[p] \in Seq(Event)
      BY <1>2 DEF Inv, Channels
    <3>2. CASE q = e
      BY <1>14, <2>1, <2>2, <2>3, <2>4, <2>5, <2>6, <3>1, <3>2
    <3>3. CASE q = p
      BY <1>14, <2>1, <2>4, <2>5, <3>1, <3>3
    <3> QED
      BY <1>2, <3>2, <3>3
  <2>8. env' \in Environments /\ pathUp' \in BOOLEAN /\ js' = [q \in Endpoint |-> js'[q]]
    BY <1>14 DEF Inv, Channels
  <2> QED
    BY <1>14, <2>7, <2>8 DEF Channels
<1>19. Holds200(wire'["server"]) => Announced'
  <2>1. CASE e = "server"
    <3>1. Holds200(wire[e] \o z) => Holds200(wire[e]) \/ Holds200(z)
      BY <1>3, <1>11, OwnFrames, FramesHold
    <3>2. Holds200(z) => Told(h, "Ready")
      <4>1. Holds200(z) => Told(Story(flushed, l), "Ready")
        BY <1>10, <1>11, <2>1 DEF Good, Agreed
      <4>2. Holds200(z) => Story(flushed, l) = h
        BY <1>11, <1>12 DEF Story
      <4> QED
        BY <4>1, <4>2
    <3>3. Holds200(wire[e]) => Announced
      BY <2>1 DEF Inv, InOrder
    <3> QED
      BY <1>14, <1>16, <2>1, <3>1, <3>2, <3>3 DEF Announced
  <2>2. CASE p = "server"
    <3>0. Holds200(SubSeq(wire[p], n + 1, Len(wire[p]))) => Holds200(wire[p])
      BY <1>2, <1>3, FramesCut
    <3>1. Holds200(wire'[p]) => Holds200(wire[p])
      BY <1>14, <3>0
    <3> QED
      BY <1>16, <2>2, <3>1 DEF Inv, InOrder
  <2> QED
    BY <1>2, <2>1, <2>2
<1>20. e = "client" /\ Told(h, "Ready") => Announced
  BY <1>13 DEF Good, Agreed
<1>21. \A y : Told(log[e], y) => Told(log'[e], y)
  BY <1>3, <1>14, <1>15, StoryKeeps DEF Story, l
<1> HIDE DEF t, h
<1>22. \A q \in Endpoint \ {e} : ep'[q] = ep[q] /\ log'[q] = log[q]
  BY <1>2, <1>14
<1>23. /\ Disciplined(log'[e]) /\ (Told(log'[e], "Ready") => ep'[e].settings) /\ ep'[e] \in Rec(e)
       /\ ep'[e].ev = <<>> /\ Good(e, ep'[e], log'[e], Announced')
       /\ (e = "client" /\ Told(log'[e], "Ready") => Announced)
  BY <1>14, <1>17, <1>20 DEF none
<1> QED
  BY <1>18, <1>19, <1>21, <1>22, <1>23, DriverInv

\* The iteration that drains a Shutdown.
LEMMA ShutdownInv ==
  ASSUME Inv, NEW e \in Endpoint, ShutdownStep(e)
  PROVE  Inv'
<1> DEFINE p == Peer(e)
           l == log[e]
           commanded == ApplyAll(ep[e], CommandsBefore(cmds[e]))
           last == ConnClose(commanded, "zero")
           sent == AfterSend(last, 0)
           x == Msg("ServerClosed")
           none == <<>>
           events == IF e = "server" THEN <<x>> ELSE none
           t == [sent EXCEPT !.alive = FALSE]
<1>1. /\ ep[e].alive
      /\ cc' = [cc EXCEPT ![e] = IF SendsClose(last) THEN last.err ELSE @]
      /\ ep' = [ep EXCEPT ![e] = t]
      /\ evq' = [evq EXCEPT ![e] = @ \o events]
      /\ log' = [log EXCEPT ![e] = @ \o events]
      /\ cmds' = [cmds EXCEPT ![e] = none]
      /\ UNCHANGED <<env, wire, ctl, pathUp, js>>
  BY DEF ShutdownStep
<1>2. /\ l \in Seq(Event) /\ evq[e] \in Seq(Event) /\ Good(e, ep[e], l, Announced) /\ cmds[e] \in Seq(Cmd)
      /\ ep[e].ev = none /\ Standing(e)
  BY <1>1 DEF Inv, Channels, Standing
<1>3. Good(e, commanded, l, Announced) /\ commanded.ev = none
  BY <1>2, CommandsBeforeTyped, ApplyAllGood
<1> HIDE DEF commanded
<1>4. Good(e, last, l, Announced) /\ last.ev = none
  BY <1>2, <1>3, OwnCodes, ConnCloseGood
<1> HIDE DEF last
<1>5. Good(e, sent, l, Announced) /\ sent.ev = none
  <2> HIDE DEF none, l
  <2>1. \A i \in Nat : Good(e, AfterSend(last, i), l, Announced) /\ AfterSend(last, i).ev = last.ev
    <3> SUFFICES ASSUME NEW i \in Nat
                 PROVE  Good(e, AfterSend(last, i), l, Announced) /\ AfterSend(last, i).ev = last.ev
      OBVIOUS
    <3>1. Good(e, last, l, Announced)
      BY <1>4
    <3>2. /\ Good(e, AfterSend(last, i), l, Announced) /\ SerializedFrames(last, i) \in Seq(Sends(e))
          /\ (Holds200(SerializedFrames(last, i)) => Holds200(last.buf)) /\ AfterSend(last, i).ev = last.ev
      BY <3>1, AfterSendGood
    <3> QED
      BY <3>2
  <2>2. Good(e, AfterSend(last, 0), l, Announced) /\ AfterSend(last, 0).ev = last.ev
    BY <2>1
  <2> QED
    BY <1>4, <2>2
<1> HIDE DEF sent
<1>6. t \in Rec(e) /\ t.ev = none /\ ~t.alive /\ t.settings = sent.settings
  <2>1. sent \in Rec(e)
    BY <1>5 DEF Good
  <2> HIDE DEF none
  <2> QED
    BY <1>5, <2>1 DEF Rec
<1> HIDE DEF t
<1>a. l \o none = l /\ none \in Seq(Event)
  BY <1>2, EmptySeq, ConcatEmptySeq
<1>b. x \in Event /\ x.type = "ServerClosed"
  BY OwnEvents
<1> HIDE DEF x
<1>c. events \in Seq(Event)
  <2>1. <<x>> \in Seq(Event)
    BY <1>b
  <2> HIDE DEF none
  <2> QED
    BY <1>a, <2>1
<1>d. Truthful(sent, l) /\ Story(sent, l) = l
  BY <1>5, <1>a DEF Good, Story
<1>e. l \o <<x>> = Append(l, x)
  BY <1>2, <1>b, AppendIsConcat
<1> HIDE DEF none
<1>7. /\ l \o events \in Seq(Event) /\ Disciplined(l \o events)
      /\ Told(l \o events, "Ready") <=> Told(l, "Ready")
  <2>1. CASE e = "server"
    <3>1. l \o events = Append(l, x)
      BY <1>e, <2>1
    <3>2. Next1(l, x)
      BY <1>b, <1>d DEF Truthful, Next1
    <3>3. /\ Append(l, x) \in Seq(Event)
          /\ \A y : Told(Append(l, x), y) <=> Told(l, y) \/ x.type = y
          /\ Disciplined(l) /\ Next1(l, x) => Disciplined(Append(l, x))
      BY <1>2, <1>b, StoryGrows
    <3>4. "ServerClosed" # "Ready" /\ Disciplined(l)
      BY <1>d DEF Truthful
    <3> QED
      BY <1>b, <3>1, <3>2, <3>3, <3>4
  <2>2. CASE e # "server"
    <3>1. l \o events = l
      BY <1>a, <2>2
    <3> QED
      BY <1>2, <1>d, <3>1 DEF Truthful
  <2> QED
    BY <2>1, <2>2
<1> HIDE DEF events
<1>8. /\ p \in Endpoint /\ p # e /\ \A q \in Endpoint : q = e \/ q = p
      /\ e = "server" \/ (e = "client" /\ p = "server")
  BY TwoEndpoints
<1> HIDE DEF p
<1>9. /\ log'[e] = l \o events /\ ep'[e] = t /\ evq'[e] = evq[e] \o events /\ cmds'[e] = none
      /\ cc'[e] = (IF SendsClose(last) THEN last.err ELSE cc[e])
      /\ \A q \in Endpoint \ {e} : ep'[q] = ep[q] /\ log'[q] = log[q] /\ evq'[q] = evq[q]
                                    /\ cmds'[q] = cmds[q] /\ cc'[q] = cc[q]
      /\ ep' = [q \in Endpoint |-> ep'[q]] /\ cc' = [q \in Endpoint |-> cc'[q]]
      /\ cmds' = [q \in Endpoint |-> cmds'[q]] /\ evq' = [q \in Endpoint |-> evq'[q]]
      /\ log' = [q \in Endpoint |-> log'[q]]
  BY <1>1 DEF Inv, Channels
<1>10. Channels'
  <2>1. evq[e] \o events \in Seq(Event) /\ none \in Seq(Cmd)
    BY <1>2, <1>c, ConcatProperties, EmptySeq DEF none
  <2>2. SendsClose(last) => last.err \in Code
    BY <1>4 DEF Good, Reasoned, SendsClose
  <2>3. ASSUME NEW q \in Endpoint
        PROVE  /\ wire'[q] \in Seq(Sends(q)) /\ ctl'[q] \in BOOLEAN /\ cc'[q] \in Code \cup {"none"}
               /\ cmds'[q] \in Seq(Cmd) /\ evq'[q] \in Seq(Event) /\ log'[q] \in Seq(Event)
               /\ js'[q] \in CoreRec
    <3>1. /\ wire[q] \in Seq(Sends(q)) /\ ctl[q] \in BOOLEAN /\ cc[q] \in Code \cup {"none"}
          /\ cmds[q] \in Seq(Cmd) /\ evq[q] \in Seq(Event) /\ log[q] \in Seq(Event)
          /\ js[q] \in CoreRec
      BY DEF Inv, Channels
    <3>2. CASE q = e
      BY <1>1, <1>7, <1>9, <2>1, <2>2, <3>1, <3>2
    <3>3. CASE q # e
      BY <1>1, <1>9, <3>1, <3>3
    <3> QED
      BY <3>2, <3>3
  <2>4. /\ env' \in Environments /\ pathUp' \in BOOLEAN /\ js' = [q \in Endpoint |-> js'[q]]
        /\ wire' = [q \in Endpoint |-> wire'[q]] /\ ctl' = [q \in Endpoint |-> ctl'[q]]
    BY <1>1 DEF Inv, Channels
  <2> QED
    BY <1>9, <2>3, <2>4 DEF Channels
<1>11. \A y : Told(log[e], y) => Told(log'[e], y)
  BY <1>2, <1>9, <1>c, StoryKeeps
<1>12. Told(log'[e], "Ready") => ep'[e].settings
  BY <1>6, <1>7, <1>9, <1>d DEF Truthful
<1>13. e = "client" /\ Told(log'[e], "Ready") => Announced
  BY <1>7, <1>9 DEF Inv, InOrder
<1>14. Holds200(wire'["server"]) => Announced'
  <2>1. Announced => Announced'
    BY <1>8, <1>9, <1>11 DEF Announced
  <2> QED
    BY <1>1, <2>1 DEF Inv, InOrder
<1>15. ep'[e] \in Rec(e) /\ ep'[e].ev = <<>> /\ ~ep'[e].alive /\ Disciplined(log'[e])
  BY <1>6, <1>7, <1>9 DEF none
<1> QED
  BY <1>9, <1>10, <1>11, <1>12, <1>13, <1>14, <1>15, DriverInv

\* A driver thread that fails reports its end.
LEMMA DriverFailsInv ==
  ASSUME Inv, NEW e \in Endpoint, DriverFails(e)
  PROVE  Inv'
<1> DEFINE p == Peer(e)
           l == log[e]
           x == Msg("Error")
           y == Coded("Closed", "zero")
           w == Msg("ServerClosed")
           none == <<>>
<1>1. PICK events \in IF e = "server" THEN {<<w>>} ELSE {<<x>>, <<x, y>>} :
        /\ ep[e].alive
        /\ evq' = [evq EXCEPT ![e] = @ \o events]
        /\ log' = [log EXCEPT ![e] = @ \o events]
        /\ ep' = [ep EXCEPT ![e].alive = FALSE]
        /\ cmds' = [cmds EXCEPT ![e] = none]
        /\ UNCHANGED <<env, wire, ctl, cc, pathUp, js>>
  BY DEF DriverFails
<1>2. /\ l \in Seq(Event) /\ evq[e] \in Seq(Event) /\ Good(e, ep[e], l, Announced)
      /\ ep[e].ev = none /\ ep[e] \in Rec(e) /\ Disciplined(l) /\ (Told(l, "Ready") => ep[e].settings)
  BY <1>1 DEF Inv, Channels, Standing
<1>3. l \o none = l
  BY <1>2, EmptySeq, ConcatEmptySeq
<1>4. ~Told(l, "ServerClosed")
  BY <1>2, <1>3 DEF Good, Truthful, Story
<1>5. /\ x \in Event /\ x.type = "Error" /\ y \in Event /\ y.type = "Closed"
      /\ w \in Event /\ w.type = "ServerClosed"
  BY OwnEvents, OwnCodes
<1> HIDE DEF x, y, w
<1>6. /\ <<w>> \in Seq(Event) /\ <<x>> \in Seq(Event) /\ <<x, y>> \in Seq(Event)
      /\ <<x, y>> = Append(<<x>>, y)
  BY <1>5
<1>7. events \in Seq(Event)
  BY <1>6
<1>8. /\ Append(l, w) \in Seq(Event) /\ Append(l, x) \in Seq(Event) /\ Append(Append(l, x), y) \in Seq(Event)
      /\ l \o <<w>> = Append(l, w) /\ l \o <<x>> = Append(l, x) /\ l \o <<x, y>> = Append(Append(l, x), y)
  <2>1. l \o <<w>> = Append(l, w) /\ l \o <<x>> = Append(l, x)
    BY <1>2, <1>5, AppendIsConcat
  <2>2. l \o Append(<<x>>, y) = Append(l \o <<x>>, y)
    BY <1>2, <1>5, <1>6, StoryJoins
  <2>3. Append(l, w) \in Seq(Event) /\ Append(l, x) \in Seq(Event)
    BY <1>2, <1>5, StoryGrows
  <2>4. Append(Append(l, x), y) \in Seq(Event)
    BY <2>3, <1>5, StoryGrows
  <2> QED
    BY <1>6, <2>1, <2>2, <2>3, <2>4
<1>9. Disciplined(Append(l, w)) /\ Disciplined(Append(l, x)) /\ Disciplined(Append(Append(l, x), y))
  <2> DEFINE m == Append(l, x)
  <2>1. Next1(l, w) /\ Next1(l, x)
    BY <1>4, <1>5 DEF Next1
  <2>2. Disciplined(Append(l, w)) /\ Disciplined(m)
    BY <1>2, <1>5, <2>1, StoryGrows
  <2>3. Len(m) \in 1 .. Len(m) /\ m[Len(m)] = x
    BY <1>2, <1>5, AppendProperties, LenProperties
  <2> HIDE DEF m
  <2>4. Next1(m, y)
    BY <1>5, <2>3 DEF Next1
  <2>5. Disciplined(Append(m, y))
    BY <1>5, <1>8, <2>2, <2>4, StoryGrows DEF m
  <2> QED
    BY <2>2, <2>5 DEF m
<1>10. /\ Told(Append(l, w), "Ready") => Told(l, "Ready")
       /\ Told(Append(l, x), "Ready") => Told(l, "Ready")
       /\ Told(Append(Append(l, x), y), "Ready") => Told(l, "Ready")
  <2>1. \A r : (Told(Append(l, w), r) <=> Told(l, r) \/ w.type = r) /\ (Told(Append(l, x), r) <=> Told(l, r) \/ x.type = r)
    BY <1>2, <1>5, StoryGrows
  <2>2. \A r : Told(Append(Append(l, x), y), r) <=> Told(Append(l, x), r) \/ y.type = r
    BY <1>5, <1>8, StoryGrows
  <2>3. w.type # "Ready" /\ x.type # "Ready" /\ y.type # "Ready"
    BY <1>5
  <2> QED
    BY <2>1, <2>2, <2>3
<1>11. /\ l \o events \in Seq(Event) /\ Disciplined(l \o events)
       /\ Told(l \o events, "Ready") => Told(l, "Ready")
  <2>1. events = <<w>> \/ events = <<x>> \/ events = <<x, y>>
    BY <1>1
  <2>2. CASE events = <<w>>
    BY <1>8, <1>9, <1>10, <2>2
  <2>3. CASE events = <<x>>
    BY <1>8, <1>9, <1>10, <2>3
  <2>4. CASE events = <<x, y>>
    BY <1>8, <1>9, <1>10, <2>4
  <2> QED
    BY <2>1, <2>2, <2>3, <2>4
<1> DEFINE t == [ep[e] EXCEPT !.alive = FALSE]
<1> HIDE DEF none
<1>12. t \in Rec(e) /\ t.ev = none /\ ~t.alive /\ t.settings = ep[e].settings
  <2> DEFINE s == ep[e]
  <2>1. s \in Rec(e) /\ s.ev = none
    BY <1>2
  <2>2. t = [s EXCEPT !.alive = FALSE]
    OBVIOUS
  <2> HIDE DEF s, t
  <2>3. t \in Rec(e) /\ t.ev = none /\ ~t.alive /\ t.settings = s.settings
    BY <2>1, <2>2 DEF Rec
  <2> QED
    BY <2>3 DEF s
<1>13. /\ log'[e] = l \o events /\ ep'[e] = t /\ evq'[e] = evq[e] \o events /\ cmds'[e] = none
       /\ \A q \in Endpoint \ {e} : ep'[q] = ep[q] /\ log'[q] = log[q] /\ evq'[q] = evq[q] /\ cmds'[q] = cmds[q]
       /\ ep' = [q \in Endpoint |-> ep'[q]]
       /\ cmds' = [q \in Endpoint |-> cmds'[q]] /\ evq' = [q \in Endpoint |-> evq'[q]]
       /\ log' = [q \in Endpoint |-> log'[q]]
  BY <1>1 DEF Inv, Channels
<1> HIDE DEF t
<1>14. Channels'
  <2>1. evq[e] \o events \in Seq(Event) /\ none \in Seq(Cmd)
    BY <1>2, <1>7, ConcatProperties, EmptySeq DEF none
  <2>3. ASSUME NEW q \in Endpoint
        PROVE  /\ wire'[q] \in Seq(Sends(q)) /\ ctl'[q] \in BOOLEAN /\ cc'[q] \in Code \cup {"none"}
               /\ cmds'[q] \in Seq(Cmd) /\ evq'[q] \in Seq(Event) /\ log'[q] \in Seq(Event)
               /\ js'[q] \in CoreRec
    <3>1. /\ wire[q] \in Seq(Sends(q)) /\ ctl[q] \in BOOLEAN /\ cc[q] \in Code \cup {"none"}
          /\ cmds[q] \in Seq(Cmd) /\ evq[q] \in Seq(Event) /\ log[q] \in Seq(Event)
          /\ js[q] \in CoreRec
      BY DEF Inv, Channels
    <3>2. CASE q = e
      BY <1>1, <1>11, <1>13, <2>1, <3>1, <3>2
    <3>3. CASE q # e
      BY <1>1, <1>13, <3>1, <3>3
    <3> QED
      BY <3>2, <3>3
  <2>4. /\ env' \in Environments /\ pathUp' \in BOOLEAN /\ js' = [q \in Endpoint |-> js'[q]]
        /\ wire' = [q \in Endpoint |-> wire'[q]] /\ ctl' = [q \in Endpoint |-> ctl'[q]]
        /\ cc' = [q \in Endpoint |-> cc'[q]]
    BY <1>1 DEF Inv, Channels
  <2> QED
    BY <1>13, <2>3, <2>4 DEF Channels
<1>15. \A r : Told(log[e], r) => Told(log'[e], r)
  BY <1>2, <1>7, <1>13, StoryKeeps
<1>16. Told(log'[e], "Ready") => ep'[e].settings
  BY <1>2, <1>11, <1>12, <1>13
<1>17. e = "client" /\ Told(log'[e], "Ready") => Announced
  BY <1>11, <1>13 DEF Inv, InOrder
<1>18. Holds200(wire'["server"]) => Announced'
  <2>1. Announced => Announced'
    BY <1>13, <1>15, TwoEndpoints DEF Announced
  <2> QED
    BY <1>1, <2>1 DEF Inv, InOrder
<1>19. ep'[e] \in Rec(e) /\ ep'[e].ev = <<>> /\ ~ep'[e].alive /\ Disciplined(log'[e])
  BY <1>11, <1>12, <1>13 DEF none
<1> QED
  BY <1>13, <1>14, <1>15, <1>16, <1>17, <1>18, <1>19, DriverInv

\* SessionCore.finish keeps the promises typed.
LEMMA FinishTyped ==
  ASSUME NEW c \in CoreRec, NEW info \in Code \cup {"error"}
  PROVE  Finish(c, info) \in CoreRec
<1> DEFINE r == IF c.ready = "pending" THEN "rejected" ELSE c.ready
           k == IF c.ready # "resolved" \/ info = "error" THEN "rejected" ELSE info
           d == [c EXCEPT !.draining = "resolved", !.ready = r, !.closed = k]
<1>1. r \in {"pending", "resolved", "rejected"} /\ k \in Code \cup {"pending", "rejected"}
  BY DEF CoreRec
<1>2. Finish(c, info) = IF Finished(c) THEN c ELSE d
  BY DEF Finish
<1> HIDE DEF r, k
<1>3. d \in CoreRec
  BY <1>1 DEF CoreRec
<1> QED
  BY <1>2, <1>3

\* SessionCore.dispatch keeps the promises typed.
LEMMA DispatchTyped ==
  ASSUME NEW c \in CoreRec, NEW ev \in Event
  PROVE  Dispatch(c, ev) \in CoreRec
<1>1. CASE Finished(c)
  BY <1>1 DEF Dispatch
<1>2. CASE ~Finished(c)
  <2>1. CASE ev.type = "Ready"
    <3>1. Dispatch(c, ev) = [c EXCEPT !.ready = "resolved"]
      BY <1>2, <2>1 DEF Dispatch
    <3> QED
      BY <3>1 DEF CoreRec
  <2>2. CASE ev.type = "Draining"
    <3>1. Dispatch(c, ev) = [c EXCEPT !.draining = "resolved"]
      BY <1>2, <2>2 DEF Dispatch
    <3> QED
      BY <3>1 DEF CoreRec
  <2>3. CASE ev.type \in {"Error", "Rejected"}
    <3>1. Dispatch(c, ev) = Finish(c, "error")
      BY <1>2, <2>3 DEF Dispatch
    <3> QED
      BY <3>1, FinishTyped
  <2>4. CASE ev.type = "ServerClosed"
    <3>1. Dispatch(c, ev) = Finish(c, "zero")
      BY <1>2, <2>4 DEF Dispatch
    <3> QED
      BY <3>1, OwnCodes, FinishTyped
  <2>5. CASE ev.type = "Closed"
    <3>1. Dispatch(c, ev) = Finish(c, ev.code)
      BY <1>2, <2>5 DEF Dispatch
    <3>2. ev.code \in Code
      BY <2>5 DEF Event, Msg, Coded
    <3> QED
      BY <3>1, <3>2, FinishTyped
  <2>6. ev.type \in {"Ready", "Draining", "Error", "Rejected", "ServerClosed", "Closed"}
    BY DEF Event, Msg, Coded
  <2> QED
    BY <2>1, <2>2, <2>3, <2>4, <2>5, <2>6
<1> QED
  BY <1>1, <1>2

\* The commands of the JavaScript side.
LEMMA OwnCommands ==
  /\ Msg("Drain") \in Cmd /\ Msg("Shutdown") \in Cmd
  /\ \A c \in Code : Coded("Close", c) \in Cmd
BY DEF Cmd, Msg

\* A step of the JavaScript side of e: a core, some commands, and what is left of its queue.
LEMMA JsInv ==
  ASSUME Inv, NEW e \in Endpoint, NEW c \in CoreRec, NEW cs \in Seq(Cmd), NEW q \in Seq(Event),
         js' = [js EXCEPT ![e] = c], Command(e, cs), evq' = [evq EXCEPT ![e] = q],
         UNCHANGED <<env, ep, wire, ctl, cc, pathUp, log>>
  PROVE  Inv'
<1>1. ASSUME NEW p \in Endpoint
      PROVE  js'[p] \in CoreRec /\ evq'[p] \in Seq(Event) /\ cmds'[p] \in Seq(Cmd)
  <2>1. js[p] \in CoreRec /\ evq[p] \in Seq(Event) /\ cmds[p] \in Seq(Cmd) /\ cmds[e] \in Seq(Cmd)
    BY DEF Inv, Channels
  <2>2. cmds[e] \o cs \in Seq(Cmd)
    BY <2>1, ConcatProperties
  <2>3. cmds' = [cmds EXCEPT ![e] = IF ep[e].alive THEN cmds[e] \o cs ELSE cmds[e]]
    BY DEF Command
  <2>4. cmds'[p] \in Seq(Cmd)
    BY <2>1, <2>2, <2>3 DEF Inv, Channels
  <2>5. js'[p] \in CoreRec /\ evq'[p] \in Seq(Event)
    BY <2>1 DEF Inv, Channels
  <2> QED
    BY <2>4, <2>5
<1>2. /\ js' = [p \in Endpoint |-> js'[p]] /\ evq' = [p \in Endpoint |-> evq'[p]]
      /\ cmds' = [p \in Endpoint |-> cmds'[p]]
  BY DEF Inv, Channels, Command
<1>3. Channels'
  <2>1. /\ env' \in Environments /\ pathUp' \in BOOLEAN
        /\ ep' = [p \in Endpoint |-> ep'[p]] /\ wire' = [p \in Endpoint |-> wire'[p]]
        /\ ctl' = [p \in Endpoint |-> ctl'[p]] /\ cc' = [p \in Endpoint |-> cc'[p]]
        /\ log' = [p \in Endpoint |-> log'[p]]
    BY DEF Inv, Channels
  <2>2. \A p \in Endpoint : wire'[p] \in Seq(Sends(p)) /\ ctl'[p] \in BOOLEAN
                            /\ cc'[p] \in Code \cup {"none"} /\ log'[p] \in Seq(Event)
    BY DEF Inv, Channels
  <2> QED
    BY <1>1, <1>2, <2>1, <2>2 DEF Channels
<1> QED
  BY <1>3, QuietInv

\* SessionCore and WebTransportServer take an event.
LEMMA JsDispatchInv ==
  ASSUME Inv, NEW e \in Endpoint, JsDispatch(e)
  PROVE  Inv'
<1> DEFINE ev == Head(evq[e])
           c0 == IF e = "server" /\ ev.type = "Ready" /\ ~Refuses(e, ev)
                 THEN [js[e] EXCEPT !.core = TRUE] ELSE js[e]
           c1 == IF c0.core THEN Dispatch(c0, ev) ELSE c0
           shutsDown == e = "client" /\ Finished(c1) /\ ~Finished(c0)
           none == <<>>
           x == Coded("Close", "zero")
           y == Msg("Shutdown")
           a == IF Refuses(e, ev) THEN <<x>> ELSE none
           b == IF shutsDown THEN <<y>> ELSE none
           cs == a \o b
<1>1. /\ evq[e] # <<>> /\ js' = [js EXCEPT ![e] = c1] /\ Command(e, cs)
      /\ evq' = [evq EXCEPT ![e] = Tail(@)]
      /\ UNCHANGED <<env, ep, wire, ctl, cc, pathUp, log>>
  BY DEF JsDispatch
<1>2. evq[e] \in Seq(Event) /\ js[e] \in CoreRec /\ evq = [p \in Endpoint |-> evq[p]]
  BY DEF Inv, Channels
<1>3. ev \in Event /\ Tail(evq[e]) \in Seq(Event)
  BY <1>1, <1>2, HeadTailProperties
<1>4. c0 \in CoreRec
  <2> DEFINE j == js[e]
  <2>1. j \in CoreRec
    BY <1>2
  <2>2. c0 = j \/ c0 = [j EXCEPT !.core = TRUE]
    OBVIOUS
  <2> HIDE DEF j, c0
  <2>3. [j EXCEPT !.core = TRUE] \in CoreRec
    BY <2>1 DEF CoreRec
  <2> QED
    BY <2>1, <2>2, <2>3
<1> HIDE DEF ev, c0
<1>5. c1 \in CoreRec
  <2>1. Dispatch(c0, ev) \in CoreRec
    BY <1>3, <1>4, DispatchTyped
  <2> QED
    BY <1>4, <2>1
<1>6. cs \in Seq(Cmd)
  <2>1. x \in Cmd /\ y \in Cmd /\ none \in Seq(Cmd)
    BY OwnCommands, OwnCodes, EmptySeq
  <2> HIDE DEF x, y, none, shutsDown
  <2>2. <<x>> \in Seq(Cmd) /\ <<y>> \in Seq(Cmd)
    BY <2>1
  <2>3. a \in Seq(Cmd) /\ b \in Seq(Cmd)
    BY <2>1, <2>2
  <2> HIDE DEF a, b
  <2> QED
    BY <2>3, ConcatProperties
<1> HIDE DEF c1, cs
<1>7. evq' = [evq EXCEPT ![e] = Tail(evq[e])]
  BY <1>1
<1> QED
  BY <1>1, <1>3, <1>5, <1>6, <1>7, JsInv

\* close(), drain(), abort() and the server's close().
LEMMA JsCallsInv ==
  ASSUME Inv, NEW e \in Endpoint, JsClose(e) \/ JsDrain(e) \/ JsAbort(e) \/ (e = "server" /\ ServerShutdown)
  PROVE  Inv'
<1> DEFINE j == js[e]
           q == evq[e]
<1>1. j \in CoreRec /\ q \in Seq(Event) /\ evq = [evq EXCEPT ![e] = q]
  BY DEF Inv, Channels
<1>2. /\ "zero" \in Code /\ e \in Code
  BY DEF Code
<1>3. \E c \in CoreRec, cs \in Seq(Cmd) :
        /\ js' = [js EXCEPT ![e] = c] /\ Command(e, cs) /\ evq' = evq
        /\ UNCHANGED <<env, ep, wire, ctl, cc, pathUp, log>>
  <2>1. CASE JsClose(e)
    <3> DEFINE c == [j EXCEPT !.closeCalled = TRUE]
               x == Coded("Close", e)
    <3>1. js' = [js EXCEPT ![e] = c] /\ Command(e, <<x>>) /\ evq' = evq
          /\ UNCHANGED <<env, ep, wire, ctl, cc, pathUp, log>>
      BY <2>1 DEF JsClose
    <3>2. x \in Cmd
      BY <1>2, OwnCommands
    <3> HIDE DEF x, j
    <3>3. <<x>> \in Seq(Cmd)
      BY <3>2
    <3>4. c \in CoreRec
      BY <1>1 DEF CoreRec
    <3> HIDE DEF c
    <3> QED
      BY <3>1, <3>3, <3>4
  <2>2. CASE JsDrain(e)
    <3> DEFINE c == [j EXCEPT !.drainCalled = TRUE]
               x == Msg("Drain")
    <3>1. js' = [js EXCEPT ![e] = c] /\ Command(e, <<x>>) /\ evq' = evq
          /\ UNCHANGED <<env, ep, wire, ctl, cc, pathUp, log>>
      BY <2>2 DEF JsDrain
    <3>2. x \in Cmd
      BY OwnCommands
    <3> HIDE DEF x, j
    <3>3. <<x>> \in Seq(Cmd)
      BY <3>2
    <3>4. c \in CoreRec
      BY <1>1 DEF CoreRec
    <3> HIDE DEF c
    <3> QED
      BY <3>1, <3>3, <3>4
  <2>3. CASE JsAbort(e)
    <3> DEFINE c == Finish(j, "error")
               x == Coded("Close", "zero")
               y == Msg("Shutdown")
               none == <<>>
               b == IF e = "client" THEN <<y>> ELSE none
               cs == <<x>> \o b
    <3>1. js' = [js EXCEPT ![e] = c] /\ Command(e, cs) /\ evq' = evq
          /\ UNCHANGED <<env, ep, wire, ctl, cc, pathUp, log>>
      BY <2>3 DEF JsAbort
    <3>2. x \in Cmd /\ y \in Cmd /\ none \in Seq(Cmd)
      BY <1>2, OwnCommands, EmptySeq
    <3>3. c \in CoreRec
      BY <1>1, FinishTyped
    <3> HIDE DEF x, y, none, c
    <3>4. <<x>> \in Seq(Cmd) /\ <<y>> \in Seq(Cmd)
      BY <3>2
    <3>5. b \in Seq(Cmd)
      BY <3>2, <3>4
    <3> HIDE DEF b
    <3>6. cs \in Seq(Cmd)
      BY <3>4, <3>5, ConcatProperties
    <3> HIDE DEF cs
    <3> QED
      BY <3>1, <3>3, <3>6
  <2>4. CASE e = "server" /\ ServerShutdown
    <3> DEFINE c == [j EXCEPT !.stopping = TRUE]
               x == Msg("Shutdown")
    <3>1. js' = [js EXCEPT ![e] = c] /\ Command(e, <<x>>) /\ evq' = evq
          /\ UNCHANGED <<env, ep, wire, ctl, cc, pathUp, log>>
      BY <2>4 DEF ServerShutdown
    <3>2. x \in Cmd
      BY OwnCommands
    <3> HIDE DEF x, j
    <3>3. <<x>> \in Seq(Cmd)
      BY <3>2
    <3>4. c \in CoreRec
      BY <1>1 DEF CoreRec
    <3> HIDE DEF c
    <3> QED
      BY <3>1, <3>3, <3>4
  <2> QED
    BY <2>1, <2>2, <2>3, <2>4
<1>4. PICK c \in CoreRec, cs \in Seq(Cmd) :
        /\ js' = [js EXCEPT ![e] = c] /\ Command(e, cs) /\ evq' = evq
        /\ UNCHANGED <<env, ep, wire, ctl, cc, pathUp, log>>
  BY <1>3
<1>5. evq' = [evq EXCEPT ![e] = q]
  BY <1>1, <1>4
<1> QED
  BY <1>1, <1>4, <1>5, JsInv

\* A CONNECTION_CLOSE is lost, or the path fails.
LEMMA NetworkInv ==
  ASSUME Inv, (\E e \in Endpoint : LoseClose(e)) \/ PathFails
  PROVE  Inv'
<1>1. UNCHANGED <<env, ep, wire, ctl, cmds, evq, js, log>> /\ pathUp' \in BOOLEAN
  BY DEF LoseClose, PathFails, Inv, Channels
<1>2. cc' = [e \in Endpoint |-> cc'[e]] /\ \A e \in Endpoint : cc'[e] \in Code \cup {"none"}
  <2>1. CASE PathFails
    BY <2>1 DEF PathFails, Inv, Channels
  <2>2. ASSUME NEW e \in Endpoint, LoseClose(e)
        PROVE  cc' = [p \in Endpoint |-> cc'[p]] /\ \A p \in Endpoint : cc'[p] \in Code \cup {"none"}
    BY <2>2 DEF LoseClose, Inv, Channels
  <2> QED
    BY <2>1, <2>2
<1>3. Channels'
  BY <1>1, <1>2 DEF Inv, Channels
<1> QED
  BY <1>1, <1>3, QuietInv

\* Every step keeps the invariant.
LEMMA NextInv == Inv /\ [Next]_vars => Inv'
<1> SUFFICES ASSUME Inv, [Next]_vars PROVE Inv'
  OBVIOUS
<1>1. ASSUME NEW e \in Endpoint, DriverStep(e) PROVE Inv'
  <2>1. PICK n \in 0 .. Len(wire[Peer(e)]), settingsArrive \in BOOLEAN, closeArrives \in BOOLEAN,
             handshake \in BOOLEAN, controlFirst \in BOOLEAN, timer \in Timer \cup {"error"},
             held \in 0 .. MaxHeld, unsent \in 0 .. MaxHeld :
          Iterate(e, n, settingsArrive, closeArrives, timer, handshake, controlFirst, held, unsent)
    BY <1>1 DEF DriverStep
  <2>2. held \in Nat /\ unsent \in Nat
    OBVIOUS
  <2> QED
    BY <2>1, <2>2, IterateInv
<1>2. ASSUME NEW e \in Endpoint, ShutdownStep(e) PROVE Inv'
  BY <1>2, ShutdownInv
<1>3. ASSUME NEW e \in Endpoint, DriverFails(e) PROVE Inv'
  BY <1>3, DriverFailsInv
<1>4. ASSUME NEW e \in Endpoint, LoseClose(e) PROVE Inv'
  BY <1>4, NetworkInv
<1>5. ASSUME NEW e \in Endpoint, JsDispatch(e) PROVE Inv'
  BY <1>5, JsDispatchInv
<1>6. ASSUME NEW e \in Endpoint, JsClose(e) \/ JsDrain(e) \/ JsAbort(e) PROVE Inv'
  BY <1>6, JsCallsInv
<1>7. CASE PathFails
  BY <1>7, NetworkInv
<1>8. CASE ServerShutdown
  <2>1. "server" \in Endpoint
    BY DEF Endpoint
  <2> QED
    BY <1>8, <2>1, JsCallsInv
<1>9. CASE UNCHANGED vars
  <2>1. Channels'
    BY <1>9 DEF vars, Inv, Channels
  <2>2. UNCHANGED <<ep, wire, log>>
    BY <1>9 DEF vars
  <2> QED
    BY <2>1, <2>2, QuietInv
<1> QED
  BY <1>1, <1>2, <1>3, <1>4, <1>5, <1>6, <1>7, <1>8, <1>9 DEF Next

\* The invariant holds in every reachable state.
LEMMA Invariance == Spec => []Inv
BY InitInv, NextInv, PTL DEF Spec

-----------------------------------------------------------------------------
(* What it implies. *)

\* A log contains Ready if it tells it.
LEMMA ReadyTold ==
  ASSUME NEW l \in Seq(Event)
  PROVE  Contains(l, Msg("Ready")) <=> Told(l, "Ready")
<1>1. \A x \in Event : x.type = "Ready" <=> x = Msg("Ready")
  BY DEF Event, Msg, Coded
<1>2. \A i \in 1 .. Len(l) : l[i] \in Event
  BY LenProperties
<1> QED
  BY <1>1, <1>2 DEF Contains, Told

\* The frames an endpoint sends are frames.
LEMMA SendsFrames == \A e \in Endpoint : Sends(e) \subseteq Frame
BY DEF Sends, Frame, Endpoint

\* Whatever the network, the applications and the drivers do, every variable keeps its type; in
\* particular `closed` of a SessionCore settles with a close code or a rejection.
THEOREM LifecycleTyped == Spec => []TypeOK
<1>1. ASSUME Inv PROVE TypeOK
  <2>1. ASSUME NEW e \in Endpoint
        PROVE  /\ \A f \in Flags : ep[e][f] \in BOOLEAN
               /\ ep[e].closeReq \in Code \cup {"none"}
               /\ ep[e].conn \in {"open", "closing", "draining", "closed"}
               /\ ep[e].err \in Code \cup {"none", "timeout"}
               /\ ep[e].ev = <<>>
               /\ Range(ep[e].out \o ep[e].buf \o ep[e].rx \o wire[e]) \subseteq Frame
               /\ ctl[e] \in BOOLEAN /\ cc[e] \in Code \cup {"none"}
               /\ Range(cmds[e]) \subseteq Cmd
               /\ Range(evq[e] \o log[e]) \subseteq Event
               /\ js[e].ready \in {"pending", "resolved", "rejected"}
               /\ js[e].draining \in {"pending", "resolved"}
               /\ js[e].closed \in Code \cup {"pending", "rejected"}
    <3> DEFINE s == ep[e]
    <3>1. s \in Rec(e) /\ s.ev = <<>>
      BY <1>1 DEF Inv, Standing
    <3>2. /\ wire[e] \in Seq(Sends(e)) /\ ctl[e] \in BOOLEAN /\ cc[e] \in Code \cup {"none"}
          /\ cmds[e] \in Seq(Cmd) /\ evq[e] \in Seq(Event) /\ log[e] \in Seq(Event) /\ js[e] \in CoreRec
      BY <1>1 DEF Inv, Channels
    <3> HIDE DEF s
    <3>3. \A f \in Flags : s[f] \in BOOLEAN
      BY <3>1 DEF Rec, Flags
    <3>4. /\ s.closeReq \in Code \cup {"none"} /\ s.conn \in {"open", "closing", "draining", "closed"}
          /\ s.err \in Code \cup {"none", "timeout"}
          /\ s.out \in Seq(Sends(e)) /\ s.buf \in Seq(Sends(e)) /\ s.rx \in Seq(Sends(Peer(e)))
      BY <3>1 DEF Rec
    <3>5. Range(s.out \o s.buf \o s.rx \o wire[e]) \subseteq Frame
      <4> DEFINE F == Frame
      <4>1. Sends(e) \subseteq F /\ Sends(Peer(e)) \subseteq F
        BY SendsFrames, TwoEndpoints
      <4> HIDE DEF F
      <4>2. s.out \in Seq(F) /\ s.buf \in Seq(F) /\ s.rx \in Seq(F) /\ wire[e] \in Seq(F)
        BY <3>2, <3>4, <4>1
      <4>3. s.out \o s.buf \in Seq(F)
        BY <4>2, ConcatProperties
      <4>4. s.out \o s.buf \o s.rx \in Seq(F)
        BY <4>2, <4>3, ConcatProperties
      <4>5. s.out \o s.buf \o s.rx \o wire[e] \in Seq(F)
        BY <4>2, <4>4, ConcatProperties
      <4> QED
        BY <4>5, RangeOfSeq DEF F
    <3>6. Range(cmds[e]) \subseteq Cmd
      BY <3>2, RangeOfSeq
    <3>7. Range(evq[e] \o log[e]) \subseteq Event
      <4>1. evq[e] \o log[e] \in Seq(Event)
        BY <3>2, ConcatProperties
      <4> QED
        BY <4>1, RangeOfSeq
    <3>8. /\ js[e].ready \in {"pending", "resolved", "rejected"}
          /\ js[e].draining \in {"pending", "resolved"}
          /\ js[e].closed \in Code \cup {"pending", "rejected"}
      BY <3>2 DEF CoreRec
    <3> QED
      BY <3>1, <3>2, <3>3, <3>4, <3>5, <3>6, <3>7, <3>8 DEF s
  <2>2. env \in Environments /\ pathUp \in BOOLEAN
    BY <1>1 DEF Inv, Channels
  <2> QED
    BY <2>1, <2>2 DEF TypeOK
<1> QED
  BY <1>1, Invariance, PTL

\* However a session ends, and whatever ends it first, its driver reports each milestone at
\* most once, and after Closed nothing but errors, its own end, or a failing thread's pair.
THEOREM LifecycleDisciplined == Spec => []EventDiscipline
<1>1. ASSUME Inv PROVE EventDiscipline
  <2>1. ASSUME NEW e \in Endpoint
        PROVE  LET l == log[e]
                   At(type) == {i \in 1 .. Len(l) : l[i].type = type}
                   Failure  == {i \in At("Closed") : i - 1 \in At("Error")}
                   Ended    == At("Closed") \ Failure
               IN /\ \A M \in {At("Ready"), At("Draining"), At("ServerClosed"), Ended} : \A i, j \in M : i = j
                  /\ \A i \in At("Closed") : i + 1 .. Len(l) \subseteq At("Error") \cup At("ServerClosed") \cup Failure
    <3> DEFINE l == log[e]
               At(type) == {i \in 1 .. Len(l) : l[i].type = type}
               Failure  == {i \in At("Closed") : i - 1 \in At("Error")}
               Ended    == At("Closed") \ Failure
    <3>1. Disciplined(l) /\ Len(l) \in Nat
      BY <1>1, LenProperties DEF Inv, Standing, Channels
    <3> HIDE DEF l
    <3>2. \A t \in {"Ready", "Draining", "ServerClosed"} : \A i, j \in At(t) : i = j
      BY <3>1 DEF Disciplined
    <3>3. ASSUME NEW i \in At("Closed"), NEW j \in 1 .. Len(l), i < j
          PROVE  j \in At("Error") \cup At("ServerClosed") \cup Failure
      <4>1. \/ l[j].type \in {"Error", "ServerClosed"}
            \/ l[j].type = "Closed" /\ j - 1 \in 1 .. Len(l) /\ l[j - 1].type = "Error"
        BY <3>1, <3>3 DEF Disciplined
      <4> QED
        BY <4>1
    <3>4. \A i, j \in Ended : i = j
      <4>1. ASSUME NEW i \in Ended, NEW j \in Ended, i < j PROVE FALSE
        <5>1. j \in At("Error") \cup At("ServerClosed") \cup Failure
          BY <3>3, <4>1
        <5> QED
          BY <4>1, <5>1
      <4>2. \A i \in Ended : i \in 1 .. Len(l)
        OBVIOUS
      <4> HIDE DEF Ended
      <4> QED
        BY <3>1, <4>1, <4>2
    <3>5. \A i \in At("Closed") : i + 1 .. Len(l) \subseteq At("Error") \cup At("ServerClosed") \cup Failure
      <4> SUFFICES ASSUME NEW i \in At("Closed"), NEW j \in i + 1 .. Len(l)
                   PROVE  j \in At("Error") \cup At("ServerClosed") \cup Failure
        OBVIOUS
      <4>1. j \in 1 .. Len(l) /\ i < j
        BY <3>1
      <4> QED
        BY <3>3, <4>1
    <3>6. \A M \in {At("Ready"), At("Draining"), At("ServerClosed"), Ended} : \A i, j \in M : i = j
      <4> HIDE DEF Ended, At
      <4> QED
        BY <3>2, <3>4
    <3> QED
      BY <3>5, <3>6 DEF l
  <2> QED
    BY <2>1 DEF EventDiscipline
<1> QED
  BY <1>1, Invariance, PTL

\* Readiness is negotiated: no endpoint reports Ready before it validated the peer's SETTINGS,
\* in whatever order the streams arrive, and the client only after the server accepted.
THEOREM ReadinessAgreed == Spec => []ReadyAgreement
<1>1. ASSUME Inv PROVE ReadyAgreement
  <2>1. \A e \in Endpoint : log[e] \in Seq(Event)
    BY <1>1 DEF Inv, Channels
  <2>2. \A e \in Endpoint : Contains(log[e], Msg("Ready")) => ep[e].settings
    BY <1>1, <2>1, ReadyTold DEF Inv, Standing
  <2>3. Contains(log["client"], Msg("Ready")) => Contains(log["server"], Msg("Ready"))
    <3>1. "client" \in Endpoint /\ "server" \in Endpoint
      BY DEF Endpoint
    <3> QED
      BY <1>1, <2>1, <3>1, ReadyTold DEF Inv, InOrder, Announced
  <2> QED
    BY <2>2, <2>3 DEF ReadyAgreement
<1> QED
  BY <1>1, Invariance, PTL
=============================================================================
