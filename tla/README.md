# A TLA+ verification of rwebtransport

rwebtransport is a WebTransport (HTTP/3) client and server for Node.js: a native
addon in Rust (`crates/native`), built on quiche, under a TypeScript layer (`src/*.ts`)
that exposes the W3C API. This directory models the parts whose correctness depends on
the order of steps of several actors: the two endpoints of a session, QUIC between
them, the driver thread and the JavaScript thread of each endpoint, and the
applications. Paths below are relative to the repository's root.

## 1. The system

### Inventory

| Component | State | Operations | Interacts with |
|---|---|---|---|
| Session flow control, `session.rs` | `fc_*` counters and limits, `pending_opens`, per stream `send_payload`, `recv_payload`, `out` | open, write, FIN, reset, STOP_SENDING, `flush`, `on_readable`, `scan_capsules` | the peer's `WtSession`, through QUIC streams and `WT_MAX_*` capsules |
| Session lifecycle, `session.rs`, `driver.rs`, `server.rs`, `webtransport.ts` | `ready`, `closed`, `close_requested`, drain flags, the CONNECT stream, quiche's connection state, the promises `ready`, `draining`, `closed` | SETTINGS, CONNECT, 200/403, DRAIN, CLOSE capsule, FIN, CONNECTION_CLOSE, timers, `close()`, `drain()`, `abort()` | both endpoints and their applications |
| Stream bridge, `driver.rs`, `session.rs`, `lib.rs`, `webtransport.ts`, `streams.ts` | command channel, batches in flight, the Waker, per stream the driver's entry and the WHATWG streams | the driver loop, one callback per batch, pause/resume, write acknowledgements, cancel/abort/reset, end of session | driver thread and JavaScript thread |
| Server table, `server.rs`, `server.ts` | `clients`, `routing`, `sessions`, the next session id, the queue of incoming sessions, `ready`/`closed` of the server | Retry, accept, commands by session id, drive, reap, shutdown, panic boundary, `incomingSessions` | all connections, the application |
| Driver event loop, `server.rs`, `driver.rs`, `lib.rs` | the poll's pending reports, the socket, the command channel, timers, the receive budget | poll, read, `on_timeout`, drain commands, drive, `send` and `wake`, `finalize` and `join` | kernel, JavaScript thread, all of the above |
| Receive parsers, `session.rs` | per stream `role`, `class_buf`, `frames`; `capsule_buf`, `peer_settings` | classify, reassemble, parse SETTINGS, CONNECT and capsules, deliver, prune | QUIC streams, parser memory, lifecycle |
| Parser memory, `parser_memory.rs` | bytes reserved per session and per server, capacity of each buffer | reserve, grow, copy, consume, clear | receive parsers of all sessions of a server |
| HTTP/3 and capsule codec, `wtcore/h3.rs` | none | varints, frames, SETTINGS, error-code mapping, header lists | receive parsers |
| Datagrams, `datagrams.ts`, `session.rs` | the readable's queue, the count of dropped datagrams | send, receive, drop, cancel | driver, application |
| Stats and keying material, `native.ts`, `driver.rs` | maps of request ids | request, answer, finish | driver, application |
| N-API boundary, `lib.rs`, `native.ts` | handles, sinks | conversion of arguments, finalizers | Node |
| TLS and configuration, `tls.rs`, `config.rs` | none over time | pinning, quiche configuration | quiche |
| quiche, `vendor/` | third-party | - | environment of every module |

### What is hard about it

* **No order between QUIC streams.** Credit travels on the CONNECT stream, data and
  resets on their own streams, SETTINGS on the control stream. Each may overtake the
  others.
* **Many ways to end.** CLOSE capsule, FIN, CONNECTION_CLOSE, timers, rejection,
  resource limits, driver failures and two applications that call `close()` compete.
* **Two threads per endpoint.** Commands and events cross in queues; the driver reads
  an in-flight counter that JavaScript lowers, sleeps, and must be woken.
* **Deferred continuations.** A promise resolved in a batch continues in a microtask
  after the batch's later events.
* **Bytes cut anywhere.** Frames, capsules and stream headers arrive in chunks of any
  size, in any order between streams, in buffers whose growth may be refused at any point
  and which must give everything back when the session ends in the middle of one.
* **Edges, not levels.** The poll reports a socket once; whoever stops reading early
  depends on something else to come back to it. Commands are queued and announced in two
  steps.
* **Bookkeeping in several places.** Reset streams are charged for their final size at
  both ends by different computations; the server keeps three tables of one thing.

### What correctness means, by component

* Flow control: neither end ever accuses the other of a flow-control error, counters
  conserve credit through resets, the peer's unused credit is bounded, writes do not
  starve.
* Lifecycle: each milestone is reported once and none after the end; readiness is
  negotiated; `closed` carries the code the application gave, with named exceptions; nothing
  hangs.
* Bridge: no chunk and no acknowledgement is lost; a clean end is a complete one; pauses
  and wake-ups never strand a stream; the session's end reaches every stream.
* Server table: the tables agree after every iteration; every session the application
  holds hears of its end; limits hold; connections are returned; `close()` settles.
* Event loop: no wake-up is lost, no timer and no packet is put off for ever, `join` returns.
* Receive parsers: what is handed on is what was sent; an honest peer is never accused; a
  busy application is not handed data; ended streams leave the map.
* Parser memory: the budgets are exact, never exceeded, and given back.
* Error codes: the mapping avoids reserved code points and is undone by its inverse.
* Requests and datagrams: every request settles; only counted datagrams are dropped.

The hazards, each at the line where it bites, are listed in `PROJECT.json`.

## 2. Modules

Every definition that stands for code has an entry in the `map` of `PROJECT.json` with
the lines it models. A definition preceded by a comment `Mutant:` is a plausible bug of
the definition that follows it; it is used by no specification, only substituted to see
that a property can fail.

### SessionFlow (with MCSessionFlow, SessionFlowProofs, CreditContract)

Two endpoints that run `session.rs`, and one direction of credit between them; the
opposite direction is an independent copy. The three credits (data, uni streams, bidi
streams) are one function indexed by `Resource`, as their code is the same code three
times.

| Model | Code |
|---|---|
| `maxRemote`, `sent`, `pendingOpens`, `out`, `sendPayload`, `finQueued`, `finSent` | the sender's `fc_*_remote`, `fc_data_sent`, `next_*`, `pending_opens`, and the `Stream` fields |
| `maxLocal`, `received`, `creditGranted`, `role`, `recvPayload`, `recvDead` | the receiver's fields of the same names |
| `OpenStream`, `ReleasesExactly` | `open_stream`, `release_pending_opens`, `allocate_stream` |
| `StreamReset`, `Unsent`, `Reconciled` | `stream_reset`, `reconcile_send_final_size` |
| `Flush` | the sending half of `flush` and `flush_stream`, final `retain` included |
| `FlushReceiver`, `Granted`, `Replenished`, `QueueRaises` | the credit half of `flush` |
| `RecvCapsule` | `scan_capsules` on `WT_MAX_*` |
| `OnReadable`, `OnReset`, `StreamStopSending` | `on_readable` (classification, `account_incoming`, `account_receive`, the reset arm) and `stream_stop_sending` |
| `Emit`, `RecvStopSending` | QUIC: serialization, STOP_SENDING resetting the send side |

Bytes are counted. The signal prefix of a stream is one unit at offset 0, outside the
session's credit, as in the code. How much QUIC accepts in a flush is nondeterministic.
Counters are naturals: the caps of the code (2^62-1 for data, 2^60 for streams) are
not reached by any execution the model could follow. `InitialMax < GrantMax` holds for
the constants of `session.rs` and is the assumption `CreditAssumption`.

`CreditContract` is what all of this amounts to: four counters per kind of credit (spent,
known, counted, offered) and four steps (spend or take back, count, offer, learn). It knows
no streams, capsules, resets or QUIC. `ImplementsContract` maps its counters to `sent`,
`maxRemote`, `received` and `maxLocal`.

### SessionLifecycle (with MCSessionLifecycle, SessionLifecycleProofs)

One session from SETTINGS to settled promises, both endpoints, each with its driver
loop, its `WtSession`, its quiche connection and its `SessionCore`. A driver meets the
network only when it receives and when it sends, so an iteration (`Iterate`) is a step:
receive, apply commands, read streams, `flush`, `Terminal`, send. Each function of the code is an operator on the
endpoint's record (`MarkClosed`, `ParseConnectFrame`, `QueueClose`, `FlushStreams`,
`GracefulClose`, `ApplyCommand`, `Dispatch`, ...); the loops over frames and commands
(`ParseAll`, `ApplyAll`) are recursive functions. Close codes are abstracted to who
supplied them, which is what the properties tell apart.

What surrounds a session is an `Environment`: how the server answers, which applications
may call `close()`, `drain()` or hit a limit (`abort()`), and which of `loss`, `congestion`,
`path`, `shutdown`, `receive` and `driver` may happen. The variable `env` takes one of the
constant `Environments` at the start and keeps it. MCSessionLifecycle names the ones that
TLC runs; the theorems hold for any set of them, all powers at once included.

### StreamBridge (with MCStreamBridge, StreamBridgeProofs)

One endpoint's streams across its two threads. The driver loop is two steps, before and
after it loads the in-flight counter (`DriverWake`, `DriverRun`), because JavaScript may
lower the counter between the load and the back-pressure decision. A batch is dispatched in one
callback (`JsBatch`), then the microtasks run (`Turn`): continuations of opens, sinks'
pulls and writes, and the commands they send. What a thread does to one stream is a `Step`:
the stream's new entry and the items it says, events on one side and commands on the other.
An iteration or a turn is such a step for every stream, and `Told` puts their items one
after the other in some order, as the loops over hash maps and listeners do.

| Model | Code |
|---|---|
| `Drained`, `Commanded`, `Obeyed` | step 3 of `run_inner` and the command handlers of `session.rs` |
| `ReadAll`, `OnReadable`, `OnDatagrams` | `on_readable`, `process_recv`, `on_datagrams` under back-pressure |
| `CloseOrRelease`, `Release` | `mark_closed`; `release_pending_opens`, `allocate_stream` |
| `FlushAll`, `FlushStream`, `Prune` | `flush`, `flush_stream`, the `retain` of `flush` |
| `Dispatched`, `Dispatch`, `Finish` | the loop over a batch, `SessionCore.dispatch`, `finish` |
| `Continue`, `StartSink` | the microtasks: an awaited open, the next operation of a sink |

All streams are bidirectional; a
unidirectional one uses a half of the same code. Session credit is SessionFlow's
subject: here an open or a write waits until the peer grants it.

A `Scenario` says which streams are in use, which of their halves carry chunks and which
may be cut short (reset, cancelled, stopped, aborted), which requests the application may
make (`sendDatagram`, `getStats`, `exportKeyingMaterial`) and whether datagrams arrive. The
variable `uses` takes one of the constant `Scenarios` and keeps it; MCStreamBridge names
those TLC runs. Streams and messages share the driver, the batches and the end of the
session but no other state, so TLC looks at one at a time; the theorems are about any
scenario. A write reaches a peer's stream through the same code as one of this
application's, and TLC only writes to the latter. `OnDatagram` is the sink of
`datagrams.ts`; what the answers to requests contain is left out.

### ServerTable (with ServerTableProofs)

The server thread's tables with every operation on them (Retry, accept, commands,
`DriveWith`, reaping, shutdown, panic) and `WebTransportServer` (incoming sessions,
refusal, `close()`, `cancel()`); `Handled` is a batch dispatched event by event. A connection is reduced to where its session and its
QUIC state stand; how it gets there is SessionLifecycle. The Retry token is abstracted
to the address it was issued for. A session may become ready, be rejected, end or fail in
an iteration, also become ready and end in the same one (`Outcome`): then `Ready` and
`Closed` share a batch, in that order.

### EventLoop

`run_inner` of `server.rs` and of `driver.rs` are the same loop with two differences: only
the server limits how much it reads per turn, and only the client fires timers just when
nothing else happened. `role` says which. A turn is split wherever another thread or the
kernel may act in between (`PollReturns`, `ReadPacket`, `ReadEnds`, `FireTimers`,
`HandleCommand`, `CommandsDone`, `Drive`). mio is external: it must report a socket that
becomes readable after it was read until it would block, and otherwise may or may not.
`send` is two steps, the channel and the Waker; `finalize` is `send(Shutdown)` and a join.
One datagram, `mark`, is followed through the socket.

### ParserMemory (with ParserMemoryProofs)

`ParserMemory` and `ParserBuffer`: each operation on a buffer is an action on the buffers'
contents and capacities and on the two levels of the budget. `Extended` and `Refused` are
the two results of `extend_from_slice`, with every path to `Err` (`AfterFailure`);
`Consumed` and `Cleared` are `consume` and `clear`/`drop`. All sessions of a server share a
thread, so operations do not interleave.

### H3Codec, ErrorCodes (with H3CodecProofs)

The pure functions of `h3.rs` on sequences of bytes, with the code's own code points.

### RecvParsers (with MCRecvParsers, RecvParsersProofs, ReassemblyProofs)

The receiving half of a `WtSession` on top of the three modules above: `on_readable`,
`process_recv`, the parsers they call, and `mark_closed`. The session's thread finishes a
chunk before it does anything else; what is left of it is the stack `task`, and each action
is one turn of one parser loop, with at most one change to a buffer, so that the budget
may refuse, or the session end, between any two. What a peer sends is a *script*: the bytes
of each stream. QUIC cuts them in chunks and interleaves the streams as it likes, may end
or reset a stream at any point, and the application may be behind (`pressed`).

| Model | Code |
|---|---|
| `OnReadable`, `Urgent`, `OnReset` | `on_readable`, its back-pressure rules, its reset arm |
| `RecvFrames`, `RecvDiscarded`, `RecvData`, `RecvPending`, `After` | the arms of `process_recv` and what follows the parse |
| `ResolveLater`, `ResolveCritical`, `ResolveData`, `ResolveIgnored` | `resolve_pending_uni`, `resolve_pending_bidi` |
| `Parse`, `ConsumeFrame` | `FrameParser::next_frame` in its three loops |
| `ControlSettings`, `ControlFrame`, `ConnectHeaders`, `ConnectData`, `ConnectOther` | the bodies of those loops |
| `Scan`, `CutCapsule`, `HandleCapsule` | `scan_capsules` |
| `MarkClosed`, `LimitExceeded`, `Prune` | `mark_closed`, `parser_limit_exceeded`, the `retain` of `flush` |

QPACK is external: the first byte of a header block says whether it decodes, and to what.

### How they fit

The modules cut the system along different axes and share no variables: SessionFlow
and SessionLifecycle are two aspects of a `WtSession` pair, StreamBridge is the inside
of one endpoint, ServerTable is many endpoints in one thread. Each replaces what
another models by a choice that allows all of it: StreamBridge lets credit come at any
time, ServerTable lets a session become ready, fail or end at any iteration. RecvParsers
composes ParserMemory, H3Codec and ErrorCodes, and is what the other modules take for
granted when they receive whole frames. EventLoop is what their fairness rests on: that a
driver with work gets to it.

## 3. Runs

`tlc -config X.cfg M` in this directory; the module of each run is in `PROJECT.json`.
Deadlock checking is off everywhere because all systems here may legitimately come to
rest: a session ends, an application stops writing.

| Run | What it asks |
|---|---|
| `flow_credit` | Conservation, the credit chain, no flow error, bounded credit, agreement after resets, the refinement of CreditContract, and that writes drain while nothing is cut short: two uni streams, one of which may be reset or stopped |
| `life` | Any answer to a CONNECT, `close()` at both ends, the server's shutdown, a path that may die; `drain()` of both ends; losses, receive errors, aborts and failing driver threads; two closers on a congested connection: event order, readiness, the closer's own code, every promise settles, no DRAIN capsule is lost on the way |
| `bridge` | A peer's stream with pauses, back-pressure, cancellation and resets; a local stream with writes, abort, STOP_SENDING and answers; two peer streams for a queue of one; datagrams and requests; each with the end of the session at any moment: nothing is lost, a FIN arrives, requests and writes are accounted for, opens and writes settle |
| `server` | Two concurrent connections, reused connection ids, a queue of one, a thread that may panic: the tables agree, limits hold, sessions are announced once, `close()` settles everything, ended sessions return their connection |
| `parsers` | Thirteen scripts, to a client and to a server, in all chunkings and orders: reassembly, the budget, its release, no false accusation, back-pressure |
| `loop` | Both loops under a flood: commands, timers, packets, join |

**Bounds.** Limits are set to the smallest values at which they bind: an initial credit
of 0 or 1 byte and 0 streams and a grant of 1 or 2 bytes and 1 stream, so that blocking,
the initial grant and replenishment all happen, several times in one behaviour; a
high-water mark, an in-flight limit and an incoming queue of 1, so that pausing,
back-pressure and overflow happen with the first chunk and batch and the second stream.
Two streams
are enough for one to spend the credit another waits for; two connections for one to be
mistaken for another; two chunks to be reordered or truncated. In `loop`, a receive budget
of 2 and a socket of 3 leave a datagram behind. In `parsers`, chunks of 1, 4 and 9 bytes
cut varints, headers and payloads in the middle and also deliver them whole; a session limit
of 40, a server limit of 44 and another session that takes 9 of it make either budget
refuse first, and a frame limit of 16 makes lengths oversized; the error codes are those of
a smaller range with the same residue, so that the codes around a reserved point occur. Two
datagrams and a high-water mark of 1 make one queue and one drop. `MaxWrite`, `MaxChunks`,
`MaxWrites`, `MaxDatagrams`, `MaxCommands`, `MaxSessions` and `MaxErrors` only bound how much the applications, the peer
and the network do. No symmetry is used. What section 4 lists does not depend on these
bounds: it is proved for all of them.

A definition such as `\E read \in {...}` in `DriverRun` or `Iterate` binds an intermediate
value once, so that TLC does not evaluate it again for each variable that uses it.

**Fairness.** Only threads and deliveries are fair, weakly; what applications
do is never assumed, except that a reader keeps reading.

* SessionFlow: both drivers flush and read whenever there is something to do (the
  packet, the timer or the Waker that brought it wakes the loop, and every iteration
  ends in `flush`), QUIC sends and delivers what it accepted.
* SessionLifecycle: a driver with something to receive, a command, queued output or a
  due timer runs (`ProgressStep`), and serializes what it holds when it does; a
  Shutdown command is taken; Node dispatches queued callbacks.
* StreamBridge: a woken driver runs, Node dispatches batches, the application reads,
  the peer grants credit. A driver that is not woken is not assumed to run: lost
  wake-ups are what `FinArrives` is about.
* ServerTable: the thread starts, drives connections that have something to do or a
  timer due, takes Shutdown; Node dispatches batches.
* EventLoop: the driver's thread runs whenever poll has something to report or a timer is
  due, the JavaScript thread finishes a `send` and a `join` it has begun, and time passes.
  That a flood ends is assumed for the client only, whose loop reads until the socket is
  empty; the server is checked under a flood that never ends.

### What the code and its documentation disagree on

Six runs state what a comment or a document says and show an execution in which the
code does otherwise. The findings in `PROJECT.json` quote the lines.

| Run | Finding |
|---|---|
| `flow_starve` | Bytes of a stream that is reset before classification, or stopped, stay charged to the sender but are never counted by the receiver; the session's credit leaks and another stream's write may wait for ever |
| `life_rejected` | The connection of a rejected client is closed before the 403 is sent; the client does not see the status |
| `bridge_orphan` | A stream opened in the batch that ends the session is constructed after `finish()` and never ends |
| `life_congested` | The CONNECTION_CLOSE is deferred by exactly one flush pass; if congestion lets that pass send only part of the CONNECT stream, the peer's `closed` resolves with `H3_NO_ERROR` although "the WebTransport code/reason ride the capsule" |
| `life_drain` | A `drain()` before the CONNECT stream exists is dropped; "retries later" is what the comment says, and nothing does |
| `leak` | A stream of unknown type that ends with the chunk that classifies it is never marked finished; its entry outlives it |

The passing runs bound these: `flow_credit` shows that nothing starves until a stream is cut
short, `bridge` that streams of the peer always end with their session, `life` which codes a
closer may see when the capsule is overtaken.

What the passing properties except, and what the passing runs leave out:

* `CloserKeepsCode` is exact about the code a closer sees. `docs/client.md:416` promises
  "the code and reason you supplied". The code keeps that promise through losses,
  congestion and the CONNECTION_CLOSE of either end, but not when both applications close
  and the peer's capsule is read first: then `closed` resolves with the peer's code. Nor
  can it when the driver reported the end before it saw the command. The property names
  each such case; without the disjunct `code = Peer(e)` it fails in the run.
* `DrainAccounted` follows a DRAIN capsule from the moment the session marks it as sent;
  `DrainDelivered`, which fails, starts at the call of `drain()`.
* With both keys of `server` connected the connection limit of 2 is reached and never
  exceeded, because no third client asks: the run does not test the refusal. `ServerBounded`
  proves it for any number of keys. The queue of incoming sessions overflows in the run.
* `Reassembled` excepts a CONNECT stream whose parse fails while SETTINGS are handled:
  `parse_control_frames` does not look at the CONNECT stream's error, so the session learns
  of it only when more of CONNECT arrives.
* `NoFalseAccusation` excepts a peer that ends CONNECT before its SETTINGS arrived: the
  request is then still buffered and `process_recv` reports it as truncated.
* `WorkDone` promises a datagram is read *while a connection lives*. What the budget leaves
  behind in the socket of a server without connections, which has no timer, waits for the
  next packet or command. For the client it is assumed that a flood pauses: under one that
  never does, its loop never calls `on_timeout` (`driver.rs:344`).

## 4. Proofs

`tlapm M.tla` checks the proofs of module M. Each theorem holds for every value of the
constants that satisfies the assumptions named below: any number of streams, connections,
sessions, bytes and limits, and any script of a peer.

| Module | Theorem | Statement |
|---|---|---|
| `SessionFlowProofs` | `Invariance` | `Spec => []Inv`, the inductive invariant |
| | `TypeCorrect` | `Spec => []TypeOK`; no counter goes below zero |
| | `Conservation` | each counter is the sum over its streams |
| | `Chain` | received <= sent <= sender's limit < limits in flight, rising <= receiver's limit |
| | `NoFlowErrorEver` | no endpoint ever calls `flow_error` |
| | `CreditBounded` | at most one grant of unused credit is outstanding |
| | `Refinement` | `Spec => ImplementsContract`: SessionFlow implements CreditContract |
| | `ResetsAgree` | once the receiver has handled the reset of a stream it had classified and not stopped, both ends have charged the same for it |
| `SessionLifecycleProofs` | `LifecycleTyped` | `Spec => []TypeOK`; every close code that travels or settles a promise is one that was supplied |
| | `LifecycleDisciplined` | `Spec => []EventDiscipline`: milestones once, nothing but errors and the driver's own end after Closed |
| | `ReadinessAgreed` | `Spec => []ReadyAgreement`: Ready after SETTINGS, the client's after the server's |
| `ServerTableProofs` | `ServerTyped` | `Spec => []TypeOK` |
| | `ServerTablesAgree` | the three tables describe the same connections |
| | `ServerBounded` | connections and queued sessions within their limits |
| | `SessionsHearTheirEnd` | `Spec => []SessionAccounted` |
| | `ServerAnnouncesOnce` | one Ready and one Closed per session id |
| `ParserMemoryProofs` | `BudgetTheorem` | `MemSpec => []Budget` |
| `RecvParsersProofs` | `ParsersKeepBudget` | `Spec => []Budget` for the whole receive side |
| | `ClosedHoldsNothing` | a closed session returns all its memory |
| | `NothingUnderPressure` | `Spec => BackpressureHolds` |
| `ReassemblyProofs` | `ParsersTypeCorrect` | `Spec => []TypeOK` of the receive side |
| | `ReassembledAlways` | `Spec => []Reassembled`: the frames, capsules and data handed on are those the bytes received hold |
| `StreamBridgeProofs` | `Invariance` | `Spec => []Inv`, the inductive invariant |
| | `TypeCorrect` | `Spec => []TypeOK`; no queue leaves its range, no chunk is delivered twice |
| | `NothingLost` | `Spec => []NoChunkLost`, datagrams included |
| | `CleanEnd` | `Spec => []CleanEndIsComplete` |
| | `PeerStreamsEnd` | `Spec => []SessionTakesPeerStreams` |
| | `RequestsSettle` | `Spec => []RequestAccounted` |
| | `WritesAccounted` | `Spec => []WriteAccounted` |
| `H3CodecProofs` | `VarintRoundTrip`, `UnitStable`, `UnitRoundTrip` | numbers, frames and capsules are read as they were written; more bytes do not change what was read |
| | `NeverGrease`, `RoundTrip`, `CodesInvert` | the mapping of error codes avoids reserved points and is undone by its inverse |

**The argument for SessionFlow.** `NoFlowError` needs that an amount about to be accounted
fits the receiver's limit. That is `received <= sent <= maxRemote <= maxLocal`, and the first
step of it is a fact about sums: it is not preserved by itself, because a read raises
`received` and a reset lowers `sent`. So `Inv` carries `CreditConserved` (each counter is the
sum of its streams' charges) and `StreamLag` (for each stream, received <= emitted <= sent,
with the prefix as the one extra unit), from which `received <= sent` follows stream by
stream. `PrefixFirst` says why a stream unknown to QUIC has charged nothing. `InOrder` makes
a raised limit safe to apply at the sender and is kept by the receiver because limits only
rise; `GrantOnce` says the initial grant starts from `InitialMax`, which is where
`InitialMax < GrantMax` is used.

`Refinement` needs `Inv` in both states: a step that changes only `sent` is a `Spend` because
the chain holds after it, whatever the step was. What is shown action by action is only
which counters move and that `received` and the two limits never fall.

`ResetAgreement` is about streams the receiver has seen reset, but a stream may be finished
at one end when the other resets it. `ResetInv` adds what is true on the way: the out queue
of a finished stream is empty (`FinDrained`), a reset one is charged exactly what was emitted
(`ResetSettled`), and a receiver that has seen the end has counted all of it (`EndSettled`).

**The argument for SessionLifecycle.** An iteration is a composition of a dozen operators
on a record, so the invariant is a predicate `Good` of the record *in the middle* of an
iteration and each operator is shown to keep it. Its parts: the story so far (the log and
the events not yet emitted) is `Disciplined`; it is `Truthful`, that is, the flags
`headersDone`, `drainEmitted`, `closed` and `settings` record what it told, which is why
nothing is told twice; the endpoints are `Agreed`: the server holds a 200 only for a session
it has announced, and the client holds or has acted on one only then; and a connection that
closes has a code for it (`Reasoned`), which is why the terminal branch never reports a
missing one. `StoryGrows` says when one more event keeps a story disciplined. Between
iterations `Standing` asks for `Good` only while the driver runs: a thread that fails tells
Closed a second time, behind an Error, and never speaks again. `InOrder` carries 200 across
the wire.

**The argument for ServerTable.** `TablesAgree` is inductive together with the types
(`Tables`, `Sides`). `SessionAccounted` is not: a batch that announces a session may be in
flight while the session ends, so `Followed` adds that its end then comes later, in a later
batch or further on in the same one, as a session may become ready and end in one
iteration. `Ordered` says that in any list of messages no `Closed` stands before its
session's `Ready`, and `Before` finds the two in it. Batches are flattened from the messages
of all connections of an iteration, in an order that is not fixed; `FlattenKeeps`,
`FlattenBefore` and `GatheredKeeps` say that nothing is lost, duplicated or put before what
its connection said first. `AnnouncedOnce` rests on ids never being
reused: `Heard` relates what is in flight and what JavaScript knows to the phase of the
connection, `Single` counts messages across and inside batches.

**The argument for StreamBridge.** None of its invariants is inductive: each is about what
JavaScript sees, and what it will see is still in the queues. `Inv` is a predicate `Good` of
one stream (its entry in the driver, QUIC's state, its WHATWG streams, the events on their
way up and the commands on their way down), for every stream, and a predicate `Session` of
the rest. `Good` has five parts. `Conveyed` is conservation: sent = taken + buffered, and
taken = got + in flight while somebody is, or will be, listening. Who will be listening
depends on who opened the stream. `Opening` follows an open through its states (requested,
queued in the channel, waiting for credit, told, constructed) and says that QUIC knows
nothing of the stream before `StreamOpened` was emitted. `Announced` says that a peer's
stream is announced once, before anything else is said of it. `Written` follows a write
and its acknowledgement; `Shaped` ties the receive sink to the state of its readable.

The delicate point is an open whose promise resolves in a batch: the stream is constructed
in a microtask, after the *rest of the batch* was dispatched to a stream without a sink.
`Parted` is why no chunk is lost there: no batch holds `StreamOpened` for a stream together
with its data. An iteration reads before it flushes, and the peer cannot send on a stream
that was never flushed. For streams of the peer `finish()` is complete for a similar
reason (`Announced`). It is not for streams this application had just opened, which is the
finding of `bridge_orphan`; `Inv` does not claim it.

Turns and iterations are compositions, so the invariant is also stated in the middle of
them: `Draining` after some commands of the channel, `Turning` after some events of a batch.
A queue is described by `Has`, `Count` and `Never` (which items, how often, in which order),
and what a step of one stream says is shown to be invisible to the others (`Own`,
`Surrounded`): whatever the order of the loops, another stream sees a queue that did not
grow.

**The argument for ParserMemory and RecvParsers.** `Budget` is inductive together with the
types. The work is in sums again: what a session is charged must follow the capacity of
its buffers through a growth, which reserves the new capacity and the surplus before it
releases the old one, and through `Cleared` of any set of buffers. Every step of
RecvParsers is then shown to be a step of ParserMemory or to leave memory alone, and
`Typed` to hold, so the theorem carries over. `ClosedHoldsNothing` needs to know who still
owns a copy: `Releasing` says that every payload or capsule value cut out of a buffer has
an item on the task stack that will drop it, and that a closed session's stack only drops.
`BackpressureHolds` is an action property: `Pressed` says that a chunk read under
back-pressure stops at the byte that completes a stream's type, so that no stream is
announced by it.

**The argument for Reassembled.** The parsers look at a buffer; the property speaks of all the
bytes a stream has received. `Units` of them is a recursive parse, and what makes it agree
with a parse in pieces is one relation, `Leaves(sent, us, rest)`: *whatever bytes come
after*, the units of `sent` are the units `us`, then those of `rest`. Quantifying over what
comes after makes it survive both things that happen: more is read (`LeavesRead`), or the
unit at the front of the buffer is cut (`LeavesCut`, which rests on `UnitStable`: more bytes
never change a unit that is whole). When no whole unit is left it gives the equation of the
property (`LeavesDone`). `Follows` says it of every stream of frames, counting the chunk that
is being read and the frame in hand; `Capsules` says it of the DATA payloads. After a failed
parse only `Behind` remains: what was handed on is a prefix.

The rest of `ParsersInv` says why nothing is forgotten between chunks. A whole unit in a
buffer has a parse waiting for it on the stack (`Parsed`), also when CONNECT waited for
SETTINGS; a control stream whose parse failed has its check waiting (`Doomed`, `Trailed`);
the unit consumed is the one that was copied (`Copied`); a stream that is not classified
yet has kept every byte (`Pending`), and one that is not opened has none (`Fresh`). It is
claimed of a session that is open and not about to close for lack of memory (`Live`), and
`NeverReopens` says that this is enough.

**The argument for the codec.** A varint is a sum of powers of 256 whose first byte holds
the length; `VarintRoundTrip` is division with remainder, case by case of the length. A
unit is two varints and a value; that more bytes do not matter is a fact about prefixes.
For error codes: the mapping skips one code point in 31. With `(First - 33) % 31 = 1`,
true of `0x52e4a40fa8db`, the image of n leaves remainder 1 + n % 30, never 0.

**Layout.** Lemmas about data (totals, queues, sequences, stories) first, then one lemma per
operator or action, then the theorem. A sum over streams or buffers is the number of
(stream, unit) or (buffer, unit) pairs (`Total`, `Held`), so that it rests on cardinality
theorems. Where a recursive function has to be followed (`FlattenSeq`, `Handled`, `ParseAll`,
`ApplyAll`, `Drained`, `Dispatched`), a lemma named `...Unfolds` shows that the function its
definition chooses exists, and `SetInduction`, derived from the well-foundedness of `<` on
the naturals, carries a fact along it. `Units` and `SettingsPairs` are loops over positions
of a buffer: `LoopExists` and `LoopUnique` do the same for any such loop.

**Assumptions.** `StreamsAssumption` and `BridgeAssumption` (finite, disjoint sets of ids;
positive high-water marks and limits; each scenario is one), `CreditAssumption`,
`BufferAssumption` (finitely many buffers, each with one owner), `SizeAssumption`,
`CodeAssumption`, `LayoutAssumption` (which buffers a session has), `PeerAssumption` (a
stream has one kind and carries bytes), `ServerAssumption` (limits are positive) and
`LifecycleAssumption` (each environment is one). TLC evaluates each on every run of
the modules.

**Only model-checked.** All liveness properties (fairness and ENABLED are beyond the
prover). `NoFalseAccusation` of RecvParsers: that a script is honest is a flag of the
scripts the runs use, and a proof needs a definition of what honest bytes are.
`CloserKeepsCode` of SessionLifecycle: its exceptions speak
of what the peer's application did, so a proof has to follow its CLOSE capsule through the
queues of both ends. EventLoop, all of whose properties
are liveness.

## 5. Not modelled

* quiche and mio: third-party, the environment of every module.
* TLS, configuration, loader, error classes, types: straight-line code, no behaviour
  over time.
* The N-API boundary beyond its channels, the in-flight counter and the finalizers:
  conversions.
* The cryptography of the Retry token and its expiry.
* Of the codec: header lists, structured fields, QPACK, the truncation of close reasons
  (string processing), and eight-byte varints, whose values exceed TLC's integers.
* The maximum ages of datagrams: `datagrams.ts` keeps them and no code acts on them.
* What stats and exported keying material contain, and the stats kept after the end.
* Echo server, examples, scripts.

## 6. Plan

Done, in this order of importance: SessionFlow and its proofs, SessionLifecycle,
StreamBridge, ServerTable; ParserMemory and its proof, H3Codec and ErrorCodes, RecvParsers,
EventLoop, CreditContract and the refinement, datagrams and requests in StreamBridge.

Proved since: the codec, RecvParsers' types, budget, release, back-pressure and reassembly,
all safety invariants of ServerTable and of StreamBridge, and SessionLifecycle's types, event discipline
and readiness.

What is left:

1. RecvParsers: `NoFalseAccusation`, from a definition of an honest peer.
2. SessionLifecycle: `CloserKeepsCode`.
