# A TLA+ model of usmp-python

usmp-python implements USMP, a secure messaging protocol between devices and a
server, over TCP or UDP, on asyncio. This directory models the session, both
transports, the handshake, the rate limiters, and the server's handling of
connections up to its shutdown. TLC checks
the models on small instances; TLAPS proves the central results for every
instance. Paths below are relative to the repository (`src/usmp/...`).

## The system

| Component | Code | State | Operations |
|---|---|---|---|
| Session | `_session.py` | `SessionInfo` (keys, `tx_seq`, `rx_seq`, replay window), `_send_lock`, `_closed` | `send`, `recv`, `ping`, `rekey`, `bye` |
| TCP transport | `transport/tcp.py`, `_frame.py` | a byte stream each way | `read_frame`, `write_frame` (write and drain), `close` |
| UDP transport | `transport/udp.py` `UDPStream` | read buffer, `_last_rx_seq`, `_last_rx_type`, the pending frame, UTACK keys, RTT estimate | `feed_packet`, `write`/`drain` (stop-and-wait ARQ), `set_session_keys`, `confirm_authenticated`, `close` |
| UDP listener | `transport/udp.py` `UDPListener` | (the server's) `_udp_sessions`, `_udp_handshakes`, `_udp_in_progress_handshakes` | `_handle_udp_datagram`, `stop` |
| TCP listener | `transport/tcp.py` `TCPListener` | the asyncio server | accept, `stop` |
| Handshake | `_handshake.py` | none beyond the call | `server_handshake`, `client_handshake` |
| Rate limiter | `_handshake.py` | `_failed_handshakes` (global) | `record_failed_handshake`, the lockout checks |
| Server | `_server.py` | `_tcp_connections`, the UDP registries, `_handshake_semaphore`, `_conn_tasks` | `_on_transport_connect`, `_watchdog`, `_allow_udp_cookie`, `serve`/`stop` |
| Client | `_client.py` | `_session`, `_transport` | `connect`, `send`, `recv`, `ping`, `disconnect` |
| Crypto, frame codec, types, errors, logging | `_crypto.py`, `_frame.py`, ... | none | pure functions |

Everything runs in one event loop: tasks interleave only at an `await`. An
application calls its session from any number of tasks. `recv()` itself sends (it
answers a PING) and rotates keys (it accepts a REKEY). The transport calls
nothing back in the session; the session pushes new keys and authenticated
sequence numbers into the transport. The server creates one task per
connection, which runs the handshake, promotes the connection to a session, runs
the application's handler beside a watchdog, and undoes its bookkeeping in a
`finally` clause.

What is hard: the send lock against cancellation and failing drains; the nonce,
which must never repeat under a key whatever fails; rotations that race other
traffic; reassembly against aborted sends and timed-out reads; the replay window
on a network that duplicates and reorders; counters and registries that must
come out right on every path through `_on_transport_connect`; a limiter table
shared by overlapping handshakes; retransmissions and duplicates in the handshake
and across rekeys; a shutdown that cancels tasks at whichever await they are. `PROJECT.json` lists these hazards at their
lines, with the properties that cover them.

What correctness means for each component:

- session, sending: nonces never repeat; one writer at a time; a message's
  fragments stay together;
- session, receiving: a payload is one message of the peer, whole; the session
  ends when, and only when, it should;
- two sessions together: a reliable FIFO channel of messages; keys and sequence
  numbers in step; directions apart;
- replay window: a frame is accepted at most once, and fresh frames are accepted;
- limiter: lockouts are bounded, are not shortened by others, and start when
  they should;
- UDP transport: what is acknowledged is delivered, once and in order; every call
  ends, whatever the network does;
- handshake: both sides agree on the challenge and the keys, the server is ready
  when the client is, unless its session limit is reached, the network alone
  cannot get a client rejected, both sides end;
- cookie limiter: an address has exactly the tokens its history justifies, in a
  bounded table;
- server: counts, registries and limits match the connections that exist; no
  slot is held for ever; `serve()` returns after `stop()`, as far as peers and
  handlers let it, and leaves nothing running.

## Modules

| Module | What it models |
|---|---|
| `SlidingWindow` | the arithmetic of the replay window, as operators; the bit mask is the set of its set bits |
| `ReplayWindow` | `feed_packet`'s filter and buffer, and the head of `recv()`'s loop over UDP, with rekeys; the network delivers any frame any number of times |
| `ReplayWindowProofs` | theorems about `ReplayWindow` |
| `Session` | the sending half: one record per calling task (`task`), the lock as the queue of holder and waiters (`send_lock`), `SessionInfo` (`info`), every frame sent (`wire`) |
| `SessionProofs` | theorems about `Session` |
| `SessionRecv` | extends `Session` by the dispatch of `recv()`, one action per kind of frame; the local variables of `_recv_internal` are the record `recv[p]` |
| `MessageChannel` | the abstract specification: what is submitted at one end is received at the other, whole, once, in order, eventually |
| `TcpSession` | two sessions over a TCP connection; composes the above with an ordered stream, backpressure, close, reset, and reads torn by a timeout |
| `TcpSessionProofs` | theorems about `TcpSession` and `SessionRecv`, on top of `SessionProofs` |
| `UdpSession` | two sessions over `UDPStream`: composes `SessionRecv` and `SlidingWindow` with the stop-and-wait ARQ, UTACKs and the key each is signed with, retries, the read buffer and ICMP errors |
| `UdpSessionProofs` | theorems about `UdpSession`, on top of `SessionProofs` |
| `UdpHandshake` | one client's handshake over UDP: `client_handshake`, the listener's cookie exchange and routing, and `server_handshake` in every stream that HELLOs, late ones included, open |
| `UdpHandshakeProofs` | theorems about `UdpHandshake` |
| `HandshakeLimiter` | the table of failed handshakes, with overlapping handshakes and a clock |
| `HandshakeLimiterProofs` | theorems about `HandshakeLimiter` |
| `CookieLimiter` | the token buckets of `_allow_udp_cookie` |
| `CookieLimiterProofs` | theorems about `CookieLimiter` |
| `Server` | connections from arrival to end, the counters and registries, over TCP or UDP, and `serve()` after `stop()` with both listeners' `stop()`; uses `HandshakeLimiter` by `INSTANCE` |
| `ServerProofs` | theorems about `Server`, its refinement of `HandshakeLimiter` among them |
| `MCSession`, `MCTcpSession`, `MCUdpSession`, `MCServer` | values of the constants for TLC |

How actions correspond to the code. A step of a model is what a task does
between two awaits. In `Session`, `Send`, `Ping`, `StartRekey`, `Bye` and
`SendPong` are the calls up to `async with self._send_lock`; `Acquire` and
`NextFragment` seal a frame, burn its number and hand it to the transport;
`SendDone`, `RekeyDone`, `NextFragment`, `DrainFails` are what follows the drain;
`CancelWait` and `DrainFails` are cancellation at the two awaits. In `Server`, the
values of `pc` name the awaits of `_on_transport_connect`, and `Unregister` is its
`finally` clause up to the await of the watchdog (`closing`), after which
`CloseAndWait` closes the transport and awaits `wait_closed()` (`flushing`).
`attached` are the TCP connections that asyncio has not lost: a closed one leaves
it when its peer has taken what was written, or when it breaks, and both
`wait_closed()` of the connection and, from Python 3.12 on, that of the listener
wait for it. `StopTcp`, `StopUdp`, `ListenerStopped` and `ServeReturns` are
`serve()` between its awaits, and the four cases of `Cancelled` are where the
CancelledError may find a task. In `UdpSession`, `FeedPacket` and `FeedUtack` are
`feed_packet`, `Transmit`, `Retransmit` and `GivesUp` the turns of `drain()`'s loop.
In `UdpHandshake`, each stream has the `pc` of its task's await; `Establish` and
`TurnAway` are the two outcomes of the promotion. `PROJECT.json` maps every definition to its lines.

Abstractions. AEAD and HKDF are ideal: a key is the record of its derivation
(input keys, salt, half), and a frame carries the key that sealed it, so that it
opens exactly under an equal key. Salts of `rekey()` are fresh. A message is a
sequence of symbolic bytes; fragments are real subsequences of it. TCP frames are
delivered whole and in order, except for the torn read. UDP datagrams once sent may arrive at any
time, any number of times or never; a retransmission is therefore the same
datagram again, and the RTT estimate, which only sets when a timer fires, is a
free choice of the moment. In `UdpHandshake` the HMACs bind the nonce, which is
identified with the stream that drew it, and the PSK; sessions of other addresses
are not part of that module, so whether they leave room for one more at the
promotion is a free choice (`Server` has the limits). In `Server` a handshake is
its outcome, the cookie exchange is taken as passed, the semaphore may serve
its waiters in any order, and the watchdog may close a session at any moment. The time windows of the control-frame limit are a free
choice (`CountControl`).

## Runs

Passing runs. `CHECK_DEADLOCK FALSE` appears where a behaviour ends because its
bound on calls or connections is used up, or because the session is closed.

| Run | Shows |
|---|---|
| `replay_window` | window of 3, numbers 0..5, one rekey, a buffer of 2: jumps below, at and beyond the window's width all occur. No replay, exact mask, only stale frames dropped, and the early filter is safe before a rekey |
| `session_send` | two caller tasks and the PONG task, four calls, two salts, numbers 0..2 so that the space runs out and the terminal BYE is reached, the peer rekeying too: one writer, unbroken messages, no nonce twice |
| `tcp_channel` | messages of one and two fragments both ways, PINGs of the client, rekeys of either side while the other is quiet (`QuietRekeys`), with `drain()` blocking at one unread frame: the two sessions implement `MessageChannel`, progress included, nothing is raised, and the two sides are in step whenever nothing is under way |
| `tcp_faults` | messages, PINGs, rekeys and byes of both sides with one cancelled call or timed-out `recv()`, a control-frame limit of 1 and a short sequence space: sessions may end, but each payload comes from consecutive frames, no nonce repeats, the directions never share a key, and a `bye()` ends the session at both ends |
| `udp_session` | two calls of the client, messages of one to three fragments, PING, REKEY, BYE, on a network that loses, repeats and reorders everything; two attempts per frame, a window of 2, a buffer for one frame, numbers 0..3, one fault |
| `udp_handshake` | up to two streams of one address, two attempts per frame, a buffer for one frame, one damaged datagram, a server that holds the client's PSK, another or none, and that may be at its session limit when the handshake completes |
| `limiter` | three addresses in a table for two, two overlapping handshakes each, six seconds |
| `cookie_limiter` | three addresses in a table for two: the bucket equals a reference computed from the whole history of granted cookies |
| `server` | three connections from two IPs to a TCP server or a UDP server, each on both sides of the changes that Python 3.12 made to `wait_for` and `wait_closed`, with room for two connections (one, for TCP before 3.12): overlap, replacement, limits, lockouts that expire, one permit contended for, peers that do not read, `stop()` at any step; `Server` implements `HandshakeLimiter` |

The bounds are the smallest at which the interesting cases meet: two tasks plus
the PONG task give a holder, a waiter and a late comer at the lock; a two-fragment
message has a point between fragments; two salts let rotations race; a third
connection can arrive between the replacement of a session and the end of the
replaced one, or wait while its address gets locked out. Over UDP two attempts have
a last one and one before it, a window of 2 is left behind within three frames, and
a buffer for one frame is full as soon as `recv()` is slow. Two streams at an
address are one that serves the client and one that a duplicate opened.

Runs that end in a violation, each a disagreement between the code and a
statement in the repository (quoted under `findings`):

| Run | What the trace shows |
|---|---|
| `udp_rekey` | the responder of a rekey signs the UTACK of a retransmitted REKEY with its new key, which the initiator does not verify with yet |
| `tcp_splice` | after an aborted `send()`, the next message is appended to the first one's fragment |
| `server_handler_timeout` | a handler's `recv()` timeout counts as a failed handshake |

### Observed while modelling

The models also reach the following. They have no run of their own; what the
passing runs show is how far the damage goes.

- A REKEY of the peer that `recv()` accepts while `send()` awaits the drain of a
  fragment restarts the sequence numbers inside that message
  (`_session.py:237`; `AcceptRekey` between `Acquire` and `NextFragment`).
- A `recv()` timeout between two fragments drops the first; the next `recv()`
  returns the rest as a message (`_session.py:280`; the fault of `MCTcpSplice.cfg`
  may be that timeout).
- After a rekey `_last_rx_seq` is stale: `feed_packet` acknowledges and discards
  fresh frames of the new key until their numbers come within 64 of the old mark
  (`udp.py:172`; `FilterKeepsFresh` of `ReplayWindow` as an invariant is violated,
  `FilterKeepsFreshBeforeRekey` is what holds).
- If the first UTACK of a REKEY is lost, none of the later ones verifies: `rekey()`
  raises `OSError` with its keys unchanged, while the peer has rotated
  (`_session.py:296`; the continuation of the trace of `udp_rekey`).
- A UTACK names type, number and key, not the frame. After a rekey the peer signs
  whatever reaches it with the new key, so a late frame of the old key can
  acknowledge a frame of the new one with the same type and number, which is then
  not sent again (`udp.py:124`). `InOrder` is therefore stated up to the first rekey.
- A late duplicate of a HELLO opens a stream whose handshake cannot succeed and,
  when it times out, counts as a failure of the client's address (`_server.py:282`).
- A connection that closes before its HELLO or HELLO_ACK raises `HandshakeError`
  (`_handshake.py:129`, `:186`), which `record_failed_handshake` counts, though the
  comment at `_handshake.py:243` says of clean disconnects that they "don't count
  against rate limiter" (`HandshakeFails` covers both). `LimiterSpec` says how the
  server uses the table, with those disconnects among the failures; it does not say
  that each of them is genuine.
- `feed_packet` stores `_last_rx_type` before it checks the buffer (`udp.py:168`): a
  handshake frame dropped at a full buffer is taken for a duplicate, and
  acknowledged, when it is sent again. The buffer holds the largest handshake many
  times over, so only foreign datagrams could fill it.
- TCP shutdown: a connection whose task has not run when `stop()` takes its snapshot
  is not cancelled (`tcp.py:89`). From Python 3.12 on, `wait_closed()` then waits for
  its handler, for as long as that runs; before, `serve()` may return and leave it
  running (`NothingOutlivesServe` without its condition on `py312` is violated).
- Before Python 3.12 `wait_for` returns the result of a handshake that has just
  completed instead of the cancellation, and a handler starts during the shutdown
  (`_server.py:210`; `CancelSwallowed`). `stop()` waits for it, over TCP and UDP.
  Over UDP its stream is closed already, but only its next use of the stream tells
  it so: a handler that sleeps keeps `serve()` waiting.
- Over TCP the `finally` clause awaits `wait_closed()` (`_server.py:334`), which
  returns when what was written has been sent. A peer that stops reading while bytes
  are left holds the task there, and with it a `stop()` that gathered the task and,
  from Python 3.12 on, the listener's `wait_closed()` (`tcp.py:94`); there is no
  timeout (`flushing`). `ShutdownEnds` excepts it.
- A UDP connection cancelled by `stop()` before its task has run never gets to its
  `finally` clause and stays counted in `_udp_in_progress_handshakes` (`udp.py:380`;
  `dropped` in `CountsExact`): a second `serve()` on the same object would start with
  that address's limit reduced.
- The watchdog closes the session after `on_timeout` though a frame may have arrived
  during the callback (`_server.py:107`).
- `rekey()` while a PONG or a message of the peer is on its way ends a TCP session:
  the frame arrives under the key that was just replaced (`_session.py:304`). The
  docstring of `rekey()` says that it rotates "session keys without disconnecting"
  (`_session.py:291`), without a condition. `StaysInStep` and `ChannelSpec` make no
  such claim: they are checked for applications that rekey while the other side is
  quiet (`QuietRekeys`), and under `FairTcpSpec`, with the same workload,
  `StaysInStep` is violated.
- `2.0 ** (fails - 5)` is computed before it is capped; past an exponent of 1023 it
  raises `OverflowError`, and further failures are not recorded
  (`_handshake.py:44`; `BackoffOverflows`).
- A late duplicate of a HELLO, whose cookie is still valid, opens a handshake that
  takes the datagrams of the client's live session (`udp.py:478`) until it ends,
  which `HandshakesEnd` shows it does. Likewise a stream that the watchdog closed
  stays registered, and gets datagrams, while its handler runs. `RegistryExact` is
  about who is registered, not about who gets datagrams.
- At the session limit a client that reconnects from its old address is turned
  away: its own old session fills the place (`_server.py:236`; `TurnAwayUdp`). Any
  client turned away at the promotion (`_server.py:225-243`) has accepted SESSION_OK
  by then and is told nothing: its `connect()` returned, and its first frame gets no
  UTACK (`TurnAway` in `UdpHandshake`; `ServerReady` and `Completes` name this case).
- With PINGs from both sides and both write buffers full, each `recv()` waits for
  its PONG behind a `send()` that waits for the other side to read. TLC finds this
  mutual wait when `MCTcpChannel.cfg` is given the workload `Talk` and
  `HighWater = 2`. No statement in the repository excludes it.

## Fairness

Of the event loop every liveness property assumes that a task which is ready
runs, and that timers fire; weak fairness of the corresponding steps says so. Of
peers and of applications nothing is assumed but the following.

- `FairTcpSpec` and `CarefulTcpSpec` (`tcp_faults`, `tcp_channel`): TCP delivers what
  was written, and the applications keep calling `recv()`. Sending, cancelling and
  failing are never assumed. `CarefulTcpSpec` restricts the steps by `QuietRekeys`,
  which forbids calls (of `rekey()`, or of anything during the peer's rekey) and
  never a step that fairness asks for, so the restriction hides no stuck state.
- `FairUdpSpec` (`udp_session`): only the task that is sending and its retry timer
  are fair. The network may deliver nothing at all, and `CallsEnd` still holds.
- `FairSpec` of `UdpHandshake`: tasks that are ready run, and the network delivers
  something now and then if it has something new to deliver. That is all that
  `Completes` needs. `HandshakeEnds` takes the timers' fairness (`TimersFire`) as a
  hypothesis, so that the same specification also covers behaviours in which no
  timer fires.
- `FairSpec` of `Server` (`server`): tasks run, the handshake timer fires and a
  CancelledError arrives. Nothing is assumed of peers, which need not read, nor of
  handlers, which end for certain only if they are cancelled. So `ShutdownEnds`
  excepts two cases: a handler that missed its cancellation runs on, and a peer does
  not take what was written to a TCP connection that is closed. The liveness properties have the form "in the end
  always", which is the same as "every one ends" because a behaviour has finitely
  many connections and one shutdown.

## Proofs

All theorems hold for every value of the constants that satisfies the named
assumptions of the modules:

- sessions: `Client # Server`, the PONG task distinct from the callers', the
  handshake's salt distinct from rekey salts, a fragment of at least one byte, at
  least one frame per message, message lengths and the last sequence number
  natural numbers (`PeersAssumption`, `RecvTaskAssumption`, `SaltAssumption`,
  `LengthAssumption`, `SeqAssumption`, ...);
- window, buffers, sequence space and number of attempts of at least 1
  (`WindowSizeAssumption`, `BufferCapAssumption`, `UdpAssumption`,
  `HandshakeAssumption`);
- limiters and server: positive table sizes, capacities and permits, limits that
  are natural numbers, finitely many addresses and ports, as IP has
  (`LimiterAssumption`, `CookieAssumption`, `ServerAssumption`).

No bound of a run (calls, connections, faults, time) is assumed to be small.

The large proofs have one shape. The actions of a module are grouped by what they
do to the state, into a few named effects; a lemma shows that every step has one
of the effects, and each part of the invariant is shown to survive each effect.
The effects of `SessionProofs` leave open what the transport does meanwhile, so
`TcpSessionProofs` and `UdpSessionProofs` use its lemmas unchanged.

### `ReplayWindowProofs`

- `TypeCorrect`, `ReplayFree` (`NoReplay`), `MaskExact` (`WindowExact`),
  `StaleDropsOnly` (`DropsOnlyStale`), `FilterSafeBeforeRekey`.
- `NoReplay` is not inductive: it needs to know that a frame which passes the
  window check was not accepted before, which is `WindowExact` (inside the window
  the mask is the history; above it, and for later keys, nothing was accepted).
  Frames that left the window are refused as too old, so their history does not
  matter. Lemma `SlideExact` is the arithmetic: the mask after a slide, jump or
  late frame is exact if it was before.

### `SessionProofs`

- `SingleWriter` (`OneWriter`), from `QueueCorrect`: the lock's queue holds exactly
  the tasks that are not idle, each once, and a task in its drain is at its head.
- `NonceNeverReused` (`NonceUnique`). The strengthening says that every frame on
  the wire under the current key has a number below `tx_seq`, or equal to it only
  if the space is spent and the frame is the one terminal BYE, which `_closed`
  permits once; and that the salt of a key not yet in use has sealed nothing:
  keys are told apart by their salts, which are fresh whichever side starts a
  rotation.
- `MessagesUnbroken` (`MessageUnbroken`). `UnbrokenInv`: while a task is in the drain
  of a fragment and the transport is open, all fragments it has written so far are
  the last frames on the wire, in order; a task that waits for the lock has
  written none.
- `SessionTypeCorrect` (`TypeOK`).
- The last part of the module is about two sessions whose REKEYs carry a salt from
  one to the other, whatever transport carries them: `PairInv` says that every salt
  was drawn by the peer that sent it and travels once, and `PairNext` that each
  effect keeps it, if what `recv()` reads was on the wire and was not read before.
  The two transports prove that condition each in its own way.

### `TcpSessionProofs`

- `TcpInvariant`: `TcpInv` is `NonceInv` of the sending half, the place of each
  `recv()` in its stream (`LinkInv`), and the way of every salt. `Session` lets a
  REKEY of the peer arrive with any fresh salt; here the frame comes from the wire,
  so it has to be shown that its salt is one the peer drew (`DrawnInv`), that no
  salt travels twice, and that the receiver has not seen the salt of a REKEY it has
  yet to read (`FreshInv`).
- `TcpNonceNeverReused` (`NonceUnique` of the composed system), `DirectionsStayApart`
  (`DirectionsApart`), `TcpTypeCorrect` (`TcpTypeOK`).
- `NothingMadeUp` (`DeliveredFromWire`). `DeliveryInv`: what `recv()` holds is the
  concatenation of the last `frame_count` frames it has read, under one key and
  with consecutive numbers. The hard case is a REKEY between two fragments: it
  puts `rx_seq` back to 0, so no fragment that `recv()` would still append has the
  number it expects.

### `UdpSessionProofs`

Every step of `UdpNext` has one of fourteen effects (`UdpEffects`).

- `UdpTypeCorrect` (`UdpTypeOK`), from `LinkInv`.
- `UdpNonceNeverReused` (`NonceUnique`). The network may deliver a REKEY again, so
  what is shown is that a frame which `recv()` has taken is spent (`SaltSpent`): the
  window of its key has it, or its key is one that `recv()` has left for good. The
  second case is the one a test would miss: an old key never comes back, because
  the salts of a chain of rotations differ.
- `BytesDeliveredOnce` (`DeliveredOnce`), for any faults, timeouts and rekeys.
  `BytesInv`: a byte of a message is sealed in one frame only, and no byte on the
  wire is still to be sent. `OnceInv`: the payloads returned, and the one being put
  together, have no byte in common, and all of them come from frames that are spent.
- `StopAndWait` (`InOrder`). Its hypothesis is named `Undisturbed`: no call has failed,
  was cancelled or timed out, and no salt was drawn. `Quiet` shows that it then held
  at every earlier step. Two invariants carry it.
  - `ChannelInv`: frames are numbered 0, 1, 2, ..., the window has no holes, nor has
    the buffer, and what a UTACK acknowledges has arrived: frame n is sent only when
    frame n - 1 has been taken or waits. So `recv()` takes the frames in their order
    (`HeadInTurn`), though a full buffer drops some and the network repeats others. A
    UTACK is sent after the frame was put in the buffer, and this is where that
    order is used (`LandedNext`).
  - `OrderInv`: functions that the proof finds at each step assign to every frame the
    number of messages complete after it, and to every call the message it holds.
    `Sender` says that the calls which have not written hold the messages not yet on
    the wire, in the order in which they wait for the lock; `Receiver`, that
    what `recv()` returned and what it holds are what the frames taken so far carry.

### `UdpHandshakeProofs`

- `HandshakeInvariant` follows the nonce: a frame in flight or in a buffer tells
  what its sender has done (a CHALLENGE, that a stream has drawn the nonce; a
  HELLO_ACK, that the client has settled on it; a SESSION_OK, that the stream has
  its keys). Without it nothing could be said of the frames a stream reads, as
  they may be arbitrarily old.
- `HandshakesAgree` (`Agreement`), `ServerIsReady` (`ServerReady`) and
  `HandshakeTypeCorrect` (`HandshakeTypeOK`) follow from it. `ServerIsReady` has the
  exceptions of `ServerReady`: a timer that ended the stream, or the session limit.
- `NeverRejected` (`NotRejected`) needs also `TrackInv`: what each side received last
  determines where it is, so that the duplicate check of `feed_packet` keeps every
  repeated frame out of the buffer.

### `HandshakeLimiterProofs` and `CookieLimiterProofs`

- `LimiterTypeCorrect` (`TypeOK`: the table never grows past its size),
  `LockoutsBounded` (`LockoutBounded`) and the action property `OnlyExpiredForgotten`
  (`ForgetsOnlyExpired`), from `TableCorrect`. The lemmas say what one call of
  `record_failed_handshake` does, with pruning, eviction and backoff.
- `CookieTypeCorrect` (`CookieTypeOK`), the action property `RecentKept`
  (`KeepsRecent`), and `BucketsExact` (`BucketExact`). The reference for a bucket is a
  minimum over the history of granted cookies; the proof replaces it by its
  characterisation (`Least`: a lower bound that is attained), which a tick, a grant
  and a refusal can be shown to preserve.

### `ServerProofs`

- `ServerInvariant`: `Inv` joins types, the counts, the registries, the bounds on
  sessions and what holds in each phase of the shutdown. They are inductive only
  together: a count goes down in `Unregister`, which tells by the registry whether
  the connection still owns its slot; the bound on UDP sessions is one on
  registered addresses; the registries are emptied by `stop()`. `AttachInv` says that
  a TCP connection whose task has not run yet is still attached: this is why, from
  Python 3.12 on, the listener's `wait_closed()` waits for the connections that its
  snapshot of tasks missed.
- `CountsAreExact`, `RegistriesAreExact`, `SessionsAreBounded`, `ShutdownIsComplete`
  (`NothingOutlivesServe`), `ServerTypeCorrect`.
- `LimiterImplemented`: `Spec => LimiterSpec`, under the hypothesis `~HandlerTimeouts`,
  that handlers call `recv()` without a timeout. The run `server_handler_timeout`
  shows that it cannot be dropped. The mapping sends the counts of waiting and
  running handshakes to cardinalities, so that each step of a connection is a step
  of the limiter or stutters.

The prover does not do induction over data. Where a sum or a concatenation over
finite data has to be computed (`SumOfCounts`, `PartialUnique`), the proof takes a
minimal counterexample of a well-founded relation instead.

### Only model-checked

- Liveness, and the refinement that contains it, which need fairness: `ChannelSpec`,
  `ByeEndsSession`, `CallsEnd`, `HandshakeEnds`, `Completes`, `HandshakesEnd`,
  `ShutdownEnds`.
- `StaysInStep`. It is not true for every value of the constants: besides
  `QuietRekeys`, its first part relies on runs in which no sequence number and no
  budget of control frames runs out and no BYE is sent. A theorem would have to
  assume that of the workload, and of `MaxSeq` and `CtrlLimit`.

## Not modelled, and the plan

Not modelled: the primitives (AES-GCM, ChaCha20-Poly1305, X25519, HKDF, HMAC); the
byte layout and CRC of a frame, whose encoding and decoding are pure functions
without state (the tests cover them well, and no property here tells them apart
from an abstract frame); the RTT estimate beyond the freedom of its timers; the
expiry of cookies, which is not told apart from loss; log output, declarations,
the registry of transports, and signal registration (a signal calls what `stop()`
calls).

What is left is to prove more of what TLC has checked: `StaysInStep` under the
hypotheses named above, and the safety part of `ChannelSpec` over TCP, for which
`Sender` and `Receiver` of `UdpSessionProofs` are the invariant to start from.
