---------------------------- MODULE UdpHandshake ----------------------------
(***************************************************************************)
(* The handshake of one client over UDP, up to its first session frame:    *)
(* client_handshake, the listener's stateless cookie exchange, and         *)
(* server_handshake in every stream the listener opens for the client's    *)
(* address, each frame carried by UDPStream's stop-and-wait ARQ.           *)
(*                                                                         *)
(*   client                     server                                     *)
(*   HELLO seq 0           ->                                              *)
(*                         <-   HELLO_RETRY [cookie]     no state is kept  *)
(*   HELLO seq 1 [cookie]  ->                            a stream is opened*)
(*                         <-   CHALLENGE [nonce, pub_s]                   *)
(*   HELLO_ACK seq 2 [MAC] ->                                              *)
(*                         <-   SESSION_OK [session_id, MAC]               *)
(*   DATA                  ->                                              *)
(*                                                                         *)
(* c2s and s2c hold every datagram sent; any may arrive at any time, any   *)
(* number of times or never, and one of them with a bit error that no CRC  *)
(* check catches (the handshake reads with verify_crc=False).  A late      *)
(* HELLO with its cookie opens another stream at the same address.         *)
(*                                                                         *)
(* HMAC and key agreement are ideal: what they bind is the nonce, which    *)
(* every stream draws afresh and which is identified with the stream's     *)
(* index, and the PSK.  A HELLO refused by the limits of the listener or   *)
(* whose cookie has expired is as good as lost.  The sessions of other     *)
(* addresses are not modelled: whether they leave room for one more when a *)
(* handshake is complete is a free choice (TurnAway).                      *)
(***************************************************************************)
EXTENDS Integers, Sequences, FiniteSets

CONSTANTS
    Psks,         \* what the server may hold: the client's "psk", another, none
    MaxStreams,   \* bound on the streams the listener opens
    MaxAttempts,  \* transmissions of one frame, 5 in the code
    BufferCap     \* frames MAX_READ_BUFFER has room for

ASSUME HandshakeAssumption ==
    /\ Psks \subseteq {"psk", "other", "none"}
    /\ MaxStreams \in Nat \ {0} /\ MaxAttempts \in Nat \ {0} /\ BufferCap \in Nat \ {0}

VARIABLES
    server_psk,  \* the PSK the server resolves for the device
    client,      \* the client's stream and its task
    streams,     \* the server's streams for the client's address, and theirs
    handshake,   \* _udp_handshakes at that address, None or a stream
    session,     \* _udp_sessions at that address, None or a stream
    c2s, s2c,    \* the datagrams sent in each direction
    damaged,     \* a datagram was altered on the way
    gave_up      \* history: a handshake timeout or the last ARQ timer fired

vars == <<server_psk, client, streams, handshake, session, c2s, s2c, damaged, gave_up>>

None == 0

Garbage == -1  \* the nonce or MAC of a damaged datagram

(* PacketType *)
HELLO == 1
CHALLENGE == 2
HELLO_ACK == 3
SESSION_OK == 4
DATA == 5
HELLO_RETRY == 10

IsSession(type) == type >= 5 /\ type # HELLO_RETRY

Frame(type, seq, nonce) == [utack |-> FALSE, type |-> type, seq |-> seq, nonce |-> nonce]

-----------------------------------------------------------------------------
(* UDPStream.  key is None until set_session_keys; afterwards the nonce    *)
(* that the keys were derived with.                                        *)

Stream ==
    [pc |-> "start", nonce |-> None, key |-> None, buffer |-> << >>,
     last_rx_type |-> -1, pending |-> Frame(-1, -1, None), attempt |-> 0, acked |-> FALSE]

(* _build_utack: types >= 5 have a MAC once there are keys. *)
Utack(e, m) ==
    [utack |-> TRUE, type |-> m.type, seq |-> m.seq,
     nonce |-> IF m.type >= 5 THEN e.key ELSE None]

(* Mutant: only the type that came last is recognised. *)
IsDuplicate_SameType(e, m, is_server) == m.type = e.last_rx_type

(* "Duplicate detection for handshake packets" *)
IsDuplicate(e, m, is_server) ==
    \/ m.type = e.last_rx_type
    \/ m.type = HELLO_RETRY /\ e.last_rx_type # -1
    \/ m.type = CHALLENGE /\ e.last_rx_type = SESSION_OK
    \/ is_server /\ e.last_rx_type # -1 /\ m.type <= e.last_rx_type

(* What is not a duplicate is buffered, or dropped without a UTACK. *)
Fresh(e, m, is_server) == IsSession(m.type) \/ ~IsDuplicate(e, m, is_server)

(* Mutant: off by one. *)
BufferFull_OffByOne(e) == Len(e.buffer) > BufferCap

BufferFull(e) == Len(e.buffer) >= BufferCap

Verifies(e, u) == u.type >= 5 => e.key # None /\ u.nonce = e.key

(* feed_packet: the stream afterwards, and what it sends. *)
Fed(e, m, is_server) ==
    IF m.utack
    THEN IF Verifies(e, m) /\ m.type = e.pending.type /\ m.seq = e.pending.seq
         THEN [e EXCEPT !.acked = TRUE] ELSE e
    ELSE IF Fresh(e, m, is_server)
         THEN [e EXCEPT !.buffer = IF BufferFull(e) THEN @ ELSE Append(@, m),
                        !.last_rx_type = IF IsSession(m.type) THEN @ ELSE m.type]
         ELSE e

Reply(e, m, is_server) ==
    IF m.utack \/ (Fresh(e, m, is_server) /\ BufferFull(e)) THEN {} ELSE {Utack(e, m)}

(* write() and the first transmission of drain(). *)
Writing(e, pc, f) ==
    [e EXCEPT !.pc = pc, !.pending = f, !.attempt = 1, !.acked = FALSE]

Popped(e) == [e EXCEPT !.buffer = Tail(@)]

-----------------------------------------------------------------------------
(* client_handshake, in the order of its awaits. *)

Drains == {"hello0", "hello1", "hello_ack", "data"}
Reads == {"retry", "challenge", "session_ok"}

(* What follows each drain. *)
AfterDrain ==
    [hello0 |-> "retry", hello1 |-> "challenge", hello_ack |-> "session_ok", data |-> "sent"]

Init ==
    /\ server_psk \in Psks
    /\ client = Writing(Stream, "hello0", Frame(HELLO, 0, None))
    /\ c2s = {Frame(HELLO, 0, None)}
    /\ streams = << >>
    /\ handshake = None
    /\ session = None
    /\ s2c = {}
    /\ damaged = FALSE
    /\ gave_up = FALSE

ClientWrites(e, pc, f) ==
    /\ client' = Writing(e, pc, f)
    /\ c2s' = c2s \cup {f}

ClientDrained ==
    /\ client.pc \in Drains /\ client.acked
    /\ client' = [client EXCEPT !.pc = AfterDrain[client.pc]]
    /\ UNCHANGED <<server_psk, streams, handshake, session, c2s, s2c, damaged, gave_up>>

(* A frame arrives where the client waits for one; of a wrong type, it     *)
(* fails the handshake.                                                    *)
ClientReads ==
    LET f == Head(client.buffer) IN
    /\ client.pc \in Reads /\ client.buffer # << >>
    /\ \/ /\ client.pc = "retry" /\ f.type = HELLO_RETRY
          /\ ClientWrites(Popped(client), "hello1", Frame(HELLO, 1, None))
       \/ /\ client.pc \in {"retry", "challenge"} /\ f.type = CHALLENGE
          /\ ClientWrites([Popped(client) EXCEPT !.nonce = f.nonce],
                          "hello_ack", Frame(HELLO_ACK, 2, f.nonce))
       \/ /\ client.pc = "session_ok" /\ f.type = SESSION_OK /\ f.nonce = client.nonce
          /\ client' = [Popped(client) EXCEPT !.pc = "established", !.key = f.nonce]
          /\ UNCHANGED c2s
       \/ /\ \/ client.pc = "retry" /\ f.type \notin {HELLO_RETRY, CHALLENGE}
             \/ client.pc = "challenge" /\ f.type # CHALLENGE
             \/ client.pc = "session_ok" /\ ~(f.type = SESSION_OK /\ f.nonce = client.nonce)
          /\ client' = [client EXCEPT !.pc = "failed"]
          /\ UNCHANGED c2s
    /\ UNCHANGED <<server_psk, streams, handshake, session, s2c, damaged, gave_up>>

(* The application sends its first frame. *)
ClientSends ==
    /\ client.pc = "established"
    /\ ClientWrites(client, "data", Frame(DATA, 0, client.key))
    /\ UNCHANGED <<server_psk, streams, handshake, session, s2c, damaged, gave_up>>

ClientRetransmits ==
    /\ client.pc \in Drains /\ client.attempt < MaxAttempts
    /\ client' = [client EXCEPT !.attempt = @ + 1]
    /\ UNCHANGED <<server_psk, streams, handshake, session, c2s, s2c, damaged, gave_up>>

(* The last ARQ timer, or the timeout of connect(): the stream is closed,  *)
(* and the UDP endpoint with it.                                           *)
ClientGivesUp ==
    /\ \/ client.pc \in Drains /\ client.attempt = MaxAttempts
       \/ client.pc \in (Drains \cup Reads) \ {"data"}
    /\ client' = [client EXCEPT !.pc = "failed"]
    /\ gave_up' = TRUE
    /\ UNCHANGED <<server_psk, streams, handshake, session, c2s, s2c, damaged>>

(* The network delivers a datagram to the client. *)
ToClient(m) ==
    /\ m \in s2c
    /\ client.pc # "failed"
    /\ client' = Fed(client, m, FALSE)
    /\ c2s' = c2s \cup Reply(client, m, FALSE)
    /\ UNCHANGED <<server_psk, streams, handshake, session, s2c, damaged, gave_up>>

-----------------------------------------------------------------------------
(* _handle_udp_datagram *)

FeedStream(s, m) ==
    /\ streams' = [streams EXCEPT ![s] = Fed(@, m, TRUE)]
    /\ s2c' = s2c \cup Reply(streams[s], m, TRUE)
    /\ UNCHANGED handshake

(* Mutant: the HELLO that gets a cookie is not acknowledged. *)
IssueCookie_NoUtack(m) ==
    /\ handshake = None /\ ~m.utack /\ m.type = HELLO /\ m.seq = 0
    /\ s2c' = s2c \cup {Frame(HELLO_RETRY, 0, None)}
    /\ UNCHANGED <<streams, handshake>>

IssueCookie(m) ==
    /\ handshake = None /\ ~m.utack /\ m.type = HELLO /\ m.seq = 0
    /\ s2c' = s2c \cup {Utack(Stream, m), Frame(HELLO_RETRY, 0, None)}
    /\ UNCHANGED <<streams, handshake>>

OpenStream(m) ==
    /\ handshake = None /\ ~m.utack /\ m.type = HELLO /\ m.seq = 1
    /\ Len(streams) < MaxStreams
    /\ streams' = Append(streams, Fed([Stream EXCEPT !.pc = "hello"], m, TRUE))
    /\ handshake' = Len(streams) + 1
    /\ s2c' = s2c \cup {Utack(Stream, m)}

(* Handshake frames and UTACKs go to the handshake at the address; session *)
(* ones to it as well, and to the session if there is no handshake.        *)
ToServer(m) ==
    /\ m \in c2s
    /\ \/ handshake # None /\ FeedStream(handshake, m)
       \/ handshake = None /\ m.type >= 5 /\ session # None /\ FeedStream(session, m)
       \/ IssueCookie(m)
       \/ OpenStream(m)
    /\ UNCHANGED <<server_psk, client, session, c2s, damaged, gave_up>>

-----------------------------------------------------------------------------
(* server_handshake in stream s, and the end of its connection: "rejected" *)
(* and "timeout" count as failed handshakes, "lost" (OSError) does not.    *)

StreamWrites(s, e, pc, f) ==
    /\ streams' = [streams EXCEPT ![s] = Writing(e, pc, f)]
    /\ s2c' = s2c \cup {f}
    /\ UNCHANGED <<handshake, session>>

StreamEnds(s, pc) ==
    /\ streams' = [streams EXCEPT ![s].pc = pc]
    /\ handshake' = IF handshake = s THEN None ELSE handshake
    /\ session' = IF session = s THEN None ELSE session
    /\ UNCHANGED s2c

(* HELLO: the device's PSK is looked up, and the challenge drawn. *)
ReadHello(s) ==
    LET e == streams[s] IN
    /\ e.pc = "hello"
    /\ \/ server_psk # "none"
          /\ StreamWrites(s, [Popped(e) EXCEPT !.nonce = s], "challenge", Frame(CHALLENGE, 0, s))
       \/ server_psk = "none" /\ StreamEnds(s, "rejected")
    /\ UNCHANGED <<server_psk, client, c2s, damaged, gave_up>>

(* Mutant: the MAC of HELLO_ACK does not cover the nonce. *)
ClientMacOk_NoNonce(e, f) == f.type = HELLO_ACK /\ server_psk = "psk"

ClientMacOk(e, f) == f.type = HELLO_ACK /\ server_psk = "psk" /\ f.nonce = e.nonce

(* Mutant: the keys are installed once SESSION_OK is acknowledged. *)
ReadHelloAck_KeysLater(s) ==
    LET e == streams[s] IN
    /\ e.pc = "hello_ack" /\ e.buffer # << >>
    /\ \/ /\ ClientMacOk(e, Head(e.buffer))
          /\ StreamWrites(s, Popped(e), "session_ok", Frame(SESSION_OK, 0, e.nonce))
       \/ ~ClientMacOk(e, Head(e.buffer)) /\ StreamEnds(s, "rejected")
    /\ UNCHANGED <<server_psk, client, c2s, damaged, gave_up>>

(* HELLO_ACK: the keys are installed before SESSION_OK goes out. *)
ReadHelloAck(s) ==
    LET e == streams[s] IN
    /\ e.pc = "hello_ack" /\ e.buffer # << >>
    /\ \/ /\ ClientMacOk(e, Head(e.buffer))
          /\ StreamWrites(s, [Popped(e) EXCEPT !.key = e.nonce], "session_ok",
                          Frame(SESSION_OK, 0, e.nonce))
       \/ ~ClientMacOk(e, Head(e.buffer)) /\ StreamEnds(s, "rejected")
    /\ UNCHANGED <<server_psk, client, c2s, damaged, gave_up>>

ChallengeDrained(s) ==
    /\ streams[s].pc = "challenge" /\ streams[s].acked
    /\ streams' = [streams EXCEPT ![s].pc = "hello_ack"]
    /\ UNCHANGED <<server_psk, client, handshake, session, c2s, s2c, damaged, gave_up>>

(* SESSION_OK was acknowledged: the stream becomes the address's session,  *)
(* in place of one that is there already.                                  *)
Establish(s) ==
    /\ streams[s].pc = "session_ok" /\ streams[s].acked
    /\ streams' = [i \in DOMAIN streams |->
                     IF i = s THEN [streams[i] EXCEPT !.pc = "session"]
                     ELSE IF i = session THEN [streams[i] EXCEPT !.pc = "replaced"]
                     ELSE streams[i]]
    /\ handshake' = None
    /\ session' = s
    /\ UNCHANGED <<server_psk, client, c2s, s2c, damaged, gave_up>>

(* The server has max_connections sessions, or max_connections_per_ip with *)
(* this IP, the client's own old one included: the stream is closed, though *)
(* the client has accepted SESSION_OK and is told nothing.                 *)
TurnAway(s) ==
    /\ streams[s].pc = "session_ok" /\ streams[s].acked
    /\ StreamEnds(s, "turned_away")
    /\ UNCHANGED <<server_psk, client, c2s, damaged, gave_up>>

(* The session's recv() takes a frame from the buffer. *)
SessionReads(s) ==
    /\ streams[s].pc = "session" /\ streams[s].buffer # << >>
    /\ streams' = [streams EXCEPT ![s] = Popped(@)]
    /\ UNCHANGED <<server_psk, client, handshake, session, c2s, s2c, damaged, gave_up>>

StreamRetransmits(s) ==
    /\ streams[s].pc \in {"challenge", "session_ok"} /\ streams[s].attempt < MaxAttempts
    /\ streams' = [streams EXCEPT ![s].attempt = @ + 1]
    /\ UNCHANGED <<server_psk, client, handshake, session, c2s, s2c, damaged, gave_up>>

(* Mutant: the handshake has no timeout of its own. *)
StreamGivesUp_ArqOnly(s) ==
    /\ streams[s].pc \in {"challenge", "session_ok"}
    /\ streams[s].attempt = MaxAttempts
    /\ StreamEnds(s, "lost")
    /\ gave_up' = TRUE
    /\ UNCHANGED <<server_psk, client, c2s, damaged>>

(* The last ARQ timer, or the timeout of the server's wait_for. *)
StreamGivesUp(s) ==
    /\ \/ /\ streams[s].pc \in {"challenge", "session_ok"}
          /\ streams[s].attempt = MaxAttempts
          /\ StreamEnds(s, "lost")
       \/ /\ streams[s].pc \in {"hello", "challenge", "hello_ack", "session_ok"}
          /\ StreamEnds(s, "timeout")
    /\ gave_up' = TRUE
    /\ UNCHANGED <<server_psk, client, c2s, damaged>>

-----------------------------------------------------------------------------
(* A bit error in a CHALLENGE, HELLO_ACK or SESSION_OK. *)
Damage ==
    /\ ~damaged
    /\ damaged' = TRUE
    /\ \/ \E m \in s2c :
             /\ ~m.utack /\ m.type \in {CHALLENGE, SESSION_OK}
             /\ s2c' = s2c \cup {[m EXCEPT !.nonce = Garbage]}
             /\ UNCHANGED c2s
       \/ \E m \in c2s :
             /\ ~m.utack /\ m.type = HELLO_ACK
             /\ c2s' = c2s \cup {[m EXCEPT !.nonce = Garbage]}
             /\ UNCHANGED s2c
    /\ UNCHANGED <<server_psk, client, streams, handshake, session, gave_up>>

-----------------------------------------------------------------------------
ClientStep == ClientDrained \/ ClientReads

ServerStep(s) ==
    \/ ReadHello(s) \/ ReadHelloAck(s) \/ ChallengeDrained(s)
    \/ Establish(s) \/ TurnAway(s) \/ SessionReads(s)

Next ==
    \/ ClientStep \/ ClientSends \/ ClientRetransmits \/ ClientGivesUp
    \/ \E m \in s2c : ToClient(m)
    \/ \E m \in c2s : ToServer(m)
    \/ \E s \in DOMAIN streams : ServerStep(s) \/ StreamRetransmits(s) \/ StreamGivesUp(s)
    \/ Damage

Spec == Init /\ [][Next]_vars

(* The event loops run tasks that are ready; a network that has something  *)
(* new to deliver delivers something, sooner or later.                     *)
Fairness ==
    /\ WF_vars(ClientStep)
    /\ WF_vars(\E s \in DOMAIN streams : ServerStep(s))
    /\ WF_vars((\E m \in s2c : ToClient(m)) \/ (\E m \in c2s : ToServer(m)))

(* Whoever waits too long times out. *)
TimersFire ==
    /\ WF_vars(ClientRetransmits \/ ClientGivesUp)
    /\ WF_vars(\E s \in DOMAIN streams : StreamGivesUp(s))

FairSpec == Spec /\ Fairness

-----------------------------------------------------------------------------
HandshakeTypeOK ==
    /\ client.pc \in Drains \cup Reads \cup {"established", "sent", "failed"}
    /\ Len(streams) <= MaxStreams
    /\ \A s \in DOMAIN streams :
          /\ streams[s].pc \in {"hello", "challenge", "hello_ack", "session_ok", "session",
                                "replaced", "turned_away", "rejected", "lost", "timeout"}
          /\ Len(streams[s].buffer) <= BufferCap
    /\ {handshake, session} \subseteq DOMAIN streams \cup {None}

(* A stream accepts the client only for the challenge the client answered, *)
(* with the PSK they share, and at most one stream ever does, though late  *)
(* duplicates of HELLO open further streams and duplicates of HELLO_ACK    *)
(* reach them.                                                             *)
Agreement ==
    \A s \in DOMAIN streams :
        streams[s].key # None =>
            /\ client.nonce = s /\ server_psk = "psk"
            /\ \A r \in DOMAIN streams : streams[r].key # None => r = s

(* A client that has accepted SESSION_OK can send at once: the stream it   *)
(* agreed with has installed the same keys, so that it can authenticate    *)
(* the UTACK of the client's first frame, and it is registered at the      *)
(* client's address, unless a timer ended it or the server, at the limit   *)
(* of its sessions, turned it away.                                        *)
ServerReady ==
    client.key # None =>
        /\ client.key \in DOMAIN streams
        /\ streams[client.key].key = client.key
        /\ \/ gave_up
           \/ client.key \in {handshake, session}
           \/ streams[client.key].pc = "turned_away"

(* Loss, duplication and reordering alone never fail a handshake: until a  *)
(* timer gives up, neither the client nor the stream opened for it sees a  *)
(* frame it does not expect.                                               *)
NotRejected ==
    server_psk = "psk" /\ ~damaged /\ ~gave_up =>
        /\ client.pc # "failed"
        /\ streams # << >> => streams[1].pc \notin {"rejected", "lost", "timeout", "replaced"}

(* Both sides end, whatever the network does: connect() returns or raises, *)
(* and every stream becomes a session or is closed.                        *)
HandshakeEnds ==
    TimersFire =>
        /\ client.pc \in Drains \cup Reads ~> client.pc \in {"established", "sent", "failed"}
        /\ \A s \in 1 .. MaxStreams :
              s \in DOMAIN streams ~>
                  /\ s \in DOMAIN streams
                  /\ streams[s].pc \notin {"hello", "challenge", "hello_ack", "session_ok"}

(* Nobody waits for somebody who waits: if no timer gives up and nothing   *)
(* is damaged, client and server agree without a retransmission being      *)
(* needed, and the stream they agree in becomes the session of the address *)
(* if the server has room for one more.                                    *)
Completes ==
    server_psk = "psk" /\ [](~damaged /\ ~gave_up) =>
        <>(/\ client.key # None
           /\ session = client.key \/ streams[client.key].pc = "turned_away")

=============================================================================
