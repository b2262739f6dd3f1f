------------------------- MODULE UdpHandshakeProofs -------------------------
(***************************************************************************)
(* Proofs about the handshake over UDP, for any number of streams that     *)
(* late duplicates of HELLO open, any number of transmissions, any size of *)
(* the read buffer, every delivery order, loss and duplication, and one    *)
(* damaged datagram.                                                       *)
(*                                                                         *)
(* The argument follows the nonce.  A frame in flight, or in a buffer,     *)
(* tells what its sender has done: HELLO with seq 1 that the client has    *)
(* its cookie, CHALLENGE that a stream has drawn its nonce, HELLO_ACK that *)
(* the client has settled on a nonce, SESSION_OK that a stream has its     *)
(* keys.                                                                   *)
(***************************************************************************)
EXTENDS UdpHandshake, SequenceTheorems, TLAPS

Msgs == [utack : BOOLEAN, type : Int, seq : Int, nonce : Int]

ServerPcs ==
    {"hello", "challenge", "hello_ack", "session_ok", "session",
     "replaced", "turned_away", "rejected", "lost", "timeout"}

Pcs == Drains \cup Reads \cup ServerPcs \cup {"start", "established", "sent", "failed"}

StreamRecords ==
    [pc : Pcs, nonce : Int, key : Int, buffer : Seq(Msgs), last_rx_type : Int,
     pending : Msgs, attempt : Int, acked : BOOLEAN]

ClientPcs == Drains \cup Reads \cup {"established", "sent", "failed"}

(* A stream's task is in server_handshake. *)
Active == {"hello", "challenge", "hello_ack", "session_ok"}

(* The client has not chosen a challenge yet. *)
Unchallenged == {"hello0", "retry", "hello1", "challenge"}

TypeInv ==
    /\ server_psk \in Psks
    /\ client \in StreamRecords
    /\ client.pc \in ClientPcs
    /\ streams \in Seq(StreamRecords)
    /\ Len(streams) <= MaxStreams
    /\ \A s \in DOMAIN streams : /\ streams[s].pc \in ServerPcs
                                 /\ Len(streams[s].buffer) <= BufferCap
    /\ handshake \in DOMAIN streams \cup {None}
    /\ session \in DOMAIN streams \cup {None}
    /\ c2s \subseteq Msgs /\ s2c \subseteq Msgs
    /\ damaged \in BOOLEAN /\ gave_up \in BOOLEAN

(* What frames of the server tell. *)
S2CInv ==
    \A m \in s2c : ~m.utack =>
        /\ m.type \in {CHALLENGE, SESSION_OK, HELLO_RETRY}
        /\ m.type = CHALLENGE /\ m.nonce # Garbage =>
              m.nonce \in DOMAIN streams /\ streams[m.nonce].pc # "hello"
        /\ m.type = SESSION_OK /\ m.nonce # Garbage =>
              m.nonce \in DOMAIN streams /\ streams[m.nonce].key = m.nonce

(* What frames of the client tell. *)
C2SInv ==
    \A m \in c2s : ~m.utack =>
        /\ m.type \in {HELLO, HELLO_ACK, DATA}
        /\ m.type = HELLO /\ m.seq = 1 => client.pc \notin {"hello0", "retry"}
        /\ m.type = HELLO_ACK => client.nonce # None /\ m.nonce \in {client.nonce, Garbage}
        /\ m.type = DATA => client.key # None

(* What is read was sent. *)
BufferInv ==
    /\ \A i \in 1 .. Len(client.buffer) : client.buffer[i] \in s2c /\ ~client.buffer[i].utack
    /\ \A s \in DOMAIN streams : \A i \in 1 .. Len(streams[s].buffer) :
          streams[s].buffer[i] \in c2s /\ ~streams[s].buffer[i].utack

ClientInv ==
    /\ client.pc \in Unchallenged => client.nonce = None
    /\ client.pc \in {"hello_ack", "session_ok"} => client.nonce # None
    /\ client.pc \in {"established", "data", "sent"} => client.key # None
    /\ client.nonce \in DOMAIN streams => streams[client.nonce].pc # "hello"
    /\ client.nonce \in DOMAIN streams \cup {None, Garbage}
    /\ client.key \in {None, client.nonce}
    /\ client.key # None =>
          /\ client.pc \in {"established", "data", "sent", "failed"}
          /\ client.key \in DOMAIN streams
          /\ streams[client.key].key = client.key
    /\ streams # << >> => client.pc \notin {"hello0", "retry"}

StreamInv ==
    /\ \A s \in DOMAIN streams :
          /\ streams[s].pc = "hello" => Len(streams[s].buffer) > 0
          /\ streams[s].pc \in {"challenge", "hello_ack", "session_ok"} => streams[s].nonce = s
          /\ streams[s].key \in {None, s}
          /\ streams[s].pc \in {"session_ok", "session"} => streams[s].key = s
          /\ streams[s].key # None =>
                /\ client.nonce = s /\ server_psk = "psk"
                /\ streams[s].pc \in {"session_ok", "session", "turned_away", "lost", "timeout"}
          /\ streams[s].pc \in Active => handshake = s
          /\ streams[s].pc = "session" => session = s
          /\ streams[s].pc \in {"lost", "timeout"} => gave_up
    /\ session # None => streams[session].pc = "session"

(* One datagram is damaged, so not both a CHALLENGE and a SESSION_OK are.  *)
GarbageInv ==
    /\ ~damaged =>
          /\ client.nonce # Garbage
          /\ \A m \in s2c \cup c2s : ~m.utack => m.nonce # Garbage
    /\ (\E m \in s2c : ~m.utack /\ m.type = SESSION_OK /\ m.nonce = Garbage) =>
          /\ client.nonce # Garbage
          /\ \A m \in s2c : ~m.utack /\ m.type = CHALLENGE => m.nonce # Garbage

HandshakeInv ==
    TypeInv /\ S2CInv /\ C2SInv /\ BufferInv /\ ClientInv /\ StreamInv /\ GarbageInv

-----------------------------------------------------------------------------
(* How far the client has got by what it has received: the frame that it   *)
(* received last is in its buffer, or was read.                            *)
Holds(e, type) == Len(e.buffer) = 1 /\ e.buffer[1].type = type

ClientOnTrack ==
    \/ /\ client.last_rx_type = -1 /\ client.buffer = << >>
       /\ client.pc \in {"hello0", "retry"}
    \/ /\ client.last_rx_type = HELLO_RETRY
       /\ \/ client.pc \in {"hello0", "retry"} /\ Holds(client, HELLO_RETRY)
          \/ client.pc \in {"hello1", "challenge"} /\ client.buffer = << >>
    \/ /\ client.last_rx_type = CHALLENGE
       /\ \/ client.pc \in {"hello1", "challenge"} /\ Holds(client, CHALLENGE)
          \/ client.pc \in {"hello_ack", "session_ok"} /\ client.buffer = << >>
    \/ /\ client.last_rx_type = SESSION_OK
       /\ \/ client.pc \in {"hello_ack", "session_ok"} /\ Holds(client, SESSION_OK)
          \/ client.pc \in {"established", "data", "sent"} /\ client.buffer = << >>

(* How far the first of n streams has got.  No other is opened before it   *)
(* has its session or is turned away.                                      *)
OnTrack(e, n) ==
    /\ e.pc \in Active \cup {"session", "turned_away"}
    /\ e.pc \in {"hello", "challenge", "hello_ack"} => n = 1
    /\ e.pc = "hello" => e.last_rx_type = HELLO /\ Len(e.buffer) = 1
    /\ e.pc \in {"challenge", "hello_ack"} =>
          \/ e.last_rx_type = HELLO /\ e.buffer = << >>
          \/ e.last_rx_type = HELLO_ACK /\ Holds(e, HELLO_ACK)

FirstOnTrack == OnTrack(streams[1], Len(streams))

TrackInv ==
    server_psk = "psk" /\ ~damaged /\ ~gave_up =>
        /\ ClientOnTrack
        /\ streams # << >> => FirstOnTrack

-----------------------------------------------------------------------------
(* What the operations on a stream return. *)

LEMMA FrameFacts ==
    ASSUME NEW type \in Int, NEW seq \in Int, NEW nonce \in Int
    PROVE  /\ Frame(type, seq, nonce) \in Msgs
           /\ Frame(type, seq, nonce).utack = FALSE
           /\ Frame(type, seq, nonce).type = type
           /\ Frame(type, seq, nonce).seq = seq
           /\ Frame(type, seq, nonce).nonce = nonce
BY DEF Frame, Msgs

LEMMA UtackFacts ==
    ASSUME NEW e \in StreamRecords, NEW m \in Msgs
    PROVE  Utack(e, m) \in Msgs /\ Utack(e, m).utack
<1>1. e.key \in Int /\ m.type \in Int /\ m.seq \in Int
  BY DEF StreamRecords, Msgs
<1> QED BY <1>1 DEF Utack, Msgs, None

LEMMA NewStream ==
    /\ Stream \in StreamRecords
    /\ Stream.nonce = None /\ Stream.key = None /\ Stream.buffer = << >> /\ Stream.last_rx_type = -1
<1> DEFINE f == Frame(-1, -1, None)
<1>1. f \in Msgs
  BY DEF Frame, Msgs, None
<1>2. << >> \in Seq(Msgs)
  BY EmptySeq
<1> HIDE DEF f
<1>3. Stream = [pc |-> "start", nonce |-> 0, key |-> 0, buffer |-> << >>, last_rx_type |-> -1,
                pending |-> f, attempt |-> 0, acked |-> FALSE]
  BY DEF Stream, f, None
<1>4. Stream \in StreamRecords
  BY <1>1, <1>2, <1>3 DEF StreamRecords, Pcs
<1> QED BY <1>3, <1>4 DEF None

(* Duplicates, frames for which there is no room, and UTACKs leave the     *)
(* buffer as it is.                                                        *)
LEMMA FedFacts ==
    ASSUME NEW e \in StreamRecords, NEW m \in Msgs, NEW b \in BOOLEAN
    PROVE  /\ Fed(e, m, b) \in StreamRecords
           /\ Fed(e, m, b).pc = e.pc
           /\ Fed(e, m, b).nonce = e.nonce
           /\ Fed(e, m, b).key = e.key
           /\ \/ /\ m.utack \/ ~Fresh(e, m, b)
                 /\ Fed(e, m, b).buffer = e.buffer
                 /\ Fed(e, m, b).last_rx_type = e.last_rx_type
              \/ /\ ~m.utack /\ Fresh(e, m, b)
                 /\ Fed(e, m, b).buffer = IF BufferFull(e) THEN e.buffer ELSE Append(e.buffer, m)
                 /\ Fed(e, m, b).last_rx_type =
                       IF IsSession(m.type) THEN e.last_rx_type ELSE m.type
<1> DEFINE buffer == IF BufferFull(e) THEN e.buffer ELSE Append(e.buffer, m)
           last == IF IsSession(m.type) THEN e.last_rx_type ELSE m.type
<1>1. buffer \in Seq(Msgs) /\ last \in Int
  <2>1. e.buffer \in Seq(Msgs) /\ e.last_rx_type \in Int /\ m.type \in Int
    BY DEF StreamRecords, Msgs
  <2>2. Append(e.buffer, m) \in Seq(Msgs)
    BY <2>1, AppendProperties
  <2> QED BY <2>1, <2>2
<1>2. CASE m.utack
  BY <1>2 DEF Fed, StreamRecords
<1>3. CASE ~m.utack /\ Fresh(e, m, b)
  <2>1. Fed(e, m, b) = [e EXCEPT !.buffer = buffer, !.last_rx_type = last]
    BY <1>3 DEF Fed
  <2> HIDE DEF buffer, last
  <2>2. /\ Fed(e, m, b) \in StreamRecords
        /\ Fed(e, m, b).pc = e.pc
        /\ Fed(e, m, b).nonce = e.nonce
        /\ Fed(e, m, b).key = e.key
        /\ Fed(e, m, b).buffer = buffer
        /\ Fed(e, m, b).last_rx_type = last
    BY <1>1, <2>1 DEF StreamRecords
  <2> QED BY <1>3, <2>2 DEF buffer, last
<1>4. CASE ~m.utack /\ ~Fresh(e, m, b)
  BY <1>4 DEF Fed
<1> QED BY <1>2, <1>3, <1>4

LEMMA WritingFacts ==
    ASSUME NEW e \in StreamRecords, NEW pc \in Pcs, NEW f \in Msgs
    PROVE  /\ Writing(e, pc, f) \in StreamRecords
           /\ Writing(e, pc, f).pc = pc
           /\ Writing(e, pc, f).nonce = e.nonce
           /\ Writing(e, pc, f).key = e.key
           /\ Writing(e, pc, f).buffer = e.buffer
           /\ Writing(e, pc, f).last_rx_type = e.last_rx_type
<1>0. PICK w : w = [e EXCEPT !.pc = pc, !.pending = f, !.attempt = 1, !.acked = FALSE]
  OBVIOUS
<1>1. w.pc = pc /\ w.nonce = e.nonce /\ w.key = e.key
  BY <1>0 DEF StreamRecords
<1>2. w.buffer = e.buffer /\ w.last_rx_type = e.last_rx_type
  BY <1>0 DEF StreamRecords
<1>3. w.pending \in Msgs /\ w.attempt \in Int /\ w.acked \in BOOLEAN
  BY <1>0 DEF StreamRecords
<1>4. w = [pc |-> w.pc, nonce |-> w.nonce, key |-> w.key, buffer |-> w.buffer,
           last_rx_type |-> w.last_rx_type, pending |-> w.pending,
           attempt |-> w.attempt, acked |-> w.acked]
  BY <1>0 DEF StreamRecords
<1>5. /\ w.pc \in Pcs /\ w.nonce \in Int /\ w.key \in Int
      /\ w.buffer \in Seq(Msgs) /\ w.last_rx_type \in Int
  BY <1>1, <1>2 DEF StreamRecords
<1>6. w \in StreamRecords
  BY <1>3, <1>4, <1>5 DEF StreamRecords
<1> QED BY <1>0, <1>1, <1>2, <1>6 DEF Writing

LEMMA PoppedFacts ==
    ASSUME NEW e \in StreamRecords, e.buffer # << >>
    PROVE  /\ Popped(e) \in StreamRecords
           /\ Popped(e).pc = e.pc
           /\ Popped(e).nonce = e.nonce
           /\ Popped(e).key = e.key
           /\ Popped(e).buffer = Tail(e.buffer)
           /\ Popped(e).last_rx_type = e.last_rx_type
<1>1. e.buffer \in Seq(Msgs)
  BY DEF StreamRecords
<1>2. Tail(e.buffer) \in Seq(Msgs)
  BY <1>1, HeadTailProperties
<1> QED BY <1>2 DEF Popped, StreamRecords

LEMMA NonceFacts ==
    ASSUME NEW e \in StreamRecords, NEW n \in Int
    PROVE  /\ [e EXCEPT !.nonce = n] \in StreamRecords
           /\ [e EXCEPT !.nonce = n].pc = e.pc
           /\ [e EXCEPT !.nonce = n].nonce = n
           /\ [e EXCEPT !.nonce = n].key = e.key
           /\ [e EXCEPT !.nonce = n].buffer = e.buffer
           /\ [e EXCEPT !.nonce = n].last_rx_type = e.last_rx_type
BY DEF StreamRecords

LEMMA KeyFacts ==
    ASSUME NEW e \in StreamRecords, NEW k \in Int
    PROVE  /\ [e EXCEPT !.key = k] \in StreamRecords
           /\ [e EXCEPT !.key = k].pc = e.pc
           /\ [e EXCEPT !.key = k].nonce = e.nonce
           /\ [e EXCEPT !.key = k].key = k
           /\ [e EXCEPT !.key = k].buffer = e.buffer
           /\ [e EXCEPT !.key = k].last_rx_type = e.last_rx_type
BY DEF StreamRecords

LEMMA PcFacts ==
    ASSUME NEW e \in StreamRecords, NEW pc \in Pcs
    PROVE  /\ [e EXCEPT !.pc = pc] \in StreamRecords
           /\ [e EXCEPT !.pc = pc].pc = pc
           /\ [e EXCEPT !.pc = pc].nonce = e.nonce
           /\ [e EXCEPT !.pc = pc].key = e.key
           /\ [e EXCEPT !.pc = pc].buffer = e.buffer
           /\ [e EXCEPT !.pc = pc].last_rx_type = e.last_rx_type
BY DEF StreamRecords

LEMMA AttemptFacts ==
    ASSUME NEW e \in StreamRecords
    PROVE  /\ [e EXCEPT !.attempt = @ + 1] \in StreamRecords
           /\ [e EXCEPT !.attempt = @ + 1].pc = e.pc
           /\ [e EXCEPT !.attempt = @ + 1].nonce = e.nonce
           /\ [e EXCEPT !.attempt = @ + 1].key = e.key
           /\ [e EXCEPT !.attempt = @ + 1].buffer = e.buffer
           /\ [e EXCEPT !.attempt = @ + 1].last_rx_type = e.last_rx_type
BY DEF StreamRecords

LEMMA ReplyFacts ==
    ASSUME NEW e \in StreamRecords, NEW m \in Msgs, NEW b \in BOOLEAN
    PROVE  Reply(e, m, b) \subseteq Msgs /\ \A r \in Reply(e, m, b) : r.utack
BY UtackFacts DEF Reply

(* One stream changes. *)
StreamBecomes(s, e) ==
    /\ streams' \in Seq(StreamRecords)
    /\ Len(streams') = Len(streams)
    /\ DOMAIN streams' = DOMAIN streams
    /\ \A i \in DOMAIN streams : streams'[i] = IF i = s THEN e ELSE streams[i]

LEMMA StreamFacts ==
    ASSUME TypeInv
    PROVE  /\ Len(streams) \in Nat /\ DOMAIN streams = 1 .. Len(streams)
           /\ \A s \in DOMAIN streams : streams[s] \in StreamRecords
           /\ None \notin DOMAIN streams /\ Garbage \notin DOMAIN streams
           /\ streams = << >> <=> Len(streams) = 0
<1>1. /\ Len(streams) \in Nat /\ DOMAIN streams = 1 .. Len(streams)
      /\ \A s \in DOMAIN streams : streams[s] \in StreamRecords
  BY LenProperties DEF TypeInv
<1>2. streams = << >> <=> Len(streams) = 0
  BY EmptySeq DEF TypeInv
<1> QED BY <1>1, <1>2 DEF None, Garbage

LEMMA BecomesFacts ==
    ASSUME TypeInv, NEW s \in DOMAIN streams, NEW e \in StreamRecords,
           streams' = [streams EXCEPT ![s] = e]
    PROVE  StreamBecomes(s, e)
<1>1. streams' \in Seq(StreamRecords) /\ Len(streams') = Len(streams)
      /\ \A i \in 1 .. Len(streams) : streams'[i] = IF i = s THEN e ELSE streams[i]
  BY StreamFacts, ExceptSeq DEF TypeInv
<1>2. DOMAIN streams' = DOMAIN streams
  BY <1>1, StreamFacts, LenProperties
<1> QED BY <1>1, <1>2, StreamFacts DEF StreamBecomes

-----------------------------------------------------------------------------
(* Steps of the client. *)

(* A step in which the client keeps its nonce and its key, and sends X. *)
ClientGoesOn(X) ==
    /\ client' \in StreamRecords /\ client'.pc \in ClientPcs
    /\ client'.nonce = client.nonce /\ client'.key = client.key
    /\ \A i \in 1 .. Len(client'.buffer) : client'.buffer[i] \in s2c /\ ~client'.buffer[i].utack
    /\ client'.pc \in Unchallenged => client.pc \in Unchallenged
    /\ client'.pc \in {"hello0", "retry"} => client.pc \in {"hello0", "retry"}
    /\ client'.pc \in {"hello_ack", "session_ok"} => client.pc \in {"hello_ack", "session_ok"}
    /\ client'.pc \in {"established", "data", "sent"} => client.key # None
    /\ client.key # None => client'.pc \in {"established", "data", "sent", "failed"}
    /\ c2s' = c2s \cup X /\ X \subseteq Msgs
    /\ \A m \in X : ~m.utack =>
          /\ m.nonce # Garbage
          /\ \/ m.type = HELLO /\ (m.seq = 1 => client'.pc \notin {"hello0", "retry"})
             \/ m.type = DATA /\ client.key # None
    /\ UNCHANGED <<server_psk, streams, handshake, session, s2c, damaged>>
    /\ gave_up' \in BOOLEAN /\ (gave_up => gave_up')

LEMMA ClientKeeps ==
    ASSUME HandshakeInv, NEW X, ClientGoesOn(X)
    PROVE  HandshakeInv'
<1> USE DEF HandshakeInv, ClientGoesOn
<1>1. TypeInv'
  BY DEF TypeInv
<1>2. S2CInv'
  BY DEF S2CInv
<1>3. C2SInv'
  <2> SUFFICES ASSUME NEW m \in c2s', ~m.utack
               PROVE  /\ m.type \in {HELLO, HELLO_ACK, DATA}
                      /\ m.type = HELLO /\ m.seq = 1 => client'.pc \notin {"hello0", "retry"}
                      /\ m.type = HELLO_ACK => client.nonce # None /\ m.nonce \in {client.nonce, Garbage}
                      /\ m.type = DATA => client.key # None
    BY DEF C2SInv
  <2>1. CASE m \in c2s
    BY <2>1 DEF C2SInv
  <2>2. CASE m \in X
    BY <2>2 DEF HELLO, HELLO_ACK, DATA
  <2> QED BY <2>1, <2>2
<1>4. BufferInv'
  BY DEF BufferInv
<1>5. ClientInv'
  BY DEF ClientInv
<1>6. StreamInv'
  BY DEF StreamInv
<1>7. GarbageInv'
  BY DEF GarbageInv
<1> QED BY <1>1, <1>2, <1>3, <1>4, <1>5, <1>6, <1>7

LEMMA TailBuffered ==
    ASSUME NEW b \in Seq(Msgs), b # << >>, NEW S,
           \A i \in 1 .. Len(b) : b[i] \in S /\ ~b[i].utack
    PROVE  /\ Head(b) \in Msgs /\ Head(b) \in S /\ ~Head(b).utack /\ Head(b) = b[1]
           /\ Tail(b) \in Seq(Msgs) /\ Len(Tail(b)) = Len(b) - 1 /\ Len(b) \in Nat \ {0}
           /\ \A i \in 1 .. Len(Tail(b)) : Tail(b)[i] \in S /\ ~Tail(b)[i].utack
<1>1. Len(b) \in Nat \ {0}
  BY EmptySeq
<1>2. Head(b) = b[1] /\ Head(b) \in Msgs /\ Tail(b) \in Seq(Msgs) /\ Len(Tail(b)) = Len(b) - 1
      /\ \A i \in 1 .. Len(Tail(b)) : Tail(b)[i] = b[i + 1]
  BY <1>1, HeadTailProperties
<1>3. \A i \in 1 .. Len(b) - 1 : i + 1 \in 1 .. Len(b)
  BY <1>1
<1>4. 1 \in 1 .. Len(b)
  BY <1>1
<1> QED BY <1>1, <1>2, <1>3, <1>4

LEMMA AppendBuffered ==
    ASSUME NEW b \in Seq(Msgs), NEW m \in Msgs, ~m.utack, NEW S, m \in S,
           \A i \in 1 .. Len(b) : b[i] \in S /\ ~b[i].utack
    PROVE  /\ Append(b, m) \in Seq(Msgs) /\ Len(Append(b, m)) = Len(b) + 1 /\ Len(b) \in Nat
           /\ \A i \in 1 .. Len(Append(b, m)) : Append(b, m)[i] \in S /\ ~Append(b, m)[i].utack
<1>1. /\ Append(b, m) \in Seq(Msgs) /\ Len(Append(b, m)) = Len(b) + 1
      /\ \A i \in 1 .. Len(b) : Append(b, m)[i] = b[i]
      /\ Append(b, m)[Len(b) + 1] = m
  BY AppendProperties
<1>2. Len(b) \in Nat
  BY LenProperties
<1>3. \A i \in 1 .. Len(b) + 1 : i \in 1 .. Len(b) \/ i = Len(b) + 1
  BY <1>2
<1> QED BY <1>1, <1>2, <1>3

LEMMA FedBuffer ==
    ASSUME NEW e \in StreamRecords, NEW m \in Msgs, NEW b \in BOOLEAN, NEW S, m \in S,
           \A i \in 1 .. Len(e.buffer) : e.buffer[i] \in S /\ ~e.buffer[i].utack
    PROVE  \A i \in 1 .. Len(Fed(e, m, b).buffer) :
              Fed(e, m, b).buffer[i] \in S /\ ~Fed(e, m, b).buffer[i].utack
<1>1. e.buffer \in Seq(Msgs)
  BY DEF StreamRecords
<1>2. CASE Fed(e, m, b).buffer = e.buffer
  BY <1>2
<1>3. CASE ~m.utack /\ Fed(e, m, b).buffer = Append(e.buffer, m)
  BY <1>1, <1>3, AppendBuffered
<1>4. \/ Fed(e, m, b).buffer = e.buffer
      \/ ~m.utack /\ Fed(e, m, b).buffer = Append(e.buffer, m)
  BY FedFacts, Zenon
<1> QED BY <1>2, <1>3, <1>4

LEMMA ClientDrainedKeeps ==
    ASSUME HandshakeInv, ClientDrained
    PROVE  HandshakeInv'
<1>1. /\ client \in StreamRecords /\ client.pc \in Drains
      /\ client' = [client EXCEPT !.pc = AfterDrain[client.pc]]
      /\ UNCHANGED <<server_psk, streams, handshake, session, c2s, s2c, damaged, gave_up>>
      /\ gave_up \in BOOLEAN
  BY DEF ClientDrained, HandshakeInv, TypeInv
<1>2. /\ client.pc = "hello0" => AfterDrain[client.pc] = "retry"
      /\ client.pc = "hello1" => AfterDrain[client.pc] = "challenge"
      /\ client.pc = "hello_ack" => AfterDrain[client.pc] = "session_ok"
      /\ client.pc = "data" => AfterDrain[client.pc] = "sent"
  BY DEF AfterDrain
<1>3. AfterDrain[client.pc] \in ClientPcs /\ AfterDrain[client.pc] \in Pcs
  BY <1>1, <1>2 DEF Drains, Reads, ClientPcs, Pcs
<1>4. /\ client' \in StreamRecords /\ client'.pc = AfterDrain[client.pc]
      /\ client'.nonce = client.nonce /\ client'.key = client.key /\ client'.buffer = client.buffer
  BY <1>1, <1>3, PcFacts
<1>5. \A i \in 1 .. Len(client'.buffer) : client'.buffer[i] \in s2c /\ ~client'.buffer[i].utack
  BY <1>4 DEF HandshakeInv, BufferInv
<1>6. /\ client'.pc \in Unchallenged => client.pc \in Unchallenged
      /\ client'.pc \in {"hello0", "retry"} => client.pc \in {"hello0", "retry"}
      /\ client'.pc \in {"hello_ack", "session_ok"} => client.pc \in {"hello_ack", "session_ok"}
      /\ client'.pc \in {"established", "data", "sent"} => client.key # None
      /\ client.key # None => client'.pc \in {"established", "data", "sent", "failed"}
  BY <1>1, <1>2, <1>4 DEF HandshakeInv, ClientInv, Drains, Unchallenged
<1>7. ClientGoesOn({})
  BY <1>1, <1>3, <1>4, <1>5, <1>6 DEF ClientGoesOn
<1> QED BY <1>7, ClientKeeps

(* Retransmitting and giving up. *)
LEMMA ClientTimerKeeps ==
    ASSUME HandshakeInv, ClientRetransmits \/ ClientGivesUp
    PROVE  HandshakeInv'
<1>1. /\ client \in StreamRecords
      /\ \/ client' = [client EXCEPT !.attempt = @ + 1]
         \/ client' = [client EXCEPT !.pc = "failed"]
      /\ UNCHANGED <<server_psk, streams, handshake, session, c2s, s2c, damaged>>
      /\ gave_up' \in BOOLEAN /\ (gave_up => gave_up')
  BY DEF ClientRetransmits, ClientGivesUp, HandshakeInv, TypeInv
<1>2. "failed" \in Pcs /\ "failed" \in ClientPcs /\ client.pc \in ClientPcs
  BY DEF Pcs, ClientPcs, HandshakeInv, TypeInv
<1>3. /\ client' \in StreamRecords /\ client'.pc \in {client.pc, "failed"}
      /\ client'.nonce = client.nonce /\ client'.key = client.key /\ client'.buffer = client.buffer
  <2>1. CASE client' = [client EXCEPT !.attempt = @ + 1]
    BY <1>1, <2>1, AttemptFacts
  <2>2. CASE client' = [client EXCEPT !.pc = "failed"]
    BY <1>1, <1>2, <2>2, PcFacts
  <2> QED BY <1>1, <2>1, <2>2
<1>4. \A i \in 1 .. Len(client'.buffer) : client'.buffer[i] \in s2c /\ ~client'.buffer[i].utack
  BY <1>3 DEF HandshakeInv, BufferInv
<1>5. /\ client'.pc \in Unchallenged => client.pc \in Unchallenged
      /\ client'.pc \in {"hello0", "retry"} => client.pc \in {"hello0", "retry"}
      /\ client'.pc \in {"hello_ack", "session_ok"} => client.pc \in {"hello_ack", "session_ok"}
      /\ client'.pc \in {"established", "data", "sent"} => client.key # None
      /\ client.key # None => client'.pc \in {"established", "data", "sent", "failed"}
  BY <1>3 DEF HandshakeInv, ClientInv, Unchallenged
<1>6. ClientGoesOn({})
  BY <1>1, <1>2, <1>3, <1>4, <1>5 DEF ClientGoesOn
<1> QED BY <1>6, ClientKeeps

LEMMA ClientSendsKeeps ==
    ASSUME HandshakeInv, ClientSends
    PROVE  HandshakeInv'
<1> DEFINE f == Frame(DATA, 0, client.key)
<1>1. /\ client \in StreamRecords /\ client.pc = "established" /\ gave_up \in BOOLEAN
      /\ client' = Writing(client, "data", f) /\ c2s' = c2s \cup {f}
      /\ UNCHANGED <<server_psk, streams, handshake, session, s2c, damaged, gave_up>>
  BY DEF ClientSends, ClientWrites, HandshakeInv, TypeInv
<1>2. client.key # None /\ client.key \in Int /\ client.key # Garbage
  <2>1. client.key # None /\ client.key \in DOMAIN streams
    BY <1>1 DEF HandshakeInv, ClientInv
  <2> QED BY <1>1, <2>1, StreamFacts DEF HandshakeInv, StreamRecords
<1>3. f \in Msgs /\ f.type = DATA /\ f.nonce = client.key
  BY <1>2 DEF Frame, Msgs, DATA
<1>d. "data" \in Pcs /\ "data" \in ClientPcs
  BY DEF Pcs, ClientPcs, Drains
<1> HIDE DEF f
<1>4. /\ client' \in StreamRecords /\ client'.pc = "data"
      /\ client'.nonce = client.nonce /\ client'.key = client.key /\ client'.buffer = client.buffer
  BY <1>1, <1>3, <1>d, WritingFacts
<1>5. \A i \in 1 .. Len(client'.buffer) : client'.buffer[i] \in s2c /\ ~client'.buffer[i].utack
  BY <1>4 DEF HandshakeInv, BufferInv
<1>6. client'.pc \notin Unchallenged /\ client'.pc \notin {"hello0", "retry"}
      /\ client'.pc \notin {"hello_ack", "session_ok"}
  BY <1>4 DEF Unchallenged
<1>7. ClientGoesOn({f})
  BY <1>1, <1>2, <1>3, <1>d, <1>4, <1>5, <1>6 DEF ClientGoesOn
<1> QED BY <1>7, ClientKeeps

LEMMA ToClientKeeps ==
    ASSUME HandshakeInv, NEW m \in s2c, ToClient(m)
    PROVE  HandshakeInv'
<1>1. /\ client \in StreamRecords /\ m \in Msgs /\ gave_up \in BOOLEAN
      /\ client' = Fed(client, m, FALSE)
      /\ c2s' = c2s \cup Reply(client, m, FALSE)
      /\ UNCHANGED <<server_psk, streams, handshake, session, s2c, damaged, gave_up>>
  BY DEF ToClient, HandshakeInv, TypeInv
<1>2. /\ client' \in StreamRecords /\ client'.pc = client.pc
      /\ client'.nonce = client.nonce /\ client'.key = client.key
  BY <1>1, FedFacts
<1>3. \A i \in 1 .. Len(client'.buffer) : client'.buffer[i] \in s2c /\ ~client'.buffer[i].utack
  BY <1>1, FedBuffer DEF HandshakeInv, BufferInv
<1>4. Reply(client, m, FALSE) \subseteq Msgs /\ \A r \in Reply(client, m, FALSE) : r.utack
  BY <1>1, ReplyFacts
<1>5. /\ client'.pc \in ClientPcs
      /\ client'.pc \in {"established", "data", "sent"} => client.key # None
      /\ client.key # None => client'.pc \in {"established", "data", "sent", "failed"}
  BY <1>2 DEF HandshakeInv, TypeInv, ClientInv
<1>6. ClientGoesOn(Reply(client, m, FALSE))
  BY <1>1, <1>2, <1>3, <1>4, <1>5 DEF ClientGoesOn
<1> QED BY <1>6, ClientKeeps

(* The client takes the first frame of its buffer. *)
LEMMA ClientHead ==
    ASSUME HandshakeInv, client.buffer # << >>
    PROVE  /\ client \in StreamRecords
           /\ Head(client.buffer) \in s2c /\ Head(client.buffer) \in Msgs
           /\ ~Head(client.buffer).utack /\ Head(client.buffer).nonce \in Int
           /\ Popped(client) \in StreamRecords
           /\ Popped(client).nonce = client.nonce /\ Popped(client).key = client.key
           /\ Popped(client).last_rx_type = client.last_rx_type
           /\ Popped(client).buffer = Tail(client.buffer)
           /\ \A i \in 1 .. Len(Popped(client).buffer) :
                 Popped(client).buffer[i] \in s2c /\ ~Popped(client).buffer[i].utack
<1>1. client \in StreamRecords /\ client.buffer \in Seq(Msgs)
  BY DEF HandshakeInv, TypeInv, StreamRecords
<1>2. \A i \in 1 .. Len(client.buffer) : client.buffer[i] \in s2c /\ ~client.buffer[i].utack
  BY DEF HandshakeInv, BufferInv
<1>3. /\ Head(client.buffer) \in s2c /\ Head(client.buffer) \in Msgs /\ ~Head(client.buffer).utack
      /\ \A i \in 1 .. Len(Tail(client.buffer)) :
            Tail(client.buffer)[i] \in s2c /\ ~Tail(client.buffer)[i].utack
  BY <1>1, <1>2, TailBuffered
<1>4. Head(client.buffer).nonce \in Int
  BY <1>3 DEF Msgs
<1>5. /\ Popped(client) \in StreamRecords
      /\ Popped(client).nonce = client.nonce /\ Popped(client).key = client.key
      /\ Popped(client).last_rx_type = client.last_rx_type
      /\ Popped(client).buffer = Tail(client.buffer)
  BY <1>1, PoppedFacts
<1> QED BY <1>1, <1>3, <1>4, <1>5

(* client_handshake sends its second HELLO, or fails. *)
LEMMA ClientReadsRetry ==
    ASSUME HandshakeInv, client.buffer # << >>, client.pc = "retry",
           ClientWrites(Popped(client), "hello1", Frame(HELLO, 1, None)),
           UNCHANGED <<server_psk, streams, handshake, session, s2c, damaged, gave_up>>
    PROVE  HandshakeInv'
<1> DEFINE g == Frame(HELLO, 1, None)
<1>1. client' = Writing(Popped(client), "hello1", g) /\ c2s' = c2s \cup {g} /\ gave_up \in BOOLEAN
  BY DEF ClientWrites, HandshakeInv, TypeInv
<1>2. g \in Msgs /\ g.type = HELLO /\ g.nonce # Garbage
  BY DEF Frame, Msgs, HELLO, None, Garbage
<1>3. "hello1" \in Pcs /\ "hello1" \in ClientPcs
  BY DEF Pcs, ClientPcs, Drains
<1> HIDE DEF g
<1>4. /\ client' \in StreamRecords /\ client'.pc = "hello1"
      /\ client'.nonce = client.nonce /\ client'.key = client.key
      /\ client'.buffer = Popped(client).buffer
  BY <1>1, <1>2, <1>3, ClientHead, WritingFacts
<1>5. \A i \in 1 .. Len(client'.buffer) : client'.buffer[i] \in s2c /\ ~client'.buffer[i].utack
  BY <1>4, ClientHead
<1>6. client.pc \in Unchallenged /\ client.key = None
  BY DEF HandshakeInv, ClientInv, Unchallenged
<1>7. ClientGoesOn({g})
  BY <1>1, <1>2, <1>3, <1>4, <1>5, <1>6 DEF ClientGoesOn
<1> QED BY <1>7, ClientKeeps

LEMMA ClientFailsKeeps ==
    ASSUME HandshakeInv, client' = [client EXCEPT !.pc = "failed"], UNCHANGED c2s,
           UNCHANGED <<server_psk, streams, handshake, session, s2c, damaged, gave_up>>
    PROVE  HandshakeInv'
<1>1. client \in StreamRecords /\ gave_up \in BOOLEAN
  BY DEF HandshakeInv, TypeInv
<1>2. "failed" \in Pcs /\ "failed" \in ClientPcs
  BY DEF Pcs, ClientPcs
<1>3. /\ client' \in StreamRecords /\ client'.pc = "failed"
      /\ client'.nonce = client.nonce /\ client'.key = client.key /\ client'.buffer = client.buffer
  BY <1>1, <1>2, PcFacts
<1>4. \A i \in 1 .. Len(client'.buffer) : client'.buffer[i] \in s2c /\ ~client'.buffer[i].utack
  BY <1>3 DEF HandshakeInv, BufferInv
<1>5. ClientGoesOn({})
  BY <1>1, <1>2, <1>3, <1>4 DEF ClientGoesOn, Unchallenged
<1> QED BY <1>5, ClientKeeps

(* CHALLENGE: the client settles on a nonce.  Until then no stream has     *)
(* keys, since none was sent a HELLO_ACK.                                  *)
LEMMA ClientReadsChallenge ==
    ASSUME HandshakeInv, client.buffer # << >>, client.pc \in {"retry", "challenge"},
           Head(client.buffer).type = CHALLENGE,
           ClientWrites([Popped(client) EXCEPT !.nonce = Head(client.buffer).nonce],
                        "hello_ack", Frame(HELLO_ACK, 2, Head(client.buffer).nonce)),
           UNCHANGED <<server_psk, streams, handshake, session, s2c, damaged, gave_up>>
    PROVE  HandshakeInv'
<1>0. PICK f : f = Head(client.buffer)
  OBVIOUS
<1> DEFINE g == Frame(HELLO_ACK, 2, f.nonce)
           e == [Popped(client) EXCEPT !.nonce = f.nonce]
<1>1. client' = Writing(e, "hello_ack", g) /\ c2s' = c2s \cup {g}
  BY <1>0 DEF ClientWrites
<1>2. /\ f \in s2c /\ f \in Msgs /\ ~f.utack /\ f.nonce \in Int /\ f.type = CHALLENGE
      /\ Popped(client) \in StreamRecords
  BY <1>0, ClientHead
<1>3. g \in Msgs /\ g.type = HELLO_ACK /\ g.nonce = f.nonce /\ ~g.utack
  BY <1>2 DEF Frame, Msgs, HELLO_ACK
<1>4. e \in StreamRecords /\ e.nonce = f.nonce /\ e.key = client.key
      /\ e.buffer = Popped(client).buffer
  BY <1>2, NonceFacts, ClientHead
<1>5. "hello_ack" \in Pcs /\ "hello_ack" \in ClientPcs
  BY DEF Pcs, ClientPcs, Drains
<1> HIDE DEF e, g
<1>6. /\ client' \in StreamRecords /\ client'.pc = "hello_ack"
      /\ client'.nonce = f.nonce /\ client'.key = client.key
      /\ client'.buffer = Popped(client).buffer
  BY <1>1, <1>3, <1>4, <1>5, WritingFacts
<1>7. \A i \in 1 .. Len(client'.buffer) : client'.buffer[i] \in s2c /\ ~client'.buffer[i].utack
  BY <1>6, ClientHead
<1>8. client.nonce = None /\ client.key = None
  BY DEF HandshakeInv, ClientInv, Unchallenged
<1>9. \A s \in DOMAIN streams : streams[s].key = None
  BY <1>8, StreamFacts DEF HandshakeInv, StreamInv
<1>10. \/ f.nonce = Garbage
       \/ f.nonce \in DOMAIN streams /\ streams[f.nonce].pc # "hello"
  BY <1>2 DEF HandshakeInv, S2CInv
<1>11. f.nonce # None
  BY <1>10, StreamFacts DEF HandshakeInv, None, Garbage
<1>t. TypeInv'
  BY <1>1, <1>3, <1>5, <1>6 DEF HandshakeInv, TypeInv
<1>s. S2CInv'
  BY DEF HandshakeInv, S2CInv
<1>c. C2SInv'
  <2> SUFFICES ASSUME NEW m \in c2s', ~m.utack
               PROVE  /\ m.type \in {HELLO, HELLO_ACK, DATA}
                      /\ m.type = HELLO_ACK => client'.nonce # None /\ m.nonce \in {client'.nonce, Garbage}
                      /\ m.type # DATA
    BY <1>6 DEF C2SInv
  <2>1. CASE m \in c2s
    BY <1>8, <2>1 DEF HandshakeInv, C2SInv
  <2>2. CASE m = g
    BY <1>3, <1>6, <1>11, <2>2 DEF HELLO_ACK, DATA
  <2> QED BY <1>1, <2>1, <2>2
<1>b. BufferInv'
  BY <1>1, <1>7 DEF HandshakeInv, BufferInv
<1>l. ClientInv'
  <2>1. /\ client'.pc \notin Unchallenged /\ client'.pc \notin {"established", "data", "sent"}
        /\ client'.pc \notin {"hello0", "retry"} /\ client'.nonce # None /\ client'.key = None
    BY <1>6, <1>8, <1>11 DEF Unchallenged
  <2>2. /\ client'.nonce \in DOMAIN streams' => streams'[client'.nonce].pc # "hello"
        /\ client'.nonce \in DOMAIN streams' \cup {None, Garbage}
    BY <1>6, <1>10, StreamFacts DEF HandshakeInv
  <2> QED BY <2>1, <2>2 DEF ClientInv
<1>r. StreamInv'
  BY <1>9 DEF HandshakeInv, StreamInv
<1>g. GarbageInv'
  <2>1. ASSUME ~damaged
        PROVE  f.nonce # Garbage /\ \A m \in s2c \cup c2s' : ~m.utack => m.nonce # Garbage
    <3>1. \A m \in s2c \cup c2s : ~m.utack => m.nonce # Garbage
      BY <2>1 DEF HandshakeInv, GarbageInv
    <3>2. f.nonce # Garbage
      BY <1>2, <3>1
    <3> QED BY <1>1, <1>3, <3>1, <3>2
  <2>2. ASSUME \E m \in s2c : ~m.utack /\ m.type = SESSION_OK /\ m.nonce = Garbage
        PROVE  f.nonce # Garbage /\ \A m \in s2c : ~m.utack /\ m.type = CHALLENGE => m.nonce # Garbage
    BY <1>2, <2>2 DEF HandshakeInv, GarbageInv
  <2> QED BY <1>6, <2>1, <2>2 DEF GarbageInv
<1> QED BY <1>t, <1>s, <1>c, <1>b, <1>l, <1>r, <1>g DEF HandshakeInv

(* SESSION_OK: it was sent by the stream that the client agreed with. *)
LEMMA ClientReadsSessionOk ==
    ASSUME HandshakeInv, client.buffer # << >>, client.pc = "session_ok",
           Head(client.buffer).type = SESSION_OK, Head(client.buffer).nonce = client.nonce,
           client' = [Popped(client) EXCEPT !.pc = "established", !.key = Head(client.buffer).nonce],
           UNCHANGED c2s,
           UNCHANGED <<server_psk, streams, handshake, session, s2c, damaged, gave_up>>
    PROVE  HandshakeInv'
<1>0. PICK f : f = Head(client.buffer)
  OBVIOUS
<1>1. /\ f \in s2c /\ f \in Msgs /\ ~f.utack /\ f.nonce \in Int /\ f.type = SESSION_OK
      /\ f.nonce = client.nonce /\ Popped(client) \in StreamRecords
  BY <1>0, ClientHead
<1>2. f.nonce # Garbage
  BY <1>1 DEF HandshakeInv, GarbageInv
<1>3. f.nonce \in DOMAIN streams /\ streams[f.nonce].key = f.nonce
  BY <1>1, <1>2 DEF HandshakeInv, S2CInv
<1>4. "established" \in Pcs /\ "established" \in ClientPcs
  BY DEF Pcs, ClientPcs
<1>5. client' = [[Popped(client) EXCEPT !.pc = "established"] EXCEPT !.key = f.nonce]
  BY <1>0
<1> DEFINE e == [Popped(client) EXCEPT !.pc = "established"]
<1>6. /\ e \in StreamRecords /\ e.pc = "established" /\ e.nonce = client.nonce
      /\ e.buffer = Popped(client).buffer
  BY <1>1, <1>4, PcFacts, ClientHead
<1> HIDE DEF e
<1>7. /\ client' \in StreamRecords /\ client'.pc = "established"
      /\ client'.nonce = client.nonce /\ client'.key = client.nonce
      /\ client'.buffer = Popped(client).buffer
  <2>1. client' = [e EXCEPT !.key = f.nonce]
    BY <1>5 DEF e
  <2>2. /\ [e EXCEPT !.key = f.nonce] \in StreamRecords
        /\ [e EXCEPT !.key = f.nonce].pc = e.pc
        /\ [e EXCEPT !.key = f.nonce].nonce = e.nonce
        /\ [e EXCEPT !.key = f.nonce].key = f.nonce
        /\ [e EXCEPT !.key = f.nonce].buffer = e.buffer
    BY <1>1, <1>6, KeyFacts, Zenon
  <2> QED BY <1>1, <1>6, <2>1, <2>2
<1>8. \A i \in 1 .. Len(client'.buffer) : client'.buffer[i] \in s2c /\ ~client'.buffer[i].utack
  BY <1>7, ClientHead
<1>9. client.nonce # None
  BY <1>1, <1>3, StreamFacts DEF HandshakeInv
<1>t. TypeInv'
  BY <1>4, <1>7 DEF HandshakeInv, TypeInv
<1>s. S2CInv'
  BY DEF HandshakeInv, S2CInv
<1>c. C2SInv'
  BY <1>7, <1>9 DEF HandshakeInv, C2SInv
<1>b. BufferInv'
  BY <1>8 DEF HandshakeInv, BufferInv
<1>l. ClientInv'
  BY <1>1, <1>3, <1>7, <1>9 DEF HandshakeInv, ClientInv, Unchallenged
<1>r. StreamInv'
  BY <1>7 DEF HandshakeInv, StreamInv
<1>g. GarbageInv'
  BY <1>7 DEF HandshakeInv, GarbageInv
<1> QED BY <1>t, <1>s, <1>c, <1>b, <1>l, <1>r, <1>g DEF HandshakeInv

LEMMA ClientReadsKeeps ==
    ASSUME HandshakeInv, ClientReads
    PROVE  HandshakeInv'
<1>1. CASE /\ client.pc = "retry"
           /\ ClientWrites(Popped(client), "hello1", Frame(HELLO, 1, None))
  BY <1>1, ClientReadsRetry DEF ClientReads
<1>2. CASE /\ client.pc \in {"retry", "challenge"} /\ Head(client.buffer).type = CHALLENGE
           /\ ClientWrites([Popped(client) EXCEPT !.nonce = Head(client.buffer).nonce],
                           "hello_ack", Frame(HELLO_ACK, 2, Head(client.buffer).nonce))
  BY <1>2, ClientReadsChallenge DEF ClientReads
<1>3. CASE /\ client.pc = "session_ok" /\ Head(client.buffer).type = SESSION_OK
           /\ Head(client.buffer).nonce = client.nonce
           /\ client' = [Popped(client) EXCEPT !.pc = "established",
                                               !.key = Head(client.buffer).nonce]
           /\ UNCHANGED c2s
  BY <1>3, ClientReadsSessionOk DEF ClientReads
<1>4. CASE client' = [client EXCEPT !.pc = "failed"] /\ UNCHANGED c2s
  BY <1>4, ClientFailsKeeps DEF ClientReads
<1> QED BY <1>1, <1>2, <1>3, <1>4 DEF ClientReads

-----------------------------------------------------------------------------
(* Steps of the server. *)

(* What stream s may become, and what its step may send. *)
StreamGoesOn(s, e, X) ==
    /\ s \in DOMAIN streams /\ e \in StreamRecords /\ StreamBecomes(s, e)
    /\ e.pc \in ServerPcs /\ Len(e.buffer) <= BufferCap
    /\ \A i \in 1 .. Len(e.buffer) : e.buffer[i] \in c2s /\ ~e.buffer[i].utack
    /\ e.pc = "hello" => streams[s].pc = "hello" /\ Len(e.buffer) > 0
    /\ e.pc \in {"challenge", "hello_ack", "session_ok"} => e.nonce = s
    /\ e.key \in {None, s}
    /\ streams[s].key # None => e.key = s
    /\ e.pc \in {"session_ok", "session"} => e.key = s
    /\ e.key # None => /\ client.nonce = s /\ server_psk = "psk"
                       /\ e.pc \in {"session_ok", "session", "turned_away", "lost", "timeout"}
    /\ e.pc \in Active => handshake' = s
    /\ e.pc = "session" <=> session' = s
    /\ e.pc \in {"lost", "timeout"} => gave_up'
    /\ handshake' = handshake \/ (handshake = s /\ handshake' = None)
    /\ session' = session \/ (session = None /\ session' = s) \/ (session = s /\ session' = None)
    /\ s2c' = s2c \cup X /\ X \subseteq Msgs
    /\ \A m \in X : ~m.utack => /\ m.nonce = s
                                /\ \/ m.type = CHALLENGE /\ e.pc # "hello"
                                   \/ m.type = SESSION_OK /\ e.key = s
    /\ UNCHANGED <<server_psk, client, c2s, damaged>>
    /\ gave_up' \in BOOLEAN /\ (gave_up => gave_up')

LEMMA StreamKeeps ==
    ASSUME HandshakeInv, NEW s, NEW e, NEW X, StreamGoesOn(s, e, X)
    PROVE  HandshakeInv'
<1>1. /\ DOMAIN streams' = DOMAIN streams /\ Len(streams') = Len(streams)
      /\ streams' \in Seq(StreamRecords)
      /\ \A i \in DOMAIN streams : streams'[i] = IF i = s THEN e ELSE streams[i]
      /\ s \in DOMAIN streams
  BY DEF StreamGoesOn, StreamBecomes
<1>2. s # None /\ s # Garbage /\ None \notin DOMAIN streams /\ Garbage \notin DOMAIN streams
  BY <1>1, StreamFacts DEF HandshakeInv
<1>3. \A i \in DOMAIN streams : /\ streams'[i].pc = "hello" => streams[i].pc = "hello"
                                /\ streams[i].key = i => streams'[i].key = i
  BY <1>1, <1>2 DEF StreamGoesOn
<1>t. TypeInv'
  <2>1. \A i \in DOMAIN streams : streams'[i].pc \in ServerPcs /\ Len(streams'[i].buffer) <= BufferCap
    BY <1>1 DEF StreamGoesOn, HandshakeInv, TypeInv
  <2>2. handshake' \in DOMAIN streams \cup {None} /\ session' \in DOMAIN streams \cup {None}
    BY <1>1 DEF StreamGoesOn, HandshakeInv, TypeInv
  <2> QED BY <1>1, <2>1, <2>2 DEF StreamGoesOn, HandshakeInv, TypeInv
<1>s. S2CInv'
  <2> SUFFICES ASSUME NEW m \in s2c', ~m.utack
               PROVE  /\ m.type \in {CHALLENGE, SESSION_OK, HELLO_RETRY}
                      /\ m.type = CHALLENGE /\ m.nonce # Garbage =>
                            m.nonce \in DOMAIN streams' /\ streams'[m.nonce].pc # "hello"
                      /\ m.type = SESSION_OK /\ m.nonce # Garbage =>
                            m.nonce \in DOMAIN streams' /\ streams'[m.nonce].key = m.nonce
    BY DEF S2CInv
  <2>1. CASE m \in s2c
    BY <1>1, <1>3, <2>1 DEF HandshakeInv, S2CInv
  <2>2. CASE m \in X
    BY <1>1, <2>2 DEF StreamGoesOn, CHALLENGE, SESSION_OK
  <2> QED BY <2>1, <2>2 DEF StreamGoesOn
<1>c. C2SInv'
  BY DEF StreamGoesOn, HandshakeInv, C2SInv
<1>b. BufferInv'
  <2>1. \A i \in 1 .. Len(client'.buffer) : client'.buffer[i] \in s2c' /\ ~client'.buffer[i].utack
    BY DEF StreamGoesOn, HandshakeInv, BufferInv
  <2>2. \A r \in DOMAIN streams' : \A i \in 1 .. Len(streams'[r].buffer) :
            streams'[r].buffer[i] \in c2s' /\ ~streams'[r].buffer[i].utack
    BY <1>1 DEF StreamGoesOn, HandshakeInv, BufferInv
  <2> QED BY <2>1, <2>2 DEF BufferInv
<1>l. ClientInv'
  <2>1. UNCHANGED client
    BY DEF StreamGoesOn
  <2>2. streams' # << >> => streams # << >>
    BY <1>1, StreamFacts DEF HandshakeInv
  <2> QED BY <1>1, <1>3, <2>1, <2>2 DEF HandshakeInv, ClientInv
<1>r. StreamInv'
  <2>1. ASSUME NEW i \in DOMAIN streams', i # s
        PROVE  /\ streams'[i] = streams[i] /\ i \in DOMAIN streams
               /\ handshake = i => handshake' = i
               /\ session = i => session' = i
    BY <1>1, <1>2, <2>1 DEF StreamGoesOn
  <2>2. ASSUME NEW i \in DOMAIN streams'
        PROVE  /\ streams'[i].pc = "hello" => Len(streams'[i].buffer) > 0
               /\ streams'[i].pc \in {"challenge", "hello_ack", "session_ok"} => streams'[i].nonce = i
               /\ streams'[i].key \in {None, i}
               /\ streams'[i].pc \in {"session_ok", "session"} => streams'[i].key = i
               /\ streams'[i].key # None =>
                     /\ client'.nonce = i /\ server_psk' = "psk"
                     /\ streams'[i].pc \in {"session_ok", "session", "turned_away", "lost", "timeout"}
               /\ streams'[i].pc \in Active => handshake' = i
               /\ streams'[i].pc = "session" => session' = i
               /\ streams'[i].pc \in {"lost", "timeout"} => gave_up'
    <3>1. CASE i = s
      BY <1>1, <3>1 DEF StreamGoesOn
    <3>2. CASE i # s
      BY <2>1, <3>2 DEF StreamGoesOn, HandshakeInv, StreamInv
    <3> QED BY <3>1, <3>2
  <2>3. session' # None => streams'[session'].pc = "session"
    <3>1. CASE session' = s
      BY <1>1, <3>1 DEF StreamGoesOn
    <3>2. CASE session' # s
      <4>1. session' = session \/ session' = None
        BY <3>2 DEF StreamGoesOn
      <4> QED BY <1>1, <3>2, <4>1 DEF HandshakeInv, StreamInv, TypeInv
    <3> QED BY <3>1, <3>2
  <2> QED BY <2>2, <2>3 DEF StreamInv
<1>g. GarbageInv'
  <2>1. \A m \in X : ~m.utack => m.nonce # Garbage
    BY <1>2 DEF StreamGoesOn
  <2>2. UNCHANGED <<client, c2s, damaged>> /\ s2c' = s2c \cup X
    BY DEF StreamGoesOn
  <2> QED BY <2>1, <2>2 DEF HandshakeInv, GarbageInv
<1> QED BY <1>t, <1>s, <1>c, <1>b, <1>l, <1>r, <1>g DEF HandshakeInv

(* What the invariant says of one stream. *)
LEMMA StreamAt ==
    ASSUME HandshakeInv, NEW s \in DOMAIN streams
    PROVE  /\ streams[s] \in StreamRecords /\ streams[s].pc \in ServerPcs
           /\ streams[s].buffer \in Seq(Msgs)
           /\ Len(streams[s].buffer) \in Nat /\ Len(streams[s].buffer) <= BufferCap
           /\ \A i \in 1 .. Len(streams[s].buffer) :
                 streams[s].buffer[i] \in c2s /\ ~streams[s].buffer[i].utack
           /\ streams[s].pc = "hello" => Len(streams[s].buffer) > 0
           /\ streams[s].pc \in {"challenge", "hello_ack", "session_ok"} => streams[s].nonce = s
           /\ streams[s].key \in {None, s}
           /\ streams[s].pc \in {"session_ok", "session"} => streams[s].key = s
           /\ streams[s].key # None =>
                 /\ client.nonce = s /\ server_psk = "psk"
                 /\ streams[s].pc \in {"session_ok", "session", "turned_away", "lost", "timeout"}
           /\ streams[s].pc \in Active => handshake = s
           /\ streams[s].pc = "session" <=> session = s
           /\ streams[s].pc \in {"lost", "timeout"} => gave_up
           /\ s # None /\ s # Garbage /\ s \in Int
           /\ gave_up \in BOOLEAN
<1>1. streams[s] \in StreamRecords /\ s # None /\ s # Garbage /\ s \in Int
  BY StreamFacts DEF HandshakeInv
<1>2. streams[s].buffer \in Seq(Msgs) /\ Len(streams[s].buffer) \in Nat
  BY <1>1, LenProperties DEF StreamRecords
<1>3. streams[s].pc = "session" <=> session = s
  BY <1>1 DEF HandshakeInv, StreamInv
<1>4. /\ streams[s].pc \in ServerPcs /\ Len(streams[s].buffer) <= BufferCap
      /\ gave_up \in BOOLEAN
  BY DEF HandshakeInv, TypeInv
<1>5. \A i \in 1 .. Len(streams[s].buffer) :
         streams[s].buffer[i] \in c2s /\ ~streams[s].buffer[i].utack
  BY DEF HandshakeInv, BufferInv
<1> QED BY <1>1, <1>2, <1>3, <1>4, <1>5 DEF HandshakeInv, StreamInv

(* A step that leaves the task of stream s where it is, and sends UTACKs. *)
SameTask(s, e, X) ==
    /\ e \in StreamRecords /\ StreamBecomes(s, e)
    /\ e.pc = streams[s].pc /\ e.nonce = streams[s].nonce /\ e.key = streams[s].key
    /\ Len(e.buffer) <= BufferCap
    /\ \A i \in 1 .. Len(e.buffer) : e.buffer[i] \in c2s /\ ~e.buffer[i].utack
    /\ e.pc = "hello" => Len(e.buffer) > 0
    /\ s2c' = s2c \cup X /\ X \subseteq Msgs /\ \A m \in X : m.utack
    /\ UNCHANGED <<server_psk, client, handshake, session, c2s, damaged, gave_up>>

LEMMA SameTaskKeeps ==
    ASSUME HandshakeInv, NEW s \in DOMAIN streams, NEW e, NEW X, SameTask(s, e, X)
    PROVE  HandshakeInv'
<1> USE DEF SameTask
<1>1. StreamGoesOn(s, e, X)
  <2>1. /\ e.pc \in ServerPcs
        /\ e.pc \in {"challenge", "hello_ack", "session_ok"} => e.nonce = s
        /\ e.key \in {None, s}
        /\ streams[s].key # None => e.key = s
        /\ e.pc \in {"session_ok", "session"} => e.key = s
    BY StreamAt
  <2>2. /\ e.key # None => /\ client.nonce = s /\ server_psk = "psk"
                           /\ e.pc \in {"session_ok", "session", "turned_away", "lost", "timeout"}
        /\ e.pc \in Active => handshake' = s
        /\ e.pc = "session" <=> session' = s
        /\ e.pc \in {"lost", "timeout"} => gave_up'
        /\ gave_up' \in BOOLEAN
    BY StreamAt
  <2> QED BY <2>1, <2>2 DEF StreamGoesOn
<1> QED BY <1>1, StreamKeeps

LEMMA FeedStreamKeeps ==
    ASSUME HandshakeInv, NEW s \in DOMAIN streams, NEW m \in c2s, FeedStream(s, m),
           UNCHANGED <<server_psk, client, session, c2s, damaged, gave_up>>
    PROVE  HandshakeInv'
<1> DEFINE e == Fed(streams[s], m, TRUE)
           X == Reply(streams[s], m, TRUE)
<1>1. m \in Msgs /\ TypeInv /\ streams[s] \in StreamRecords
  BY StreamAt DEF HandshakeInv, TypeInv
<1>2. /\ e \in StreamRecords
      /\ e.pc = streams[s].pc /\ e.nonce = streams[s].nonce /\ e.key = streams[s].key
  BY <1>1, FedFacts
<1>3. \A i \in 1 .. Len(e.buffer) : e.buffer[i] \in c2s /\ ~e.buffer[i].utack
  BY <1>1, StreamAt, FedBuffer
<1>4. Len(e.buffer) \in Nat /\ Len(e.buffer) <= BufferCap /\ Len(e.buffer) >= Len(streams[s].buffer)
  <2>1. \/ e.buffer = streams[s].buffer
        \/ ~BufferFull(streams[s]) /\ e.buffer = Append(streams[s].buffer, m)
    BY <1>1, FedFacts, Zenon
  <2>2. /\ streams[s].buffer \in Seq(Msgs)
        /\ Len(streams[s].buffer) \in Nat /\ Len(streams[s].buffer) <= BufferCap
    BY StreamAt
  <2>3. Len(Append(streams[s].buffer, m)) = Len(streams[s].buffer) + 1
    BY <1>1, <2>2, AppendProperties
  <2>4. ~BufferFull(streams[s]) => Len(streams[s].buffer) < BufferCap
    BY <2>2, HandshakeAssumption DEF BufferFull
  <2> HIDE DEF e
  <2> QED BY <2>1, <2>2, <2>3, <2>4, HandshakeAssumption
<1>5. X \subseteq Msgs /\ \A r \in X : r.utack
  BY <1>1, ReplyFacts
<1>6. StreamBecomes(s, e) /\ s2c' = s2c \cup X /\ UNCHANGED handshake
  BY <1>1, <1>2, BecomesFacts DEF FeedStream
<1>7. e.pc = "hello" => Len(e.buffer) > 0
  <2>1. streams[s].pc = "hello" => Len(streams[s].buffer) > 0
    BY StreamAt
  <2>2. Len(streams[s].buffer) \in Nat
    BY StreamAt
  <2> HIDE DEF e
  <2> QED BY <1>2, <1>4, <2>1, <2>2
<1> HIDE DEF e, X
<1>8. SameTask(s, e, X)
  BY <1>2, <1>3, <1>4, <1>5, <1>6, <1>7 DEF SameTask
<1> QED BY <1>8, SameTaskKeeps

LEMMA SessionReadsKeeps ==
    ASSUME HandshakeInv, NEW s \in DOMAIN streams, SessionReads(s)
    PROVE  HandshakeInv'
<1> DEFINE e == Popped(streams[s])
<1>1. /\ TypeInv /\ streams[s] \in StreamRecords /\ streams[s].pc = "session"
      /\ streams[s].buffer # << >>
      /\ UNCHANGED <<server_psk, client, handshake, session, c2s, s2c, damaged, gave_up>>
  BY StreamAt DEF HandshakeInv, SessionReads
<1>2. /\ e \in StreamRecords
      /\ e.pc = streams[s].pc /\ e.nonce = streams[s].nonce /\ e.key = streams[s].key
      /\ e.buffer = Tail(streams[s].buffer)
  BY <1>1, PoppedFacts
<1>3. StreamBecomes(s, e)
  BY <1>1, <1>2, BecomesFacts DEF SessionReads
<1> HIDE DEF e
<1>4. /\ Len(e.buffer) = Len(streams[s].buffer) - 1
      /\ \A i \in 1 .. Len(e.buffer) : e.buffer[i] \in c2s /\ ~e.buffer[i].utack
  BY <1>1, <1>2, StreamAt, TailBuffered
<1>5. Len(e.buffer) <= BufferCap
  BY <1>4, StreamAt, HandshakeAssumption
<1>6. e.pc # "hello"
  BY <1>1, <1>2
<1>7. SameTask(s, e, {})
  BY <1>1, <1>2, <1>3, <1>4, <1>5, <1>6 DEF SameTask
<1> QED BY <1>7, SameTaskKeeps

LEMMA StreamRetransmitsKeeps ==
    ASSUME HandshakeInv, NEW s \in DOMAIN streams, StreamRetransmits(s)
    PROVE  HandshakeInv'
<1> DEFINE e == [streams[s] EXCEPT !.attempt = @ + 1]
<1>1. /\ TypeInv /\ streams[s] \in StreamRecords
      /\ UNCHANGED <<server_psk, client, handshake, session, c2s, s2c, damaged, gave_up>>
  BY StreamAt DEF HandshakeInv, StreamRetransmits
<1>2. /\ e \in StreamRecords /\ e.buffer = streams[s].buffer
      /\ e.pc = streams[s].pc /\ e.nonce = streams[s].nonce /\ e.key = streams[s].key
  BY <1>1, AttemptFacts
<1>3. streams' = [streams EXCEPT ![s] = e]
  BY DEF StreamRetransmits
<1> HIDE DEF e
<1>4. StreamBecomes(s, e)
  BY <1>1, <1>2, <1>3, BecomesFacts
<1>5. /\ Len(e.buffer) <= BufferCap
      /\ \A i \in 1 .. Len(e.buffer) : e.buffer[i] \in c2s /\ ~e.buffer[i].utack
      /\ e.pc = "hello" => Len(e.buffer) > 0
  BY <1>2, StreamAt
<1>6. SameTask(s, e, {})
  BY <1>1, <1>2, <1>4, <1>5 DEF SameTask
<1> QED BY <1>6, SameTaskKeeps

(* A connection that is closed leaves the registries. *)
LEMMA StreamEndsKeeps ==
    ASSUME HandshakeInv, NEW s \in DOMAIN streams,
           NEW pc \in {"rejected", "turned_away", "lost", "timeout"},
           StreamEnds(s, pc), pc = "rejected" => streams[s].key = None,
           pc \in {"lost", "timeout"} => gave_up',
           gave_up' \in BOOLEAN, gave_up => gave_up',
           UNCHANGED <<server_psk, client, c2s, damaged>>
    PROVE  HandshakeInv'
<1> DEFINE e == [streams[s] EXCEPT !.pc = pc]
<1>1. TypeInv /\ streams[s] \in StreamRecords /\ pc \in ServerPcs /\ pc \in Pcs
  BY StreamAt DEF HandshakeInv, ServerPcs, Pcs
<1>2. /\ e \in StreamRecords /\ e.buffer = streams[s].buffer
      /\ e.pc = pc /\ e.nonce = streams[s].nonce /\ e.key = streams[s].key
  BY <1>1, PcFacts
<1>3. streams' = [streams EXCEPT ![s] = e] /\ s2c' = s2c
      /\ handshake' = (IF handshake = s THEN None ELSE handshake)
      /\ session' = (IF session = s THEN None ELSE session)
  BY DEF StreamEnds
<1> HIDE DEF e
<1>4. StreamBecomes(s, e)
  BY <1>1, <1>2, <1>3, BecomesFacts
<1>5. /\ Len(e.buffer) <= BufferCap
      /\ \A i \in 1 .. Len(e.buffer) : e.buffer[i] \in c2s /\ ~e.buffer[i].utack
      /\ e.key \in {None, s} /\ s # None
      /\ streams[s].key # None => e.key = s
      /\ e.key # None => client.nonce = s /\ server_psk = "psk"
  BY <1>2, StreamAt
<1>6. e.pc \notin Active /\ e.pc \notin {"session", "hello", "challenge", "hello_ack", "session_ok"}
      /\ (e.key # None => e.pc \in {"turned_away", "lost", "timeout"})
      /\ (e.pc \in {"lost", "timeout"} => gave_up')
  BY <1>2 DEF Active
<1>7. StreamGoesOn(s, e, {})
  BY <1>1, <1>2, <1>3, <1>4, <1>5, <1>6 DEF StreamGoesOn
<1> QED BY <1>7, StreamKeeps

LEMMA StreamGivesUpKeeps ==
    ASSUME HandshakeInv, NEW s \in DOMAIN streams, StreamGivesUp(s)
    PROVE  HandshakeInv'
<1>1. gave_up' = TRUE /\ UNCHANGED <<server_psk, client, c2s, damaged>>
      /\ (StreamEnds(s, "lost") \/ StreamEnds(s, "timeout"))
  BY DEF StreamGivesUp
<1>2. CASE StreamEnds(s, "lost")
  BY <1>1, <1>2, StreamEndsKeeps
<1>3. CASE StreamEnds(s, "timeout")
  BY <1>1, <1>3, StreamEndsKeeps
<1> QED BY <1>1, <1>2, <1>3

(* At the limit of its sessions the server closes the stream. *)
LEMMA TurnAwayKeeps ==
    ASSUME HandshakeInv, NEW s \in DOMAIN streams, TurnAway(s)
    PROVE  HandshakeInv'
<1>1. StreamEnds(s, "turned_away") /\ UNCHANGED <<server_psk, client, c2s, damaged, gave_up>>
  BY DEF TurnAway
<1>2. gave_up' \in BOOLEAN /\ (gave_up => gave_up')
  BY <1>1 DEF HandshakeInv, TypeInv
<1> QED BY <1>1, <1>2, StreamEndsKeeps

(* HELLO: the stream draws its nonce, or there is no PSK for the device. *)
LEMMA ReadHelloKeeps ==
    ASSUME HandshakeInv, NEW s \in DOMAIN streams, ReadHello(s)
    PROVE  HandshakeInv'
<1>1. /\ streams[s] \in StreamRecords /\ streams[s].pc = "hello" /\ streams[s].key = None
      /\ streams[s].buffer # << >> /\ handshake = s /\ session # s /\ s \in Int /\ TypeInv
      /\ s # None /\ gave_up \in BOOLEAN
      /\ UNCHANGED <<server_psk, client, c2s, damaged, gave_up>>
  <2>1. streams[s].pc = "hello" /\ UNCHANGED <<server_psk, client, c2s, damaged, gave_up>>
    BY DEF ReadHello
  <2>2. streams[s].buffer # << >>
    BY <2>1, StreamAt, EmptySeq
  <2> QED BY <2>1, <2>2, StreamAt DEF Active, HandshakeInv
<1>2. CASE StreamEnds(s, "rejected")
  BY <1>1, <1>2, StreamEndsKeeps
<1>3. CASE StreamWrites(s, [Popped(streams[s]) EXCEPT !.nonce = s], "challenge", Frame(CHALLENGE, 0, s))
  <2> DEFINE f == Frame(CHALLENGE, 0, s)
             p == Popped(streams[s])
             n == [p EXCEPT !.nonce = s]
             e == Writing(n, "challenge", f)
  <2>1. f \in Msgs /\ f.type = CHALLENGE /\ f.nonce = s
    BY <1>1 DEF Frame, Msgs, CHALLENGE
  <2>2. p \in StreamRecords /\ p.key = None /\ p.buffer = Tail(streams[s].buffer)
    BY <1>1, PoppedFacts
  <2>3. streams' = [streams EXCEPT ![s] = e] /\ s2c' = s2c \cup {f} /\ UNCHANGED <<handshake, session>>
    BY <1>3 DEF StreamWrites
  <2> HIDE DEF f, p
  <2>4. n \in StreamRecords /\ n.key = None /\ n.nonce = s /\ n.buffer = p.buffer
    BY <1>1, <2>2, NonceFacts
  <2>5. "challenge" \in Pcs /\ "challenge" \in ServerPcs
    BY DEF Pcs, ServerPcs
  <2> HIDE DEF n
  <2>6. e \in StreamRecords /\ e.pc = "challenge" /\ e.key = None /\ e.nonce = s
        /\ e.buffer = Tail(streams[s].buffer)
    BY <2>1, <2>2, <2>4, <2>5, WritingFacts
  <2> HIDE DEF e
  <2>7. StreamBecomes(s, e)
    BY <1>1, <2>3, <2>6, BecomesFacts
  <2>8. /\ Len(e.buffer) = Len(streams[s].buffer) - 1
        /\ \A i \in 1 .. Len(e.buffer) : e.buffer[i] \in c2s /\ ~e.buffer[i].utack
    BY <1>1, <2>6, StreamAt, TailBuffered
  <2>9. Len(e.buffer) <= BufferCap
    BY <2>8, StreamAt, HandshakeAssumption
  <2>10. StreamGoesOn(s, e, {f})
    BY <1>1, <2>1, <2>3, <2>5, <2>6, <2>7, <2>8, <2>9 DEF StreamGoesOn
  <2> QED BY <2>10, StreamKeeps
<1> QED BY <1>2, <1>3 DEF ReadHello

(* HELLO_ACK: the MAC shows that the client answers this stream's          *)
(* challenge with the PSK.                                                 *)
LEMMA ReadHelloAckKeeps ==
    ASSUME HandshakeInv, NEW s \in DOMAIN streams, ReadHelloAck(s)
    PROVE  HandshakeInv'
<1>1. /\ streams[s] \in StreamRecords /\ streams[s].pc = "hello_ack" /\ streams[s].key = None
      /\ streams[s].buffer # << >> /\ handshake = s /\ session # s /\ s \in Int /\ TypeInv
      /\ s # None /\ s # Garbage /\ gave_up \in BOOLEAN /\ streams[s].nonce = s
      /\ UNCHANGED <<server_psk, client, c2s, damaged, gave_up>>
  <2>1. streams[s].pc = "hello_ack" /\ UNCHANGED <<server_psk, client, c2s, damaged, gave_up>>
        /\ streams[s].buffer # << >>
    BY DEF ReadHelloAck
  <2> QED BY <2>1, StreamAt DEF Active, HandshakeInv
<1>2. CASE StreamEnds(s, "rejected")
  BY <1>1, <1>2, StreamEndsKeeps
<1>3. CASE /\ ClientMacOk(streams[s], Head(streams[s].buffer))
           /\ StreamWrites(s, [Popped(streams[s]) EXCEPT !.key = streams[s].nonce], "session_ok",
                           Frame(SESSION_OK, 0, streams[s].nonce))
  <2> DEFINE f == Frame(SESSION_OK, 0, s)
             p == Popped(streams[s])
             n == [p EXCEPT !.key = s]
             e == Writing(n, "session_ok", f)
             h == Head(streams[s].buffer)
  <2>0. h \in c2s /\ ~h.utack /\ h.type = HELLO_ACK /\ h.nonce = s /\ server_psk = "psk"
    <3>1. h \in c2s /\ ~h.utack
      BY <1>1, StreamAt, TailBuffered
    <3> QED BY <1>1, <1>3, <3>1 DEF ClientMacOk
  <2> HIDE DEF h
  <2>a. client.nonce = s
    BY <1>1, <2>0 DEF HandshakeInv, C2SInv
  <2>1. f \in Msgs /\ f.type = SESSION_OK /\ f.nonce = s
    BY <1>1 DEF Frame, Msgs, SESSION_OK
  <2>2. p \in StreamRecords /\ p.nonce = s /\ p.buffer = Tail(streams[s].buffer)
    BY <1>1, PoppedFacts
  <2>3. streams' = [streams EXCEPT ![s] = e] /\ s2c' = s2c \cup {f} /\ UNCHANGED <<handshake, session>>
    BY <1>1, <1>3 DEF StreamWrites
  <2> HIDE DEF f, p
  <2>4. n \in StreamRecords /\ n.key = s /\ n.nonce = s /\ n.buffer = p.buffer
    BY <1>1, <2>2, KeyFacts
  <2>5. "session_ok" \in Pcs /\ "session_ok" \in ServerPcs
    BY DEF Pcs, ServerPcs
  <2> HIDE DEF n
  <2>6. e \in StreamRecords /\ e.pc = "session_ok" /\ e.key = s /\ e.nonce = s
        /\ e.buffer = Tail(streams[s].buffer)
    BY <2>1, <2>2, <2>4, <2>5, WritingFacts
  <2> HIDE DEF e
  <2>7. StreamBecomes(s, e)
    BY <1>1, <2>3, <2>6, BecomesFacts
  <2>8. /\ Len(e.buffer) = Len(streams[s].buffer) - 1
        /\ \A i \in 1 .. Len(e.buffer) : e.buffer[i] \in c2s /\ ~e.buffer[i].utack
    BY <1>1, <2>6, StreamAt, TailBuffered
  <2>9. Len(e.buffer) <= BufferCap
    BY <2>8, StreamAt, HandshakeAssumption
  <2>10. StreamGoesOn(s, e, {f})
    BY <1>1, <2>0, <2>a, <2>1, <2>3, <2>5, <2>6, <2>7, <2>8, <2>9 DEF StreamGoesOn
  <2> QED BY <2>10, StreamKeeps
<1> QED BY <1>2, <1>3 DEF ReadHelloAck

LEMMA ChallengeDrainedKeeps ==
    ASSUME HandshakeInv, NEW s \in DOMAIN streams, ChallengeDrained(s)
    PROVE  HandshakeInv'
<1> DEFINE e == [streams[s] EXCEPT !.pc = "hello_ack"]
<1>1. /\ TypeInv /\ streams[s] \in StreamRecords /\ streams[s].pc = "challenge"
      /\ UNCHANGED <<server_psk, client, handshake, session, c2s, s2c, damaged, gave_up>>
      /\ "hello_ack" \in Pcs /\ "hello_ack" \in ServerPcs
  BY StreamAt DEF HandshakeInv, ChallengeDrained, Pcs, ServerPcs
<1>2. /\ e \in StreamRecords /\ e.buffer = streams[s].buffer
      /\ e.pc = "hello_ack" /\ e.nonce = streams[s].nonce /\ e.key = streams[s].key
  BY <1>1, PcFacts
<1>3. streams' = [streams EXCEPT ![s] = e]
  BY DEF ChallengeDrained
<1> HIDE DEF e
<1>4. StreamBecomes(s, e)
  BY <1>1, <1>2, <1>3, BecomesFacts
<1>5. /\ Len(e.buffer) <= BufferCap
      /\ \A i \in 1 .. Len(e.buffer) : e.buffer[i] \in c2s /\ ~e.buffer[i].utack
      /\ e.nonce = s /\ e.key = None /\ handshake = s /\ session # s /\ gave_up \in BOOLEAN
  BY <1>1, <1>2, StreamAt DEF Active
<1>6. StreamGoesOn(s, e, {})
  BY <1>1, <1>2, <1>4, <1>5 DEF StreamGoesOn
<1> QED BY <1>6, StreamKeeps

(* No session is replaced: a stream with a session has keys, and so does   *)
(* the one that is about to become the session.                            *)
LEMMA NoneReplaced ==
    ASSUME HandshakeInv, NEW s \in DOMAIN streams, streams[s].pc = "session_ok"
    PROVE  session = None
<1>1. streams[s].key = s /\ client.nonce = s /\ s # None
  BY StreamAt
<1>2. ASSUME session # None
      PROVE  FALSE
  <2>1. session \in DOMAIN streams /\ streams[session].pc = "session"
    BY <1>2 DEF HandshakeInv, TypeInv, StreamInv
  <2>2. client.nonce = session
    BY <2>1, StreamAt
  <2> QED BY <1>1, <2>1, <2>2
<1> QED BY <1>2

LEMMA EstablishKeeps ==
    ASSUME HandshakeInv, NEW s \in DOMAIN streams, Establish(s)
    PROVE  HandshakeInv'
<1> DEFINE e == [streams[s] EXCEPT !.pc = "session"]
<1>1. /\ TypeInv /\ streams[s] \in StreamRecords /\ streams[s].pc = "session_ok"
      /\ UNCHANGED <<server_psk, client, c2s, s2c, damaged, gave_up>>
      /\ handshake' = None /\ session' = s
      /\ "session" \in Pcs /\ "session" \in ServerPcs
  BY StreamAt DEF HandshakeInv, Establish, Pcs, ServerPcs
<1>2. /\ e \in StreamRecords /\ e.buffer = streams[s].buffer
      /\ e.pc = "session" /\ e.nonce = streams[s].nonce /\ e.key = streams[s].key
  BY <1>1, PcFacts
<1>3. session = None
  BY <1>1, NoneReplaced
<1>4. streams' = [streams EXCEPT ![s] = e]
  <2>1. \A i \in DOMAIN streams : i # session
    BY <1>1, <1>3, StreamFacts
  <2>2. streams' = [i \in DOMAIN streams |-> IF i = s THEN e ELSE streams[i]]
    BY <2>1 DEF Establish
  <2> QED BY <2>2
<1> HIDE DEF e
<1>5. StreamBecomes(s, e)
  BY <1>1, <1>2, <1>4, BecomesFacts
<1>6. /\ Len(e.buffer) <= BufferCap
      /\ \A i \in 1 .. Len(e.buffer) : e.buffer[i] \in c2s /\ ~e.buffer[i].utack
      /\ e.key = s /\ client.nonce = s /\ server_psk = "psk" /\ handshake = s /\ gave_up \in BOOLEAN
  BY <1>1, <1>2, StreamAt DEF Active
<1>7. StreamGoesOn(s, e, {})
  BY <1>1, <1>2, <1>3, <1>5, <1>6 DEF StreamGoesOn, Active
<1> QED BY <1>7, StreamKeeps

(* The cookie exchange keeps no state. *)
LEMMA IssueCookieKeeps ==
    ASSUME HandshakeInv, NEW m \in c2s, IssueCookie(m),
           UNCHANGED <<server_psk, client, session, c2s, damaged, gave_up>>
    PROVE  HandshakeInv'
<1> DEFINE u == Utack(Stream, m)
           f == Frame(HELLO_RETRY, 0, None)
<1>1. s2c' = s2c \cup {u, f} /\ UNCHANGED <<streams, handshake>>
  BY DEF IssueCookie
<1>2. u \in Msgs /\ u.utack
  BY NewStream, UtackFacts DEF HandshakeInv, TypeInv
<1>3. f \in Msgs /\ f.type = HELLO_RETRY /\ f.nonce # Garbage
  BY DEF Frame, Msgs, HELLO_RETRY, None, Garbage
<1> HIDE DEF u, f
<1>t. TypeInv'
  BY <1>1, <1>2, <1>3 DEF HandshakeInv, TypeInv
<1>s. S2CInv'
  <2>1. \A r \in s2c' : r \in s2c \/ r.utack \/ r.type = HELLO_RETRY
    BY <1>1, <1>2, <1>3
  <2>2. HELLO_RETRY # CHALLENGE /\ HELLO_RETRY # SESSION_OK
    BY DEF HELLO_RETRY, CHALLENGE, SESSION_OK
  <2> QED BY <1>1, <2>1, <2>2 DEF HandshakeInv, S2CInv
<1>c. C2SInv'
  BY DEF HandshakeInv, C2SInv
<1>b. BufferInv'
  BY <1>1 DEF HandshakeInv, BufferInv
<1>l. ClientInv'
  BY <1>1 DEF HandshakeInv, ClientInv
<1>r. StreamInv'
  BY <1>1 DEF HandshakeInv, StreamInv
<1>g. GarbageInv'
  BY <1>1, <1>2, <1>3 DEF HandshakeInv, GarbageInv
<1> QED BY <1>t, <1>s, <1>c, <1>b, <1>l, <1>r, <1>g DEF HandshakeInv

(* The stream that a HELLO with its cookie opens. *)
Opened(m) == Fed([Stream EXCEPT !.pc = "hello"], m, TRUE)

LEMMA OpenedFacts ==
    ASSUME NEW m \in Msgs, ~m.utack, m.type = HELLO
    PROVE  /\ Opened(m) \in StreamRecords /\ Opened(m).pc = "hello" /\ Opened(m).key = None
           /\ Len(Opened(m).buffer) = 1 /\ Opened(m).buffer[1] = m
           /\ Opened(m).last_rx_type = HELLO
<1> DEFINE e == [Stream EXCEPT !.pc = "hello"]
<1>1. "hello" \in Pcs
  BY DEF Pcs, ServerPcs
<1>2. /\ e \in StreamRecords /\ e.pc = "hello" /\ e.key = None /\ e.buffer = << >>
      /\ e.last_rx_type = -1
  BY <1>1, NewStream, PcFacts
<1> HIDE DEF e
<1>3. Fresh(e, m, TRUE) /\ ~IsSession(m.type)
  BY <1>2 DEF Fresh, IsSession, IsDuplicate, HELLO, HELLO_RETRY, CHALLENGE
<1>4. ~BufferFull(e)
  BY <1>2, EmptySeq, HandshakeAssumption DEF BufferFull
<1>5. /\ Fed(e, m, TRUE) \in StreamRecords /\ Fed(e, m, TRUE).pc = "hello"
      /\ Fed(e, m, TRUE).key = None /\ Fed(e, m, TRUE).last_rx_type = HELLO
      /\ Fed(e, m, TRUE).buffer = Append(e.buffer, m)
  BY <1>2, <1>3, <1>4, FedFacts
<1>6. Append(e.buffer, m) = <<m>>
  BY <1>2
<1>7. Opened(m) = Fed(e, m, TRUE)
  BY DEF Opened, e
<1>8. Len(<<m>>) = 1 /\ <<m>>[1] = m
  OBVIOUS
<1> QED BY <1>5, <1>6, <1>7, <1>8

LEMMA OpenStreamFacts ==
    ASSUME HandshakeInv, NEW m \in c2s, OpenStream(m)
    PROVE  /\ m \in Msgs /\ ~m.utack /\ m.type = HELLO /\ m.seq = 1 /\ handshake = None
           /\ client.pc \notin {"hello0", "retry"}
           /\ Opened(m) \in StreamRecords
           /\ streams' \in Seq(StreamRecords) /\ Len(streams') = Len(streams) + 1
           /\ Len(streams) \in Nat /\ Len(streams') <= MaxStreams
           /\ DOMAIN streams' = DOMAIN streams \cup {Len(streams) + 1}
           /\ \A i \in DOMAIN streams : streams'[i] = streams[i] /\ i # Len(streams) + 1
           /\ streams'[Len(streams) + 1] = Opened(m)
           /\ handshake' = Len(streams) + 1
           /\ s2c' = s2c \cup {Utack(Stream, m)}
           /\ Utack(Stream, m) \in Msgs /\ Utack(Stream, m).utack
<1>1. /\ m \in Msgs /\ ~m.utack /\ m.type = HELLO /\ m.seq = 1 /\ handshake = None
      /\ Len(streams) < MaxStreams /\ streams \in Seq(StreamRecords)
      /\ streams' = Append(streams, Opened(m)) /\ handshake' = Len(streams) + 1
      /\ s2c' = s2c \cup {Utack(Stream, m)}
  BY DEF HandshakeInv, TypeInv, OpenStream, Opened
<1>2. client.pc \notin {"hello0", "retry"}
  BY <1>1 DEF HandshakeInv, C2SInv
<1>3. Opened(m) \in StreamRecords
  BY <1>1, OpenedFacts
<1>4. Utack(Stream, m) \in Msgs /\ Utack(Stream, m).utack
  BY <1>1, NewStream, UtackFacts
<1>5. /\ streams' \in Seq(StreamRecords) /\ Len(streams') = Len(streams) + 1
      /\ \A i \in 1 .. Len(streams) : streams'[i] = streams[i]
      /\ streams'[Len(streams) + 1] = Opened(m)
  BY <1>1, <1>3, AppendProperties
<1>6. Len(streams) \in Nat /\ DOMAIN streams = 1 .. Len(streams)
      /\ DOMAIN streams' = 1 .. Len(streams')
  BY <1>1, <1>5, LenProperties
<1>7. Len(streams') <= MaxStreams
  BY <1>1, <1>5, <1>6, HandshakeAssumption
<1>8. DOMAIN streams' = DOMAIN streams \cup {Len(streams) + 1}
      /\ \A i \in DOMAIN streams : i # Len(streams) + 1
  BY <1>5, <1>6
<1> QED BY <1>1, <1>2, <1>3, <1>4, <1>5, <1>6, <1>7, <1>8

LEMMA OpenStreamKeeps ==
    ASSUME HandshakeInv, NEW m \in c2s, OpenStream(m),
           UNCHANGED <<server_psk, client, session, c2s, damaged, gave_up>>
    PROVE  HandshakeInv'
<1> DEFINE n == Len(streams) + 1
           e == Opened(m)
<1>1. /\ e \in StreamRecords /\ e.pc = "hello" /\ e.key = None /\ Len(e.buffer) = 1
      /\ e.buffer[1] = m
  BY OpenStreamFacts, OpenedFacts
<1>2. /\ DOMAIN streams' = DOMAIN streams \cup {n} /\ streams'[n] = e
      /\ \A i \in DOMAIN streams : streams'[i] = streams[i] /\ i # n
      /\ handshake = None /\ handshake' = n
  BY OpenStreamFacts
<1>3. n # None /\ n # Garbage
  <2>1. Len(streams) \in Nat
    BY OpenStreamFacts
  <2> QED BY <2>1 DEF None, Garbage
<1> HIDE DEF n, e
<1>t. TypeInv'
  <2>1. \A i \in DOMAIN streams' : streams'[i].pc \in ServerPcs /\ Len(streams'[i].buffer) <= BufferCap
    <3>1. e.pc \in ServerPcs /\ Len(e.buffer) <= BufferCap
      BY <1>1, HandshakeAssumption DEF ServerPcs
    <3> QED BY <1>2, <3>1 DEF HandshakeInv, TypeInv
  <2>2. handshake' \in DOMAIN streams' \cup {None} /\ session' \in DOMAIN streams' \cup {None}
    BY <1>2 DEF HandshakeInv, TypeInv
  <2>3. s2c' \subseteq Msgs
    BY OpenStreamFacts DEF HandshakeInv, TypeInv
  <2> QED BY <2>1, <2>2, <2>3, OpenStreamFacts DEF HandshakeInv, TypeInv
<1>s. S2CInv'
  <2>1. \A r \in s2c' : r \in s2c \/ r.utack
    BY OpenStreamFacts
  <2> QED BY <1>2, <2>1 DEF HandshakeInv, S2CInv
<1>c. C2SInv'
  BY DEF HandshakeInv, C2SInv
<1>b. BufferInv'
  <2>1. \A i \in 1 .. Len(client'.buffer) : client'.buffer[i] \in s2c' /\ ~client'.buffer[i].utack
    BY OpenStreamFacts DEF HandshakeInv, BufferInv
  <2>2. \A i \in 1 .. Len(e.buffer) : e.buffer[i] \in c2s /\ ~e.buffer[i].utack
    BY <1>1, OpenStreamFacts
  <2>3. \A r \in DOMAIN streams' : \A i \in 1 .. Len(streams'[r].buffer) :
            streams'[r].buffer[i] \in c2s' /\ ~streams'[r].buffer[i].utack
    BY <1>2, <2>2 DEF HandshakeInv, BufferInv
  <2> QED BY <2>1, <2>3 DEF BufferInv
<1>l. ClientInv'
  <2>1. client.nonce \in DOMAIN streams => streams[client.nonce].pc # "hello"
    BY DEF HandshakeInv, ClientInv
  <2>2. client.nonce \in DOMAIN streams \cup {None, Garbage}
    BY DEF HandshakeInv, ClientInv
  <2>3. client.nonce # n
    BY <1>2, <1>3, <2>2
  <2>4. client.pc \notin {"hello0", "retry"}
    BY OpenStreamFacts
  <2> QED BY <1>2, <2>1, <2>2, <2>3, <2>4 DEF HandshakeInv, ClientInv
<1>r. StreamInv'
  <2>1. ASSUME NEW i \in DOMAIN streams'
        PROVE  /\ streams'[i].pc = "hello" => Len(streams'[i].buffer) > 0
               /\ streams'[i].pc \in {"challenge", "hello_ack", "session_ok"} => streams'[i].nonce = i
               /\ streams'[i].key \in {None, i}
               /\ streams'[i].pc \in {"session_ok", "session"} => streams'[i].key = i
               /\ streams'[i].key # None =>
                     /\ client'.nonce = i /\ server_psk' = "psk"
                     /\ streams'[i].pc \in {"session_ok", "session", "turned_away", "lost", "timeout"}
               /\ streams'[i].pc \in Active => handshake' = i
               /\ streams'[i].pc = "session" => session' = i
               /\ streams'[i].pc \in {"lost", "timeout"} => gave_up'
    <3>1. CASE i = n
      BY <1>1, <1>2, <3>1
    <3>2. CASE i \in DOMAIN streams
      <4>1. streams[i].pc \notin Active
        BY <1>2, <3>2, StreamAt
      <4> QED BY <1>2, <3>2, <4>1 DEF HandshakeInv, StreamInv
    <3> QED BY <1>2, <3>1, <3>2
  <2>2. session' # None => streams'[session'].pc = "session"
    BY <1>2 DEF HandshakeInv, StreamInv, TypeInv
  <2> QED BY <2>1, <2>2 DEF StreamInv
<1>g. GarbageInv'
  BY OpenStreamFacts DEF HandshakeInv, GarbageInv
<1> QED BY <1>t, <1>s, <1>c, <1>b, <1>l, <1>r, <1>g DEF HandshakeInv

LEMMA ToServerKeeps ==
    ASSUME HandshakeInv, NEW m \in c2s, ToServer(m)
    PROVE  HandshakeInv'
<1>1. UNCHANGED <<server_psk, client, session, c2s, damaged, gave_up>>
  BY DEF ToServer
<1>2. handshake \in DOMAIN streams \cup {None} /\ session \in DOMAIN streams \cup {None}
  BY DEF HandshakeInv, TypeInv
<1>3. CASE handshake # None /\ FeedStream(handshake, m)
  BY <1>1, <1>2, <1>3, FeedStreamKeeps
<1>4. CASE session # None /\ FeedStream(session, m)
  BY <1>1, <1>2, <1>4, FeedStreamKeeps
<1>5. CASE IssueCookie(m)
  BY <1>1, <1>5, IssueCookieKeeps
<1>6. CASE OpenStream(m)
  BY <1>1, <1>6, OpenStreamKeeps
<1> QED BY <1>3, <1>4, <1>5, <1>6 DEF ToServer

-----------------------------------------------------------------------------
(* The network. *)

LEMMA DamageKeeps ==
    ASSUME HandshakeInv, Damage
    PROVE  HandshakeInv'
<1>1. ~damaged /\ damaged' = TRUE /\ UNCHANGED <<server_psk, client, streams, handshake, session, gave_up>>
  BY DEF Damage
<1>2. client.nonce # Garbage /\ \A m \in s2c \cup c2s : ~m.utack => m.nonce # Garbage
  BY <1>1 DEF HandshakeInv, GarbageInv
<1>3. ClientInv' /\ StreamInv'
  BY <1>1 DEF HandshakeInv, ClientInv, StreamInv
<1>4. ASSUME NEW m \in Msgs
      PROVE  /\ [m EXCEPT !.nonce = Garbage] \in Msgs
             /\ [m EXCEPT !.nonce = Garbage].utack = m.utack
             /\ [m EXCEPT !.nonce = Garbage].type = m.type
             /\ [m EXCEPT !.nonce = Garbage].nonce = Garbage
  BY DEF Msgs, Garbage
<1>5. CASE \E m \in s2c : /\ ~m.utack /\ m.type \in {CHALLENGE, SESSION_OK}
                          /\ s2c' = s2c \cup {[m EXCEPT !.nonce = Garbage]}
                          /\ UNCHANGED c2s
  <2>1. PICK m \in s2c : /\ ~m.utack /\ m.type \in {CHALLENGE, SESSION_OK}
                         /\ s2c' = s2c \cup {[m EXCEPT !.nonce = Garbage]}
                         /\ UNCHANGED c2s
    BY <1>5
  <2>2. m \in Msgs
    BY DEF HandshakeInv, TypeInv
  <2>3. PICK g : /\ g \in Msgs /\ ~g.utack /\ g.type \in {CHALLENGE, SESSION_OK} /\ g.nonce = Garbage
                 /\ s2c' = s2c \cup {g}
    BY <1>4, <2>1, <2>2
  <2>t. TypeInv'
    BY <1>1, <2>1, <2>3 DEF HandshakeInv, TypeInv
  <2>s. S2CInv'
    BY <1>1, <2>3 DEF HandshakeInv, S2CInv
  <2>c. C2SInv'
    BY <1>1, <2>1 DEF HandshakeInv, C2SInv
  <2>b. BufferInv'
    BY <1>1, <2>1, <2>3 DEF HandshakeInv, BufferInv
  <2>g. GarbageInv'
    <3>1. CHALLENGE # SESSION_OK
      BY DEF CHALLENGE, SESSION_OK
    <3> QED BY <1>1, <1>2, <2>3, <3>1 DEF GarbageInv
  <2> QED BY <1>3, <2>t, <2>s, <2>c, <2>b, <2>g DEF HandshakeInv
<1>6. CASE \E m \in c2s : /\ ~m.utack /\ m.type = HELLO_ACK
                          /\ c2s' = c2s \cup {[m EXCEPT !.nonce = Garbage]}
                          /\ UNCHANGED s2c
  <2>1. PICK m \in c2s : /\ ~m.utack /\ m.type = HELLO_ACK
                         /\ c2s' = c2s \cup {[m EXCEPT !.nonce = Garbage]}
                         /\ UNCHANGED s2c
    BY <1>6
  <2>2. m \in Msgs /\ client.nonce # None
    BY <2>1 DEF HandshakeInv, TypeInv, C2SInv
  <2>3. PICK g : /\ g \in Msgs /\ ~g.utack /\ g.type = HELLO_ACK /\ g.nonce = Garbage
                 /\ c2s' = c2s \cup {g}
    BY <1>4, <2>1, <2>2
  <2>t. TypeInv'
    BY <1>1, <2>1, <2>3 DEF HandshakeInv, TypeInv
  <2>s. S2CInv'
    BY <1>1, <2>1 DEF HandshakeInv, S2CInv
  <2>c. C2SInv'
    <3>1. HELLO_ACK # HELLO /\ HELLO_ACK # DATA
      BY DEF HELLO_ACK, HELLO, DATA
    <3> QED BY <1>1, <2>2, <2>3, <3>1 DEF HandshakeInv, C2SInv
  <2>b. BufferInv'
    BY <1>1, <2>1, <2>3 DEF HandshakeInv, BufferInv
  <2>g. GarbageInv'
    BY <1>1, <1>2, <2>1 DEF GarbageInv
  <2> QED BY <1>3, <2>t, <2>s, <2>c, <2>b, <2>g DEF HandshakeInv
<1> QED BY <1>5, <1>6 DEF Damage

-----------------------------------------------------------------------------
LEMMA InvInit == Init => HandshakeInv
<1> SUFFICES ASSUME Init PROVE HandshakeInv
  OBVIOUS
<1> DEFINE f == Frame(HELLO, 0, None)
<1>1. f \in Msgs /\ f.type = HELLO /\ f.seq = 0 /\ f.nonce # Garbage /\ ~f.utack
  BY DEF Frame, Msgs, HELLO, None, Garbage
<1>2. client = Writing(Stream, "hello0", f) /\ c2s = {f}
  BY DEF Init
<1>3. "hello0" \in Pcs /\ "hello0" \in ClientPcs
  BY DEF Pcs, ClientPcs, Drains
<1> HIDE DEF f
<1>4. /\ client \in StreamRecords /\ client.pc = "hello0" /\ client.nonce = None /\ client.key = None
      /\ client.buffer = << >>
  BY <1>1, <1>2, <1>3, NewStream, WritingFacts
<1>5. streams \in Seq(StreamRecords) /\ Len(streams) = 0 /\ DOMAIN streams = {} /\ Len(client.buffer) = 0
  BY <1>4, EmptySeq DEF Init
<1>t. TypeInv
  <2>1. /\ server_psk \in Psks /\ handshake = None /\ session = None /\ s2c = {}
        /\ damaged \in BOOLEAN /\ gave_up \in BOOLEAN
    BY DEF Init
  <2>2. Len(streams) <= MaxStreams
    BY <1>5, HandshakeAssumption
  <2>3. c2s \subseteq Msgs
    BY <1>1, <1>2
  <2> QED BY <1>3, <1>4, <1>5, <2>1, <2>2, <2>3 DEF TypeInv
<1>s. S2CInv
  BY DEF Init, S2CInv
<1>c. C2SInv
  BY <1>1, <1>2 DEF C2SInv, HELLO, HELLO_ACK, DATA
<1>b. BufferInv
  BY <1>5 DEF BufferInv
<1>l. ClientInv
  BY <1>4, <1>5 DEF Init, ClientInv
<1>r. StreamInv
  BY <1>5 DEF Init, StreamInv
<1>g. GarbageInv
  <2>1. s2c = {} /\ None # Garbage
    BY DEF Init, None, Garbage
  <2> QED BY <1>1, <1>2, <1>4, <2>1 DEF GarbageInv
<1> QED BY <1>t, <1>s, <1>c, <1>b, <1>l, <1>r, <1>g DEF HandshakeInv

LEMMA InvNext == HandshakeInv /\ [Next]_vars => HandshakeInv'
<1> SUFFICES ASSUME HandshakeInv, [Next]_vars PROVE HandshakeInv'
  OBVIOUS
<1>1. CASE ClientStep
  BY <1>1, ClientDrainedKeeps, ClientReadsKeeps DEF ClientStep
<1>2. CASE ClientSends
  BY <1>2, ClientSendsKeeps
<1>3. CASE ClientRetransmits \/ ClientGivesUp
  BY <1>3, ClientTimerKeeps
<1>4. CASE \E m \in s2c : ToClient(m)
  BY <1>4, ToClientKeeps
<1>5. CASE \E m \in c2s : ToServer(m)
  BY <1>5, ToServerKeeps
<1>6. ASSUME NEW s \in DOMAIN streams, ServerStep(s) \/ StreamRetransmits(s) \/ StreamGivesUp(s)
      PROVE  HandshakeInv'
  BY <1>6, ReadHelloKeeps, ReadHelloAckKeeps, ChallengeDrainedKeeps, EstablishKeeps,
     TurnAwayKeeps, SessionReadsKeeps, StreamRetransmitsKeeps, StreamGivesUpKeeps DEF ServerStep
<1>7. CASE Damage
  BY <1>7, DamageKeeps
<1>8. CASE UNCHANGED vars
  BY <1>8 DEF vars, HandshakeInv, TypeInv, S2CInv, C2SInv, BufferInv, ClientInv, StreamInv, GarbageInv
<1> QED BY <1>1, <1>2, <1>3, <1>4, <1>5, <1>6, <1>7, <1>8 DEF Next

(* In every state each frame tells what its sender has done. *)
THEOREM HandshakeInvariant == Spec => []HandshakeInv
BY InvInit, InvNext, PTL DEF Spec

(* Client and streams stay within their states, and no read buffer holds   *)
(* more than MAX_READ_BUFFER.                                              *)
THEOREM HandshakeTypeCorrect == Spec => []HandshakeTypeOK
<1>1. HandshakeInv => HandshakeTypeOK
  BY DEF HandshakeInv, TypeInv, HandshakeTypeOK, ClientPcs, ServerPcs
<1> QED BY <1>1, HandshakeInvariant, PTL

(* However many streams late HELLOs open, and whatever HELLO_ACKs reach    *)
(* them, verify_client_mac accepts the client in one stream at most, and   *)
(* only for the nonce that the client answered, with the PSK they share.   *)
THEOREM HandshakesAgree == Spec => []Agreement
<1>1. HandshakeInv => Agreement
  BY DEF HandshakeInv, StreamInv, Agreement
<1> QED BY <1>1, HandshakeInvariant, PTL

(* When client_handshake returns, set_session_keys was called at the       *)
(* server with the same keys, and that stream is registered at the         *)
(* client's address, unless a timer ended it or the server turned it away  *)
(* at max_connections or max_connections_per_ip.                           *)
THEOREM ServerIsReady == Spec => []ServerReady
<1>1. ASSUME HandshakeInv, client.key # None
      PROVE  /\ client.key \in DOMAIN streams
             /\ streams[client.key].key = client.key
             /\ \/ gave_up
                \/ client.key \in {handshake, session}
                \/ streams[client.key].pc = "turned_away"
  <2>1. client.key \in DOMAIN streams /\ streams[client.key].key = client.key
    BY <1>1 DEF HandshakeInv, ClientInv
  <2>2. streams[client.key].pc \in {"session_ok", "session", "turned_away", "lost", "timeout"}
    BY <1>1, <2>1, StreamAt
  <2> QED BY <1>1, <2>1, <2>2, StreamAt DEF Active
<1>2. HandshakeInv => ServerReady
  BY <1>1 DEF ServerReady
<1> QED BY <1>2, HandshakeInvariant, PTL

-----------------------------------------------------------------------------
(* Without damage and before a timer gives up, both sides see the frames   *)
(* they expect.                                                            *)
Undisturbed == server_psk = "psk" /\ ~damaged /\ ~gave_up

LEMMA ClientOnTrackSame ==
    ASSUME ClientOnTrack, client'.last_rx_type = client.last_rx_type,
           client'.buffer = client.buffer,
           client'.pc = client.pc \/ <<client.pc, client'.pc>> \in
               {<<"hello0", "retry">>, <<"hello1", "challenge">>, <<"hello_ack", "session_ok">>,
                <<"established", "data">>, <<"data", "sent">>}
    PROVE  ClientOnTrack'
BY DEF ClientOnTrack, Holds

LEMMA ClientDrainedTrack ==
    ASSUME HandshakeInv, ClientOnTrack, ClientDrained
    PROVE  ClientOnTrack'
<1>1. client \in StreamRecords /\ client.pc \in Drains
      /\ client' = [client EXCEPT !.pc = AfterDrain[client.pc]]
  BY DEF ClientDrained, HandshakeInv, TypeInv
<1>2. client'.last_rx_type = client.last_rx_type /\ client'.buffer = client.buffer
      /\ client'.pc = AfterDrain[client.pc]
  BY <1>1 DEF StreamRecords
<1>3. <<client.pc, AfterDrain[client.pc]>> \in
         {<<"hello0", "retry">>, <<"hello1", "challenge">>, <<"hello_ack", "session_ok">>,
          <<"established", "data">>, <<"data", "sent">>}
  BY <1>1 DEF Drains, AfterDrain
<1> QED BY <1>2, <1>3, ClientOnTrackSame

LEMMA ClientSendsTrack ==
    ASSUME HandshakeInv, ClientOnTrack, ClientSends
    PROVE  ClientOnTrack'
<1> DEFINE f == Frame(DATA, 0, client.key)
<1>1. client \in StreamRecords /\ client.pc = "established" /\ client' = Writing(client, "data", f)
  BY DEF ClientSends, ClientWrites, HandshakeInv, TypeInv
<1>2. f \in Msgs /\ "data" \in Pcs
  BY <1>1 DEF Frame, Msgs, DATA, StreamRecords, Pcs, Drains
<1> HIDE DEF f
<1>3. client'.last_rx_type = client.last_rx_type /\ client'.buffer = client.buffer
      /\ client'.pc = "data"
  BY <1>1, <1>2, WritingFacts
<1> QED BY <1>1, <1>3, ClientOnTrackSame

LEMMA ClientRetransmitsTrack ==
    ASSUME HandshakeInv, ClientOnTrack, ClientRetransmits
    PROVE  ClientOnTrack'
<1>1. client \in StreamRecords /\ client' = [client EXCEPT !.attempt = @ + 1]
  BY DEF ClientRetransmits, HandshakeInv, TypeInv
<1>2. client'.last_rx_type = client.last_rx_type /\ client'.buffer = client.buffer
      /\ client'.pc = client.pc
  BY <1>1, AttemptFacts
<1> QED BY <1>2, ClientOnTrackSame

(* A CHALLENGE tells that a stream was opened, SESSION_OK that the client  *)
(* has answered the challenge of the stream that sent it.                  *)
LEMMA ServerFramesTell ==
    ASSUME HandshakeInv, ~damaged, NEW m \in s2c, ~m.utack
    PROVE  /\ m.type \in {CHALLENGE, SESSION_OK, HELLO_RETRY}
           /\ m.type = CHALLENGE => client.pc \notin {"hello0", "retry"}
           /\ m.type = SESSION_OK => /\ client.pc \notin Unchallenged
                                     /\ m.nonce = client.nonce
<1>1. m.type \in {CHALLENGE, SESSION_OK, HELLO_RETRY} /\ m.nonce # Garbage
  BY DEF HandshakeInv, GarbageInv, S2CInv
<1>2. m.type = CHALLENGE => client.pc \notin {"hello0", "retry"}
  <2>1. m.type = CHALLENGE => DOMAIN streams # {}
    BY <1>1 DEF HandshakeInv, S2CInv
  <2>2. DOMAIN streams # {} => streams # << >>
    OBVIOUS
  <2> QED BY <2>1, <2>2 DEF HandshakeInv, ClientInv
<1>3. ASSUME m.type = SESSION_OK
      PROVE  client.pc \notin Unchallenged /\ m.nonce = client.nonce
  <2>1. m.nonce \in DOMAIN streams /\ streams[m.nonce].key = m.nonce
    BY <1>1, <1>3 DEF HandshakeInv, S2CInv
  <2>2. client.nonce = m.nonce /\ m.nonce # None
    BY <2>1, StreamAt
  <2> QED BY <2>2 DEF HandshakeInv, ClientInv
<1> QED BY <1>1, <1>2, <1>3

LEMMA ToClientTrack ==
    ASSUME HandshakeInv, ClientOnTrack, ~damaged, NEW m \in s2c, ToClient(m)
    PROVE  ClientOnTrack'
<1>1. client \in StreamRecords /\ m \in Msgs /\ client' = Fed(client, m, FALSE)
  BY DEF ToClient, HandshakeInv, TypeInv
<1>2. client'.pc = client.pc
  BY <1>1, FedFacts
<1>3. CASE m.utack \/ ~Fresh(client, m, FALSE)
  BY <1>1, <1>2, <1>3, FedFacts, ClientOnTrackSame
<1>4. CASE ~m.utack /\ Fresh(client, m, FALSE)
  <2>1. /\ m.type \in {CHALLENGE, SESSION_OK, HELLO_RETRY}
        /\ m.type = CHALLENGE => client.pc \notin {"hello0", "retry"}
        /\ m.type = SESSION_OK => client.pc \notin Unchallenged
    BY <1>4, ServerFramesTell
  <2>2. ~IsSession(m.type)
    BY <2>1 DEF IsSession, CHALLENGE, SESSION_OK, HELLO_RETRY
  <2>3. /\ m.type # client.last_rx_type
        /\ m.type = HELLO_RETRY => client.last_rx_type = -1
        /\ m.type = CHALLENGE => client.last_rx_type # SESSION_OK
    BY <1>4, <2>2 DEF Fresh, IsDuplicate
  <2>4. client.buffer = << >>
    BY <2>1, <2>3 DEF ClientOnTrack, Unchallenged, HELLO_RETRY, CHALLENGE, SESSION_OK
  <2>5. ~BufferFull(client)
    BY <2>4, EmptySeq, HandshakeAssumption DEF BufferFull
  <2>6. client'.last_rx_type = m.type /\ client'.buffer = Append(client.buffer, m)
    BY <1>1, <1>4, <2>2, <2>5, FedFacts
  <2>7. client'.buffer = <<m>>
    BY <2>4, <2>6
  <2>8. Holds(client', m.type)
    BY <2>7 DEF Holds
  <2>9. CASE m.type = HELLO_RETRY
    <3>1. client.pc \in {"hello0", "retry"}
      BY <2>3, <2>9 DEF ClientOnTrack, HELLO_RETRY, CHALLENGE, SESSION_OK
    <3> QED BY <1>2, <2>6, <2>8, <2>9, <3>1 DEF ClientOnTrack
  <2>10. CASE m.type = CHALLENGE
    <3>1. client.pc \in {"hello1", "challenge"}
      BY <2>1, <2>3, <2>10 DEF ClientOnTrack, HELLO_RETRY, CHALLENGE, SESSION_OK
    <3> QED BY <1>2, <2>6, <2>8, <2>10, <3>1 DEF ClientOnTrack
  <2>11. CASE m.type = SESSION_OK
    <3>1. client.pc \in {"hello_ack", "session_ok"}
      BY <2>1, <2>3, <2>11 DEF ClientOnTrack, Unchallenged, HELLO_RETRY, CHALLENGE, SESSION_OK
    <3> QED BY <1>2, <2>6, <2>8, <2>11, <3>1 DEF ClientOnTrack
  <2> QED BY <2>1, <2>9, <2>10, <2>11
<1> QED BY <1>3, <1>4

LEMMA ClientReadsTrack ==
    ASSUME HandshakeInv, ClientOnTrack, ~damaged, ClientReads
    PROVE  ClientOnTrack'
<1>0. PICK f : f = Head(client.buffer)
  OBVIOUS
<1>1. /\ client.pc \in Reads /\ client.buffer # << >> /\ client.buffer \in Seq(Msgs)
      /\ f \in s2c /\ ~f.utack /\ f.nonce \in Int
      /\ Popped(client) \in StreamRecords /\ Popped(client).buffer = Tail(client.buffer)
      /\ Popped(client).last_rx_type = client.last_rx_type
  BY <1>0, ClientHead DEF ClientReads, StreamRecords
<1>2. /\ client.pc = "retry" => client.last_rx_type = HELLO_RETRY /\ Holds(client, HELLO_RETRY)
      /\ client.pc = "challenge" => client.last_rx_type = CHALLENGE /\ Holds(client, CHALLENGE)
      /\ client.pc = "session_ok" => client.last_rx_type = SESSION_OK /\ Holds(client, SESSION_OK)
  BY <1>1 DEF ClientOnTrack, Reads
<1>3. Len(client.buffer) = 1 /\ f = client.buffer[1]
  <2>1. Len(client.buffer) = 1
    BY <1>1, <1>2 DEF Reads, Holds
  <2> QED BY <1>0, <1>1, <2>1, HeadTailProperties
<1>4. Popped(client).buffer = << >>
  <2>1. Tail(client.buffer) \in Seq(Msgs) /\ Len(Tail(client.buffer)) = 0
    BY <1>1, <1>3, HeadTailProperties
  <2> QED BY <1>1, <2>1, EmptySeq
<1>5. /\ client.pc = "retry" => f.type = HELLO_RETRY
      /\ client.pc = "challenge" => f.type = CHALLENGE
      /\ client.pc = "session_ok" => f.type = SESSION_OK /\ f.nonce = client.nonce
  <2>1. /\ client.pc = "retry" => f.type = HELLO_RETRY
        /\ client.pc = "challenge" => f.type = CHALLENGE
        /\ client.pc = "session_ok" => f.type = SESSION_OK
    BY <1>2, <1>3 DEF Holds
  <2> QED BY <1>1, <2>1, ServerFramesTell
<1>6. /\ "hello1" \in Pcs /\ "hello_ack" \in Pcs /\ "established" \in Pcs
  BY DEF Pcs, Drains
<1>7. CASE client.pc = "retry"
  <2> DEFINE g == Frame(HELLO, 1, None)
  <2>1. client' = Writing(Popped(client), "hello1", g)
    <3>1. f.type # CHALLENGE
      BY <1>5, <1>7 DEF HELLO_RETRY, CHALLENGE
    <3> QED BY <1>0, <1>5, <1>7, <3>1 DEF ClientReads, ClientWrites
  <2>2. g \in Msgs
    BY DEF Frame, Msgs, HELLO, None
  <2> HIDE DEF g
  <2>3. client'.pc = "hello1" /\ client'.last_rx_type = HELLO_RETRY /\ client'.buffer = << >>
    BY <1>1, <1>2, <1>4, <1>6, <1>7, <2>1, <2>2, WritingFacts
  <2> QED BY <2>3 DEF ClientOnTrack
<1>8. CASE client.pc = "challenge"
  <2> DEFINE g == Frame(HELLO_ACK, 2, f.nonce)
             e == [Popped(client) EXCEPT !.nonce = f.nonce]
  <2>1. client' = Writing(e, "hello_ack", g)
    BY <1>0, <1>5, <1>8 DEF ClientReads, ClientWrites
  <2>2. g \in Msgs
    BY <1>1 DEF Frame, Msgs, HELLO_ACK
  <2>3. e \in StreamRecords /\ e.buffer = << >> /\ e.last_rx_type = client.last_rx_type
    BY <1>1, <1>4, NonceFacts
  <2> HIDE DEF g, e
  <2>4. client'.pc = "hello_ack" /\ client'.last_rx_type = CHALLENGE /\ client'.buffer = << >>
    BY <1>2, <1>6, <1>8, <2>1, <2>2, <2>3, WritingFacts
  <2> QED BY <2>4 DEF ClientOnTrack
<1>9. CASE client.pc = "session_ok"
  <2>1. client' = [Popped(client) EXCEPT !.pc = "established", !.key = f.nonce]
    BY <1>0, <1>5, <1>9 DEF ClientReads
  <2>2. client'.pc = "established" /\ client'.last_rx_type = SESSION_OK /\ client'.buffer = << >>
    BY <1>1, <1>2, <1>4, <1>9, <2>1 DEF StreamRecords
  <2> QED BY <2>2 DEF ClientOnTrack
<1> QED BY <1>1, <1>7, <1>8, <1>9 DEF Reads

(* Before the first stream has its keys, a frame that it is fed is a HELLO, *)
(* or the HELLO_ACK that answers its challenge.                             *)
LEMMA ClientFramesTell ==
    ASSUME HandshakeInv, ~damaged, Len(streams) = 1,
           streams[1].pc \in {"hello", "challenge", "hello_ack"}, NEW m \in c2s, ~m.utack
    PROVE  /\ m.type \in {HELLO, HELLO_ACK}
           /\ m.type = HELLO_ACK => streams[1].pc # "hello" /\ m.nonce = 1
<1>1. DOMAIN streams = {1}
  BY StreamFacts DEF HandshakeInv
<1>2. streams[1].key = None
  BY <1>1, StreamAt
<1>3. client.key = None
  BY <1>1, <1>2 DEF HandshakeInv, ClientInv
<1>4. m.type \in {HELLO, HELLO_ACK}
  BY <1>3 DEF HandshakeInv, C2SInv
<1>5. ASSUME m.type = HELLO_ACK
      PROVE  streams[1].pc # "hello" /\ m.nonce = 1
  <2>1. client.nonce # None /\ m.nonce \in {client.nonce, Garbage}
    BY <1>5 DEF HandshakeInv, C2SInv
  <2>2. m.nonce # Garbage /\ client.nonce # Garbage
    BY DEF HandshakeInv, GarbageInv
  <2>3. client.nonce = 1
    BY <1>1, <2>1, <2>2 DEF HandshakeInv, ClientInv
  <2> QED BY <1>1, <2>1, <2>2, <2>3 DEF HandshakeInv, ClientInv
<1> QED BY <1>4, <1>5

LEMMA SameDomain ==
    ASSUME TypeInv, TypeInv', DOMAIN streams' = DOMAIN streams
    PROVE  Len(streams') = Len(streams) /\ (streams' # << >> <=> streams # << >>)
           /\ (streams # << >> => 1 \in DOMAIN streams)
<1>1. /\ Len(streams) \in Nat /\ DOMAIN streams = 1 .. Len(streams)
      /\ Len(streams') \in Nat /\ DOMAIN streams' = 1 .. Len(streams')
  BY LenProperties DEF TypeInv
<1>2. (streams = << >> <=> Len(streams) = 0) /\ (streams' = << >> <=> Len(streams') = 0)
  BY EmptySeq DEF TypeInv
<1>3. Len(streams') = Len(streams)
  BY <1>1
<1> QED BY <1>1, <1>2, <1>3

(* One stream changes: what matters is what becomes of the first. *)
LEMMA OneStreamTrack ==
    ASSUME TypeInv, TypeInv', streams # << >> => FirstOnTrack, NEW s \in DOMAIN streams, NEW e,
           streams' = [streams EXCEPT ![s] = e],
           s = 1 /\ OnTrack(streams[1], Len(streams)) => OnTrack(e, Len(streams))
    PROVE  streams' # << >> => FirstOnTrack'
<1> SUFFICES ASSUME streams' # << >> PROVE FirstOnTrack'
  OBVIOUS
<1>1. /\ Len(streams') = Len(streams) /\ streams # << >> /\ 1 \in DOMAIN streams
  BY SameDomain
<1>2. OnTrack(streams[1], Len(streams))
  BY <1>1 DEF FirstOnTrack
<1>3. streams'[1] = IF s = 1 THEN e ELSE streams[1]
  BY <1>1
<1>4. OnTrack(streams'[1], Len(streams'))
  <2>1. CASE s = 1
    BY <1>1, <1>2, <1>3, <2>1
  <2>2. CASE s # 1
    BY <1>1, <1>2, <1>3, <2>2
  <2> QED BY <2>1, <2>2
<1> QED BY <1>4 DEF FirstOnTrack

LEMMA FeedStreamTrack ==
    ASSUME HandshakeInv, HandshakeInv', ~damaged, streams # << >> => FirstOnTrack,
           NEW s \in DOMAIN streams, NEW m \in c2s, FeedStream(s, m)
    PROVE  streams' # << >> => FirstOnTrack'
<1> DEFINE e == Fed(streams[s], m, TRUE)
<1>1. TypeInv /\ TypeInv' /\ m \in Msgs /\ streams[s] \in StreamRecords
      /\ streams' = [streams EXCEPT ![s] = e]
  BY StreamAt DEF HandshakeInv, TypeInv, FeedStream
<1>2. ASSUME s = 1, OnTrack(streams[1], Len(streams))
      PROVE  OnTrack(e, Len(streams))
  <2>1. e.pc = streams[s].pc
    BY <1>1, FedFacts
  <2>2. CASE streams[1].pc \in {"session_ok", "session", "turned_away"}
    BY <1>2, <2>1, <2>2 DEF OnTrack
  <2>3. CASE e.buffer = streams[s].buffer /\ e.last_rx_type = streams[s].last_rx_type
    <3> HIDE DEF e
    <3> QED BY <1>2, <2>1, <2>3 DEF OnTrack, Holds
  <2>4. CASE /\ streams[1].pc \in {"hello", "challenge", "hello_ack"}
             /\ ~m.utack /\ Fresh(streams[s], m, TRUE)
    <3>1. Len(streams) = 1
      BY <1>2, <2>4 DEF OnTrack
    <3>2. /\ m.type \in {HELLO, HELLO_ACK}
          /\ m.type = HELLO_ACK => streams[1].pc # "hello"
      BY <2>4, <3>1, ClientFramesTell
    <3>3. ~IsSession(m.type)
      BY <3>2 DEF IsSession, HELLO, HELLO_ACK
    <3>4. /\ m.type # streams[1].last_rx_type
          /\ ~(streams[1].last_rx_type # -1 /\ m.type <= streams[1].last_rx_type)
      BY <1>2, <2>4, <3>3 DEF Fresh, IsDuplicate
    <3>5. streams[1].last_rx_type \in {HELLO, HELLO_ACK}
      BY <1>2, <2>4 DEF OnTrack
    <3>6. m.type = HELLO_ACK /\ streams[1].last_rx_type = HELLO
      BY <3>2, <3>4, <3>5 DEF HELLO, HELLO_ACK
    <3>7. streams[1].pc \in {"challenge", "hello_ack"} /\ streams[1].buffer = << >>
      BY <1>2, <2>4, <3>2, <3>6 DEF OnTrack, HELLO, HELLO_ACK
    <3>8. ~BufferFull(streams[s])
      BY <1>2, <3>7, EmptySeq, HandshakeAssumption DEF BufferFull
    <3>9. e.last_rx_type = HELLO_ACK /\ e.buffer = Append(streams[s].buffer, m)
      BY <1>1, <2>4, <3>3, <3>6, <3>8, FedFacts
    <3> HIDE DEF e
    <3>10. e.buffer = <<m>>
      <4>1. streams[s].buffer = << >>
        BY <1>2, <3>7
      <4> QED BY <3>9, <4>1
    <3>11. Holds(e, HELLO_ACK)
      BY <3>6, <3>10 DEF Holds
    <3> QED BY <1>2, <2>1, <3>1, <3>7, <3>9, <3>11 DEF OnTrack, Active
  <2>5. \/ e.buffer = streams[s].buffer /\ e.last_rx_type = streams[s].last_rx_type
        \/ ~m.utack /\ Fresh(streams[s], m, TRUE)
    BY <1>1, FedFacts, Zenon
  <2>6. \/ streams[1].pc \in {"session_ok", "session", "turned_away"}
        \/ streams[1].pc \in {"hello", "challenge", "hello_ack"}
    BY <1>2 DEF OnTrack, Active
  <2> HIDE DEF e
  <2> QED BY <2>2, <2>3, <2>4, <2>5, <2>6
<1> HIDE DEF e
<1> QED BY <1>1, <1>2, OneStreamTrack

LEMMA OpenStreamTrack ==
    ASSUME HandshakeInv, HandshakeInv', streams # << >> => FirstOnTrack,
           NEW m \in c2s, OpenStream(m)
    PROVE  FirstOnTrack'
<1>1. /\ m \in Msgs /\ ~m.utack /\ m.type = HELLO /\ handshake = None
      /\ Len(streams) \in Nat /\ Len(streams') = Len(streams) + 1
      /\ \A i \in DOMAIN streams : streams'[i] = streams[i]
      /\ streams'[Len(streams) + 1] = Opened(m)
  BY OpenStreamFacts
<1>2. DOMAIN streams = 1 .. Len(streams) /\ (streams = << >> <=> Len(streams) = 0)
  BY StreamFacts DEF HandshakeInv
<1>3. CASE streams = << >>
  <2>1. Len(streams') = 1 /\ streams'[1] = Opened(m)
    BY <1>1, <1>2, <1>3
  <2>2. OnTrack(streams'[1], Len(streams'))
    BY <1>1, <2>1, OpenedFacts DEF OnTrack, Active
  <2> QED BY <2>2 DEF FirstOnTrack
<1>4. CASE streams # << >>
  <2>1. 1 \in DOMAIN streams /\ streams'[1] = streams[1]
    BY <1>1, <1>2, <1>4
  <2>2. streams[1].pc \notin Active
    BY <1>1, <2>1, StreamAt
  <2>3. OnTrack(streams[1], Len(streams))
    BY <1>4 DEF FirstOnTrack
  <2>4. OnTrack(streams'[1], Len(streams'))
    BY <2>1, <2>2, <2>3 DEF OnTrack, Active
  <2> QED BY <2>4 DEF FirstOnTrack
<1> QED BY <1>3, <1>4

LEMMA ReadHelloTrack ==
    ASSUME HandshakeInv, HandshakeInv', Undisturbed, streams # << >> => FirstOnTrack,
           NEW s \in DOMAIN streams, ReadHello(s)
    PROVE  streams' # << >> => FirstOnTrack'
<1> DEFINE f == Frame(CHALLENGE, 0, s)
           p == Popped(streams[s])
           n == [p EXCEPT !.nonce = s]
           e == Writing(n, "challenge", f)
<1>1. /\ TypeInv /\ TypeInv' /\ streams[s] \in StreamRecords /\ streams[s].pc = "hello"
      /\ streams' = [streams EXCEPT ![s] = e] /\ s \in Int
      /\ streams[s].buffer \in Seq(Msgs) /\ streams[s].buffer # << >>
  <2>1. streams[s].pc = "hello" /\ streams' = [streams EXCEPT ![s] = e]
    BY DEF ReadHello, Undisturbed, StreamWrites
  <2>2. streams[s].buffer # << >>
    BY <2>1, StreamAt, EmptySeq
  <2> QED BY <2>1, <2>2, StreamAt DEF HandshakeInv
<1>2. f \in Msgs /\ "challenge" \in Pcs
  BY <1>1 DEF Frame, Msgs, CHALLENGE, Pcs, Reads
<1>3. p \in StreamRecords /\ p.buffer = Tail(streams[s].buffer)
      /\ p.last_rx_type = streams[s].last_rx_type
  BY <1>1, PoppedFacts
<1> HIDE DEF f, p
<1>4. n \in StreamRecords /\ n.buffer = p.buffer /\ n.last_rx_type = p.last_rx_type
  BY <1>1, <1>3, NonceFacts
<1> HIDE DEF n
<1>5. e.pc = "challenge" /\ e.buffer = Tail(streams[s].buffer)
      /\ e.last_rx_type = streams[s].last_rx_type
  BY <1>2, <1>3, <1>4, WritingFacts
<1> HIDE DEF e
<1>6. ASSUME s = 1, OnTrack(streams[1], Len(streams))
      PROVE  OnTrack(e, Len(streams))
  <2>1. Len(streams) = 1 /\ Len(streams[s].buffer) = 1 /\ streams[s].last_rx_type = HELLO
    BY <1>1, <1>6 DEF OnTrack
  <2>2. Tail(streams[s].buffer) \in Seq(Msgs) /\ Len(Tail(streams[s].buffer)) = 0
    BY <1>1, <2>1, HeadTailProperties
  <2>3. Tail(streams[s].buffer) = << >>
    BY <2>2, EmptySeq
  <2> QED BY <1>5, <2>1, <2>3 DEF OnTrack, Active
<1> QED BY <1>1, <1>6, OneStreamTrack

LEMMA ReadHelloAckTrack ==
    ASSUME HandshakeInv, HandshakeInv', Undisturbed, streams # << >> => FirstOnTrack,
           NEW s \in DOMAIN streams, ReadHelloAck(s)
    PROVE  streams' # << >> => FirstOnTrack'
<1> DEFINE f == Frame(SESSION_OK, 0, s)
           p == Popped(streams[s])
           n == [p EXCEPT !.key = s]
           e == Writing(n, "session_ok", f)
           h == Head(streams[s].buffer)
           r == [streams[s] EXCEPT !.pc = "rejected"]
<1>1. /\ TypeInv /\ TypeInv' /\ streams[s] \in StreamRecords /\ streams[s].pc = "hello_ack"
      /\ streams[s].nonce = s /\ s \in Int
      /\ streams[s].buffer \in Seq(Msgs) /\ streams[s].buffer # << >>
  <2>1. streams[s].pc = "hello_ack" /\ streams[s].buffer # << >>
    BY DEF ReadHelloAck
  <2> QED BY <2>1, StreamAt DEF HandshakeInv
<1>2. \/ streams' = [streams EXCEPT ![s] = e]
      \/ ~ClientMacOk(streams[s], h) /\ streams' = [streams EXCEPT ![s] = r]
  BY <1>1 DEF ReadHelloAck, StreamWrites, StreamEnds
<1>3. CASE streams' = [streams EXCEPT ![s] = e]
  <2>1. f \in Msgs /\ "session_ok" \in Pcs
    BY <1>1 DEF Frame, Msgs, SESSION_OK, Pcs, Reads
  <2>2. p \in StreamRecords
    BY <1>1, PoppedFacts
  <2> HIDE DEF f, p
  <2>3. n \in StreamRecords
    BY <1>1, <2>2, KeyFacts
  <2> HIDE DEF n
  <2>4. e.pc = "session_ok"
    BY <2>1, <2>3, WritingFacts
  <2> HIDE DEF e
  <2>5. OnTrack(e, Len(streams))
    BY <2>4 DEF OnTrack, Active
  <2> QED BY <1>1, <1>3, <2>5, OneStreamTrack
<1>4. CASE ~ClientMacOk(streams[s], h) /\ streams' = [streams EXCEPT ![s] = r]
  <2>1. ASSUME s = 1, OnTrack(streams[1], Len(streams))
        PROVE  FALSE
    <3>1. Len(streams) = 1 /\ Holds(streams[1], HELLO_ACK)
      BY <1>1, <2>1 DEF OnTrack
    <3>2. h \in c2s /\ ~h.utack /\ h = streams[1].buffer[1]
      BY <1>1, <2>1, StreamAt, TailBuffered
    <3>3. h.type = HELLO_ACK
      BY <3>1, <3>2 DEF Holds
    <3> HIDE DEF h
    <3>4. h.nonce = 1
      BY <1>1, <2>1, <3>1, <3>2, <3>3, ClientFramesTell DEF Undisturbed
    <3>5. ClientMacOk(streams[s], h)
      BY <1>1, <2>1, <3>3, <3>4 DEF ClientMacOk, Undisturbed
    <3> QED BY <1>4, <3>5
  <2> HIDE DEF r
  <2> QED BY <1>1, <1>4, <2>1, OneStreamTrack
<1> QED BY <1>2, <1>3, <1>4

(* The other steps of a stream's task. *)
LEMMA TaskTrack ==
    ASSUME HandshakeInv, HandshakeInv', streams # << >> => FirstOnTrack, NEW s \in DOMAIN streams,
           ChallengeDrained(s) \/ Establish(s) \/ TurnAway(s) \/ SessionReads(s)
              \/ StreamRetransmits(s)
    PROVE  streams' # << >> => FirstOnTrack'
<1>1. TypeInv /\ TypeInv' /\ streams[s] \in StreamRecords
  BY StreamAt DEF HandshakeInv
<1>2. CASE ChallengeDrained(s)
  <2> DEFINE e == [streams[s] EXCEPT !.pc = "hello_ack"]
  <2>1. streams' = [streams EXCEPT ![s] = e] /\ streams[s].pc = "challenge"
    BY <1>2 DEF ChallengeDrained
  <2>2. e.pc = "hello_ack" /\ e.buffer = streams[s].buffer
        /\ e.last_rx_type = streams[s].last_rx_type
    BY <1>1 DEF StreamRecords
  <2> HIDE DEF e
  <2>3. s = 1 /\ OnTrack(streams[1], Len(streams)) => OnTrack(e, Len(streams))
    BY <2>1, <2>2 DEF OnTrack, Active, Holds
  <2> QED BY <1>1, <2>1, <2>3, OneStreamTrack
<1>3. CASE Establish(s)
  <2> DEFINE e == [streams[s] EXCEPT !.pc = "session"]
  <2>1. streams[s].pc = "session_ok"
    BY <1>3 DEF Establish
  <2>2. \A i \in DOMAIN streams : i # session
    BY <1>1, <2>1, NoneReplaced, StreamFacts
  <2>3. streams' = [i \in DOMAIN streams |-> IF i = s THEN e ELSE streams[i]]
    BY <1>3, <2>2 DEF Establish
  <2>4. streams' = [streams EXCEPT ![s] = e]
    BY <2>3
  <2>5. e.pc = "session"
    BY <1>1 DEF StreamRecords
  <2> HIDE DEF e
  <2>6. OnTrack(e, Len(streams))
    BY <2>5 DEF OnTrack
  <2> QED BY <1>1, <2>4, <2>6, OneStreamTrack
<1>4. CASE SessionReads(s)
  <2> DEFINE e == Popped(streams[s])
  <2>1. streams' = [streams EXCEPT ![s] = e] /\ streams[s].pc = "session" /\ streams[s].buffer # << >>
    BY <1>4 DEF SessionReads
  <2>2. e.pc = "session"
    BY <1>1, <2>1, PoppedFacts
  <2> HIDE DEF e
  <2>3. OnTrack(e, Len(streams))
    BY <2>2 DEF OnTrack
  <2> QED BY <1>1, <2>1, <2>3, OneStreamTrack
<1>5. CASE StreamRetransmits(s)
  <2> DEFINE e == [streams[s] EXCEPT !.attempt = @ + 1]
  <2>1. streams' = [streams EXCEPT ![s] = e]
    BY <1>5 DEF StreamRetransmits
  <2>2. e.pc = streams[s].pc /\ e.buffer = streams[s].buffer
        /\ e.last_rx_type = streams[s].last_rx_type
    BY <1>1, AttemptFacts
  <2> HIDE DEF e
  <2>3. s = 1 /\ OnTrack(streams[1], Len(streams)) => OnTrack(e, Len(streams))
    BY <2>2 DEF OnTrack, Holds
  <2> QED BY <1>1, <2>1, <2>3, OneStreamTrack
<1>6. CASE TurnAway(s)
  <2> DEFINE e == [streams[s] EXCEPT !.pc = "turned_away"]
  <2>1. streams' = [streams EXCEPT ![s] = e]
    BY <1>6 DEF TurnAway, StreamEnds
  <2>2. e.pc = "turned_away"
    BY <1>1 DEF StreamRecords
  <2> HIDE DEF e
  <2>3. OnTrack(e, Len(streams))
    BY <2>2 DEF OnTrack
  <2> QED BY <1>1, <2>1, <2>3, OneStreamTrack
<1> QED BY <1>2, <1>3, <1>4, <1>5, <1>6

(* Damage and a timer that gave up are not undone. *)
LEMMA DisturbedForGood ==
    ASSUME [Next]_vars, Undisturbed'
    PROVE  Undisturbed
<1> DEFINE kept == UNCHANGED <<server_psk, damaged, gave_up>>
           fired == UNCHANGED <<server_psk, damaged>> /\ gave_up' = TRUE
           hurt == UNCHANGED <<server_psk, gave_up>> /\ damaged' = TRUE
<1>1. CASE ClientStep \/ ClientSends \/ ClientRetransmits
  <2>1. kept
    BY <1>1 DEF ClientStep, ClientDrained, ClientReads, ClientSends, ClientRetransmits
  <2> QED BY <2>1 DEF Undisturbed
<1>2. CASE ClientGivesUp
  <2>1. fired
    BY <1>2 DEF ClientGivesUp
  <2> QED BY <2>1 DEF Undisturbed
<1>3. CASE (\E m \in s2c : ToClient(m)) \/ (\E m \in c2s : ToServer(m))
  <2>1. kept
    BY <1>3 DEF ToClient, ToServer
  <2> QED BY <2>1 DEF Undisturbed
<1>4. ASSUME NEW s \in DOMAIN streams, ServerStep(s) \/ StreamRetransmits(s)
      PROVE  Undisturbed
  <2>1. kept
    BY <1>4 DEF ServerStep, ReadHello, ReadHelloAck, ChallengeDrained, Establish, TurnAway,
                SessionReads, StreamRetransmits
  <2> QED BY <2>1 DEF Undisturbed
<1>5. ASSUME NEW s \in DOMAIN streams, StreamGivesUp(s)
      PROVE  Undisturbed
  <2>1. fired
    BY <1>5 DEF StreamGivesUp
  <2> QED BY <2>1 DEF Undisturbed
<1>6. CASE Damage
  <2>1. hurt
    BY <1>6 DEF Damage
  <2> QED BY <2>1 DEF Undisturbed
<1>7. CASE UNCHANGED vars
  BY <1>7 DEF vars, Undisturbed
<1> QED BY <1>1, <1>2, <1>3, <1>4, <1>5, <1>6, <1>7 DEF Next

LEMMA TrackNext == HandshakeInv /\ HandshakeInv' /\ TrackInv /\ [Next]_vars => TrackInv'
<1> SUFFICES ASSUME HandshakeInv, HandshakeInv', TrackInv, [Next]_vars, Undisturbed'
             PROVE  ClientOnTrack' /\ (streams' # << >> => FirstOnTrack')
  BY DEF TrackInv, Undisturbed
<1>1. Undisturbed
  BY DisturbedForGood
<1>2. ClientOnTrack /\ (streams # << >> => FirstOnTrack) /\ ~damaged
  BY <1>1 DEF TrackInv, Undisturbed
<1>3. ~gave_up' /\ ~damaged'
  BY DEF Undisturbed
<1>c. UNCHANGED client => ClientOnTrack'
  BY <1>2 DEF ClientOnTrack, Holds
<1>f. UNCHANGED streams => (streams' # << >> => FirstOnTrack')
  BY <1>2 DEF FirstOnTrack
<1>4. CASE ClientDrained
  BY <1>2, <1>f, <1>4, ClientDrainedTrack DEF ClientDrained
<1>5. CASE ClientReads
  BY <1>2, <1>f, <1>5, ClientReadsTrack DEF ClientReads
<1>6. CASE ClientSends
  BY <1>2, <1>f, <1>6, ClientSendsTrack DEF ClientSends
<1>7. CASE ClientRetransmits
  BY <1>2, <1>f, <1>7, ClientRetransmitsTrack DEF ClientRetransmits
<1>8. CASE ClientGivesUp
  BY <1>3, <1>8 DEF ClientGivesUp
<1>9. ASSUME NEW m \in s2c, ToClient(m)
      PROVE  ClientOnTrack' /\ (streams' # << >> => FirstOnTrack')
  BY <1>2, <1>f, <1>9, ToClientTrack DEF ToClient
<1>10. ASSUME NEW m \in c2s, ToServer(m)
       PROVE  ClientOnTrack' /\ (streams' # << >> => FirstOnTrack')
  <2>1. UNCHANGED client
    BY <1>10 DEF ToServer
  <2>2. handshake \in DOMAIN streams \cup {None} /\ session \in DOMAIN streams \cup {None}
    BY DEF HandshakeInv, TypeInv
  <2>3. CASE handshake # None /\ FeedStream(handshake, m)
    BY <1>2, <1>c, <2>1, <2>2, <2>3, FeedStreamTrack
  <2>4. CASE session # None /\ FeedStream(session, m)
    BY <1>2, <1>c, <2>1, <2>2, <2>4, FeedStreamTrack
  <2>5. CASE IssueCookie(m)
    BY <1>c, <1>f, <2>1, <2>5 DEF IssueCookie
  <2>6. CASE OpenStream(m)
    BY <1>2, <1>c, <2>1, <2>6, OpenStreamTrack
  <2> QED BY <1>10, <2>3, <2>4, <2>5, <2>6 DEF ToServer
<1>11. ASSUME NEW s \in DOMAIN streams, ServerStep(s) \/ StreamRetransmits(s)
       PROVE  ClientOnTrack' /\ (streams' # << >> => FirstOnTrack')
  <2>1. UNCHANGED client
    BY <1>11 DEF ServerStep, ReadHello, ReadHelloAck, ChallengeDrained, Establish, TurnAway,
                 SessionReads, StreamRetransmits
  <2>2. CASE ReadHello(s)
    BY <1>1, <1>2, <1>c, <2>1, <2>2, ReadHelloTrack
  <2>3. CASE ReadHelloAck(s)
    BY <1>1, <1>2, <1>c, <2>1, <2>3, ReadHelloAckTrack
  <2>4. CASE ChallengeDrained(s) \/ Establish(s) \/ TurnAway(s) \/ SessionReads(s)
                \/ StreamRetransmits(s)
    BY <1>2, <1>c, <2>1, <2>4, TaskTrack
  <2> QED BY <1>11, <2>2, <2>3, <2>4 DEF ServerStep
<1>12. ASSUME NEW s \in DOMAIN streams, StreamGivesUp(s)
       PROVE  FALSE
  BY <1>3, <1>12 DEF StreamGivesUp
<1>13. CASE Damage
  BY <1>3, <1>13 DEF Damage
<1>14. CASE UNCHANGED vars
  BY <1>c, <1>f, <1>14 DEF vars
<1> QED BY <1>4, <1>5, <1>6, <1>7, <1>8, <1>9, <1>10, <1>11, <1>12, <1>13, <1>14 DEF Next, ClientStep

(* Loss, duplication and reordering never make client_handshake or the     *)
(* first server_handshake raise: as long as no timer has given up and no   *)
(* datagram was damaged, every frame that either reads is the one it       *)
(* expects.                                                                *)
THEOREM NeverRejected == Spec => []NotRejected
<1>1. Init => TrackInv
  <2> SUFFICES ASSUME Init PROVE ClientOnTrack /\ streams = << >>
    BY DEF TrackInv
  <2> DEFINE f == Frame(HELLO, 0, None)
  <2>1. client = Writing(Stream, "hello0", f) /\ streams = << >>
    BY DEF Init
  <2>2. f \in Msgs /\ "hello0" \in Pcs
    BY DEF Frame, Msgs, HELLO, None, Pcs, Drains
  <2> HIDE DEF f
  <2>3. client.pc = "hello0" /\ client.buffer = << >> /\ client.last_rx_type = -1
    BY <2>1, <2>2, NewStream, WritingFacts
  <2> QED BY <2>1, <2>3 DEF ClientOnTrack
<1>2. TrackInv => NotRejected
  BY DEF TrackInv, NotRejected, ClientOnTrack, FirstOnTrack, OnTrack, Active
<1> QED BY <1>1, <1>2, TrackNext, HandshakeInvariant, PTL DEF Spec

=============================================================================
