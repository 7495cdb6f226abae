--------------------------- MODULE FrameTransport ---------------------------
(***************************************************************************)
(* TlsFrameTransport (src/transport/tls_client.cpp) on connect_tcp         *)
(* (src/transport/socket.cpp): one connection from getaddrinfo to its end, *)
(* with frames in both directions under the socket's timeouts, and what    *)
(* the two callers do with a receive timeout: the handshake                *)
(* (receive_until) gives the connection up, the managed loop calls         *)
(* receive_payload again.                                                  *)
(*                                                                         *)
(* A byte is a digit to the base Base, the length prefix has two of them   *)
(* (four to the base 256 in the code), and payload bytes are the largest   *)
(* digit: JSON text has no small bytes.                                    *)
(***************************************************************************)
EXTENDS Integers, Sequences

CONSTANTS
  Base,        \* number of byte values
  MaxPayload,  \* kMaxTcpPayload
  Sizes,       \* payload lengths the controller frames
  Addresses,   \* addresses getaddrinfo finds
  Window,      \* bytes that the socket buffers until the peer reads them
  OwnSizes,    \* lengths of the frames the agent sends
  MaxFrames,   \* bound: frames the controller sends
  MaxOwn,      \* bound: frames the agent sends
  Settings     \* pairs of a caller and whether the peer may stall in a frame

kLengthSize == 2

ASSUME FrameAssumption ==
  /\ Base \in Nat \ {0, 1} /\ MaxPayload \in Nat /\ MaxFrames \in Nat
  /\ Addresses \in Nat /\ Window \in Nat \ {0} /\ MaxOwn \in Nat
  /\ Sizes \subseteq 0..(Base * Base - 1) /\ OwnSizes \subseteq Nat \ {0}
  /\ Settings \subseteq {"handshake", "managed"} \X BOOLEAN

VARIABLES
  caller,     \* who calls receive_payload
  stalls,     \* the peer may stop sending in the middle of a frame
  phase,      \* where connect, send_payload or the caller is
  address,    \* addresses connect_tcp has gone through
  connected,  \* its flag of that name
  candidate,  \* its socket: what was set up of it, or "closed"
  socket,     \* socket_: "closed", "blocking" or, with timeouts, "timed"
  tls,        \* ctx_ and ssl_ are held
  own,        \* frames the agent has begun to send
  left,       \* bytes of the current one SSL_write has not taken
  buffered,   \* bytes of the agent that the peer has not read
  sent,       \* frames the controller has written
  onWay,      \* bytes that have not arrived
  wire,       \* bytes SSL_read can return
  got,        \* prefix and frame read by the receive_payload in progress
  delivered   \* payloads returned: the number of the frame, 0 if none has it

setup == <<caller, stalls>>
connecting == <<address, connected, candidate>>
sending == <<own, left, buffered>>
receiving == <<sent, onWay, wire, got, delivered>>
vars == <<setup, connecting, sending, receiving, phase, socket, tls>>

open == phase \in {"up", "send"}

(* encode_frame: frame number f with a payload of n bytes.                 *)
encode_frame(f, n) ==
  [i \in 1..(kLengthSize + n) |->
     [frame |-> f, pos |-> i - kLengthSize,
      value |-> CASE i = 1 -> n \div Base
                  [] i = 2 -> n % Base
                  [] OTHER -> Base - 1]]

DeclaredLength(bytes) == bytes[1].value * Base + bytes[2].value

ValidLength(n) == n > 0 /\ n <= MaxPayload

(* The payload of a whole frame, or bytes that only look like one.         *)
FrameOf(bytes) ==
  IF \A i \in DOMAIN bytes : bytes[i].frame = bytes[1].frame /\ bytes[i].pos = i - kLengthSize
  THEN bytes[1].frame
  ELSE 0

Init ==
  /\ \E setting \in Settings : caller = setting[1] /\ stalls = setting[2]
  /\ sent = 0
  /\ onWay = <<>>
  /\ wire = <<>>
  /\ got = <<>>
  /\ delivered = <<>>
  /\ phase = "resolve"
  /\ address = 0
  /\ connected = FALSE
  /\ candidate = "closed"
  /\ socket = "closed"
  /\ tls = FALSE
  /\ own = 0
  /\ left = 0
  /\ buffered = 0

(***************************************************************************)
(* connect, close                                                          *)
(***************************************************************************)
(* TlsFrameTransport::close, by connect or by the end of the session.      *)
Close ==
  /\ phase' = "down"
  /\ socket' = "closed"
  /\ tls' = FALSE

Resolve ==
  /\ phase = "resolve"
  /\ phase' \in {"next", "down"}
  /\ UNCHANGED <<setup, connecting, sending, receiving, socket, tls>>

(* socket() or set_nonblocking may fail, then it is the next one's turn.   *)
TryAddress ==
  /\ phase = "next"
  /\ address < Addresses
  /\ address' = address + 1
  /\ \/ phase' = "connect" /\ candidate' = "nonblocking"
     \/ UNCHANGED <<phase, candidate>>
  /\ UNCHANGED <<setup, sending, receiving, connected, socket, tls>>

(* connect, or select and SO_ERROR; the destructor of candidate closes it. *)
ConnectReturns ==
  /\ phase = "connect"
  /\ \/ phase' = "configure" /\ connected' = TRUE /\ UNCHANGED candidate
     \/ phase' = "next" /\ candidate' = "closed" /\ UNCHANGED connected
  /\ UNCHANGED <<setup, sending, receiving, address, socket, tls>>

(* Mutant: a socket without timeouts will do.                              *)
ConfigureUntimed ==
  /\ phase = "configure"
  /\ candidate' = "closed"
  /\ \/ phase' = "tls" /\ socket' \in {"blocking", "timed"} /\ UNCHANGED connected
     \/ phase' = "next" /\ connected' = FALSE /\ UNCHANGED socket
  /\ UNCHANGED <<setup, sending, receiving, address, tls>>

(* Blocking again, and with timeouts for both directions.                  *)
Configure ==
  /\ phase = "configure"
  /\ candidate' = "closed"
  /\ \/ phase' = "tls" /\ socket' = "timed" /\ UNCHANGED connected
     \/ phase' = "next" /\ connected' = FALSE /\ UNCHANGED socket
  /\ UNCHANGED <<setup, sending, receiving, address, tls>>

AddressesDone ==
  /\ phase = "next"
  /\ address = Addresses
  /\ phase' = IF connected THEN "tls" ELSE "down"
  /\ UNCHANGED <<setup, connecting, sending, receiving, socket, tls>>

(* SSL_CTX_new to SSL_connect, each of which may fail.                     *)
TlsConnect ==
  /\ phase = "tls"
  /\ \/ phase' = "up" /\ tls' = TRUE /\ UNCHANGED socket
     \/ Close
  /\ UNCHANGED <<setup, connecting, sending, receiving>>

(***************************************************************************)
(* send_payload: the controller reads when it likes; while the buffer is   *)
(* full SSL_write runs into the timeout and is called again.               *)
(***************************************************************************)
BeginSend(n) ==
  /\ phase = "up"
  /\ got = <<>>
  /\ own < MaxOwn
  /\ own' = own + 1
  /\ left' = n
  /\ phase' = "send"
  /\ UNCHANGED <<setup, connecting, receiving, socket, tls, buffered>>

(* Mutant: a frame is written once there is room for all of it.            *)
WriteWhole ==
  /\ phase = "send"
  /\ buffered + left <= Window
  /\ buffered' = buffered + left
  /\ left' = 0
  /\ phase' = "up"
  /\ UNCHANGED <<setup, connecting, receiving, socket, tls, own>>

Write ==
  /\ phase = "send"
  /\ buffered < Window
  /\ buffered' = buffered + 1
  /\ left' = left - 1
  /\ phase' = IF left = 1 THEN "up" ELSE "send"
  /\ UNCHANGED <<setup, connecting, receiving, socket, tls, own>>

PeerReads ==
  /\ open
  /\ buffered > 0
  /\ buffered' = buffered - 1
  /\ UNCHANGED <<setup, connecting, receiving, phase, socket, tls, own, left>>

(***************************************************************************)
(* The controller and the network                                          *)
(***************************************************************************)
SendFrame(n) ==
  /\ open
  /\ sent < MaxFrames
  /\ sent' = sent + 1
  /\ onWay' = onWay \o encode_frame(sent', n)
  /\ UNCHANGED <<setup, connecting, sending, wire, got, delivered, phase, socket, tls>>

(* TLS records arrive: byte by byte, or with whole frames only.            *)
Arrive ==
  /\ open
  /\ onWay # <<>>
  /\ LET k == IF stalls THEN 1 ELSE Len(onWay) IN
       /\ wire' = wire \o SubSeq(onWay, 1, k)
       /\ onWay' = SubSeq(onWay, k + 1, Len(onWay))
  /\ UNCHANGED <<setup, connecting, sending, sent, got, delivered, phase, socket, tls>>

(* The call in progress fails, and if it was the answer to a request the   *)
(* next one does.                                                          *)
PeerCloses ==
  /\ open
  /\ Close
  /\ UNCHANGED <<setup, connecting, sending, receiving>>

(***************************************************************************)
(* receive_payload                                                         *)
(***************************************************************************)
Complete(bytes) ==
  Len(bytes) >= kLengthSize /\ Len(bytes) = kLengthSize + DeclaredLength(bytes)

(* Mutant: the prefix is taken as part of the length.                      *)
ReadInclusive ==
  LET bytes == Append(got, Head(wire)) IN
  /\ phase = "up"
  /\ wire # <<>>
  /\ wire' = Tail(wire)
  /\ IF Len(bytes) > kLengthSize /\ Len(bytes) = 2 * kLengthSize + DeclaredLength(bytes)
     THEN got' = <<>> /\ delivered' = Append(delivered, FrameOf(bytes))
     ELSE got' = bytes /\ UNCHANGED delivered
  /\ UNCHANGED <<setup, connecting, sending, sent, onWay, phase, socket, tls>>

(* One more byte: the prefix is checked when it is whole, the payload is   *)
(* returned when the declared length has been read.                        *)
Read ==
  LET bytes == Append(got, Head(wire)) IN
  /\ phase = "up"
  /\ wire # <<>>
  /\ wire' = Tail(wire)
  /\ \/ /\ Len(bytes) = kLengthSize
        /\ ~ValidLength(DeclaredLength(bytes))
        /\ got' = <<>>
        /\ Close
        /\ UNCHANGED delivered
     \/ /\ Len(bytes) = kLengthSize => ValidLength(DeclaredLength(bytes))
        /\ IF Complete(bytes)
           THEN got' = <<>> /\ delivered' = Append(delivered, FrameOf(bytes))
           ELSE got' = bytes /\ UNCHANGED delivered
        /\ UNCHANGED <<phase, socket, tls>>
  /\ UNCHANGED <<setup, connecting, sending, sent, onWay>>

(* Mutant: the handshake waits a timeout out.                              *)
TimeoutTolerated ==
  /\ phase = "up"
  /\ wire = <<>>
  /\ got' = <<>>
  /\ UNCHANGED <<setup, connecting, sending, sent, onWay, wire, delivered, phase, socket, tls>>

(* SSL_read gives up: what receive_payload had read goes with its buffer.  *)
Timeout ==
  /\ phase = "up"
  /\ socket = "timed"
  /\ wire = <<>>
  /\ got' = <<>>
  /\ IF caller = "managed" THEN UNCHANGED <<phase, socket, tls>> ELSE Close
  /\ UNCHANGED <<setup, connecting, sending, sent, onWay, wire, delivered>>

Closed ==
  /\ phase = "down"
  /\ UNCHANGED vars

Connect ==
  \/ Resolve
  \/ TryAddress
  \/ ConnectReturns
  \/ Configure
  \/ AddressesDone
  \/ TlsConnect

Next ==
  \/ Connect
  \/ \E n \in OwnSizes : BeginSend(n)
  \/ Write
  \/ PeerReads
  \/ \E n \in Sizes : SendFrame(n)
  \/ Arrive
  \/ PeerCloses
  \/ Read
  \/ Timeout
  \/ Closed

Spec == Init /\ [][Next]_vars

(* The network delivers what was sent, the agent reads what arrived and    *)
(* writes what there is room for; the controller reads, too.               *)
FairSpec ==
  /\ Spec
  /\ WF_vars(Arrive)
  /\ WF_vars(Read)
  /\ WF_vars(Write)
  /\ WF_vars(PeerReads)

(***************************************************************************)
(* Properties                                                              *)
(***************************************************************************)
(* Whichever addresses and steps failed on the way, connect() reports      *)
(* success only with a TLS session on a blocking socket that has timeouts, *)
(* and nothing is left open once it failed or the session is over.         *)
ConnectIsAllOrNothing ==
  /\ open => socket = "timed" /\ tls
  /\ open \/ phase = "down" => candidate = "closed"
  /\ phase = "down" => socket = "closed" /\ ~tls

(* send_payload returns, however large the frame and small the socket's    *)
(* buffer, as long as the controller reads or closes the connection.       *)
SendsReturn == (phase = "send") ~> (phase # "send")

(* The payloads receive_payload returns are the frames the controller      *)
(* sent, each whole, in order and without a gap.                           *)
PayloadsAreFrames == \A i \in 1..Len(delivered) : delivered[i] = i

(* No frame is waited for forever, while the agent sends its own too: it   *)
(* is delivered or the connection ends.                                    *)
EveryFrameArrives ==
  \A f \in 1..MaxFrames : (sent >= f) ~> (Len(delivered) >= f \/ ~open)
=============================================================================
