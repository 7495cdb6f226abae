------------------------ MODULE FrameTransportProofs ------------------------
(***************************************************************************)
(* TlsFrameTransport for every size of a frame, of the socket's buffer and *)
(* of the limit on a payload, every number of addresses and of frames, and *)
(* every way the bytes arrive.                                             *)
(***************************************************************************)
EXTENDS FrameTransport, SequenceTheorems, TLAPS

Byte == [frame : Nat, pos : Int, value : Nat]

TypeOK ==
  /\ caller \in {"handshake", "managed"} /\ stalls \in BOOLEAN
  /\ sent \in Nat
  /\ onWay \in Seq(Byte) /\ wire \in Seq(Byte) /\ got \in Seq(Byte)
  /\ delivered \in Seq(Nat)

(* The byte at k, and the length that it declares with the next one.       *)
FrameAt(S, k) == S[k].frame
PosAt(S, k) == S[k].pos
ValueAt(S, k) == S[k].value
LengthAt(S, k) == ValueAt(S, k) * Base + ValueAt(S, k + 1)

(* A frame begins at k and is there as a whole, and after it the next one. *)
WholeAt(S, k) ==
  /\ k + 1 <= Len(S) /\ k + 1 + LengthAt(S, k) <= Len(S)
  /\ \A j \in 0..(1 + LengthAt(S, k)) :
       FrameAt(S, k + j) = FrameAt(S, k) /\ PosAt(S, k + j) = j - 1
  /\ k + 2 + LengthAt(S, k) <= Len(S) =>
       /\ PosAt(S, k + 2 + LengthAt(S, k)) = -1
       /\ FrameAt(S, k + 2 + LengthAt(S, k)) = FrameAt(S, k) + 1

(* S holds the frames from d + 1 to s, one after the other.                *)
Framed(S, d, s) ==
  /\ S = <<>> => d = s
  /\ S # <<>> => PosAt(S, 1) = -1 /\ FrameAt(S, 1) = d + 1 /\ FrameAt(S, Len(S)) = s
  /\ \A k \in 1..Len(S) : PosAt(S, k) = -1 => WholeAt(S, k)

(* What receive_payload has read is the beginning of one frame.            *)
Partial(bytes) ==
  Len(bytes) >= kLengthSize => Len(bytes) < kLengthSize + DeclaredLength(bytes)

Stream == (got \o wire) \o onWay

(* The caller and the peer under which a timeout is harmless.              *)
Sound == ~(caller = "managed" /\ stalls)

StreamInv ==
  phase # "down" =>
    /\ Framed(Stream, Len(delivered), sent)
    /\ Partial(got)
    /\ ~stalls /\ onWay # <<>> => PosAt(onWay, 1) = -1

FrameInv == TypeOK /\ (Sound => PayloadsAreFrames /\ StreamInv)

(* connect_tcp and SSL_connect: what is open at each place of connect().   *)
ConnectInv ==
  /\ phase \in {"resolve", "next", "connect", "configure", "tls", "up", "send", "down"}
  /\ tls <=> phase \in {"up", "send"}
  /\ socket = IF phase \in {"tls", "up", "send"} THEN "timed" ELSE "closed"
  /\ candidate = IF phase \in {"connect", "configure"} THEN "nonblocking" ELSE "closed"
  /\ connected => phase \in {"configure", "tls", "up", "send", "down"}

(***************************************************************************)
(* connect and close                                                       *)
(***************************************************************************)
(* Before getaddrinfo nothing is open.                                     *)
LEMMA InitConnectInv == Init => ConnectInv
  BY DEF Init, ConnectInv

(* Every step of connect() leaves open what the next one needs and nothing *)
(* else, and so does every step of a session.                              *)
LEMMA ConnectStepInv == ConnectInv /\ [Next]_vars => ConnectInv'
<1> SUFFICES ASSUME ConnectInv, [Next]_vars
             PROVE  ConnectInv'
  OBVIOUS
<1> USE DEF ConnectInv, connecting
<1>1. CASE Connect
  <2>1. CASE Resolve
    BY <2>1 DEF Resolve
  <2>2. CASE TryAddress
    BY <2>2 DEF TryAddress
  <2>3. CASE ConnectReturns
    BY <2>3 DEF ConnectReturns
  <2>4. CASE Configure
    BY <2>4 DEF Configure
  <2>5. CASE AddressesDone
    BY <2>5 DEF AddressesDone
  <2>6. CASE TlsConnect
    BY <2>6 DEF TlsConnect, Close
  <2>7. QED
    BY <1>1, <2>1, <2>2, <2>3, <2>4, <2>5, <2>6 DEF Connect
<1>2. CASE \E n \in OwnSizes : BeginSend(n)
  BY <1>2 DEF BeginSend
<1>3. CASE Write
  BY <1>3 DEF Write
<1>4. CASE PeerReads \/ Arrive \/ \E n \in Sizes : SendFrame(n)
  <2>1. UNCHANGED <<phase, socket, tls, connected, candidate>>
    BY <1>4, Zenon DEF PeerReads, Arrive, SendFrame
  <2>2. QED
    BY <2>1
<1>5. CASE PeerCloses
  BY <1>5 DEF PeerCloses, Close, open
<1>6. CASE Read
  <2>1. /\ phase = "up" /\ UNCHANGED <<connected, candidate>>
        /\ UNCHANGED <<phase, socket, tls>> \/ Close
    BY <1>6, Zenon DEF Read
  <2>2. QED
    BY <2>1 DEF Close
<1>7. CASE Timeout
  BY <1>7 DEF Timeout, Close
<1>8. CASE Closed \/ UNCHANGED vars
  BY <1>8 DEF Closed, vars
<1>9. QED
  BY <1>1, <1>2, <1>3, <1>4, <1>5, <1>6, <1>7, <1>8 DEF Next

(* connect() succeeds with everything it needs and fails with nothing      *)
(* left open, however many addresses failed and at which step.             *)
THEOREM ConnectAllOrNothing == Spec => []ConnectIsAllOrNothing
<1>1. ConnectInv => ConnectIsAllOrNothing
  BY DEF ConnectInv, ConnectIsAllOrNothing, open
<1>2. QED
  BY <1>1, InitConnectInv, ConnectStepInv, PTL DEF Spec

(***************************************************************************)
(* Sequences of whole frames                                               *)
(***************************************************************************)
(* The prefix of a frame declares the length of its payload, and every     *)
(* byte says where it belongs.                                             *)
LEMMA EncodeFrame ==
  ASSUME NEW f \in Nat, NEW n \in 0..(Base * Base - 1)
  PROVE  LET e == encode_frame(f, n)
         IN  /\ e \in Seq(Byte) /\ Len(e) = n + 2
             /\ \A i \in 1..(n + 2) : FrameAt(e, i) = f /\ PosAt(e, i) = i - 2
             /\ LengthAt(e, 1) = n
<1> DEFINE e == encode_frame(f, n)
<1> USE FrameAssumption DEF kLengthSize
<1> DEFINE hi == n \div Base
           lo == n % Base
<1>1. n \in Nat /\ hi \in Nat /\ lo \in Nat /\ hi * Base + lo = n /\ Base - 1 \in Nat
  OBVIOUS
<1>2. e = [i \in 1..(2 + n) |->
             [frame |-> f, pos |-> i - 2,
              value |-> CASE i = 1 -> hi [] i = 2 -> lo [] OTHER -> Base - 1]]
  BY DEF encode_frame
<1> HIDE DEF e, hi, lo
<1>3. \A i \in 1..(n + 2) : e[i] \in Byte /\ e[i].frame = f /\ e[i].pos = i - 2
  <2> SUFFICES ASSUME NEW i \in 1..(n + 2)
               PROVE  e[i] \in Byte /\ e[i].frame = f /\ e[i].pos = i - 2
    OBVIOUS
  <2> DEFINE v == CASE i = 1 -> hi [] i = 2 -> lo [] OTHER -> Base - 1
  <2>1. v \in Nat /\ i - 2 \in Int
    BY <1>1
  <2>2. i \in 1..(2 + n)
    BY <1>1
  <2>3. e[i] = [frame |-> f, pos |-> i - 2, value |-> v]
    BY <1>2, <2>2, Zenon
  <2> HIDE DEF v
  <2>4. QED
    BY <2>1, <2>3 DEF Byte
<1>4. e \in Seq(Byte) /\ Len(e) = n + 2
  <2>1. e = [i \in 1..(n + 2) |-> e[i]]
    BY <1>1, <1>2
  <2>2. e \in [1..(n + 2) -> Byte]
    BY <1>3, <2>1
  <2>3. QED
    BY <1>1, <2>2
<1>5. e[1].value = hi /\ e[2].value = lo
  <2>1. 1 \in 1..(2 + n) /\ 2 \in 1..(2 + n) /\ 1 # 2
    BY <1>1
  <2>2. e[1] = [frame |-> f, pos |-> 1 - 2, value |-> hi]
    BY <1>2, <2>1, Zenon
  <2>3. e[2] = [frame |-> f, pos |-> 2 - 2, value |-> lo]
    BY <1>2, <2>1, Zenon
  <2>4. QED
    BY <2>2, <2>3
<1>6. LengthAt(e, 1) = n
  BY <1>1, <1>5 DEF LengthAt, ValueAt
<1>7. QED
  BY <1>3, <1>4, <1>6 DEF e, FrameAt, PosAt

(* A declared length is a number.                                          *)
LEMMA LengthType ==
  ASSUME NEW S \in Seq(Byte), NEW k \in 1..Len(S), k + 1 <= Len(S)
  PROVE  LengthAt(S, k) \in Nat
<1>1. S[k] \in Byte /\ S[k + 1] \in Byte
  BY ElementOfSeq
<1>2. ValueAt(S, k) \in Nat /\ ValueAt(S, k + 1) \in Nat
  BY <1>1 DEF Byte, ValueAt
<1>3. QED
  BY <1>2, FrameAssumption DEF LengthAt

(* The bytes of T from t on, n of them, are those of S from s on.          *)
Copies(T, t, S, s, n) ==
  \A i \in 1..n : /\ FrameAt(T, t + i) = FrameAt(S, s + i)
                  /\ PosAt(T, t + i) = PosAt(S, s + i)
                  /\ ValueAt(T, t + i) = ValueAt(S, s + i)

(* The same two bytes declare the same length.                             *)
LEMMA LengthSame ==
  ASSUME NEW S, NEW T, NEW t \in Int, NEW s \in Int, NEW n \in Int, Copies(T, t, S, s, n),
         NEW k \in 1..n, k + 1 <= n
  PROVE  LengthAt(T, t + k) = LengthAt(S, s + k)
<1>1. k + 1 \in 1..n /\ t + (k + 1) = (t + k) + 1 /\ s + (k + 1) = (s + k) + 1
  OBVIOUS
<1>2. ValueAt(T, t + k) = ValueAt(S, s + k)
  BY DEF Copies
<1>3. ValueAt(T, (t + k) + 1) = ValueAt(S, (s + k) + 1)
  BY <1>1 DEF Copies
<1>4. QED
  BY <1>2, <1>3 DEF LengthAt

(* A frame that is there as a whole is so in a copy, if the next one is.   *)
LEMMA WholeSame ==
  ASSUME NEW S \in Seq(Byte), NEW T \in Seq(Byte), NEW t \in Nat, NEW s \in Nat,
         NEW n \in Nat, Copies(T, t, S, s, n), t + n <= Len(T),
         NEW k \in 1..n, s + k \in 1..Len(S), WholeAt(S, s + k), NEW l \in Nat,
         l = LengthAt(S, s + k), k + 1 + l <= n,
         t + k + 2 + l <= Len(T) => /\ PosAt(T, t + k + 2 + l) = -1
                                    /\ FrameAt(T, t + k + 2 + l) = FrameAt(S, s + k) + 1
  PROVE  WholeAt(T, t + k)
<1>1. LengthAt(T, t + k) = l
  BY LengthSame
<1>2. FrameAt(T, t + k) = FrameAt(S, s + k)
  BY DEF Copies
<1>3. ASSUME NEW j \in 0..(1 + l)
      PROVE  FrameAt(T, t + k + j) = FrameAt(T, t + k) /\ PosAt(T, t + k + j) = j - 1
  <2>1. k + j \in 1..n /\ t + (k + j) = t + k + j /\ s + (k + j) = s + k + j
    BY <1>3
  <2>2. FrameAt(T, t + k + j) = FrameAt(S, s + k + j) /\ PosAt(T, t + k + j) = PosAt(S, s + k + j)
    BY <2>1 DEF Copies
  <2>3. FrameAt(S, s + k + j) = FrameAt(S, s + k) /\ PosAt(S, s + k + j) = j - 1
    BY <1>3 DEF WholeAt
  <2>4. QED
    BY <1>2, <2>2, <2>3
<1>4. t + k + 1 <= Len(T) /\ t + k + 1 + l <= Len(T)
  BY LenProperties
<1>5. QED
  BY <1>1, <1>2, <1>3, <1>4 DEF WholeAt

(* One frame more behind whole frames.                                     *)
LEMMA FramedAppend ==
  ASSUME NEW S \in Seq(Byte), NEW T \in Seq(Byte), NEW d \in Nat, NEW s \in Nat,
         Framed(S, d, s), NEW n \in Nat, Len(T) = Len(S) + n + 2,
         Copies(T, 0, S, 0, Len(S)), LengthAt(T, Len(S) + 1) = n,
         \A i \in 1..(n + 2) : FrameAt(T, Len(S) + i) = s + 1 /\ PosAt(T, Len(S) + i) = i - 2
  PROVE  Framed(T, d, s + 1)
<1> DEFINE L == Len(S)
<1>1. L \in Nat
  BY LenProperties
<1>2. Len(T) = L + n + 2 /\ Copies(T, 0, S, 0, L)
  OBVIOUS
<1>3. \A i \in 1..(n + 2) : FrameAt(T, L + i) = s + 1 /\ PosAt(T, L + i) = i - 2
  OBVIOUS
<1>4. T # <<>> /\ FrameAt(T, Len(T)) = s + 1
  <2>1. n + 2 \in 1..(n + 2) /\ Len(T) = L + (n + 2) /\ Len(T) # 0
    BY <1>1, <1>2
  <2>2. QED
    BY <1>3, <2>1
<1>5. PosAt(T, 1) = -1 /\ FrameAt(T, 1) = d + 1
  <2>1. CASE S = <<>>
    <3>1. L + 1 = 1 /\ d = s /\ 1 \in 1..(n + 2)
      BY <2>1 DEF Framed
    <3>2. FrameAt(T, L + 1) = s + 1 /\ PosAt(T, L + 1) = 1 - 2
      BY <1>3, <3>1
    <3>3. QED
      BY <3>1, <3>2
  <2>2. CASE S # <<>>
    <3>1. L >= 1 /\ PosAt(S, 1) = -1 /\ FrameAt(S, 1) = d + 1
      BY <1>1, <2>2, EmptySeq DEF Framed
    <3>2. 1 \in 1..L /\ 0 + 1 = 1
      BY <1>1, <3>1
    <3>3. PosAt(T, 1) = PosAt(S, 1) /\ FrameAt(T, 1) = FrameAt(S, 1)
      BY <1>2, <3>2 DEF Copies
    <3>4. QED
      BY <3>1, <3>3
  <2>3. QED
    BY <2>1, <2>2
<1>6. ASSUME NEW k \in 1..L, PosAt(T, k) = -1
      PROVE  WholeAt(T, k)
  <2> DEFINE l == LengthAt(S, k)
  <2>1. 0 + k = k /\ k \in 1..Len(S)
    BY <1>1, <1>6
  <2>2. PosAt(S, k) = -1
    BY <1>2, <1>6, <2>1 DEF Copies
  <2>3. WholeAt(S, k)
    BY <2>1, <2>2 DEF Framed
  <2>4. k + 1 <= L /\ k + 1 + l <= L
    BY <2>3 DEF WholeAt
  <2>5. l \in Nat
    BY <2>1, <2>4, LengthType
  <2>6. k + 2 + l <= Len(T) => /\ PosAt(T, k + 2 + l) = -1
                               /\ FrameAt(T, k + 2 + l) = FrameAt(S, k) + 1
    <3>1. CASE k + 2 + l <= L
      <4>1. PosAt(S, k + 2 + l) = -1 /\ FrameAt(S, k + 2 + l) = FrameAt(S, k) + 1
        BY <2>3, <3>1 DEF WholeAt
      <4> HIDE DEF l, L
      <4>2. k + 2 + l \in 1..L /\ 0 + (k + 2 + l) = k + 2 + l
        BY <1>1, <1>6, <2>5, <3>1
      <4>3. PosAt(T, k + 2 + l) = PosAt(S, k + 2 + l) /\ FrameAt(T, k + 2 + l) = FrameAt(S, k + 2 + l)
        BY <1>2, <4>2 DEF Copies
      <4>4. QED
        BY <4>1, <4>3
    <3>2. CASE k + 2 + l > L
      <4>1. \A j \in 0..(1 + l) : FrameAt(S, k + j) = FrameAt(S, k)
        BY <2>3 DEF WholeAt
      <4>2. S # <<>> => FrameAt(S, L) = s
        BY DEF Framed
      <4> HIDE DEF l, L
      <4>3. k + (1 + l) = L /\ k + 2 + l = L + 1 /\ 1 + l \in 0..(1 + l) /\ 1 \in 1..(n + 2)
        BY <1>1, <1>6, <2>4, <2>5, <3>2
      <4>4. FrameAt(S, L) = FrameAt(S, k)
        BY <4>1, <4>3
      <4>5. S # <<>>
        BY <1>6 DEF L
      <4>6. FrameAt(T, L + 1) = s + 1 /\ PosAt(T, L + 1) = 1 - 2
        BY <1>3, <4>3
      <4>7. QED
        BY <4>2, <4>3, <4>4, <4>5, <4>6
    <3>3. QED
      BY <1>1, <1>6, <2>5, <3>1, <3>2
  <2> HIDE DEF l
  <2>7. l = LengthAt(S, 0 + k) /\ WholeAt(S, 0 + k) /\ 0 + k \in 1..Len(S) /\ 0 + L <= Len(T)
    BY <1>1, <1>2, <2>1, <2>3 DEF l
  <2>8. 0 + k + 2 + l <= Len(T) => /\ PosAt(T, 0 + k + 2 + l) = -1
                                   /\ FrameAt(T, 0 + k + 2 + l) = FrameAt(S, 0 + k) + 1
    BY <2>1, <2>6
  <2>9. WholeAt(T, 0 + k)
    BY <1>1, <1>2, <1>6, <2>4, <2>5, <2>7, <2>8, WholeSame
  <2>10. QED
    BY <2>1, <2>9
<1>7. ASSUME NEW k \in 1..Len(T), k > L, PosAt(T, k) = -1
      PROVE  WholeAt(T, k)
  <2>1. k - L \in 1..(n + 2) /\ L + (k - L) = k
    BY <1>1, <1>2, <1>7
  <2>2. PosAt(T, L + (k - L)) = (k - L) - 2
    BY <1>3, <2>1
  <2>3. k = L + 1
    BY <1>1, <1>7, <2>1, <2>2, SMTT(30)
  <2>4. LengthAt(T, k) = n
    BY <2>3
  <2>5. ASSUME NEW j \in 0..(1 + n)
        PROVE  FrameAt(T, k + j) = s + 1 /\ PosAt(T, k + j) = j - 1
    <3>1. j + 1 \in 1..(n + 2) /\ k + j = L + (j + 1) /\ (j + 1) - 2 = j - 1
      BY <1>1, <2>3, <2>5
    <3>2. FrameAt(T, L + (j + 1)) = s + 1 /\ PosAt(T, L + (j + 1)) = (j + 1) - 2
      BY <1>3, <3>1
    <3>3. QED
      BY <3>1, <3>2
  <2>6. FrameAt(T, k) = s + 1
    <3>1. 1 \in 1..(n + 2)
      OBVIOUS
    <3>2. QED
      BY <1>3, <2>3, <3>1
  <2>7. k + 1 <= Len(T) /\ k + 1 + n <= Len(T) /\ ~(k + 2 + n <= Len(T))
    BY <1>1, <1>2, <2>3
  <2>8. QED
    BY <2>4, <2>5, <2>6, <2>7 DEF WholeAt
<1> HIDE DEF L
<1>8. \A k \in 1..Len(T) : PosAt(T, k) = -1 => WholeAt(T, k)
  <2> SUFFICES ASSUME NEW k \in 1..Len(T), PosAt(T, k) = -1
               PROVE  WholeAt(T, k)
    OBVIOUS
  <2>1. k \in 1..L \/ k > L
    BY <1>1, <1>2
  <2>2. QED
    BY <1>6, <1>7, <2>1
<1>9. QED
  BY <1>4, <1>5, <1>8 DEF Framed

(* The first frame of whole frames.                                        *)
LEMMA FramedFirst ==
  ASSUME NEW S \in Seq(Byte), NEW d \in Nat, NEW s \in Nat, Framed(S, d, s), S # <<>>
  PROVE  /\ WholeAt(S, 1) /\ LengthAt(S, 1) \in Nat
         /\ Len(S) \in Nat /\ 2 + LengthAt(S, 1) <= Len(S) /\ FrameAt(S, 1) = d + 1
         /\ \A i \in 1..(2 + LengthAt(S, 1)) : FrameAt(S, i) = d + 1 /\ PosAt(S, i) = i - 2
<1> DEFINE l == LengthAt(S, 1)
<1>1. Len(S) \in Nat /\ Len(S) >= 1
  BY LenProperties, EmptySeq
<1>2. PosAt(S, 1) = -1 /\ FrameAt(S, 1) = d + 1 /\ 1 \in 1..Len(S)
  BY <1>1 DEF Framed
<1>3. WholeAt(S, 1)
  BY <1>2 DEF Framed
<1>4. 1 + 1 <= Len(S) /\ 1 + 1 + l <= Len(S)
     /\ \A j \in 0..(1 + l) : FrameAt(S, 1 + j) = FrameAt(S, 1) /\ PosAt(S, 1 + j) = j - 1
  BY <1>3 DEF WholeAt
<1>5. l \in Nat
  BY <1>2, <1>4, LengthType
<1> HIDE DEF l
<1>6. ASSUME NEW i \in 1..(2 + l)
      PROVE  FrameAt(S, i) = d + 1 /\ PosAt(S, i) = i - 2
  <2>1. i - 1 \in 0..(1 + l) /\ 1 + (i - 1) = i /\ (i - 1) - 1 = i - 2
    BY <1>5, <1>6
  <2>2. FrameAt(S, 1 + (i - 1)) = FrameAt(S, 1) /\ PosAt(S, 1 + (i - 1)) = (i - 1) - 1
    BY <1>4, <2>1
  <2>3. QED
    BY <1>2, <2>1, <2>2
<1>7. 2 + l <= Len(S)
  BY <1>1, <1>4, <1>5
<1>8. QED
  BY <1>1, <1>2, <1>3, <1>5, <1>6, <1>7 DEF l

(* Without the first frame what is left are whole frames again.            *)
LEMMA FramedDrop ==
  ASSUME NEW S \in Seq(Byte), NEW T \in Seq(Byte), NEW d \in Nat, NEW s \in Nat,
         Framed(S, d, s), S # <<>>, NEW c \in Nat, c = 2 + LengthAt(S, 1),
         Len(T) = Len(S) - c, Copies(T, 0, S, c, Len(T))
  PROVE  Framed(T, d + 1, s)
<1> DEFINE N == Len(T)
<1>1. /\ Len(S) \in Nat /\ c <= Len(S) /\ WholeAt(S, 1) /\ FrameAt(S, 1) = d + 1
      /\ \A i \in 1..c : FrameAt(S, i) = d + 1
  BY FramedFirst
<1>2. N \in Nat /\ N = Len(S) - c /\ Copies(T, 0, S, c, N)
  BY LenProperties
<1>3. FrameAt(S, Len(S)) = s /\ \A k \in 1..Len(S) : PosAt(S, k) = -1 => WholeAt(S, k)
  BY DEF Framed
<1>4. T = <<>> => d + 1 = s
  <2> SUFFICES ASSUME T = <<>>
               PROVE  d + 1 = s
    OBVIOUS
  <2>1. N = 0 /\ c \in 1..c
    BY LengthType, FramedFirst
  <2>2. c = Len(S)
    BY <1>1, <1>2, <2>1
  <2>3. QED
    BY <1>1, <1>3, <2>1, <2>2
<1>5. T # <<>> => PosAt(T, 1) = -1 /\ FrameAt(T, 1) = (d + 1) + 1 /\ FrameAt(T, N) = s
  <2> SUFFICES ASSUME T # <<>>
               PROVE  PosAt(T, 1) = -1 /\ FrameAt(T, 1) = (d + 1) + 1 /\ FrameAt(T, N) = s
    OBVIOUS
  <2>1. N >= 1
    BY EmptySeq
  <2>2. 1 + 2 + LengthAt(S, 1) = c + 1
    BY FramedFirst
  <2> HIDE DEF N
  <2>3. 1 \in 1..N /\ N \in 1..N /\ 0 + 1 = 1 /\ 0 + N = N /\ c + N = Len(S) /\ c + 1 <= Len(S)
    BY <1>1, <1>2, <2>1
  <2>4. PosAt(S, c + 1) = -1 /\ FrameAt(S, c + 1) = FrameAt(S, 1) + 1
    BY <1>1, <2>2, <2>3 DEF WholeAt
  <2>5. /\ PosAt(T, 1) = PosAt(S, c + 1) /\ FrameAt(T, 1) = FrameAt(S, c + 1)
        /\ FrameAt(T, N) = FrameAt(S, c + N)
    BY <1>2, <2>3 DEF Copies
  <2>6. QED
    BY <1>1, <1>3, <2>3, <2>4, <2>5
<1>6. ASSUME NEW k \in 1..N, PosAt(T, k) = -1
      PROVE  WholeAt(T, k)
  <2> HIDE DEF N
  <2> DEFINE l == LengthAt(S, c + k)
  <2>1. c + k \in 1..Len(S) /\ 0 + k = k
    BY <1>1, <1>2, <1>6
  <2>2. PosAt(S, c + k) = -1
    BY <1>2, <1>6, <2>1 DEF Copies
  <2>3. WholeAt(S, c + k)
    BY <1>3, <2>1, <2>2
  <2>4. /\ c + k + 1 <= Len(S) /\ c + k + 1 + l <= Len(S)
        /\ c + k + 2 + l <= Len(S) => /\ PosAt(S, c + k + 2 + l) = -1
                                      /\ FrameAt(S, c + k + 2 + l) = FrameAt(S, c + k) + 1
    BY <2>3 DEF WholeAt
  <2>5. l \in Nat
    BY <2>1, <2>4, LengthType
  <2>6. l = LengthAt(S, c + k)
    OBVIOUS
  <2> HIDE DEF l
  <2>7. k + 1 + l <= N
    BY <1>1, <1>2, <1>6, <2>4, <2>5, SMTT(30)
  <2>8. 0 + k + 2 + l <= N => /\ PosAt(T, 0 + k + 2 + l) = -1
                              /\ FrameAt(T, 0 + k + 2 + l) = FrameAt(S, c + k) + 1
    <3> SUFFICES ASSUME 0 + k + 2 + l <= N
                 PROVE  /\ PosAt(T, 0 + k + 2 + l) = -1
                        /\ FrameAt(T, 0 + k + 2 + l) = FrameAt(S, c + k) + 1
      OBVIOUS
    <3>1. /\ k + 2 + l \in 1..N /\ 0 + (k + 2 + l) = 0 + k + 2 + l
          /\ c + (k + 2 + l) = c + k + 2 + l /\ c + k + 2 + l <= Len(S)
      BY <1>1, <1>2, <1>6, <2>5, SMTT(30)
    <3>2. /\ PosAt(T, 0 + (k + 2 + l)) = PosAt(S, c + (k + 2 + l))
          /\ FrameAt(T, 0 + (k + 2 + l)) = FrameAt(S, c + (k + 2 + l))
      BY <1>2, <3>1 DEF Copies
    <3>3. QED
      BY <2>4, <3>1, <3>2
  <2>9. WholeAt(T, 0 + k)
    <3>1. Len(T) = N /\ 0 + N <= Len(T)
      BY <1>2 DEF N
    <3>2. QED
      BY <1>2, <1>6, <2>1, <2>3, <2>5, <2>6, <2>7, <2>8, <3>1, WholeSame DEF N
  <2>10. QED
    BY <2>1, <2>9
<1>7. QED
  BY <1>4, <1>5, <1>6 DEF Framed

(***************************************************************************)
(* The bytes between the controller and receive_payload                    *)
(***************************************************************************)
(* The bytes of a concatenation.                                           *)
LEMMA ConcatBytes ==
  ASSUME NEW S \in Seq(Byte), NEW R \in Seq(Byte)
  PROVE  /\ S \o R \in Seq(Byte) /\ Len(S) \in Nat /\ Len(R) \in Nat
         /\ Len(S \o R) = Len(S) + Len(R)
         /\ \A i \in 1..Len(S) : (S \o R)[i] = S[i]
         /\ \A i \in 1..Len(R) : (S \o R)[Len(S) + i] = R[i]
<1>1. /\ S \o R \in Seq(Byte) /\ Len(S \o R) = Len(S) + Len(R)
      /\ \A i \in 1..(Len(S) + Len(R)) : (S \o R)[i] = IF i <= Len(S) THEN S[i] ELSE R[i - Len(S)]
  BY ConcatProperties
<1>2. Len(S) \in Nat /\ Len(R) \in Nat
  BY LenProperties
<1>3. \A i \in 1..Len(S) : (S \o R)[i] = S[i]
  BY <1>1, <1>2
<1>4. ASSUME NEW i \in 1..Len(R)
      PROVE  (S \o R)[Len(S) + i] = R[i]
  <2>1. /\ Len(S) + i \in 1..(Len(S) + Len(R)) /\ ~(Len(S) + i <= Len(S))
        /\ (Len(S) + i) - Len(S) = i
    BY <1>2, <1>4
  <2>2. QED
    BY <1>1, <2>1
<1>5. QED
  BY <1>1, <1>2, <1>3, <1>4

(* Concatenation is associative.                                           *)
LEMMA ConcatThree ==
  ASSUME NEW a \in Seq(Byte), NEW b \in Seq(Byte), NEW c \in Seq(Byte)
  PROVE  a \o (b \o c) = (a \o b) \o c
<1>1. (a \o b) \o c = a \o (b \o c)
  BY ConcatAssociative
<1>2. QED
  BY <1>1, Zenon

(* What receive_payload has read of whole frames: the prefix declares the  *)
(* length of the first one, and up to there all bytes are that frame's.    *)
LEMMA ReadBytes ==
  ASSUME NEW X \in Seq(Byte), NEW b \in Seq(Byte), NEW d \in Nat, NEW s \in Nat,
         Framed(X, d, s), b # <<>>, Len(b) <= Len(X), \A i \in 1..Len(b) : b[i] = X[i]
  PROVE  /\ X # <<>>
         /\ Len(b) >= kLengthSize => DeclaredLength(b) = LengthAt(X, 1)
         /\ Len(b) <= kLengthSize + LengthAt(X, 1) => FrameOf(b) = d + 1
<1>1. Len(b) \in Nat /\ Len(b) >= 1 /\ Len(X) \in Nat /\ DOMAIN b = 1..Len(b)
  BY LenProperties, EmptySeq
<1>2. X # <<>>
  BY <1>1
<1>3. ASSUME Len(b) >= kLengthSize
      PROVE  DeclaredLength(b) = LengthAt(X, 1)
  <2>1. 1 \in 1..Len(b) /\ 2 \in 1..Len(b) /\ 1 + 1 = 2
    BY <1>1, <1>3 DEF kLengthSize
  <2>2. b[1] = X[1] /\ b[2] = X[2]
    BY <2>1
  <2>3. QED
    BY <2>1, <2>2 DEF DeclaredLength, LengthAt, ValueAt
<1>4. ASSUME Len(b) <= kLengthSize + LengthAt(X, 1)
      PROVE  FrameOf(b) = d + 1
  <2>1. /\ LengthAt(X, 1) \in Nat
        /\ \A i \in 1..(2 + LengthAt(X, 1)) : FrameAt(X, i) = d + 1 /\ PosAt(X, i) = i - 2
    BY <1>2, FramedFirst
  <2>2. \A i \in 1..Len(b) : i \in 1..(2 + LengthAt(X, 1))
    BY <1>1, <1>4, <2>1 DEF kLengthSize
  <2>3. \A i \in 1..Len(b) : FrameAt(X, i) = d + 1 /\ PosAt(X, i) = i - 2
    BY <2>1, <2>2
  <2>4. \A i \in 1..Len(b) : b[i].frame = d + 1 /\ b[i].pos = i - 2
    BY <2>3 DEF FrameAt, PosAt
  <2>5. 1 \in 1..Len(b)
    BY <1>1
  <2>6. QED
    BY <1>1, <2>4, <2>5 DEF FrameOf, kLengthSize
<1>5. QED
  BY <1>2, <1>3, <1>4

(* Before the first frame there is nothing on the connection.              *)
LEMMA InitInv == Init => FrameInv
<1> SUFFICES ASSUME Init
             PROVE  FrameInv
  OBVIOUS
<1>1. caller \in {"handshake", "managed"} /\ stalls \in BOOLEAN
  BY FrameAssumption DEF Init
<1>2. TypeOK
  BY <1>1 DEF Init, TypeOK
<1>3. PayloadsAreFrames
  BY DEF Init, PayloadsAreFrames
<1>4. Stream = <<>> /\ Len(delivered) = sent
  BY ConcatEmptySeq DEF Init, Stream
<1>5. Framed(Stream, Len(delivered), sent)
  BY <1>4 DEF Framed
<1>6. StreamInv
  BY <1>5 DEF Init, StreamInv, Partial, kLengthSize
<1>7. QED
  BY <1>2, <1>3, <1>6 DEF FrameInv

(* A step of connect or of send_payload, and the end of the connection,    *)
(* leave the bytes alone.                                                  *)
LEMMA QuietInv ==
  ASSUME FrameInv, UNCHANGED <<setup, receiving>>, phase = "down" => phase' = "down"
  PROVE  FrameInv'
<1>1. UNCHANGED <<caller, stalls, sent, onWay, wire, got, delivered>>
  BY DEF setup, receiving
<1>2. TypeOK' /\ Sound' = Sound
  BY <1>1 DEF FrameInv, TypeOK, Sound
<1>3. PayloadsAreFrames' = PayloadsAreFrames
  BY <1>1 DEF PayloadsAreFrames
<1>4. Stream' = Stream
  BY <1>1 DEF Stream
<1>5. StreamInv => StreamInv'
  BY <1>1, <1>4 DEF StreamInv, Framed, Partial, WholeAt, FrameAt, PosAt, LengthAt, ValueAt,
     DeclaredLength
<1>6. QED
  BY <1>2, <1>3, <1>5 DEF FrameInv

(* What the controller sends comes behind all that it has sent.            *)
LEMMA SendFrameInv ==
  ASSUME FrameInv, NEW n \in Sizes, SendFrame(n)
  PROVE  FrameInv'
<1> DEFINE e == encode_frame(sent + 1, n)
<1>1. /\ open /\ sent' = sent + 1 /\ onWay' = onWay \o e
      /\ UNCHANGED <<caller, stalls, wire, got, delivered, phase>>
  BY DEF SendFrame, setup
<1>2. /\ sent \in Nat /\ onWay \in Seq(Byte) /\ wire \in Seq(Byte) /\ got \in Seq(Byte)
      /\ delivered \in Seq(Nat)
  BY DEF FrameInv, TypeOK
<1>3. n \in 0..(Base * Base - 1) /\ n \in Nat
  BY FrameAssumption
<1>4. /\ e \in Seq(Byte) /\ Len(e) = n + 2 /\ LengthAt(e, 1) = n
      /\ \A i \in 1..(n + 2) : FrameAt(e, i) = sent + 1 /\ PosAt(e, i) = i - 2
  <2>1. sent + 1 \in Nat
    BY <1>2
  <2>2. QED
    BY <1>3, <2>1, EncodeFrame
<1> HIDE DEF e
<1>5. TypeOK' /\ Sound' = Sound /\ PayloadsAreFrames' = PayloadsAreFrames
  <2>1. onWay' \in Seq(Byte) /\ sent' \in Nat
    BY <1>1, <1>2, <1>4, ConcatBytes
  <2>2. QED
    BY <1>1, <2>1 DEF FrameInv, TypeOK, Sound, PayloadsAreFrames
<1>6. ASSUME Sound
      PROVE  StreamInv'
  <2>1. /\ Framed(Stream, Len(delivered), sent) /\ Partial(got)
        /\ ~stalls /\ onWay # <<>> => PosAt(onWay, 1) = -1
    BY <1>1, <1>6 DEF FrameInv, StreamInv, open
  <2>2. Stream' = Stream \o e /\ Stream \in Seq(Byte)
    <3>1. got \o wire \in Seq(Byte)
      BY <1>2, ConcatBytes
    <3>2. Stream \in Seq(Byte)
      BY <1>2, <3>1, ConcatBytes DEF Stream
    <3>3. Stream' = (got \o wire) \o (onWay \o e)
      BY <1>1 DEF Stream
    <3>4. (got \o wire) \o (onWay \o e) = ((got \o wire) \o onWay) \o e
      BY <1>2, <1>4, <3>1, ConcatThree, Zenon
    <3>5. QED
      BY <3>2, <3>3, <3>4, Zenon DEF Stream
  <2> DEFINE S == Stream
             T == Stream \o e
             L == Len(Stream)
  <2>3. /\ T \in Seq(Byte) /\ L \in Nat /\ Len(T) = L + (n + 2)
        /\ \A i \in 1..L : T[i] = S[i]
        /\ \A i \in 1..(n + 2) : T[L + i] = e[i]
    BY <1>4, <2>2, ConcatBytes
  <2>4. S \in Seq(Byte) /\ L = Len(S) /\ Framed(S, Len(delivered), sent)
    BY <2>1, <2>2
  <2> HIDE DEF S, T, L
  <2>5. Copies(T, 0, S, 0, L)
    <3>1. \A i \in 1..L : 0 + i = i /\ T[i] = S[i]
      BY <2>3
    <3>2. QED
      BY <3>1 DEF Copies, FrameAt, PosAt, ValueAt
  <2>6. \A i \in 1..(n + 2) : FrameAt(T, L + i) = sent + 1 /\ PosAt(T, L + i) = i - 2
    BY <1>4, <2>3 DEF FrameAt, PosAt
  <2>7. LengthAt(T, L + 1) = n
    <3>1. 1 \in 1..(n + 2) /\ 2 \in 1..(n + 2) /\ L + 2 = (L + 1) + 1 /\ 1 + 1 = 2
      BY <1>3, <2>3
    <3>2. T[L + 1] = e[1] /\ T[(L + 1) + 1] = e[2]
      BY <2>3, <3>1
    <3>3. LengthAt(T, L + 1) = LengthAt(e, 1)
      BY <3>1, <3>2 DEF LengthAt, ValueAt
    <3>4. QED
      BY <1>4, <3>3
  <2>8. Framed(T, Len(delivered), sent + 1)
    <3>1. Len(delivered) \in Nat /\ Len(T) = Len(S) + n + 2
      BY <1>2, <1>3, <2>3, <2>4, LenProperties
    <3>2. QED
      BY <1>2, <1>3, <2>3, <2>4, <2>5, <2>6, <2>7, <3>1, FramedAppend, ZenonT(40)
  <2>9. ~stalls => PosAt(onWay', 1) = -1
    <3>1. CASE onWay = <<>>
      <4>1. onWay' = e /\ 1 \in 1..(n + 2)
        BY <1>1, <1>3, <1>4, <3>1, ConcatEmptySeq
      <4>2. PosAt(e, 1) = 1 - 2
        BY <1>4, <4>1
      <4>3. QED
        BY <4>1, <4>2
    <3>2. CASE onWay # <<>>
      <4>1. Len(onWay) \in Nat \ {0}
        BY <1>2, <3>2, EmptySeq
      <4>2. onWay'[1] = onWay[1]
        BY <1>1, <1>2, <1>4, <4>1, ConcatBytes
      <4>3. QED
        BY <2>1, <3>2, <4>2 DEF PosAt
    <3>3. QED
      BY <3>1, <3>2
  <2>10. QED
    BY <1>1, <2>1, <2>2, <2>8, <2>9 DEF StreamInv, Partial, DeclaredLength, T
<1>7. QED
  BY <1>5, <1>6 DEF FrameInv

(* Bytes arrive in the order in which they were sent.                      *)
LEMMA ArriveInv == FrameInv /\ Arrive => FrameInv'
<1> SUFFICES ASSUME FrameInv, Arrive
             PROVE  FrameInv'
  OBVIOUS
<1> DEFINE k == IF stalls THEN 1 ELSE Len(onWay)
           p == SubSeq(onWay, 1, k)
           q == SubSeq(onWay, k + 1, Len(onWay))
<1>1. /\ open /\ onWay # <<>> /\ wire' = wire \o p /\ onWay' = q
      /\ UNCHANGED <<caller, stalls, sent, got, delivered, phase>>
  BY DEF Arrive, setup
<1>2. /\ sent \in Nat /\ onWay \in Seq(Byte) /\ wire \in Seq(Byte) /\ got \in Seq(Byte)
      /\ Len(onWay) \in Nat /\ Len(onWay) >= 1
  BY <1>1, EmptySeq DEF FrameInv, TypeOK
<1>3. k \in Nat /\ k >= 1 /\ k <= Len(onWay)
  BY <1>2
<1>4. k \in Int /\ k + 1 \in Int /\ Len(onWay) \in Int
      /\ (\A i \in 1..k : onWay[i] \in Byte) /\ (\A i \in (k + 1)..Len(onWay) : onWay[i] \in Byte)
  <2>1. \A i \in 1..Len(onWay) : onWay[i] \in Byte
    BY <1>2, ElementOfSeq
  <2> HIDE DEF k
  <2>2. (\A i \in 1..k : i \in 1..Len(onWay)) /\ \A i \in (k + 1)..Len(onWay) : i \in 1..Len(onWay)
    BY <1>2, <1>3
  <2>3. QED
    BY <1>2, <1>3, <2>1, <2>2
<1>5. ~stalls => q = <<>>
  <2>1. SUFFICES ASSUME ~stalls
                 PROVE  q = <<>>
    OBVIOUS
  <2>2. k = Len(onWay) /\ Len(onWay) + 1 > Len(onWay)
    BY <1>2, <2>1
  <2>3. SubSeq(onWay, Len(onWay) + 1, Len(onWay)) = <<>>
    BY <1>2, <2>2, SubSeqEmpty
  <2>4. QED
    BY <2>2, <2>3, Zenon
<1> HIDE DEF k
<1>6. p \in Seq(Byte) /\ q \in Seq(Byte)
  BY <1>4, SubSeqProperties
<1>7. p \o q = onWay
  <2>1. /\ 1 \in 1..(Len(onWay) + 1) /\ k \in (1 - 1)..Len(onWay) /\ Len(onWay) \in k..Len(onWay)
    BY <1>2, <1>3
  <2>2. p \o q = SubSeq(onWay, 1, Len(onWay))
    BY <1>2, <2>1, ConcatAdjacentSubSeq
  <2>3. QED
    BY <1>2, <2>2, SubSeqFull
<1> HIDE DEF p, q
<1>8. Stream' = Stream
  <2>1. got \o wire \in Seq(Byte)
    BY <1>2, ConcatBytes
  <2>2. Stream' = (got \o (wire \o p)) \o q
    BY <1>1 DEF Stream
  <2>3. got \o (wire \o p) = (got \o wire) \o p
    BY <1>2, <1>6, ConcatThree, Zenon
  <2>4. ((got \o wire) \o p) \o q = (got \o wire) \o (p \o q)
    BY <1>6, <2>1, ConcatAssociative, SMTT(30)
  <2>5. QED
    BY <1>7, <2>2, <2>3, <2>4 DEF Stream
<1>9. TypeOK' /\ Sound' = Sound /\ PayloadsAreFrames' = PayloadsAreFrames
  <2>1. wire' \in Seq(Byte) /\ onWay' \in Seq(Byte)
    BY <1>1, <1>2, <1>6, ConcatBytes
  <2>2. QED
    BY <1>1, <2>1 DEF FrameInv, TypeOK, Sound, PayloadsAreFrames
<1>10. StreamInv => StreamInv'
  <2>1. SUFFICES ASSUME StreamInv
                 PROVE  StreamInv'
    OBVIOUS
  <2>2. Framed(Stream, Len(delivered), sent) /\ Partial(got)
    BY <1>1, <2>1 DEF StreamInv, open
  <2>3. Framed(Stream', Len(delivered'), sent') /\ Partial(got')
    BY <1>1, <1>8, <2>2
  <2>4. QED
    BY <1>1, <1>5, <2>3 DEF StreamInv
<1>11. QED
  BY <1>9, <1>10 DEF FrameInv

(* The byte read next is the next of the stream.                           *)
LEMMA NextByte ==
  ASSUME TypeOK, wire # <<>>, NEW b, b = Append(got, Head(wire))
  PROVE  /\ b \in Seq(Byte) /\ b # <<>> /\ Tail(wire) \in Seq(Byte)
         /\ Len(got) \in Nat /\ Len(b) = Len(got) + 1
         /\ \A i \in 1..Len(got) : b[i] = got[i]
         /\ Stream = (b \o Tail(wire)) \o onWay
<1>1. got \in Seq(Byte) /\ wire \in Seq(Byte)
  BY DEF TypeOK
<1>2. Head(wire) \in Byte /\ Tail(wire) \in Seq(Byte)
  BY <1>1, HeadTailProperties
<1>3. /\ b \in Seq(Byte) /\ b # <<>> /\ Len(b) = Len(got) + 1
      /\ \A i \in 1..Len(got) : b[i] = got[i]
  BY <1>1, <1>2, AppendProperties
<1>4. <<Head(wire)>> \in Seq(Byte) /\ b = got \o <<Head(wire)>>
  BY <1>1, <1>2, AppendIsConcat
<1>5. wire = <<Head(wire)>> \o Tail(wire)
  BY <1>1, <1>2
<1>6. got \o (<<Head(wire)>> \o Tail(wire)) = (got \o <<Head(wire)>>) \o Tail(wire)
  BY <1>1, <1>2, <1>4, ConcatThree, Zenon
<1>7. got \o wire = b \o Tail(wire)
  BY <1>4, <1>5, <1>6, Zenon
<1>8. QED
  BY <1>1, <1>2, <1>3, <1>7, LenProperties DEF Stream

(* A payload is returned when the declared length has been read: it is the *)
(* next frame, and what is left begins with the one after it.              *)
LEMMA ReadInv == FrameInv /\ Read => FrameInv'
<1> SUFFICES ASSUME FrameInv, Read
             PROVE  FrameInv'
  OBVIOUS
<1> DEFINE b == Append(got, Head(wire))
<1>1. /\ phase = "up" /\ wire # <<>> /\ wire' = Tail(wire)
      /\ UNCHANGED <<caller, stalls, sent, onWay>>
      /\ \/ got' = <<>> /\ phase' = "down" /\ delivered' = delivered
         \/ /\ Len(b) = kLengthSize => ValidLength(DeclaredLength(b))
            /\ IF Complete(b)
               THEN got' = <<>> /\ delivered' = Append(delivered, FrameOf(b))
               ELSE got' = b /\ delivered' = delivered
            /\ phase' = phase
  BY DEF Read, Close, setup
<1>2. TypeOK
  BY DEF FrameInv
<1>3. /\ b \in Seq(Byte) /\ b # <<>> /\ Tail(wire) \in Seq(Byte)
      /\ Len(got) \in Nat /\ Len(b) = Len(got) + 1
      /\ \A i \in 1..Len(got) : b[i] = got[i]
      /\ Stream = (b \o Tail(wire)) \o onWay
  BY <1>1, <1>2, NextByte
<1> HIDE DEF b
<1>4. got' \in Seq(Byte) /\ wire' \in Seq(Byte)
  <2>1. got' = <<>> \/ got' = b
    BY <1>1, Zenon
  <2>2. <<>> \in Seq(Byte)
    BY EmptySeq
  <2>3. wire' = Tail(wire)
    BY <1>1
  <2>4. QED
    BY <1>3, <2>1, <2>2, <2>3, Zenon
<1>5. /\ caller \in {"handshake", "managed"} /\ stalls \in BOOLEAN /\ sent \in Nat
      /\ onWay \in Seq(Byte) /\ delivered \in Seq(Nat) /\ Len(delivered) \in Nat
  BY <1>2, LenProperties DEF TypeOK
<1>6. Sound' = Sound
  BY <1>1 DEF Sound
<1>7. FrameOf(b) \in Nat
  <2>1. \A i \in 1..Len(b) : b[i] \in Byte
    BY <1>3, ElementOfSeq
  <2>2. 1 \in 1..Len(b)
    BY <1>3
  <2>3. b[1].frame \in Nat
    BY <2>1, <2>2 DEF Byte
  <2>4. QED
    BY <2>3 DEF FrameOf
<1>8. TypeOK'
  <2>1. delivered' \in Seq(Nat)
    <3>1. delivered' = delivered \/ delivered' = Append(delivered, FrameOf(b))
      BY <1>1, Zenon
    <3>2. Append(delivered, FrameOf(b)) \in Seq(Nat)
      BY <1>5, <1>7, AppendProperties
    <3>3. QED
      BY <1>5, <3>1, <3>2, Zenon
  <2>2. QED
    BY <1>1, <1>4, <1>5, <2>1 DEF TypeOK
<1>9. ASSUME Sound
      PROVE  PayloadsAreFrames' /\ StreamInv'
  <2>1. /\ PayloadsAreFrames /\ Framed(Stream, Len(delivered), sent) /\ Partial(got)
        /\ ~stalls /\ onWay # <<>> => PosAt(onWay, 1) = -1
    BY <1>1, <1>9 DEF FrameInv, StreamInv
  <2> DEFINE R == Tail(wire) \o onWay
             d == Len(delivered)
  <2>2. /\ R \in Seq(Byte) /\ Len(R) \in Nat /\ Stream = b \o R
    <3>1. R \in Seq(Byte) /\ Len(R) \in Nat
      BY <1>3, <1>5, ConcatBytes, LenProperties
    <3>2. b \o (Tail(wire) \o onWay) = (b \o Tail(wire)) \o onWay
      BY <1>3, <1>5, ConcatThree, Zenon
    <3>3. QED
      BY <1>3, <3>1, <3>2, Zenon
  <2> HIDE DEF R
  <2>3. /\ Stream \in Seq(Byte) /\ Len(Stream) = Len(b) + Len(R)
        /\ \A i \in 1..Len(b) : Stream[i] = b[i]
        /\ \A i \in 1..Len(R) : Stream[Len(b) + i] = R[i]
    <3>1. /\ b \o R \in Seq(Byte) /\ Len(b \o R) = Len(b) + Len(R)
          /\ \A i \in 1..Len(b) : (b \o R)[i] = b[i]
          /\ \A i \in 1..Len(R) : (b \o R)[Len(b) + i] = R[i]
      BY <1>3, <2>2, ConcatBytes, Zenon
    <3>2. QED
      BY <2>2, <3>1, Zenon
  <2>4. Len(b) \in Nat /\ Len(b) <= Len(Stream) /\ \A i \in 1..Len(b) : b[i] = Stream[i]
    BY <1>3, <2>2, <2>3
  <2>5. /\ Stream # <<>>
        /\ Len(b) >= kLengthSize => DeclaredLength(b) = LengthAt(Stream, 1)
        /\ Len(b) <= kLengthSize + LengthAt(Stream, 1) => FrameOf(b) = d + 1
    BY <1>3, <1>5, <2>1, <2>3, <2>4, ReadBytes
  <2>6. LengthAt(Stream, 1) \in Nat
    BY <1>5, <2>1, <2>3, <2>5, FramedFirst
  <2>7. CASE phase' = "down"
    BY <1>1, <2>1, <2>7 DEF PayloadsAreFrames, StreamInv
  <2>8. CASE phase' = phase /\ Complete(b)
    <3>1. Len(b) = 2 + LengthAt(Stream, 1) /\ FrameOf(b) = d + 1
      BY <2>5, <2>6, <2>8 DEF Complete, kLengthSize
    <3>2. got' = <<>> /\ delivered' = Append(delivered, d + 1)
      BY <1>1, <2>8, <3>1
    <3>3. PayloadsAreFrames' /\ Len(delivered') = d + 1
      <4>1. /\ Len(delivered') = d + 1 /\ delivered'[d + 1] = d + 1
            /\ \A i \in 1..d : delivered'[i] = delivered[i]
        BY <1>5, <3>2, AppendProperties
      <4>2. \A i \in 1..d : delivered[i] = i
        BY <2>1 DEF PayloadsAreFrames
      <4> HIDE DEF d
      <4>3. \A i \in 1..(d + 1) : delivered'[i] = i
        BY <1>5, <4>1, <4>2 DEF d
      <4>4. QED
        BY <4>1, <4>3 DEF PayloadsAreFrames
    <3>4. Stream' = R
      <4>1. <<>> \o Tail(wire) = Tail(wire)
        BY <1>3, ConcatEmptySeq
      <4>2. QED
        BY <1>1, <3>2, <4>1 DEF Stream, R
    <3>5. Copies(R, 0, Stream, Len(b), Len(R))
      <4>1. \A i \in 1..Len(R) : 0 + i = i /\ Stream[Len(b) + i] = R[i]
        BY <2>2, <2>3
      <4>2. QED
        BY <4>1 DEF Copies, FrameAt, PosAt, ValueAt
    <3>6. Len(R) = Len(Stream) - Len(b)
      BY <2>2, <2>3, <2>4
    <3>7. Framed(R, d + 1, sent)
      BY <1>5, <2>1, <2>2, <2>3, <2>4, <2>5, <3>1, <3>5, <3>6, FramedDrop
    <3>8. Partial(<<>>)
      BY DEF Partial, kLengthSize
    <3>9. QED
      BY <1>1, <2>1, <3>2, <3>3, <3>4, <3>7, <3>8 DEF StreamInv
  <2>9. CASE phase' = phase /\ ~Complete(b)
    <3>1. /\ got' = b /\ delivered' = delivered
          /\ Len(b) = kLengthSize => ValidLength(DeclaredLength(b))
      BY <1>1, <2>9
    <3>2. Stream' = Stream
      BY <1>1, <1>3, <3>1 DEF Stream
    <3>3. Partial(b)
      <4>1. SUFFICES ASSUME Len(b) >= kLengthSize
                     PROVE  Len(b) < kLengthSize + DeclaredLength(b)
        BY DEF Partial
      <4>2. DeclaredLength(b) = LengthAt(Stream, 1)
        BY <2>5, <4>1
      <4>3. Len(b) # kLengthSize + DeclaredLength(b)
        BY <2>9, <4>1 DEF Complete
      <4>4. CASE Len(b) = kLengthSize
        BY <2>6, <3>1, <4>2, <4>4 DEF kLengthSize, ValidLength
      <4>5. CASE Len(b) # kLengthSize
        <5>1. Len(got) >= kLengthSize
          BY <1>3, <2>4, <4>1, <4>5 DEF kLengthSize
        <5>2. b[1] = got[1] /\ b[2] = got[2]
          BY <1>3, <5>1 DEF kLengthSize
        <5>3. DeclaredLength(got) = DeclaredLength(b)
          BY <5>2 DEF DeclaredLength
        <5>4. Len(got) < kLengthSize + DeclaredLength(b)
          BY <2>1, <5>1, <5>3 DEF Partial
        <5>5. QED
          BY <1>3, <2>6, <4>2, <4>3, <5>4 DEF kLengthSize
      <4>6. QED
        BY <4>4, <4>5
    <3>4. QED
      BY <1>1, <2>1, <3>1, <3>2, <3>3 DEF StreamInv, PayloadsAreFrames
  <2>10. QED
    BY <1>1, <2>7, <2>8, <2>9
<1>10. QED
  BY <1>6, <1>8, <1>9 DEF FrameInv

(* A timeout in the middle of a frame is one of the handshake, which gives *)
(* the connection up; the managed loop, with a peer that does not stall in *)
(* a frame, has read nothing that could get lost.                          *)
LEMMA TimeoutInv == FrameInv /\ Timeout => FrameInv'
<1> SUFFICES ASSUME FrameInv, Timeout
             PROVE  FrameInv'
  OBVIOUS
<1>1. /\ phase = "up" /\ wire = <<>> /\ got' = <<>>
      /\ IF caller = "managed" THEN phase' = phase ELSE phase' = "down"
      /\ UNCHANGED <<caller, stalls, sent, onWay, wire, delivered>>
  BY DEF Timeout, Close, setup
<1>2. TypeOK' /\ Sound' = Sound /\ PayloadsAreFrames' = PayloadsAreFrames
  BY <1>1 DEF FrameInv, TypeOK, Sound, PayloadsAreFrames
<1>3. ASSUME Sound
      PROVE  StreamInv'
  <2>1. /\ Framed(Stream, Len(delivered), sent) /\ Partial(got)
        /\ ~stalls /\ onWay # <<>> => PosAt(onWay, 1) = -1
    BY <1>1, <1>3 DEF FrameInv, StreamInv
  <2>2. CASE caller # "managed"
    BY <1>1, <2>2 DEF StreamInv
  <2>3. CASE caller = "managed"
    <3>1. ~stalls
      BY <1>3, <2>3 DEF Sound
    <3>2. /\ got \in Seq(Byte) /\ onWay \in Seq(Byte) /\ sent \in Nat
          /\ delivered \in Seq(Nat) /\ Len(delivered) \in Nat
      BY LenProperties DEF FrameInv, TypeOK
    <3>3. Stream = got \o onWay
      BY <1>1, <3>2, ConcatEmptySeq DEF Stream
    <3>4. /\ Stream \in Seq(Byte) /\ Len(got) \in Nat /\ Len(onWay) \in Nat
          /\ Len(Stream) = Len(got) + Len(onWay)
          /\ \A i \in 1..Len(got) : Stream[i] = got[i]
          /\ \A i \in 1..Len(onWay) : Stream[Len(got) + i] = onWay[i]
      BY <3>2, <3>3, ConcatBytes
    <3>5. got = <<>>
      <4>1. SUFFICES ASSUME got # <<>>
                     PROVE  FALSE
        OBVIOUS
      <4> DEFINE l == LengthAt(Stream, 1)
      <4>2. Len(got) >= 1
        BY <3>2, <4>1, EmptySeq
      <4>3. Len(got) <= Len(Stream) /\ \A i \in 1..Len(got) : got[i] = Stream[i]
        BY <3>4
      <4>4. Stream # <<>> /\ (Len(got) >= kLengthSize => DeclaredLength(got) = l)
        BY <2>1, <3>2, <3>4, <4>1, <4>3, ReadBytes
      <4>5. /\ l \in Nat /\ 2 + l <= Len(Stream)
            /\ \A i \in 1..(2 + l) : PosAt(Stream, i) = i - 2
        BY <2>1, <3>2, <3>4, <4>4, FramedFirst
      <4> HIDE DEF l
      <4>6. Len(got) < 2 + l
        BY <2>1, <3>4, <4>4, <4>5 DEF Partial, kLengthSize
      <4>7. Len(got) + 1 \in 1..(2 + l) /\ 1 \in 1..Len(onWay)
        BY <3>4, <4>5, <4>6
      <4>8. PosAt(Stream, Len(got) + 1) = (Len(got) + 1) - 2
        BY <4>5, <4>7
      <4>9. Stream[Len(got) + 1] = onWay[1]
        BY <3>4, <4>7
      <4>10. PosAt(onWay, 1) = -1
        BY <2>1, <3>1, <4>7
      <4>11. PosAt(Stream, Len(got) + 1) = -1
        BY <4>9, <4>10 DEF PosAt
      <4>12. QED
        BY <3>4, <4>2, <4>8, <4>11
    <3>6. Stream' = Stream /\ got' = got
      BY <1>1, <3>5 DEF Stream
    <3>7. QED
      BY <1>1, <2>1, <3>6 DEF StreamInv
  <2>4. QED
    BY <2>2, <2>3
<1>4. QED
  BY <1>2, <1>3 DEF FrameInv

(* Every step keeps the inductive invariant.                               *)
LEMMA StepInv == FrameInv /\ [Next]_vars => FrameInv'
<1> SUFFICES ASSUME FrameInv, [Next]_vars
             PROVE  FrameInv'
  OBVIOUS
<1>1. CASE Connect
  <2>1. UNCHANGED <<setup, receiving>> /\ phase # "down"
    BY <1>1, Zenon DEF Connect, Resolve, TryAddress, ConnectReturns, Configure, AddressesDone,
       TlsConnect
  <2>2. QED
    BY <2>1, QuietInv
<1>2. CASE Write \/ PeerReads \/ PeerCloses \/ \E n \in OwnSizes : BeginSend(n)
  <2>1. UNCHANGED <<setup, receiving>> /\ phase # "down"
    BY <1>2 DEF BeginSend, Write, PeerReads, PeerCloses, open
  <2>2. QED
    BY <2>1, QuietInv
<1>3. CASE Closed \/ UNCHANGED vars
  <2>1. UNCHANGED <<setup, receiving>> /\ phase' = phase
    BY <1>3 DEF Closed, vars
  <2>2. QED
    BY <2>1, QuietInv
<1>4. CASE \E n \in Sizes : SendFrame(n)
  BY <1>4, SendFrameInv
<1>5. CASE Arrive \/ Read \/ Timeout
  BY <1>5, ArriveInv, ReadInv, TimeoutInv
<1>6. QED
  BY <1>1, <1>2, <1>3, <1>4, <1>5 DEF Next

(* The invariant of the connection.                                        *)
THEOREM TransportCorrect == Spec => []FrameInv
  BY InitInv, StepInv, PTL DEF Spec

(* receive_payload returns the frames of the controller, each whole, in    *)
(* order and without a gap, in the handshake with any peer and in the      *)
(* managed loop with one that does not stall within a frame.               *)
THEOREM FramesInOrder == Spec => [](Sound => PayloadsAreFrames)
<1>1. FrameInv => (Sound => PayloadsAreFrames)
  BY DEF FrameInv
<1>2. QED
  BY <1>1, TransportCorrect, PTL
=============================================================================
