-------------------------- MODULE AdoptionProofs ---------------------------
(***************************************************************************)
(* What a completed V2 handshake establishes between device and            *)
(* controller, and how long it can take, for every version range, every    *)
(* limit on skipped messages and any number of messages in between.        *)
(***************************************************************************)
EXTENDS Adoption, TLAPS

Message ==
  [type : {Response[i] : i \in Exchanges} \cup {"noise", "garbage"},
   flaw : {"none", "error", "nokey", "nouser", "noauth"},
   account : {"device", "other"},
   configVersion : OptField]

Requests == [type : {Request[i] : i \in Exchanges}, claim : OptVersion]

Errors ==
  {"none", "send-failed", "receive-failed", "invalid-json", "unexpected-message",
   "controller-rejected", "missing-random-key", "missing-username",
   "missing-credentials", "missing-controller-auth", "controller-auth-mismatch"}

Results ==
  [error : Errors, last_seq : 0..5, username : BOOLEAN, verified : BOOLEAN,
   config_version : OptVersion, complete : BOOLEAN]

TypeOK ==
  /\ options \in Options
  /\ pc \in {"send", "receive", "done"}
  /\ stage \in Exchanges
  /\ skipped \in 0..MaxSkipped
  /\ result \in Results
  /\ up \in BOOLEAN
  /\ toCtl \in Seq(Requests)
  /\ toDev \in Seq(Message)
  /\ ctl \in [account : {"device", "other"}, served : 0..5, trusts : BOOLEAN,
              claim : OptVersion, configVersion : OptField]
  /\ noise \in Nat
  /\ receives \in Nat

(* The controller is never ahead of the device, and at most the request in *)
(* progress is on its way.                                                 *)
Lockstep ==
  /\ pc = "send" => ctl.served = stage - 1 /\ toCtl = <<>>
  /\ ctl.served >= stage - 1
  /\ ctl.served + Len(toCtl) <= stage
  /\ result.complete => ctl.served = 5

(* What an answer on the connection says of the controller, though it may  *)
(* be there a second time or long after a later one.                       *)
Truthful(m) ==
  \A i \in Exchanges : m.type = Response[i] =>
    /\ i <= ctl.served
    /\ m.account = ctl.account
    /\ i = 2 /\ m.flaw \notin {"error", "noauth"} /\ m.account = "device" => ctl.trusts
    /\ i = 4 => m.configVersion = ctl.configVersion

Answers ==
  /\ \A k \in 1..Len(toDev) : Truthful(toDev[k])
  /\ \A k \in 1..Len(toCtl) : toCtl[k].claim = NegotiationVersion

(* What the exchanges behind the device have established.                  *)
Established ==
  /\ stage > 2 => ctl.account = "device" /\ ctl.trusts
  /\ ctl.served >= 4 => ctl.claim = NegotiationVersion
  /\ pc # "done" => result.error = "none" /\ ~result.complete
  /\ pc = "receive" => result.last_seq = stage
  /\ pc # "done" /\ stage > 3 => result.verified
  /\ pc # "done" /\ stage > 4 => result.config_version = UintBodyField(ctl.configVersion)
  /\ result.complete =>
       /\ pc = "done" /\ stage = 5
       /\ result.error = "none" /\ result.verified /\ result.last_seq = 5
       /\ result.config_version = UintBodyField(ctl.configVersion)

(* Each exchange behind the device took at most MaxSkipped + 1 receives.   *)
Spent ==
  receives <= CASE pc = "send"    -> (stage - 1) * (MaxSkipped + 1)
                [] pc = "receive" -> (stage - 1) * (MaxSkipped + 1) + skipped
                [] pc = "done"    -> stage * (MaxSkipped + 1)

AdoptionInv == TypeOK /\ Lockstep /\ Answers /\ Established /\ Spent

(***************************************************************************)
(* The operators the handshake is built from                               *)
(***************************************************************************)
(* uint_body_field yields a version the agent can store, or none.          *)
LEMMA UintBodyFieldType ==
  ASSUME NEW f \in OptField
  PROVE  UintBodyField(f) \in OptVersion
<1>1. CASE f = None
  BY <1>1 DEF UintBodyField, OptVersion
<1>2. CASE f # None
  <2>1. f \in Int /\ U32Max \in Nat
    BY <1>2, ExchangeAssumption DEF OptField
  <2>2. f >= 0 => f % (U32Max + 1) \in 0..U32Max
    BY <2>1
  <2>3. QED
    BY <1>2, <2>1, <2>2 DEF UintBodyField, OptVersion, Version
<1>3. QED
  BY <1>1, <1>2

(* The message types tell the exchanges apart.                             *)
LEMMA ResponsesDiffer ==
  ASSUME NEW i \in Exchanges
  PROVE  /\ Response[i] \notin {"noise", "garbage"}
         /\ \A j \in Exchanges : Response[i] = Response[j] => i = j
  BY DEF Response, Exchanges

(* DEVICE_NEGOTIATION claims a version the agent can store.                *)
LEMMA NegotiationVersionType ==
  ASSUME options \in Options
  PROVE  NegotiationVersion \in OptVersion
  BY ExchangeAssumption DEF NegotiationVersion, Options, OptVersion, Version

(* What failure() returns is a result.                                     *)
LEMMA FailureType ==
  ASSUME NEW error \in Errors
  PROVE  Failure(error) \in Results
<1>1. 0 \in 0..5 /\ FALSE \in BOOLEAN /\ None \in OptVersion
  BY DEF OptVersion
<1>2. QED
  BY <1>1, Zenon DEF Failure, Results

(* A result stays one when its error or its last seq is set.               *)
LEMMA ResultExcept ==
  ASSUME NEW r \in Results
  PROVE  /\ \A n \in 0..5 : [r EXCEPT !.last_seq = n] \in Results
         /\ \A error \in Errors : [r EXCEPT !.error = error] \in Results
  BY Zenon DEF Results

(* A message that passes the checks is no error, and in the verification   *)
(* it proves the device's own account.                                     *)
LEMMA VerdictNone ==
  ASSUME NEW m, Verdict(m) = "none"
  PROVE  /\ m.flaw # "error"
         /\ stage = 2 => m.flaw # "noauth" /\ m.account = "device"
  BY DEF Verdict

(* One exchange more is MaxSkipped + 1 receives more.                      *)
LEMMA ReceivesOfExchange ==
  ASSUME NEW i \in Exchanges
  PROVE  /\ i * (MaxSkipped + 1) \in Nat
         /\ (i - 1) * (MaxSkipped + 1) \in Nat
         /\ i * (MaxSkipped + 1) = (i - 1) * (MaxSkipped + 1) + MaxSkipped + 1
<1> DEFINE k == MaxSkipped + 1
<1>1. k \in Nat
  BY AdoptionAssumption
<1>2. \A j \in 1..5 : j * k \in Nat /\ (j - 1) * k \in Nat /\ j * k = (j - 1) * k + k
  BY <1>1
<1>3. QED
  BY <1>2, AdoptionAssumption DEF Exchanges

(***************************************************************************)
(* The steps                                                               *)
(***************************************************************************)
(* Before the first request nothing is sent, received or gathered.         *)
LEMMA InitInv == Init => AdoptionInv
<1> SUFFICES ASSUME Init
             PROVE  AdoptionInv
  OBVIOUS
<1> USE AdoptionAssumption, ExchangeAssumption DEF Init
<1>1. result \in Results
  <2>1. "none" \in Errors
    BY DEF Errors
  <2>2. QED
    BY <2>1, FailureType, Zenon
<1>2. ctl \in [account : {"device", "other"}, served : 0..5, trusts : BOOLEAN,
               claim : OptVersion, configVersion : OptField]
  <2>1. {0} \subseteq 0..5 /\ {FALSE} \subseteq BOOLEAN
    OBVIOUS
  <2>2. {None} \subseteq OptVersion /\ {None} \subseteq OptField
    BY DEF OptVersion, OptField
  <2>3. QED
    BY <2>1, <2>2, Zenon
<1>3. up \in BOOLEAN
  OBVIOUS
<1>4. TypeOK
  BY <1>1, <1>2, <1>3 DEF TypeOK, Exchanges
<1>5. Lockstep
  BY DEF Lockstep, Failure
<1>6. Answers
  BY DEF Answers
<1>7. Established
  BY DEF Established, Failure
<1>8. Spent
  BY DEF Spent
<1>9. QED
  BY <1>4, <1>5, <1>6, <1>7, <1>8 DEF AdoptionInv

(* A request goes out when the one before it was answered.                 *)
LEMMA SendRequestInv == AdoptionInv /\ SendRequest => AdoptionInv'
<1> SUFFICES ASSUME AdoptionInv, SendRequest
             PROVE  AdoptionInv'
  OBVIOUS
<1> USE AdoptionAssumption DEF AdoptionInv
<1> DEFINE r == [type |-> Request[stage], claim |-> NegotiationVersion]
<1>1. r \in Requests
  BY NegotiationVersionType DEF TypeOK, Exchanges, Requests
<1>2. result' \in Results
  <2>1. stage \in 0..5 /\ result \in Results
    BY DEF TypeOK, Exchanges
  <2>2. result' = [result EXCEPT !.last_seq = stage]
    BY DEF SendRequest
  <2>3. QED
    BY <2>1, <2>2, ResultExcept
<1>3. /\ toCtl' = Append(toCtl, r) /\ toCtl = <<>>
      /\ pc = "send" /\ pc' = "receive" /\ skipped' = 0
      /\ UNCHANGED <<options, stage, up, toDev, ctl, noise, receives>>
  BY DEF SendRequest, Lockstep
<1> HIDE DEF r
<1>4. TypeOK'
  BY <1>1, <1>2, <1>3 DEF TypeOK
<1>5. Lockstep'
  <2>1. Len(toCtl') = 1 /\ ~result.complete
    BY <1>1, <1>3 DEF Established
  <2>2. result'.complete = result.complete
    BY DEF SendRequest, TypeOK, Results
  <2>3. QED
    BY <1>3, <2>1, <2>2 DEF Lockstep, TypeOK, Exchanges
<1>6. Answers'
  <2>1. toCtl' = <<r>> /\ r.claim = NegotiationVersion
    BY <1>1, <1>3 DEF r
  <2>2. QED
    BY <1>3, <2>1 DEF Answers, Truthful, NegotiationVersion
<1>7. Established'
  <2>1. /\ result'.last_seq = stage /\ result'.complete = result.complete
        /\ result'.error = result.error /\ result'.verified = result.verified
        /\ result'.config_version = result.config_version
    BY DEF SendRequest, TypeOK, Results
  <2>2. QED
    BY <1>3, <2>1 DEF Established, NegotiationVersion
<1>8. Spent'
  BY <1>3, ReceivesOfExchange DEF Spent, TypeOK
<1>9. QED
  BY <1>4, <1>5, <1>6, <1>7, <1>8

(* A failed handshake has no complete result and no further steps.         *)
LEMMA ReturnInv ==
  ASSUME AdoptionInv, pc # "done", NEW r \in Results, Return(r), ~r.complete,
         UNCHANGED <<options, up, toCtl, ctl, noise>>,
         toDev' \in Seq(Message),
         \A k \in 1..Len(toDev') : \E j \in 1..Len(toDev) : toDev'[k] = toDev[j],
         receives' \in {receives, receives + 1},
         pc = "send" => receives' = receives
  PROVE  AdoptionInv'
<1> USE AdoptionAssumption DEF AdoptionInv, Return
<1>1. TypeOK'
  BY DEF TypeOK
<1>2. Lockstep'
  BY DEF Lockstep
<1>3. Answers'
  BY DEF Answers, Truthful, NegotiationVersion
<1>4. Established'
  BY DEF Established, NegotiationVersion
<1>5. Spent'
  BY ReceivesOfExchange DEF Spent, TypeOK
<1>6. QED
  BY <1>1, <1>2, <1>3, <1>4, <1>5

(* What the result holds after the expected message of an exchange.        *)
LEMMA GatheredFields ==
  ASSUME TypeOK, NEW m \in Message
  PROVE  /\ Gathered(m) \in Results
         /\ Gathered(m).complete <=> stage = 5
         /\ Gathered(m).verified <=> result.verified \/ stage = 3
         /\ Gathered(m).error = result.error
         /\ Gathered(m).last_seq = result.last_seq
         /\ Gathered(m).config_version = IF stage = 4 THEN UintBodyField(m.configVersion)
                                                      ELSE result.config_version
<1> DEFINE v == IF stage = 4 THEN UintBodyField(m.configVersion) ELSE result.config_version
<1>1. v \in OptVersion
  BY UintBodyFieldType DEF TypeOK, Results, Message
<1>2. Gathered(m) = [result EXCEPT !.username = @ \/ stage = 1, !.verified = @ \/ stage = 3,
                                   !.config_version = v, !.complete = stage = 5]
  BY DEF Gathered
<1> HIDE DEF v
<1>3. Gathered(m) \in Results
  BY <1>1, <1>2, Zenon DEF TypeOK, Results
<1>4. QED
  BY <1>2, <1>3, Zenon DEF TypeOK, Results, v

(* The checks on a message fail with an error of their own.                *)
LEMMA VerdictType ==
  ASSUME NEW m
  PROVE  Verdict(m) \in Errors
  BY DEF Verdict, Errors

(* The first message on the connection is one of those that were sent, and *)
(* so are the ones behind it.                                              *)
LEMMA FirstMessage ==
  ASSUME AdoptionInv, toDev # <<>>
  PROVE  /\ Head(toDev) \in Message /\ Truthful(Head(toDev))
         /\ Tail(toDev) \in Seq(Message)
         /\ \A k \in 1..Len(Tail(toDev)) : \E j \in 1..Len(toDev) : Tail(toDev)[k] = toDev[j]
<1>1. toDev \in Seq(Message) /\ \A k \in 1..Len(toDev) : Truthful(toDev[k])
  BY DEF AdoptionInv, TypeOK, Answers
<1>2. Head(toDev) = toDev[1] /\ Len(toDev) \in Nat /\ Len(toDev) >= 1
  BY <1>1
<1>3. Head(toDev) \in Message /\ Truthful(Head(toDev))
  BY <1>1, <1>2
<1>4. /\ Tail(toDev) \in Seq(Message) /\ Len(Tail(toDev)) = Len(toDev) - 1
      /\ \A k \in 1..Len(Tail(toDev)) : Tail(toDev)[k] = toDev[k + 1]
  BY <1>1, <1>2
<1>5. \A k \in 1..Len(Tail(toDev)) : \E j \in 1..Len(toDev) : Tail(toDev)[k] = toDev[j]
  <2> SUFFICES ASSUME NEW k \in 1..Len(Tail(toDev))
               PROVE  \E j \in 1..Len(toDev) : Tail(toDev)[k] = toDev[j]
    OBVIOUS
  <2>1. k + 1 \in 1..Len(toDev)
    BY <1>2, <1>4
  <2>2. QED
    BY <1>4, <2>1
<1>6. QED
  BY <1>3, <1>4, <1>5

(* receive_payload takes the first message and leaves the controller alone. *)
Takes ==
  /\ pc = "receive"
  /\ toDev # <<>>
  /\ toDev' = Tail(toDev)
  /\ receives' = receives + 1
  /\ UNCHANGED <<options, up, toCtl, ctl, noise>>

(* The expected message ends its exchange; the last one ends the handshake. *)
LEMMA AcceptedInv ==
  ASSUME AdoptionInv, Takes, Head(toDev).type = Response[stage],
         Verdict(Head(toDev)) = "none", Accept(Head(toDev))
  PROVE  AdoptionInv'
<1> DEFINE m == Head(toDev)
<1> USE AdoptionAssumption DEF AdoptionInv, Takes
<1>1. m \in Message /\ Truthful(m) /\ toDev' \in Seq(Message)
  BY FirstMessage
<1>2. \A k \in 1..Len(toDev') : Truthful(toDev'[k])
  BY FirstMessage DEF Answers
<1>3. /\ result' = Gathered(m)
      /\ IF stage = 5 THEN pc' = "done" /\ stage' = stage
                      ELSE pc' = "send" /\ stage' = stage + 1
      /\ skipped' = skipped
  BY DEF Accept
<1>4. /\ stage \in 1..5 /\ stage <= ctl.served /\ m.account = ctl.account
      /\ ctl.served \in 0..5
      /\ stage = 4 => m.configVersion = ctl.configVersion
      /\ stage = 2 => ctl.account = "device" /\ ctl.trusts
  BY <1>1, VerdictNone DEF Truthful, TypeOK, Exchanges
<1> HIDE DEF m
<1>5. TypeOK'
  <2>1. stage' \in Exchanges /\ pc' \in {"send", "receive", "done"}
    BY <1>3, <1>4 DEF Exchanges
  <2>2. result' \in Results
    BY <1>1, <1>3, GatheredFields
  <2>3. QED
    BY <1>1, <1>3, <2>1, <2>2 DEF TypeOK
<1>6. result'.complete <=> stage = 5
  BY <1>1, <1>3, GatheredFields
<1>7. Lockstep'
  <2>1. ctl.served = stage /\ Len(toCtl) = 0
    BY <1>4 DEF Lockstep, TypeOK
  <2>2. toCtl = <<>>
    BY <2>1 DEF TypeOK
  <2>3. QED
    BY <1>3, <1>4, <1>6, <2>1, <2>2 DEF Lockstep
<1>8. Answers'
  <2>1. toCtl' = toCtl /\ ctl' = ctl /\ options' = options
    OBVIOUS
  <2>2. QED
    BY <1>2, <2>1 DEF Answers, Truthful, NegotiationVersion
<1>9. Established'
  <2>1. /\ result'.verified <=> result.verified \/ stage = 3
        /\ result'.error = result.error /\ result'.last_seq = result.last_seq
        /\ result'.config_version = IF stage = 4 THEN UintBodyField(m.configVersion)
                                                 ELSE result.config_version
    BY <1>1, <1>3, GatheredFields
  <2>2. ctl' = ctl /\ NegotiationVersion' = NegotiationVersion
    BY DEF NegotiationVersion
  <2>3. stage' \in 1..5 /\ stage' <= stage + 1 /\ (pc' # "done" => stage' = stage + 1)
    BY <1>3, <1>4
  <2>4. (stage > 2 => ctl.account = "device" /\ ctl.trusts)'
    BY <1>3, <1>4, <2>2, <2>3 DEF Established
  <2>5. (ctl.served >= 4 => ctl.claim = NegotiationVersion)'
    BY <2>2 DEF Established
  <2>6. (pc # "done" /\ stage > 3 => result.verified)'
    BY <1>3, <1>4, <2>1, <2>3 DEF Established
  <2>7. (pc # "done" /\ stage > 4 =>
           result.config_version = UintBodyField(ctl.configVersion))'
    BY <1>3, <1>4, <2>1, <2>2, <2>3 DEF Established, UintBodyField
  <2>8. result'.error = "none" /\ (pc' # "done" => ~result'.complete) /\ pc' # "receive"
    BY <1>3, <1>6, <2>1 DEF Established
  <2>9. (result.complete =>
           /\ pc = "done" /\ stage = 5
           /\ result.error = "none" /\ result.verified /\ result.last_seq = 5
           /\ result.config_version = UintBodyField(ctl.configVersion))'
    BY <1>3, <1>4, <1>6, <2>1, <2>2, <2>8 DEF Established, UintBodyField
  <2>10. QED
    BY <2>4, <2>5, <2>6, <2>7, <2>8, <2>9 DEF Established
<1>10. Spent'
  <2>1. receives' <= stage * (MaxSkipped + 1)
    BY ReceivesOfExchange DEF Spent, TypeOK
  <2>2. CASE stage = 5
    BY <1>3, <2>1, <2>2 DEF Spent
  <2>3. CASE stage # 5
    <3>1. pc' = "send" /\ stage' - 1 = stage
      BY <1>3, <1>4, <2>3
    <3>2. QED
      BY <2>1, <3>1 DEF Spent
  <2>4. QED
    BY <2>2, <2>3
<1>11. QED
  BY <1>5, <1>7, <1>8, <1>9, <1>10

(* Any other message is counted, and the one after the last that may be    *)
(* skipped ends the handshake.                                             *)
LEMMA SkipInv ==
  ASSUME AdoptionInv, Takes, Skip
  PROVE  AdoptionInv'
<1> USE AdoptionAssumption DEF AdoptionInv, Takes
<1>1. CASE skipped = MaxSkipped
  <2>1. "unexpected-message" \in Errors
    BY DEF Errors
  <2>2. Failure("unexpected-message") \in Results /\ ~Failure("unexpected-message").complete
    BY <2>1, FailureType, Zenon DEF Failure
  <2>3. Return(Failure("unexpected-message"))
    BY <1>1 DEF Skip
  <2>4. QED
    BY <2>2, <2>3, FirstMessage, ReturnInv
<1>2. CASE skipped # MaxSkipped
  <2>1. skipped' = skipped + 1 /\ UNCHANGED <<pc, stage, result>>
    BY <1>2 DEF Skip
  <2>2. TypeOK'
    BY <1>2, <2>1, FirstMessage DEF TypeOK
  <2>3. Lockstep' /\ Established'
    BY <2>1 DEF Lockstep, Established, NegotiationVersion
  <2>4. Answers'
    BY FirstMessage DEF Answers, Truthful, NegotiationVersion
  <2>5. Spent'
    BY <2>1, ReceivesOfExchange, SMTT(30) DEF Spent, TypeOK
  <2>6. QED
    BY <2>2, <2>3, <2>4, <2>5
<1>3. QED
  BY <1>1, <1>2

(* Whatever arrives first.                                                 *)
LEMMA ReceiveInv == AdoptionInv /\ Receive => AdoptionInv'
<1> SUFFICES ASSUME AdoptionInv, Receive
             PROVE  AdoptionInv'
  OBVIOUS
<1> DEFINE m == Head(toDev)
<1>1. Takes /\ m \in Message
  BY FirstMessage DEF Receive, Takes
<1>2. \/ Return(Failure("invalid-json"))
      \/ m.type = Response[stage] /\ Accept(m)
      \/ Skip
  <2>1. stage \in Exchanges
    BY DEF AdoptionInv, TypeOK
  <2>2. Response[stage] # "garbage"
    BY <2>1, ResponsesDiffer
  <2>3. QED
    BY <2>2 DEF Receive
<1> HIDE DEF m
<1>3. CASE Return(Failure("invalid-json"))
  <2>1. "invalid-json" \in Errors
    BY DEF Errors
  <2>2. Failure("invalid-json") \in Results /\ ~Failure("invalid-json").complete
    BY <2>1, FailureType, Zenon DEF Failure
  <2>3. QED
    BY <1>1, <1>3, <2>2, FirstMessage, ReturnInv DEF Takes, AdoptionInv
<1>4. CASE m.type = Response[stage] /\ Accept(m)
  <2>1. CASE Verdict(m) = "none"
    BY <1>1, <1>4, <2>1, AcceptedInv DEF m
  <2>2. CASE Verdict(m) # "none"
    <3>1. Return(Failure(Verdict(m)))
      BY <1>4, <2>2 DEF Accept
    <3>2. Failure(Verdict(m)) \in Results /\ ~Failure(Verdict(m)).complete
      BY VerdictType, FailureType, Zenon DEF Failure
    <3>3. QED
      BY <1>1, <3>1, <3>2, FirstMessage, ReturnInv DEF Takes, AdoptionInv
  <2>3. QED
    BY <2>1, <2>2
<1>5. CASE Skip
  BY <1>1, <1>5, SkipInv
<1>6. QED
  BY <1>2, <1>3, <1>4, <1>5

(* A timeout, a closed connection and a send that fails end the handshake. *)
LEMMA FailedInv == AdoptionInv /\ (SendFailed \/ ReceiveFailed) => AdoptionInv'
<1> SUFFICES ASSUME AdoptionInv, SendFailed \/ ReceiveFailed
             PROVE  AdoptionInv'
  OBVIOUS
<1>1. /\ toDev \in Seq(Message) /\ result \in Results
      /\ \A k \in 1..Len(toDev) : \E j \in 1..Len(toDev) : toDev[k] = toDev[j]
  BY DEF AdoptionInv, TypeOK
<1>2. "send-failed" \in Errors /\ "receive-failed" \in Errors
  BY DEF Errors
<1>3. CASE SendFailed
  <2> DEFINE r == [result EXCEPT !.error = "send-failed"]
  <2>1. r \in Results
    BY <1>1, <1>2, ResultExcept
  <2>2. r.complete = result.complete
    BY <1>1, Zenon DEF Results
  <2>3. ~result.complete
    BY <1>3 DEF SendFailed, AdoptionInv, Established
  <2>4. Return(r) /\ pc = "send" /\ UNCHANGED <<options, up, toCtl, toDev, ctl, noise, receives>>
    BY <1>3 DEF SendFailed
  <2> HIDE DEF r
  <2>5. QED
    BY <1>1, <2>1, <2>2, <2>3, <2>4, ReturnInv
<1>4. CASE ReceiveFailed
  <2>1. Failure("receive-failed") \in Results /\ ~Failure("receive-failed").complete
    BY <1>2, FailureType, Zenon DEF Failure
  <2>2. /\ Return(Failure("receive-failed")) /\ pc = "receive" /\ receives' = receives + 1
        /\ UNCHANGED <<options, up, toCtl, toDev, ctl, noise>>
    BY <1>4 DEF ReceiveFailed
  <2>3. QED
    BY <1>1, <2>1, <2>2, ReturnInv
<1>5. QED
  BY <1>3, <1>4

(* The controller's record of the handshake after it answered exchange i.  *)
LEMMA ServedFields ==
  ASSUME TypeOK, NEW i \in Exchanges, NEW t \in BOOLEAN, NEW c \in OptVersion,
         NEW f \in OptField,
         ctl' = [ctl EXCEPT !.served = i, !.trusts = t, !.claim = c, !.configVersion = f]
  PROVE  /\ ctl' \in [account : {"device", "other"}, served : 0..5, trusts : BOOLEAN,
                      claim : OptVersion, configVersion : OptField]
         /\ ctl'.account = ctl.account /\ ctl'.served = i /\ ctl'.trusts = t
         /\ ctl'.claim = c /\ ctl'.configVersion = f
<1>1. i \in 0..5
  BY DEF Exchanges
<1>2. QED
  BY <1>1, Zenon DEF TypeOK

(* An answer of the controller is true of it, and those before it stay so. *)
LEMMA ServeInv ==
  ASSUME AdoptionInv, NEW flaw \in Flaws(1) \cup Flaws(2), NEW field \in OptField,
         Serve(flaw, field)
  PROVE  AdoptionInv'
<1> USE AdoptionAssumption DEF AdoptionInv
<1> DEFINE i == ctl.served + 1
           n == [type |-> Response[i], flaw |-> flaw, account |-> ctl.account,
                 configVersion |-> field]
           t == IF i = 2 THEN flaw = "none" /\ ctl.account = "device" ELSE ctl.trusts
           c == IF i = 4 THEN Head(toCtl).claim ELSE ctl.claim
           f == IF i = 4 THEN field ELSE ctl.configVersion
<1>1. /\ toCtl # <<>> /\ toCtl' = Tail(toCtl) /\ toDev' = Append(toDev, n)
      /\ ctl' = [ctl EXCEPT !.served = i, !.trusts = t, !.claim = c, !.configVersion = f]
      /\ flaw \in Flaws(i)
      /\ UNCHANGED <<options, pc, stage, skipped, result, receives, up, noise>>
  BY DEF Serve, device
<1>2. /\ toCtl \in Seq(Requests) /\ Len(toCtl) \in Nat /\ Len(toCtl) >= 1
      /\ Head(toCtl) = toCtl[1] /\ Head(toCtl) \in Requests
      /\ toCtl' \in Seq(Requests) /\ Len(toCtl') = Len(toCtl) - 1
      /\ \A k \in 1..Len(toCtl') : toCtl'[k] = toCtl[k + 1]
  BY <1>1 DEF TypeOK
<1>3. i \in Exchanges /\ i <= stage /\ pc # "send" /\ ~result.complete
  <2>1. stage \in 1..5 /\ ctl.served \in 0..5
    BY DEF TypeOK, Exchanges
  <2>2. pc # "send" /\ ctl.served + 1 <= stage
    BY <1>1, <1>2, <2>1, SMTT(30) DEF Lockstep
  <2>3. ~result.complete
    BY <2>1, <2>2 DEF Lockstep
  <2>4. QED
    BY <2>1, <2>2, <2>3 DEF Exchanges
<1>4. Head(toCtl).claim \in OptVersion /\ Head(toCtl).claim = NegotiationVersion
  BY <1>2 DEF Requests, Answers
<1>5. t \in BOOLEAN
  BY DEF TypeOK
<1>6. c \in OptVersion /\ f \in OptField
  BY <1>4 DEF TypeOK
<1>7. n \in Message
  BY <1>3 DEF Message, Flaws, TypeOK
<1>8. /\ n.type = Response[i] /\ n.flaw = flaw /\ n.account = ctl.account
      /\ n.configVersion = field
  OBVIOUS
<1>9. i = ctl.served + 1
  OBVIOUS
<1>10. /\ i = 2 /\ flaw \notin {"error", "noauth"} /\ ctl.account = "device" => t
       /\ i # 2 => t = ctl.trusts
       /\ i = 4 => c = NegotiationVersion /\ f = field
       /\ i # 4 => c = ctl.claim /\ f = ctl.configVersion
  BY <1>1, <1>4 DEF Flaws
<1> HIDE DEF i, n, t, c, f
<1>11. /\ ctl' \in [account : {"device", "other"}, served : 0..5, trusts : BOOLEAN,
                    claim : OptVersion, configVersion : OptField]
       /\ ctl'.account = ctl.account /\ ctl'.served = i /\ ctl'.trusts = t
       /\ ctl'.claim = c /\ ctl'.configVersion = f
  BY <1>1, <1>3, <1>5, <1>6, ServedFields
<1>12. TypeOK'
  BY <1>1, <1>2, <1>7, <1>11 DEF TypeOK
<1>13. Lockstep'
  BY <1>1, <1>2, <1>3, <1>9, <1>11, SMTT(30) DEF Lockstep, TypeOK, Exchanges
<1>14. Answers'
  <2> DEFINE StillTruthful(m) ==
        \A j \in Exchanges : m.type = Response[j] =>
          /\ j <= ctl'.served
          /\ m.account = ctl'.account
          /\ j = 2 /\ m.flaw \notin {"error", "noauth"} /\ m.account = "device" => ctl'.trusts
          /\ j = 4 => m.configVersion = ctl'.configVersion
  <2>1. ASSUME NEW m, Truthful(m)
        PROVE  StillTruthful(m)
    BY <2>1, <1>9, <1>10, <1>11, SMTT(30) DEF Truthful, Exchanges, TypeOK
  <2>2. StillTruthful(n)
    <3>1. \A j \in Exchanges : Response[i] = Response[j] => i = j
      BY <1>3, ResponsesDiffer
    <3>2. QED
      BY <3>1, <1>8, <1>10, <1>11, <1>3 DEF Exchanges
  <2>3. \A k \in 1..Len(toDev') : toDev'[k] = n \/ \E j \in 1..Len(toDev) : toDev'[k] = toDev[j]
    BY <1>1, <1>7 DEF TypeOK
  <2> HIDE DEF StillTruthful
  <2>4. \A k \in 1..Len(toDev') : StillTruthful(toDev'[k])
    BY <2>1, <2>2, <2>3 DEF Answers
  <2>5. NegotiationVersion' = NegotiationVersion
    BY <1>1 DEF NegotiationVersion
  <2>6. \A k \in 1..Len(toCtl') : toCtl'[k].claim = NegotiationVersion
    BY <1>2 DEF Answers
  <2>7. QED
    BY <2>4, <2>5, <2>6 DEF Answers, Truthful, StillTruthful
<1>15. Established'
  <2>1. NegotiationVersion' = NegotiationVersion
    BY <1>1 DEF NegotiationVersion
  <2>2. stage > 2 => i > 2
    BY <1>9 DEF Lockstep, TypeOK, Exchanges
  <2>3. stage > 4 => i > 4
    BY <1>9 DEF Lockstep, TypeOK, Exchanges
  <2>4. (stage > 2 => ctl.account = "device" /\ ctl.trusts)'
    BY <1>1, <1>10, <1>11, <2>2 DEF Established, TypeOK, Exchanges
  <2>5. (ctl.served >= 4 => ctl.claim = NegotiationVersion)'
    BY <1>3, <1>9, <1>10, <1>11, <2>1 DEF Established, Exchanges, TypeOK
  <2>6. (pc # "done" /\ stage > 4 =>
           result.config_version = UintBodyField(ctl.configVersion))'
    BY <1>1, <1>10, <1>11, <2>3 DEF Established, UintBodyField, TypeOK, Exchanges
  <2>7. QED
    BY <1>1, <1>3, <2>4, <2>5, <2>6 DEF Established
<1>16. Spent'
  BY <1>1 DEF Spent
<1>17. QED
  BY <1>12, <1>13, <1>14, <1>15, <1>16

(* A message of its own says nothing about an exchange; its last answer,   *)
(* sent again, is still true.                                              *)
LEMMA InterjectInv ==
  ASSUME AdoptionInv, NEW m \in LastSent \cup {Plain("noise"), Plain("garbage")},
         Interject(m)
  PROVE  AdoptionInv'
<1> USE AdoptionAssumption DEF AdoptionInv
<1>1. m \in Message /\ Truthful(m)
  <2>1. CASE m \in LastSent
    <3>1. toDev \in Seq(Message) /\ Len(toDev) \in 1..Len(toDev) /\ m = toDev[Len(toDev)]
      BY <2>1 DEF LastSent, TypeOK
    <3>2. QED
      BY <3>1 DEF Answers
  <2>2. CASE m \in {Plain("noise"), Plain("garbage")}
    <3>1. m \in Message
      BY <2>2 DEF Plain, Message, OptField
    <3>2. m.type \in {"noise", "garbage"}
      BY <2>2 DEF Plain
    <3>3. QED
      BY <3>1, <3>2, ResponsesDiffer DEF Truthful
  <2>3. QED
    BY <2>1, <2>2
<1>2. /\ toDev' = Append(toDev, m) /\ noise' = noise + 1
      /\ UNCHANGED <<options, pc, stage, skipped, result, receives, up, toCtl, ctl>>
  BY DEF Interject, device
<1>3. TypeOK'
  BY <1>1, <1>2 DEF TypeOK
<1>4. Lockstep' /\ Established' /\ Spent'
  BY <1>2 DEF Lockstep, Established, Spent, NegotiationVersion
<1>5. Answers'
  <2>1. \A k \in 1..Len(toDev') : toDev'[k] = m \/ \E j \in 1..Len(toDev) : toDev'[k] = toDev[j]
    BY <1>1, <1>2 DEF TypeOK
  <2>2. QED
    BY <1>1, <1>2, <2>1 DEF Answers, Truthful, NegotiationVersion
<1>6. QED
  BY <1>3, <1>4, <1>5

(* Every step of device and controller keeps the inductive invariant.      *)
LEMMA StepInv == AdoptionInv /\ [Next]_vars => AdoptionInv'
<1> SUFFICES ASSUME AdoptionInv, [Next]_vars
             PROVE  AdoptionInv'
  OBVIOUS
<1>1. CASE SendRequest \/ SendFailed \/ ReceiveFailed \/ Receive
  BY <1>1, SendRequestInv, FailedInv, ReceiveInv
<1>2. CASE \E flaw \in Flaws(1) \cup Flaws(2), field \in OptField : Serve(flaw, field)
  BY <1>2, ServeInv
<1>3. CASE \E m \in LastSent \cup {Plain("noise"), Plain("garbage")} : Interject(m)
  BY <1>3, InterjectInv
<1>4. CASE Disconnect
  <2>1. up' \in BOOLEAN
    BY <1>4 DEF Disconnect
  <2>2. UNCHANGED <<options, pc, stage, skipped, result, receives, toCtl, toDev, ctl, noise>>
    BY <1>4 DEF Disconnect, device
  <2>3. QED
    BY <2>1, <2>2 DEF AdoptionInv, TypeOK, Lockstep, Answers, Truthful, Established, Spent,
       NegotiationVersion
<1>5. CASE Finished \/ UNCHANGED vars
  BY <1>5, SMTT(30) DEF Finished, vars, AdoptionInv, TypeOK, Lockstep, Answers, Truthful, Established,
     Spent, NegotiationVersion
<1>6. QED
  BY <1>1, <1>2, <1>3, <1>4, <1>5 DEF Next

(***************************************************************************)
(* The theorems                                                            *)
(***************************************************************************)
(* The invariant of the handshake.                                         *)
THEOREM AdoptionCorrect == Spec => []AdoptionInv
  BY InitInv, StepInv, PTL DEF Spec

(* A complete initial sync is one both sides took part in to the end with  *)
(* one account and one version, whatever else was on the connection.       *)
THEOREM CompleteIsMutual == Spec => []SyncIsMutual
<1>1. AdoptionInv => SyncIsMutual
  BY DEF AdoptionInv, TypeOK, Lockstep, Established, SyncIsMutual
<1>2. QED
  BY <1>1, AdoptionCorrect, PTL

(* run_v2_initial_sync gives up after a bounded number of receives.        *)
THEOREM ReceivesBounded == Spec => []BoundedReceives
<1>1. AdoptionInv => BoundedReceives
  BY AdoptionAssumption, ReceivesOfExchange DEF AdoptionInv, TypeOK, Spent, BoundedReceives
<1>2. QED
  BY <1>1, AdoptionCorrect, PTL
=============================================================================
