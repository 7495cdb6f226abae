------------------------------ MODULE Adoption ------------------------------
(***************************************************************************)
(* run_v2_initial_sync (src/lifecycle/adoption.cpp): the five exchanges of *)
(* the ECSP V2 handshake over one management connection, against a         *)
(* controller that answers, refuses, repeats itself, sends messages of its *)
(* own in between or goes away.                                            *)
(*                                                                         *)
(* The controller is external: it answers the requests it receives in      *)
(* order.  An account stands for user name and password; an auth value for *)
(* the account it was computed with over the other side's random key.      *)
(***************************************************************************)
EXTENDS ConfigExchange, Sequences

CONSTANTS
  MaxSkipped,  \* max_skipped_messages of receive_until
  MaxNoise     \* bound: messages a controller sends that answer nothing

ASSUME AdoptionAssumption == MaxSkipped \in Nat /\ MaxNoise \in Nat

(* Exchange i sends Request[i] with seq i and waits for Response[i].       *)
Request == <<"PRE_CONNECT_INFO", "DEVICE_VERIFY_INFO", "SYSTEM_VERIFY_RESULT",
             "DEVICE_NEGOTIATION", "INIT_SYNC_RESULT">>
Response == <<"PRE_CONNECT_INFO_RESPONSE", "DEVICE_VERIFY_RESPONSE",
              "VERIFY_RESULT_ACK", "SYSTEM_NEGOTIATION", "INIT_SYNC_RESULT_ACK">>
Exchanges == 1..5

(* What a controller message holds as far as the device looks: its type    *)
(* ("noise" is any other well formed message, "garbage" one without a      *)
(* header type), what is wrong with it, the account its auth was computed  *)
(* with, and the configVersion.                                            *)
Plain(type) ==
  [type |-> type, flaw |-> "none", account |-> "other", configVersion |-> None]

VARIABLES
  options,   \* AdoptionOptions and the settings the handshake reads
  pc,        \* "send", "receive" or "done"
  stage,     \* the exchange in progress
  skipped,   \* messages receive_until has passed over in this exchange
  result,    \* the AdoptionResult under construction, then the one returned
  up,        \* the connection carries data
  toCtl,     \* requests on their way to the controller
  toDev,     \* messages on their way to the device
  ctl,       \* the controller: its account, exchanges served, device verified
  noise,     \* messages it sent that answer nothing
  receives   \* history: calls of receive_payload

device == <<options, pc, stage, skipped, result, receives>>
vars == <<options, pc, stage, skipped, result, up, toCtl, toDev, ctl, noise, receives>>

(* credentials: a password, cipherType 5 and a random key of its own.      *)
Options ==
  [managed : BOOLEAN, known : OptVersion, username : BOOLEAN, credentials : BOOLEAN]

(* failure(): what was gathered so far is not part of the result (but for  *)
(* the user name, which nobody reads in a failed one).                     *)
Failure(error) ==
  [error |-> error, last_seq |-> 0, username |-> FALSE, verified |-> FALSE,
   config_version |-> None, complete |-> FALSE]

Init ==
  /\ options \in Options
  /\ pc = "send"
  /\ stage = 1
  /\ skipped = 0
  /\ result = Failure("none")
  /\ up = TRUE
  /\ toCtl = <<>>
  /\ toDev = <<>>
  /\ ctl \in [account : {"device", "other"}, served : {0}, trusts : {FALSE},
              claim : {None}, configVersion : {None}]
  /\ noise = 0
  /\ receives = 0

(***************************************************************************)
(* The device                                                              *)
(***************************************************************************)
Return(r) ==
  /\ pc' = "done"
  /\ result' = r
  /\ UNCHANGED <<stage, skipped>>

(* The version DEVICE_NEGOTIATION claims.                                  *)
NegotiationVersion ==
  IF options.managed /\ options.known # None THEN options.known ELSE 0

SendRequest ==
  /\ pc = "send"
  /\ up
  /\ toCtl' = Append(toCtl, [type |-> Request[stage], claim |-> NegotiationVersion])
  /\ pc' = "receive"
  /\ skipped' = 0
  /\ result' = [result EXCEPT !.last_seq = stage]
  /\ UNCHANGED <<options, stage, up, toDev, ctl, noise, receives>>

(* send_or_fail keeps the result gathered so far.                          *)
SendFailed ==
  /\ pc = "send"
  /\ ~up
  /\ Return([result EXCEPT !.error = "send-failed"])
  /\ UNCHANGED <<options, up, toCtl, toDev, ctl, noise, receives>>

(* Mutant: a timeout during the handshake is waited out.                   *)
ReceiveRetried ==
  /\ pc = "receive"
  /\ UNCHANGED vars

(* The receive times out, the peer closed or the frame is invalid.         *)
ReceiveFailed ==
  /\ pc = "receive"
  /\ receives' = receives + 1
  /\ Return(Failure("receive-failed"))
  /\ UNCHANGED <<options, up, toCtl, toDev, ctl, noise>>

(* Mutant: the controller's auth value is not compared.                    *)
VerdictOneSided(m) ==
  CASE m.flaw = "error" -> "controller-rejected"
    [] stage = 1 /\ m.flaw = "nokey" -> "missing-random-key"
    [] stage = 1 /\ m.flaw = "nouser" /\ ~options.username -> "missing-username"
    [] stage = 1 /\ ~options.credentials -> "missing-credentials"
    [] stage = 2 /\ m.flaw = "noauth" -> "missing-controller-auth"
    [] OTHER -> "none"

(* The checks on the expected message, in their order.                     *)
Verdict(m) ==
  CASE m.flaw = "error" -> "controller-rejected"
    [] stage = 1 /\ m.flaw = "nokey" -> "missing-random-key"
    [] stage = 1 /\ m.flaw = "nouser" /\ ~options.username -> "missing-username"
    [] stage = 1 /\ ~options.credentials -> "missing-credentials"
    [] stage = 2 /\ m.flaw = "noauth" -> "missing-controller-auth"
    [] stage = 2 /\ m.account # "device" -> "controller-auth-mismatch"
    [] OTHER -> "none"

(* What the device learns from the expected message.                       *)
Gathered(m) ==
  [result EXCEPT
     !.username = @ \/ stage = 1,
     !.verified = @ \/ stage = 3,
     !.config_version = IF stage = 4 THEN UintBodyField(m.configVersion) ELSE @,
     !.complete = stage = 5]

Accept(m) ==
  \/ /\ Verdict(m) # "none"
     /\ Return(Failure(Verdict(m)))
  \/ /\ Verdict(m) = "none"
     /\ result' = Gathered(m)
     /\ IF stage = 5 THEN pc' = "done" /\ UNCHANGED stage
                     ELSE pc' = "send" /\ stage' = stage + 1
     /\ UNCHANGED skipped

(* Mutant: the limit counts from the first message on.                     *)
SkipOneLess ==
  IF skipped + 1 >= MaxSkipped
  THEN Return(Failure("unexpected-message"))
  ELSE skipped' = skipped + 1 /\ UNCHANGED <<pc, stage, result>>

(* Mutant: no limit.                                                       *)
SkipForever ==
  /\ skipped' = IF skipped = MaxSkipped THEN skipped ELSE skipped + 1
  /\ UNCHANGED <<pc, stage, result>>

(* receive_until: another message is passed over, up to MaxSkipped times.  *)
Skip ==
  IF skipped = MaxSkipped
  THEN Return(Failure("unexpected-message"))
  ELSE skipped' = skipped + 1 /\ UNCHANGED <<pc, stage, result>>

Receive ==
  LET m == Head(toDev) IN
  /\ pc = "receive"
  /\ toDev # <<>>
  /\ toDev' = Tail(toDev)
  /\ receives' = receives + 1
  /\ CASE m.type = "garbage"         -> Return(Failure("invalid-json"))
       [] m.type = Response[stage]   -> Accept(m)
       [] OTHER                      -> Skip
  /\ UNCHANGED <<options, up, toCtl, ctl, noise>>

(***************************************************************************)
(* The controller                                                          *)
(***************************************************************************)
(* It answers the next request, well or with a flaw; it trusts a device    *)
(* whose DEVICE_VERIFY_INFO was computed with its own account.             *)
Flaws(i) ==
  {"none", "error"} \cup (IF i = 1 THEN {"nokey", "nouser"} ELSE {})
                    \cup (IF i = 2 THEN {"noauth"} ELSE {})

Serve(flaw, field) ==
  LET i == ctl.served + 1 IN
  /\ up
  /\ toCtl # <<>>
  /\ flaw \in Flaws(i)
  /\ i # 4 => field = None
  /\ toCtl' = Tail(toCtl)
  /\ toDev' = Append(toDev, [type |-> Response[i], flaw |-> flaw,
                             account |-> ctl.account, configVersion |-> field])
  /\ ctl' = [ctl EXCEPT
               !.served = i,
               !.trusts = IF i = 2 THEN flaw = "none" /\ ctl.account = "device" ELSE @,
               !.claim = IF i = 4 THEN Head(toCtl).claim ELSE @,
               !.configVersion = IF i = 4 THEN field ELSE @]
  /\ UNCHANGED <<device, up, noise>>

(* An unrelated message, something unreadable, or its last answer again.   *)
Interject(m) ==
  /\ up
  /\ noise < MaxNoise
  /\ toDev' = Append(toDev, m)
  /\ noise' = noise + 1
  /\ UNCHANGED <<device, up, toCtl, ctl>>

LastSent == {toDev[i] : i \in {Len(toDev)} \ {0}}

Disconnect ==
  /\ up
  /\ up' = FALSE
  /\ UNCHANGED <<device, toCtl, toDev, ctl, noise>>

(* The daemon has its result.                                              *)
Finished ==
  /\ pc = "done"
  /\ UNCHANGED vars

Next ==
  \/ SendRequest
  \/ SendFailed
  \/ ReceiveFailed
  \/ Receive
  \/ \E flaw \in Flaws(1) \cup Flaws(2), field \in OptField : Serve(flaw, field)
  \/ \E m \in LastSent \cup {Plain("noise"), Plain("garbage")} : Interject(m)
  \/ Disconnect
  \/ Finished

Spec == Init /\ [][Next]_vars

(* The device runs: a send returns, a receive ends with SO_RCVTIMEO.       *)
DeviceStep == SendRequest \/ SendFailed \/ ReceiveFailed \/ Receive

FairSpec == Spec /\ WF_vars(DeviceStep)

(***************************************************************************)
(* Properties                                                              *)
(***************************************************************************)
(* An initial sync the device reports as complete is one the controller    *)
(* took part in to the end: both hold the same account and proved it, the  *)
(* controller read the version the device claimed, the device keeps the    *)
(* version the controller named, whatever else was on the connection; and  *)
(* the INFORM scheduler goes on from the seq of the last message.          *)
SyncIsMutual ==
  result.complete =>
    /\ ctl.account = "device" /\ ctl.trusts /\ ctl.served = 5
    /\ ctl.claim = NegotiationVersion
    /\ result.config_version = UintBodyField(ctl.configVersion)
    /\ result.error = "none" /\ result.verified /\ result.last_seq = 5

(* Exchange i ends after at most i * (MaxSkipped + 1) receives in all,     *)
(* however many messages the controller has to say first: the handshake    *)
(* takes at most 45 receive timeouts.                                      *)
BoundedReceives == receives <= stage * (MaxSkipped + 1)

(* It ends, whatever the controller does.                                  *)
HandshakeEnds == <>(pc = "done")

(* The peers share an account, the connection stays, the controller        *)
(* answers without error before the timeout and says little else.          *)
Cooperative ==
  /\ options.credentials /\ ctl.account = "device"
  /\ up /\ result.error # "receive-failed"
  /\ \A i \in DOMAIN toDev : toDev[i].flaw = "none" /\ toDev[i].type # "garbage"
  /\ noise <= MaxSkipped

(* With a cooperative controller the handshake ends with a complete sync,  *)
(* though up to MaxSkipped other messages arrive before an answer.         *)
Adopts == []Cooperative => <>(pc = "done" /\ result.complete)
=============================================================================
