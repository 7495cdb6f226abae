---------------------------- MODULE DaemonProofs ----------------------------
(***************************************************************************)
(* The daemon's safety properties for every set of controllers and         *)
(* configurations, every version width and any number of reconnect         *)
(* attempts, and the proof that it follows the life cycle graph.           *)
(***************************************************************************)
EXTENDS Daemon, TLAPS

(* Where the daemon holds a session object, and what that object is: the   *)
(* state loaded from disk while reconnecting, what was agreed with the     *)
(* controller once the session runs.                                       *)
SessionHeld ==
  /\ pc = "attempt" => mode = "managed"
  /\ pc \in {"attempt"} \cup Connecting \cup InSession => session # NoState
  /\ pc \in Connecting /\ mode = "managed" => attempt < ReconnectAttempts

SessionAgreed ==
  /\ (flash \cup {disk}) \ {NoState} \subseteq agreed
  /\ pc \in {"attempt"} \cup Connecting /\ mode = "managed" => session \in agreed
  /\ pc \in InSession => session \in agreed /\ reported = session

SessionSaved == pc \in {"managed", "receive"} /\ saved => disk = session

(* After clear() nothing is left to reconnect with.                        *)
Forgotten ==
  forget = "cleared" =>
    disk = NoState /\ mode = "fresh" /\ pc \notin InSession \cup {"attempt"}

DaemonInv ==
  /\ TypeOK
  /\ SessionHeld
  /\ SessionAgreed
  /\ SessionSaved
  /\ Forgotten
  /\ AckedConfigIsRunning

Places == Idle \cup Seeking \cup Connecting \cup InSession

(***************************************************************************)
(* Typing of the values the actions build                                  *)
(***************************************************************************)
(* A new session has no version yet.                                       *)
LEMMA FreshStateType ==
  ASSUME NEW c \in Controllers
  PROVE  [controller |-> c, version |-> None] \in ManagedState
  BY DEF ManagedState, OptVersion

(* Replacing the version keeps a managed state well typed.                 *)
LEMMA VersionedStateType ==
  ASSUME NEW s \in ManagedState, NEW v \in OptVersion
  PROVE  [s EXCEPT !.version = v] \in ManagedState
  BY DEF ManagedState

(* The cast of uint_body_field ends inside the storable versions.          *)
LEMMA UintBodyFieldType ==
  ASSUME NEW f \in OptField
  PROVE  UintBodyField(f) \in OptVersion
<1>1. CASE f = None
  BY <1>1 DEF UintBodyField, OptVersion
<1>2. CASE f # None
  <2>1. f \in Int /\ U32Max \in Nat
    BY <1>2, ExchangeAssumption DEF OptField
  <2>2. f >= 0 => f % (U32Max + 1) \in 0..U32Max
    BY <2>1
  <2>3. QED
    BY <1>2, <2>1, <2>2 DEF UintBodyField, OptVersion, Version
<1>3. QED
  BY <1>1, <1>2

(* Neither errcode makes the agent keep a version it cannot store.         *)
LEMMA StoredVersionType ==
  ASSUME NEW r \in SetRequest, NEW current \in OptVersion, NEW errcode
  PROVE  StoredVersion(r, current, errcode) \in OptVersion
  BY DEF StoredVersion, OptVersion

(* The agent keeps what it reported, when it reported success and the      *)
(* version fits, and what it had otherwise.                                *)
LEMMA StoredIsReported ==
  ASSUME NEW r, NEW current, NEW errcode
  PROVE  LET told == ResponseVersion(r, current, errcode)
         IN  IF errcode = "ok" /\ told \in Version
             THEN StoredVersion(r, current, errcode) = told
             ELSE StoredVersion(r, current, errcode) = current
  BY DEF StoredVersion

(* The initial states satisfy the invariant.                               *)
LEMMA InitInv == Init => DaemonInv
<1> SUFFICES ASSUME Init
             PROVE  DaemonInv
  OBVIOUS
<1> USE DEF Init, Store!Init, Idle, Seeking, Connecting, InSession
<1>1. disk \in ManagedState \cup {NoState} /\ flash = {disk}
  OBVIOUS
<1>2. TypeOK
  <2>1. stop \in BOOLEAN /\ touched \in BOOLEAN /\ saved \in BOOLEAN
    OBVIOUS
  <2>2. attempt \in 0..ReconnectAttempts
    BY DaemonAssumption
  <2>3. agreed \in SUBSET ManagedState /\ flash \in SUBSET (ManagedState \cup {NoState})
    BY <1>1
  <2>4. QED
    BY <1>1, <2>1, <2>2, <2>3 DEF TypeOK
<1>3. SessionAgreed
  BY <1>1 DEF SessionAgreed
<1>4. SessionHeld /\ SessionSaved /\ Forgotten /\ AckedConfigIsRunning
  BY DEF SessionHeld, SessionSaved, Forgotten, AckedConfigIsRunning
<1>5. QED
  BY <1>2, <1>3, <1>4 DEF DaemonInv

(***************************************************************************)
(* Every step keeps the invariant                                          *)
(***************************************************************************)
Quiet == (Idle \cup Seeking) \ {"attempt"}

(* A step that ends where no session object is held has only the disk to   *)
(* answer for.                                                             *)
LEMMA QuietInv ==
  ASSUME DaemonInv, TypeOK', pc' \in Quiet,
         (flash' \cup {disk'}) \ {NoState} \subseteq agreed',
         forget' = "cleared" => disk' = NoState /\ mode' = "fresh",
         UNCHANGED <<platform, acked, touched>>
  PROVE  DaemonInv'
<1> USE DEF Quiet, Idle, Seeking, Connecting, InSession
<1>1. SessionHeld' /\ SessionSaved'
  BY DEF SessionHeld, SessionSaved
<1>2. SessionAgreed'
  BY DEF SessionAgreed
<1>3. Forgotten'
  BY DEF Forgotten
<1>4. AckedConfigIsRunning'
  BY DEF DaemonInv, AckedConfigIsRunning
<1>5. QED
  BY <1>1, <1>2, <1>3, <1>4 DEF DaemonInv

(* Steps without a session that change nothing but pc.                     *)
LEMMA IdleStepInv ==
  ASSUME DaemonInv,
         LoadNothing \/ OpenUdp \/ SendDiscovery \/ ListenHead \/ NoPreAdopt
           \/ Backoff \/ Pause
  PROVE  DaemonInv'
<1>1. UNCHANGED <<stop, mode, attempt, session, durable, platform, history>>
  BY DEF LoadNothing, OpenUdp, SendDiscovery, ListenHead, NoPreAdopt, Backoff, Pause
<1>2. pc' \in Quiet
  BY DEF LoadNothing, OpenUdp, SendDiscovery, ListenHead, NoPreAdopt, Backoff, Pause,
         At, Quiet, Idle, Seeking
<1>3. TypeOK'
  BY <1>1, <1>2 DEF DaemonInv, TypeOK, durable, history, Quiet
<1>4. (flash' \cup {disk'}) \ {NoState} \subseteq agreed'
  BY <1>1 DEF DaemonInv, SessionAgreed, durable, history
<1>5. forget' = "cleared" => disk' = NoState /\ mode' = "fresh"
  BY <1>1 DEF DaemonInv, Forgotten, durable, history
<1>6. QED
  BY <1>1, <1>2, <1>3, <1>4, <1>5, QuietInv DEF history

(* Steps that drop the session object and leave the disk alone.            *)
LEMMA DropStepInv ==
  ASSUME DaemonInv,
         \/ StopAtHead \/ GiveUpReconnect \/ TransportFailure \/ ProcessStart
         \/ ConnectFailed /\ mode = "fresh"
  PROVE  DaemonInv'
<1>1. DropSession /\ UNCHANGED <<durable, platform, agreed, acked, touched, forget>>
  BY DEF StopAtHead, GiveUpReconnect, TransportFailure, ProcessStart, FreshProcess,
         ConnectFailed
<1>2. pc' \in Quiet /\ stop' \in BOOLEAN
  BY DEF StopAtHead, GiveUpReconnect, TransportFailure, ProcessStart, FreshProcess,
         ConnectFailed, At, Quiet, Idle, Seeking, DaemonInv, TypeOK
<1>3. TypeOK'
  <2>1. attempt' \in 0..ReconnectAttempts
    BY <1>1, DaemonAssumption DEF DropSession
  <2>2. saved' \in BOOLEAN
    BY <1>1 DEF DropSession
  <2>3. session' = NoState /\ reported' = NoState /\ mode' = "fresh"
    BY <1>1 DEF DropSession
  <2>4. QED
    BY <1>1, <1>2, <2>1, <2>2, <2>3 DEF DaemonInv, TypeOK, durable, Quiet
<1>4. (flash' \cup {disk'}) \ {NoState} \subseteq agreed'
  BY <1>1 DEF DaemonInv, SessionAgreed, durable
<1>5. forget' = "cleared" => disk' = NoState /\ mode' = "fresh"
  BY <1>1 DEF DaemonInv, Forgotten, durable, DropSession
<1>6. QED
  BY <1>1, <1>2, <1>3, <1>4, <1>5, QuietInv

(* The steps that change the disk and end the session: clear() and a power *)
(* loss; and the write-back of the flash, which ends nothing.              *)
LEMMA ClearStateInv == DaemonInv /\ ClearState => DaemonInv'
<1> SUFFICES ASSUME DaemonInv, ClearState
             PROVE  DaemonInv'
  OBVIOUS
<1> USE DEF ClearState, Store!Erase, DropSession
<1>1. /\ disk' \in {disk, NoState} /\ flash' \subseteq flash \cup {NoState}
      /\ forget' \in {forget, "cleared"}
      /\ forget' = "cleared" => disk' = NoState
  BY DEF durable, DaemonInv, Forgotten, At, InSession
<1>2. TypeOK'
  <2>1. attempt' \in 0..ReconnectAttempts
    BY DaemonAssumption
  <2>2. saved' \in BOOLEAN
    OBVIOUS
  <2>3. pc' \in Places /\ session' = NoState /\ reported' = NoState /\ mode' = "fresh"
    BY DEF At, Places, Idle
  <2>4. UNCHANGED <<stop, platform, agreed, acked, touched>>
    OBVIOUS
  <2>5. QED
    BY <1>1, <2>1, <2>2, <2>3, <2>4 DEF DaemonInv, TypeOK, Places
<1>3. (flash' \cup {disk'}) \ {NoState} \subseteq agreed'
  BY <1>1 DEF DaemonInv, SessionAgreed
<1>4. pc' \in Quiet
  BY DEF At, Quiet, Idle
<1>5. QED
  BY <1>1, <1>2, <1>3, <1>4, QuietInv

(* A power loss ends the process and leaves one of the states that were    *)
(* waiting to be written: each of them was agreed.                         *)
LEMMA PowerLossInv == DaemonInv /\ PowerLoss => DaemonInv'
<1> SUFFICES ASSUME DaemonInv, PowerLoss
             PROVE  DaemonInv'
  OBVIOUS
<1> USE DEF PowerLoss, FreshProcess, DropSession
<1>1. disk' \in flash /\ flash' = {disk'}
  BY DEF Store!Recover
<1>2. TypeOK'
  <2>1. attempt' \in 0..ReconnectAttempts
    BY DaemonAssumption
  <2>2. saved' \in BOOLEAN /\ stop' \in BOOLEAN
    OBVIOUS
  <2>3. pc' \in Places /\ session' = NoState /\ reported' = NoState /\ mode' = "fresh"
    BY DEF Places, Idle
  <2>4. disk' \in ManagedState \cup {NoState}
    BY <1>1 DEF DaemonInv, TypeOK
  <2>5. forget' \in {"no", "replied", "cleared"}
    BY DEF DaemonInv, TypeOK
  <2>6. UNCHANGED <<platform, agreed, acked, touched>>
    OBVIOUS
  <2>7. QED
    BY <1>1, <2>1, <2>2, <2>3, <2>4, <2>5, <2>6 DEF DaemonInv, TypeOK, Places
<1>3. (flash' \cup {disk'}) \ {NoState} \subseteq agreed'
  BY <1>1 DEF DaemonInv, SessionAgreed
<1>4. forget' = "cleared" => disk' = NoState /\ mode' = "fresh"
  BY DEF DaemonInv, TypeOK
<1>5. pc' \in Quiet
  BY DEF Quiet, Idle
<1>6. QED
  BY <1>2, <1>3, <1>4, <1>5, QuietInv

(* The file system writes back what save() or clear() left: the disk keeps *)
(* its value and loses the older ones.                                     *)
LEMMA WritebackInv == DaemonInv /\ Writeback => DaemonInv'
<1> SUFFICES ASSUME DaemonInv, Writeback
             PROVE  DaemonInv'
  OBVIOUS
<1>1. /\ disk' = disk /\ flash' = {disk}
      /\ UNCHANGED <<pc, stop, mode, attempt, session, platform, history>>
  BY DEF Writeback, Store!Settle
<1>2. TypeOK'
  BY <1>1 DEF DaemonInv, TypeOK, history
<1>3. SessionHeld' /\ SessionSaved' /\ Forgotten' /\ AckedConfigIsRunning'
  BY <1>1 DEF DaemonInv, SessionHeld, SessionSaved, Forgotten, AckedConfigIsRunning, history
<1>4. SessionAgreed'
  BY <1>1 DEF DaemonInv, SessionAgreed, history
<1>5. QED
  BY <1>2, <1>3, <1>4 DEF DaemonInv

(* The stop flag is no part of what the invariant says about the session.  *)
LEMMA StopSignalInv == DaemonInv /\ StopSignal => DaemonInv'
<1> SUFFICES ASSUME DaemonInv, StopSignal
             PROVE  DaemonInv'
  OBVIOUS
<1>1. /\ stop' \in BOOLEAN
      /\ UNCHANGED <<pc, mode, attempt, session, durable, platform, history>>
  BY DEF StopSignal
<1>2. TypeOK'
  BY <1>1 DEF DaemonInv, TypeOK, durable, history
<1>3. SessionHeld' /\ SessionSaved' /\ Forgotten' /\ AckedConfigIsRunning' /\ SessionAgreed'
  BY <1>1 DEF DaemonInv, SessionHeld, SessionSaved, Forgotten, AckedConfigIsRunning,
              SessionAgreed, durable, history
<1>4. QED
  BY <1>2, <1>3 DEF DaemonInv

(* load(), and the steps of the connection that only move on.              *)
LEMMA LoadFoundInv == DaemonInv /\ LoadFound => DaemonInv'
<1> SUFFICES ASSUME DaemonInv, LoadFound
             PROVE  DaemonInv'
  OBVIOUS
<1> USE DEF LoadFound, At
<1>1. UNCHANGED <<stop, durable, platform, history>>
  OBVIOUS
<1>2. TypeOK'
  <2>1. attempt' \in 0..ReconnectAttempts
    BY DaemonAssumption
  <2>2. pc' \in Places /\ session' \in ManagedState \cup {NoState} /\ mode' \in {"managed", "fresh"}
    BY DEF Places, Idle, DaemonInv, TypeOK
  <2>3. QED
    BY <1>1, <2>1, <2>2 DEF DaemonInv, TypeOK, durable, history, Places
<1>3. SessionHeld' /\ SessionSaved'
  BY <1>1 DEF SessionHeld, SessionSaved, Connecting, InSession
<1>4. SessionAgreed'
  BY <1>1 DEF DaemonInv, SessionAgreed, durable, history, Connecting, InSession
<1>5. Forgotten' /\ AckedConfigIsRunning'
  BY <1>1 DEF DaemonInv, Forgotten, AckedConfigIsRunning, durable, history
<1>6. QED
  BY <1>2, <1>3, <1>4, <1>5 DEF DaemonInv

(* The steps of an attempt towards the handshake carry the session along   *)
(* unchanged, within the configured attempts.                              *)
LEMMA ConnectStepInv ==
  ASSUME DaemonInv, AttemptReconnect \/ Connected \/ Verified
  PROVE  DaemonInv'
<1>1. UNCHANGED <<stop, mode, attempt, session, durable, platform, history>>
  BY DEF AttemptReconnect, Connected, Verified
<1>2. /\ pc \in {"attempt"} \cup Connecting /\ pc' \in Connecting
      /\ pc = "attempt" => attempt < ReconnectAttempts
  BY DEF AttemptReconnect, Connected, Verified, At, Connecting
<1>3. TypeOK'
  BY <1>1, <1>2 DEF DaemonInv, TypeOK, durable, history
<1>4. SessionHeld'
  BY <1>1, <1>2 DEF DaemonInv, SessionHeld, Connecting, InSession
<1>5. SessionAgreed'
  BY <1>1, <1>2 DEF DaemonInv, SessionAgreed, durable, history, Connecting, InSession
<1>6. SessionSaved' /\ Forgotten' /\ AckedConfigIsRunning'
  BY <1>1, <1>2 DEF DaemonInv, SessionSaved, Forgotten, AckedConfigIsRunning, durable,
                    history, Connecting, InSession
<1>7. QED
  BY <1>3, <1>4, <1>5, <1>6 DEF DaemonInv

(* A failed direct reconnect leaves its state for the next attempt.        *)
LEMMA ReconnectFailedInv == DaemonInv /\ ConnectFailed /\ mode = "managed" => DaemonInv'
<1> SUFFICES ASSUME DaemonInv, ConnectFailed, mode = "managed"
             PROVE  DaemonInv'
  OBVIOUS
<1>1. /\ pc \in Connecting /\ pc' = "attempt" /\ attempt' = attempt + 1
      /\ UNCHANGED <<stop, mode, session, durable, platform, history>>
  BY DEF ConnectFailed, history
<1>2. TypeOK'
  <2>1. attempt' \in 0..ReconnectAttempts
    BY <1>1, DaemonAssumption DEF DaemonInv, TypeOK, SessionHeld
  <2>2. QED
    BY <1>1, <2>1 DEF DaemonInv, TypeOK, durable, history, Idle
<1>3. SessionHeld'
  BY <1>1 DEF DaemonInv, SessionHeld, Connecting, InSession
<1>4. SessionAgreed'
  BY <1>1 DEF DaemonInv, SessionAgreed, durable, history, Connecting, InSession
<1>5. SessionSaved' /\ Forgotten' /\ AckedConfigIsRunning'
  BY <1>1 DEF DaemonInv, SessionSaved, Forgotten, AckedConfigIsRunning, durable, history,
              Connecting, InSession
<1>6. QED
  BY <1>2, <1>3, <1>4, <1>5 DEF DaemonInv

(* A fresh adoption starts from a PRE_ADOPT_REQUEST, not from the disk.    *)
LEMMA PreAdoptInv ==
  ASSUME DaemonInv, NEW c \in Controllers, PreAdopt(c)
  PROVE  DaemonInv'
<1> DEFINE new == [controller |-> c, version |-> None]
<1>1. /\ pc' = "tls" /\ mode' = "fresh" /\ session' = new
      /\ UNCHANGED <<stop, attempt, durable, platform, history>>
  BY DEF PreAdopt, At
<1>2. new \in ManagedState
  BY FreshStateType
<1> HIDE DEF new
<1>3. TypeOK'
  BY <1>1, <1>2 DEF DaemonInv, TypeOK, durable, history, Connecting
<1>4. SessionHeld' /\ SessionSaved'
  BY <1>1, <1>2, NoStateAssumption DEF SessionHeld, SessionSaved, Connecting, InSession
<1>5. SessionAgreed'
  BY <1>1 DEF DaemonInv, SessionAgreed, durable, history, Connecting, InSession
<1>6. Forgotten' /\ AckedConfigIsRunning'
  BY <1>1 DEF DaemonInv, Forgotten, AckedConfigIsRunning, durable, history, InSession
<1>7. QED
  BY <1>3, <1>4, <1>5, <1>6 DEF DaemonInv

(* The sync makes the session's state one both sides know.                 *)
LEMMA InitialSyncInv ==
  ASSUME DaemonInv, NEW f \in OptField, InitialSync(f)
  PROVE  DaemonInv'
<1> DEFINE new == [session EXCEPT !.version = UintBodyField(f)]
<1>1. /\ pc = "negotiate" /\ pc' = "persist" /\ session' = new /\ reported' = new
      /\ agreed' = agreed \cup {new} /\ mode' = "fresh" /\ attempt' = 0
      /\ forget' = IF mode = "fresh" THEN "no" ELSE forget
      /\ UNCHANGED <<stop, durable, platform, acked, touched, saved>>
  BY DEF InitialSync, At, Report
<1>2. new \in ManagedState
  <2>1. session \in ManagedState
    BY <1>1 DEF DaemonInv, TypeOK, SessionHeld, Connecting
  <2>2. QED
    BY <2>1, UintBodyFieldType, VersionedStateType
<1> HIDE DEF new
<1>3. forget' # "cleared" /\ forget' \in {"no", "replied", "cleared"}
  BY <1>1 DEF DaemonInv, TypeOK, Forgotten
<1>4. TypeOK'
  <2>1. attempt' \in 0..ReconnectAttempts
    BY <1>1, DaemonAssumption
  <2>2. QED
    BY <1>1, <1>2, <1>3, <2>1 DEF DaemonInv, TypeOK, durable, InSession
<1>5. SessionHeld' /\ SessionSaved'
  BY <1>1, <1>2, NoStateAssumption DEF SessionHeld, SessionSaved, Connecting, InSession
<1>6. SessionAgreed'
  BY <1>1 DEF DaemonInv, SessionAgreed, durable, Connecting, InSession
<1>7. Forgotten' /\ AckedConfigIsRunning'
  BY <1>1, <1>3 DEF DaemonInv, Forgotten, AckedConfigIsRunning
<1>8. QED
  BY <1>4, <1>5, <1>6, <1>7 DEF DaemonInv

(***************************************************************************)
(* The managed session                                                     *)
(***************************************************************************)
(* save_state, after the sync and after every answered SET_REQUEST.        *)
LEMMA SaveStepInv ==
  ASSUME DaemonInv, PersistSession \/ SaveConfig
  PROVE  DaemonInv'
<1>1. /\ pc \in InSession /\ pc' = "managed" /\ SaveState
      /\ UNCHANGED <<stop, mode, attempt, session, platform, reported, agreed, acked,
                     touched, forget>>
  BY DEF PersistSession, SaveConfig, At, InSession
<1>2. session \in ManagedState /\ session \in agreed /\ forget # "cleared"
  BY <1>1 DEF DaemonInv, TypeOK, SessionHeld, SessionAgreed, Forgotten
<1>3. \/ disk' = session /\ flash' = flash \cup {session} /\ saved' = TRUE
      \/ disk' = disk /\ flash' = flash /\ saved' = FALSE
  BY <1>1 DEF SaveState, Store!Replace, durable
<1>4. TypeOK'
  <2>1. saved' \in BOOLEAN
    BY <1>3
  <2>2. disk' \in ManagedState \cup {NoState} /\ flash' \in SUBSET (ManagedState \cup {NoState})
    BY <1>2, <1>3 DEF DaemonInv, TypeOK
  <2>3. QED
    BY <1>1, <2>1, <2>2 DEF DaemonInv, TypeOK, InSession
<1>5. SessionHeld'
  BY <1>1, <1>2, NoStateAssumption DEF SessionHeld, Connecting, InSession
<1>6. SessionAgreed'
  BY <1>1, <1>2, <1>3 DEF DaemonInv, SessionAgreed, Connecting, InSession
<1>7. SessionSaved'
  BY <1>1, <1>3 DEF SessionSaved
<1>8. Forgotten' /\ AckedConfigIsRunning'
  BY <1>1, <1>2 DEF DaemonInv, Forgotten, AckedConfigIsRunning
<1>9. QED
  BY <1>4, <1>5, <1>6, <1>7, <1>8 DEF DaemonInv

(* A turn of the managed loop without effect.                              *)
LEMMA LoopStepInv ==
  ASSUME DaemonInv, LoopHead \/ NothingToDo
  PROVE  DaemonInv'
<1>1. /\ pc \in {"managed", "receive"} /\ pc' \in {"managed", "receive"}
      /\ UNCHANGED <<stop, mode, attempt, session, durable, platform, history>>
  BY DEF LoopHead, NothingToDo, At
<1>2. TypeOK'
  BY <1>1 DEF DaemonInv, TypeOK, durable, history, InSession
<1>3. SessionHeld' /\ SessionSaved' /\ Forgotten' /\ AckedConfigIsRunning' /\ SessionAgreed'
  BY <1>1 DEF DaemonInv, SessionHeld, SessionSaved, Forgotten, AckedConfigIsRunning,
              SessionAgreed, durable, history, Connecting, InSession
<1>4. QED
  BY <1>2, <1>3 DEF DaemonInv

(* handle_forget_request answers and leaves the state to ClearState.       *)
LEMMA HandleForgetInv == DaemonInv /\ HandleForget => DaemonInv'
<1> SUFFICES ASSUME DaemonInv, HandleForget
             PROVE  DaemonInv'
  OBVIOUS
<1>1. /\ pc = "receive" /\ pc' = "clear" /\ forget' = "replied"
      /\ UNCHANGED <<stop, mode, attempt, session, durable, platform, reported, agreed,
                     acked, touched, saved>>
  BY DEF HandleForget, At
<1>2. TypeOK'
  BY <1>1 DEF DaemonInv, TypeOK, durable, InSession
<1>3. SessionHeld' /\ SessionSaved' /\ Forgotten' /\ AckedConfigIsRunning' /\ SessionAgreed'
  BY <1>1 DEF DaemonInv, SessionHeld, SessionSaved, Forgotten, AckedConfigIsRunning,
              SessionAgreed, durable, Connecting, InSession
<1>4. QED
  BY <1>2, <1>3 DEF DaemonInv

(* The answer to a SET_REQUEST moves session and agreement together.       *)
LEMMA AnswerKeeps ==
  ASSUME DaemonInv, pc = "receive", NEW r \in SetRequest, NEW errcode,
         NEW answered \in BOOLEAN, Answer(r, errcode, answered)
  PROVE  /\ pc' \in {"managed", "savecfg"}
         /\ pc' = "managed" => session' = session
         /\ session' \in ManagedState
         /\ session' \in agreed' /\ reported' = session'
         /\ agreed \subseteq agreed' /\ agreed' \in SUBSET ManagedState
<1> DEFINE told == ResponseVersion(r, session.version, errcode)
           kept == StoredVersion(r, session.version, errcode)
<1>1. session \in ManagedState /\ session \in agreed /\ reported = session
  BY DEF DaemonInv, TypeOK, SessionHeld, SessionAgreed, InSession
<1>2. session.version \in OptVersion /\ session = [session EXCEPT !.version = session.version]
  BY <1>1 DEF ManagedState
<1>3. agreed \in SUBSET ManagedState
  BY DEF DaemonInv, TypeOK
<1>4. IF errcode = "ok" /\ told \in Version THEN kept = told ELSE kept = session.version
  BY StoredIsReported
<1>5. kept \in OptVersion
  BY <1>2, StoredVersionType
<1>6. [session EXCEPT !.version = kept] \in ManagedState
  BY <1>1, <1>5, VersionedStateType
<1>7. CASE ~answered
  BY <1>1, <1>3, <1>7 DEF Answer
<1>8. CASE answered
  <2>1. pc' = "savecfg" /\ session' = [session EXCEPT !.version = kept]
    BY <1>8 DEF Answer
  <2>2. IF errcode = "ok" /\ told \in Version
        THEN Report([session EXCEPT !.version = told])
        ELSE UNCHANGED <<reported, agreed>>
    BY <1>8 DEF Answer
  <2> HIDE DEF told, kept
  <2>3. CASE errcode = "ok" /\ told \in Version
    BY <1>3, <1>4, <1>6, <2>1, <2>2, <2>3 DEF Report
  <2>4. CASE ~(errcode = "ok" /\ told \in Version)
    BY <1>1, <1>2, <1>3, <1>4, <2>1, <2>2, <2>4
  <2>5. QED
    BY <2>3, <2>4
<1>9. QED
  BY <1>7, <1>8

(* The rest of the invariant after an answered or unanswered SET_REQUEST.  *)
LEMMA SetStepInv ==
  ASSUME DaemonInv, pc = "receive", NEW r \in SetRequest, NEW errcode,
         NEW answered \in BOOLEAN, Answer(r, errcode, answered),
         UNCHANGED <<stop, mode, attempt, durable, saved, forget>>,
         platform' \in Configs \cup {Factory, Mixed}, acked' \in Configs \cup {Factory},
         touched' \in BOOLEAN, AckedConfigIsRunning'
  PROVE  DaemonInv'
<1>1. /\ pc' \in {"managed", "savecfg"}
      /\ pc' = "managed" => session' = session
      /\ session' \in ManagedState /\ session' \in agreed' /\ reported' = session'
      /\ agreed \subseteq agreed' /\ agreed' \in SUBSET ManagedState
  BY AnswerKeeps
<1>2. TypeOK'
  BY <1>1 DEF DaemonInv, TypeOK, durable, InSession
<1>3. SessionHeld'
  BY <1>1, NoStateAssumption DEF SessionHeld, Connecting, InSession
<1>4. SessionAgreed'
  BY <1>1 DEF DaemonInv, SessionAgreed, durable, Connecting, InSession
<1>5. SessionSaved' /\ Forgotten'
  BY <1>1 DEF DaemonInv, SessionSaved, Forgotten, durable, InSession
<1>6. QED
  BY <1>2, <1>3, <1>4, <1>5 DEF DaemonInv

(* A SET_REQUEST without an actionable section stores the version it was   *)
(* answered with, and reaches no applier.                                  *)
LEMMA HandlePlainSetInv ==
  ASSUME DaemonInv, NEW r \in SetRequest, NEW answered \in BOOLEAN,
         HandlePlainSet(r, answered)
  PROVE  DaemonInv'
<1>1. /\ pc = "receive" /\ Answer(r, Errcode(r, FALSE), answered)
      /\ UNCHANGED <<stop, mode, attempt, durable, platform, acked, touched, saved, forget>>
  BY DEF HandlePlainSet
<1>2. /\ platform' \in Configs \cup {Factory, Mixed} /\ acked' \in Configs \cup {Factory}
      /\ touched' \in BOOLEAN
  BY <1>1 DEF DaemonInv, TypeOK
<1>3. AckedConfigIsRunning'
  BY <1>1 DEF DaemonInv, AckedConfigIsRunning
<1>4. QED
  BY <1>1, <1>2, <1>3, SetStepInv

(* errcode 0 comes only from appliers that all succeeded; without it any   *)
(* effect on the platform is recorded.                                     *)
LEMMA HandleActionableSetInv ==
  ASSUME DaemonInv, NEW r \in SetRequest, NEW config \in Configs,
         NEW outcome \in ApplyOutcome, NEW answered \in BOOLEAN,
         HandleActionableSet(r, config, outcome, answered)
  PROVE  DaemonInv'
<1> DEFINE errcode == Errcode(r, outcome = "applied")
<1>1. /\ pc = "receive" /\ r.kind = "actionable" /\ Answer(r, errcode, answered)
      /\ platform' = PlatformAfter(outcome, config)
      /\ UNCHANGED <<stop, mode, attempt, durable, saved, forget>>
  BY DEF HandleActionableSet
<1>2. IF answered /\ errcode = "ok"
      THEN acked' = config /\ touched' = FALSE
      ELSE acked' = acked /\ touched' = (touched \/ outcome # "rejected")
  BY DEF HandleActionableSet
<1>3. errcode = "ok" => outcome = "applied"
  BY <1>1 DEF Errcode
<1> HIDE DEF errcode
<1>4. /\ platform' \in Configs \cup {Factory, Mixed}
      /\ outcome = "applied" => platform' = config
      /\ outcome = "rejected" => platform' = platform
  BY <1>1 DEF PlatformAfter, ApplyOutcome, DaemonInv, TypeOK
<1>5. acked' \in Configs \cup {Factory}
  BY <1>2 DEF DaemonInv, TypeOK
<1>6. touched' \in BOOLEAN
  BY <1>2, Zenon
<1>7. AckedConfigIsRunning'
  BY <1>2, <1>3, <1>4 DEF DaemonInv, AckedConfigIsRunning
<1>8. QED
  BY <1>1, <1>4, <1>5, <1>6, <1>7, SetStepInv

(***************************************************************************)
(* The theorems                                                            *)
(***************************************************************************)
LEMMA StepInv == DaemonInv /\ [Next]_vars => DaemonInv'
<1> SUFFICES ASSUME DaemonInv, [Next]_vars
             PROVE  DaemonInv'
  OBVIOUS
<1>1. CASE StopAtHead \/ ProcessStart
  BY <1>1, DropStepInv
<1>2. CASE Reconnect
  BY <1>2, LoadFoundInv, IdleStepInv, ConnectStepInv, DropStepInv DEF Reconnect
<1>3. CASE DiscoverAndAdopt
  BY <1>3, IdleStepInv, PreAdoptInv DEF DiscoverAndAdopt
<1>4. CASE ConnectAndSync
  <2>1. CASE ConnectFailed
    BY <2>1, ReconnectFailedInv, DropStepInv DEF DaemonInv, TypeOK
  <2>2. QED
    BY <1>4, <2>1, ConnectStepInv, InitialSyncInv DEF ConnectAndSync
<1>5. CASE ManagedLoop
  <2>1. ASSUME NEW r \in SetRequest, NEW answered \in BOOLEAN, HandlePlainSet(r, answered)
        PROVE  DaemonInv'
    BY <2>1, HandlePlainSetInv
  <2>2. ASSUME NEW r \in SetRequest, NEW answered \in BOOLEAN, NEW config \in Configs,
               NEW outcome \in ApplyOutcome, HandleActionableSet(r, config, outcome, answered)
        PROVE  DaemonInv'
    BY <2>2, HandleActionableSetInv
  <2>3. CASE PersistSession \/ SaveConfig
    BY <2>3, SaveStepInv
  <2>4. CASE LoopHead \/ NothingToDo
    BY <2>4, LoopStepInv
  <2>5. CASE TransportFailure
    BY <2>5, DropStepInv
  <2>6. QED
    BY <1>5, <2>1, <2>2, <2>3, <2>4, <2>5, HandleForgetInv, ClearStateInv DEF ManagedLoop
<1>6. CASE Pause
  BY <1>6, IdleStepInv
<1>7. CASE StopSignal \/ PowerLoss \/ Writeback
  BY <1>7, StopSignalInv, PowerLossInv, WritebackInv
<1>8. CASE UNCHANGED vars
  <2>1. TypeOK'
    BY <1>8 DEF vars, DaemonInv, TypeOK
  <2>2. SessionHeld' /\ SessionSaved' /\ Forgotten' /\ AckedConfigIsRunning' /\ SessionAgreed'
    BY <1>8 DEF vars, DaemonInv, SessionHeld, SessionSaved, Forgotten,
                AckedConfigIsRunning, SessionAgreed
  <2>3. QED
    BY <2>1, <2>2 DEF DaemonInv
<1>9. QED
  BY <1>1, <1>2, <1>3, <1>4, <1>5, <1>6, <1>7, <1>8 DEF Next

(* The invariant of the daemon holds in every reachable state.             *)
THEOREM DaemonCorrect == Spec => []DaemonInv
  BY InitInv, StepInv, PTL DEF Spec

(* Type correctness of the daemon, and with it the bound on the direct     *)
(* reconnect attempts and the width of every version it stores.            *)
THEOREM DaemonTypes == Spec => []TypeOK
<1>1. DaemonInv => TypeOK
  BY DEF DaemonInv
<1>2. QED
  BY <1>1, DaemonCorrect, PTL

(* Only confirmed states are ever persisted or reconnected with, over any  *)
(* number of crashes and power losses.                                     *)
THEOREM PersistedStatesAgreed == Spec => []PersistedWasAgreed
<1>1. DaemonInv => PersistedWasAgreed
  BY DEF DaemonInv, SessionAgreed, PersistedWasAgreed
<1>2. QED
  BY <1>1, DaemonCorrect, PTL

(* The disk keeps up with the session unless a save fails.                 *)
THEOREM DiskKeepsUp == Spec => []DiskTracksSession
<1>1. DaemonInv => DiskTracksSession
  BY DEF DaemonInv, SessionAgreed, SessionSaved, DiskTracksSession, InSession
<1>2. QED
  BY <1>1, DaemonCorrect, PTL

(* A SET_REQUEST answered with errcode 0 is what the platform runs.        *)
THEOREM AcknowledgedIsApplied == Spec => []AckedConfigIsRunning
<1>1. DaemonInv => AckedConfigIsRunning
  BY DEF DaemonInv
<1>2. QED
  BY <1>1, DaemonCorrect, PTL

(* A cleared state is never reconnected with.                              *)
THEOREM ClearedForGood == Spec => []ClearedStaysCleared
<1>1. DaemonInv => ClearedStaysCleared
  BY DEF DaemonInv, Forgotten, ClearedStaysCleared
<1>2. QED
  BY <1>1, DaemonCorrect, PTL

(***************************************************************************)
(* The life cycle graph                                                    *)
(***************************************************************************)
(* Reconnecting is "rebuilding", a fresh adoption is "adopting"; every     *)
(* other place has the one state LifecycleStateOf gives it.                *)
LEMMA PlaceStates ==
  /\ pc \in Idle => LifecycleStateOf = "disconnected"
  /\ pc \in Seeking => LifecycleStateOf = "discovering"
  /\ pc = "tls" /\ mode = "managed" => LifecycleStateOf = "rebuilding"
  /\ pc = "tls" /\ mode # "managed" => LifecycleStateOf = "adopting"
  /\ pc = "verify" => LifecycleStateOf = "verifying"
  /\ pc = "negotiate" => LifecycleStateOf = "negotiating"
  /\ pc \in InSession => LifecycleStateOf = "managed"
  BY DEF LifecycleStateOf, Idle, Seeking, InSession

(* The same for the place after a step.                                    *)
LEMMA PlaceStatesNext ==
  /\ pc' \in Idle => LifecycleStateOf' = "disconnected"
  /\ pc' \in Seeking => LifecycleStateOf' = "discovering"
  /\ pc' = "tls" /\ mode' = "managed" => LifecycleStateOf' = "rebuilding"
  /\ pc' = "tls" /\ mode' # "managed" => LifecycleStateOf' = "adopting"
  /\ pc' = "verify" => LifecycleStateOf' = "verifying"
  /\ pc' = "negotiate" => LifecycleStateOf' = "negotiating"
  /\ pc' \in InSession => LifecycleStateOf' = "managed"
  BY DEF LifecycleStateOf, Idle, Seeking, InSession

(* Every state may fall back to "disconnected".                            *)
LEMMA Disconnects ==
  ASSUME TypeOK, pc' \in Idle
  PROVE  [Session!Next]_LifecycleStateOf
<1>1. LifecycleStateOf' = "disconnected"
  BY PlaceStatesNext
<1>2. LifecycleStateOf \in Session!LifecycleState
  BY PlaceStates DEF TypeOK, Session!LifecycleState, Connecting
<1>3. LifecycleStateOf # "disconnected" =>
        Session!can_transition(LifecycleStateOf, "disconnected")
  BY <1>2 DEF Session!LifecycleState, Session!can_transition, Session!Successors
<1>4. QED
  BY <1>1, <1>2, <1>3 DEF Session!Next, Session!transition, Session!LifecycleState

(* An edge of the graph is a step of it.                                   *)
LEMMA Edge ==
  ASSUME NEW from \in Session!LifecycleState, NEW to \in Session!LifecycleState,
         LifecycleStateOf = from, LifecycleStateOf' = to,
         from = to \/ to \in Session!Successors[from]
  PROVE  [Session!Next]_LifecycleStateOf
  BY DEF Session!Next, Session!transition, Session!can_transition

(* Every step of the daemon is a transition of the graph or none.          *)
LEMMA StepFollows == DaemonInv /\ [Next]_vars => [Session!Next]_LifecycleStateOf
<1> SUFFICES ASSUME DaemonInv, [Next]_vars
             PROVE  [Session!Next]_LifecycleStateOf
  OBVIOUS
<1>a. TypeOK
  BY DEF DaemonInv
<1>b. pc = "attempt" => mode = "managed"
  BY DEF DaemonInv, SessionHeld
<1>1. CASE pc' \in Idle
  BY <1>1, <1>a, Disconnects
<1>2. CASE pc' = pc /\ mode' = mode
  BY <1>2 DEF LifecycleStateOf
<1>3. CASE pc \in InSession /\ pc' \in InSession
  BY <1>3, PlaceStates, PlaceStatesNext
<1>4. CASE pc \in Seeking /\ pc' \in Seeking
  BY <1>4, PlaceStates, PlaceStatesNext
<1>5. CASE AttemptReconnect
  <2>1. LifecycleStateOf = "disconnected" /\ LifecycleStateOf' = "rebuilding"
    BY <1>5, <1>b, PlaceStates, PlaceStatesNext DEF AttemptReconnect, At, Idle
  <2>2. QED
    BY <2>1, Edge DEF Session!LifecycleState, Session!Successors
<1>6. CASE OpenUdp
  <2>1. LifecycleStateOf = "disconnected" /\ LifecycleStateOf' \in {"disconnected", "discovering"}
    BY <1>6, PlaceStates, PlaceStatesNext DEF OpenUdp, At, Idle, Seeking
  <2>2. QED
    BY <2>1, Edge DEF Session!LifecycleState, Session!Successors
<1>7. ASSUME NEW c \in Controllers, PreAdopt(c)
      PROVE  [Session!Next]_LifecycleStateOf
  <2>1. LifecycleStateOf = "discovering" /\ LifecycleStateOf' = "adopting"
    BY <1>7, PlaceStates, PlaceStatesNext DEF PreAdopt, At, Seeking
  <2>2. QED
    BY <2>1, Edge DEF Session!LifecycleState, Session!Successors
<1>8. CASE Backoff
  <2>1. LifecycleStateOf = "disconnected" /\ LifecycleStateOf' = "discovering"
    BY <1>8, PlaceStates, PlaceStatesNext DEF Backoff, At, Idle, Seeking
  <2>2. QED
    BY <2>1, Edge DEF Session!LifecycleState, Session!Successors
<1>9. CASE Connected
  <2>1. LifecycleStateOf \in {"rebuilding", "adopting"} /\ LifecycleStateOf' = "verifying"
    BY <1>9, <1>a, PlaceStates, PlaceStatesNext DEF Connected, At, TypeOK
  <2>2. QED
    BY <2>1, Edge DEF Session!LifecycleState, Session!Successors
<1>10. CASE Verified
  <2>1. LifecycleStateOf = "verifying" /\ LifecycleStateOf' = "negotiating"
    BY <1>10, PlaceStates, PlaceStatesNext DEF Verified, At
  <2>2. QED
    BY <2>1, Edge DEF Session!LifecycleState, Session!Successors
<1>11. ASSUME NEW f \in OptField, InitialSync(f)
       PROVE  [Session!Next]_LifecycleStateOf
  <2>1. LifecycleStateOf = "negotiating" /\ LifecycleStateOf' = "managed"
    BY <1>11, PlaceStates, PlaceStatesNext DEF InitialSync, At, InSession
  <2>2. QED
    BY <2>1, Edge DEF Session!LifecycleState, Session!Successors
<1>12. CASE ManagedLoop
  <2>1. pc' \in Idle \/ (pc \in InSession /\ pc' \in InSession)
    <3>1. ASSUME NEW r, NEW errcode, NEW answered, Answer(r, errcode, answered)
          PROVE  pc' \in InSession
      BY <3>1 DEF Answer, InSession
    <3>2. ASSUME NEW r \in SetRequest, NEW answered \in BOOLEAN,
                 \/ HandlePlainSet(r, answered)
                 \/ \E config \in Configs, outcome \in ApplyOutcome :
                      HandleActionableSet(r, config, outcome, answered)
          PROVE  pc \in InSession /\ pc' \in InSession
      BY <3>1, <3>2 DEF HandlePlainSet, HandleActionableSet, InSession
    <3>3. CASE PersistSession \/ LoopHead \/ NothingToDo \/ SaveConfig \/ HandleForget
      BY <3>3 DEF PersistSession, LoopHead, NothingToDo, SaveConfig, HandleForget, At, InSession
    <3>4. CASE TransportFailure \/ ClearState
      BY <3>4 DEF TransportFailure, ClearState, At, Idle
    <3>5. QED
      BY <1>12, <3>2, <3>3, <3>4 DEF ManagedLoop
  <2>2. QED
    BY <2>1, <1>1, <1>3
<1>13. CASE Reconnect
  BY <1>1, <1>5, <1>13 DEF Reconnect, LoadFound, LoadNothing, GiveUpReconnect, At, Idle
<1>14. CASE DiscoverAndAdopt
  BY <1>1, <1>4, <1>6, <1>7, <1>8, <1>14
  DEF DiscoverAndAdopt, SendDiscovery, ListenHead, NoPreAdopt, At, Idle, Seeking
<1>15. CASE ConnectAndSync
  BY <1>1, <1>9, <1>10, <1>11, <1>15 DEF ConnectAndSync, ConnectFailed, Idle
<1>16. CASE StopAtHead \/ Pause \/ ProcessStart \/ PowerLoss
  BY <1>1, <1>16 DEF StopAtHead, Pause, ProcessStart, PowerLoss, FreshProcess, At, Idle
<1>17. CASE StopSignal \/ Writeback \/ UNCHANGED vars
  BY <1>2, <1>17 DEF StopSignal, Writeback, vars
<1>18. QED
  BY <1>12, <1>13, <1>14, <1>15, <1>16, <1>17 DEF Next

(* The daemon, with its crashes and signals, implements the life cycle.    *)
THEOREM DaemonFollowsLifecycle == Spec => FollowsLifecycle
<1>1. Init => Session!Init
  BY PlaceStates DEF Init, Session!Init, Idle
<1>2. QED
  BY <1>1, StepFollows, DaemonCorrect, PTL DEF Spec, FollowsLifecycle, Session!Spec
=============================================================================
