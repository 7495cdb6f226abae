------------------------------- MODULE Daemon -------------------------------
(***************************************************************************)
(* run_daemon() of src/cli/main.cpp: managed reconnect, discovery and      *)
(* adoption, the managed loop with SET_REQUEST and FORGET, the managed     *)
(* state on disk, SIGTERM, the death and respawn of the process and a      *)
(* power loss.                                                             *)
(*                                                                         *)
(* The disk is the register of StateStore, which StateRepository is shown  *)
(* to implement.  The V2 handshake is reduced to its two halves            *)
(* (verification, negotiation); Adoption has its messages.                 *)
(***************************************************************************)
EXTENDS ConfigExchange

CONSTANTS
  Controllers,        \* controller ids a PRE_ADOPT_REQUEST may carry
  Configs,            \* contents of actionable SET_REQUESTs
  Factory,            \* the platform configuration before any SET_REQUEST
  Mixed,              \* an update only part of which reached the platform
  NoState,            \* no managed state (in memory, on disk)
  ReconnectAttempts   \* managed_reconnect_attempts

ASSUME DaemonAssumption ==
  /\ ReconnectAttempts \in Nat
  /\ Factory \notin Configs /\ Mixed \notin Configs /\ Mixed # Factory

(* ManagedState: the identity a reconnect needs and the config version.    *)
ManagedState == [controller : Controllers, version : OptVersion]

ASSUME NoStateAssumption == NoState \notin ManagedState

VARIABLES
  pc,         \* where run_daemon is
  stop,       \* g_stop_requested
  mode,       \* AdoptionOptions: "managed" (rebuild) or "fresh" adoption
  attempt,    \* direct reconnect attempts made
  session,    \* the state being connected with, then the session's state
  disk,       \* what load() sees
  flash,      \* what a power loss may leave on disk
  platform    \* the last update the appliers carried out, or Mixed

(* History of what happened, read by the properties only.                  *)
VARIABLES
  reported,   \* the state the controller was last told or told us
  agreed,     \* every state there was such an agreement on
  acked,      \* content of the last SET_REQUEST answered with errcode 0
  touched,    \* an applier changed the platform after that answer
  saved,      \* the last save_state() of this session succeeded
  forget      \* FORGET: "no", "replied", or "cleared" durably enough for load()

durable == <<disk, flash>>
history == <<reported, agreed, acked, touched, saved, forget>>
vars == <<pc, stop, mode, attempt, session, disk, flash, platform,
          reported, agreed, acked, touched, saved, forget>>

Store == INSTANCE StateStore WITH
  Values <- ManagedState, Initial <- ManagedState \cup {NoState},
  NoFile <- NoState, val <- disk, stable <- flash

Idle == {"start", "attempt", "opendisc", "backoff", "pause", "stopped"}
Seeking == {"discover", "listen", "await"}
Connecting == {"tls", "verify", "negotiate"}
InSession == {"persist", "managed", "receive", "savecfg", "clear"}

Init ==
  /\ pc = "start"
  /\ stop = FALSE
  /\ mode = "fresh"
  /\ attempt = 0
  /\ session = NoState
  /\ Store!Init
  /\ platform = Factory
  /\ reported = NoState
  /\ agreed = {disk} \cap ManagedState
  /\ acked = Factory
  /\ touched = FALSE
  /\ saved = FALSE
  /\ forget = "no"

(***************************************************************************)
(* Head of the loop, try_managed_reconnect                                 *)
(***************************************************************************)
At(here, there) == pc = here /\ pc' = there

(* Both sides know state s from now on.                                    *)
Report(s) ==
  /\ reported' = s
  /\ agreed' = agreed \cup {s}

(* The session object is gone; so is what only it knew.                    *)
DropSession ==
  /\ session' = NoState
  /\ mode' = "fresh"
  /\ attempt' = 0
  /\ saved' = FALSE
  /\ reported' = NoState

StopAtHead ==
  /\ pc \in {"start", "opendisc", "discover", "managed"}
  /\ stop
  /\ pc' = "stopped"
  /\ DropSession
  /\ UNCHANGED <<stop, durable, platform, agreed, acked, touched, forget>>

(* load() finds the state of an earlier session.                           *)
LoadFound ==
  /\ At("start", "attempt")
  /\ ~stop
  /\ disk # NoState
  /\ session' = disk
  /\ mode' = "managed"
  /\ attempt' = 0
  /\ UNCHANGED <<stop, durable, platform, history>>

(* No state, a state load() ignores, or a file it cannot read.             *)
LoadNothing ==
  /\ At("start", "opendisc")
  /\ ~stop
  /\ UNCHANGED <<stop, mode, attempt, session, durable, platform, history>>

(* Mutant: one attempt too many.                                           *)
AttemptReconnectOnceMore ==
  /\ At("attempt", "tls")
  /\ ~stop
  /\ attempt <= ReconnectAttempts
  /\ UNCHANGED <<stop, mode, attempt, session, durable, platform, history>>

AttemptReconnect ==
  /\ At("attempt", "tls")
  /\ ~stop
  /\ attempt < ReconnectAttempts
  /\ UNCHANGED <<stop, mode, attempt, session, durable, platform, history>>

(* Mutant: reconnecting is given up only at shutdown.                      *)
GiveUpReconnectAtStop ==
  /\ At("attempt", "opendisc")
  /\ stop
  /\ DropSession
  /\ UNCHANGED <<stop, durable, platform, agreed, acked, touched, forget>>

(* The managed rediscovery datagram changes nothing here, sent or not.     *)
GiveUpReconnect ==
  /\ At("attempt", "opendisc")
  /\ stop \/ attempt = ReconnectAttempts
  /\ DropSession
  /\ UNCHANGED <<stop, durable, platform, agreed, acked, touched, forget>>

(***************************************************************************)
(* discover_and_adopt                                                      *)
(***************************************************************************)
OpenUdp ==
  /\ At("opendisc", "discover") \/ At("opendisc", "pause")
  /\ ~stop
  /\ UNCHANGED <<stop, mode, attempt, session, durable, platform, history>>

(* Mutant: the discovery loop does not look at the stop flag.              *)
SendDiscoveryForever ==
  /\ At("discover", "listen") \/ At("discover", "backoff")
  /\ UNCHANGED <<stop, mode, attempt, session, durable, platform, history>>

SendDiscovery ==
  /\ At("discover", "listen") \/ At("discover", "backoff")
  /\ ~stop
  /\ UNCHANGED <<stop, mode, attempt, session, durable, platform, history>>

(* Head of the inner loop: the stop flag ends it.                          *)
ListenHead ==
  /\ IF stop THEN At("listen", "backoff") ELSE At("listen", "await")
  /\ UNCHANGED <<stop, mode, attempt, session, durable, platform, history>>

(* The receive times out or fails; or a datagram is no usable              *)
(* PRE_ADOPT_REQUEST and the inner loop goes on.                           *)
NoPreAdopt ==
  /\ At("await", "backoff") \/ At("await", "listen")
  /\ UNCHANGED <<stop, mode, attempt, session, durable, platform, history>>

(* A PRE_ADOPT_REQUEST with a usable controller id; a signal during the    *)
(* wait does not keep it from being used.                                  *)
PreAdopt(c) ==
  /\ At("await", "tls")
  /\ mode' = "fresh"
  /\ session' = [controller |-> c, version |-> None]
  /\ UNCHANGED <<stop, attempt, durable, platform, history>>

Backoff ==
  /\ At("backoff", "discover")
  /\ UNCHANGED <<stop, mode, attempt, session, durable, platform, history>>

(***************************************************************************)
(* connect_and_sync                                                        *)
(***************************************************************************)
Connected ==
  /\ At("tls", "verify")
  /\ UNCHANGED <<stop, mode, attempt, session, durable, platform, history>>

(* Both sides proved that they know the device account.                    *)
Verified ==
  /\ At("verify", "negotiate")
  /\ UNCHANGED <<stop, mode, attempt, session, durable, platform, history>>

(* SYSTEM_NEGOTIATION with configVersion f, INIT_SYNC_RESULT acknowledged: *)
(* managed_state_from_adoption takes the version the controller named.     *)
InitialSync(f) ==
  /\ At("negotiate", "persist")
  /\ session' = [session EXCEPT !.version = UintBodyField(f)]
  /\ Report(session')
  /\ forget' = IF mode = "fresh" THEN "no" ELSE forget
  /\ mode' = "fresh"
  /\ attempt' = 0
  /\ UNCHANGED <<stop, durable, platform, acked, touched, saved>>

(* Mutant: a failed adoption goes straight back to discovery.              *)
ConnectFailedRediscover ==
  /\ pc \in Connecting
  /\ \/ /\ mode = "managed"
        /\ pc' = "attempt"
        /\ attempt' = attempt + 1
        /\ UNCHANGED <<session, mode, saved, reported>>
     \/ /\ mode = "fresh"
        /\ pc' = "discover"
        /\ DropSession
  /\ UNCHANGED <<stop, durable, platform, agreed, acked, touched, forget>>

(* Any failure of the connection or the handshake: the next direct attempt *)
(* when reconnecting, the next discovery round when adopting.              *)
ConnectFailed ==
  /\ pc \in Connecting
  /\ \/ /\ mode = "managed"
        /\ pc' = "attempt"
        /\ attempt' = attempt + 1
        /\ UNCHANGED <<session, mode, saved, reported>>
     \/ /\ mode = "fresh"
        /\ pc' = "backoff"
        /\ DropSession
  /\ UNCHANGED <<stop, durable, platform, agreed, acked, touched, forget>>

(***************************************************************************)
(* save_state: a failure is logged, nothing else                           *)
(***************************************************************************)
SaveState ==
  \/ Store!Replace(session) /\ saved' = TRUE
  \/ UNCHANGED durable /\ saved' = FALSE

PersistSession ==
  /\ At("persist", "managed")
  /\ SaveState
  /\ UNCHANGED <<stop, mode, attempt, session, platform, reported, agreed, acked, touched, forget>>

(***************************************************************************)
(* run_managed_loop                                                        *)
(***************************************************************************)
(* The stop flag is read at the head of the loop only.  Being at "receive" *)
(* is the rest of an iteration: the inform when it is due, the receive and *)
(* the handler.                                                            *)
LoopHead ==
  /\ At("managed", "receive")
  /\ ~stop
  /\ UNCHANGED <<stop, mode, attempt, session, durable, platform, history>>

(* The receive times out, or the frame changes nothing here: not an ECSP   *)
(* message, GET, NOTIFY, EVENT_PORTAL_AUTH (client authorisations are no   *)
(* part of this state), a type the handler ignores, or a FORGET whose      *)
(* answer could not be sent.                                               *)
NothingToDo ==
  /\ At("receive", "managed")
  /\ UNCHANGED <<stop, mode, attempt, session, durable, platform, history>>

(* INFORM_REQUEST cannot be sent, or the receive fails for another reason  *)
(* than its timeout.                                                       *)
TransportFailure ==
  /\ At("receive", "pause")
  /\ DropSession
  /\ UNCHANGED <<stop, durable, platform, agreed, acked, touched, forget>>

(* The appliers run in order and the first failure ends them: nothing, a   *)
(* part or all of the update is on the platform.                           *)
ApplyOutcome == {"rejected", "partial", "applied"}

PlatformAfter(outcome, config) ==
  CASE outcome = "rejected" -> platform
    [] outcome = "partial"  -> Mixed
    [] outcome = "applied"  -> config

(* The SET_RESPONSE left, or not.  The local version follows it only when  *)
(* it said errcode 0, and only to a version that fits.                     *)
Answer(r, errcode, answered) ==
  LET told == ResponseVersion(r, session.version, errcode) IN
  IF answered
  THEN /\ pc' = "savecfg"
       /\ session' = [session EXCEPT
                        !.version = StoredVersion(r, session.version, errcode)]
       /\ IF errcode = "ok" /\ told \in Version
          THEN Report([session EXCEPT !.version = told])
          ELSE UNCHANGED <<reported, agreed>>
  ELSE pc' = "managed" /\ UNCHANGED <<session, reported, agreed>>

(* A SET_REQUEST no applier has to see: refused, or nothing to do.  Without *)
(* an answer (not answerable, or the send failed) the loop just goes on.   *)
HandlePlainSet(r, answered) ==
  LET errcode == Errcode(r, FALSE) IN
  /\ pc = "receive"
  /\ r.kind # "actionable"
  /\ answered => Answerable(r, session.version)
  /\ Answer(r, errcode, answered)
  /\ UNCHANGED <<stop, mode, attempt, durable, platform, acked, touched, saved, forget>>

(* An actionable SET_REQUEST with content config: the appliers run first,  *)
(* then the answer is built and sent, if it can be.                        *)
HandleActionableSet(r, config, outcome, answered) ==
  LET errcode == Errcode(r, outcome = "applied") IN
  /\ pc = "receive"
  /\ r.kind = "actionable"
  /\ answered => Answerable(r, session.version)
  /\ platform' = PlatformAfter(outcome, config)
  /\ Answer(r, errcode, answered)
  /\ IF answered /\ errcode = "ok"
     THEN acked' = config /\ touched' = FALSE
     ELSE acked' = acked /\ touched' = (touched \/ outcome # "rejected")
  /\ UNCHANGED <<stop, mode, attempt, durable, saved, forget>>

(* Mutant: no save after a SET_REQUEST.                                    *)
SaveConfigSkipped ==
  /\ At("savecfg", "managed")
  /\ UNCHANGED <<stop, mode, attempt, session, durable, platform, history>>

(* Every answered SET_REQUEST is followed by a save, failed ones included. *)
SaveConfig ==
  /\ At("savecfg", "managed")
  /\ SaveState
  /\ UNCHANGED <<stop, mode, attempt, session, platform, reported, agreed, acked, touched, forget>>

(* FORGET_REQUEST(_NO_RESET): nothing is cleared unless the answer left.   *)
HandleForget ==
  /\ At("receive", "clear")
  /\ forget' = "replied"
  /\ UNCHANGED <<stop, mode, attempt, session, durable, platform, reported, agreed, acked, touched, saved>>

(* Mutant: the ending session saves its state once more.                   *)
ClearStateThenSave ==
  /\ At("clear", "pause")
  /\ DropSession
  /\ Store!Replace(session) /\ forget' = "cleared"
  /\ UNCHANGED <<stop, platform, agreed, acked, touched>>

(* repository.clear(): a failure is logged; the session ends either way.   *)
ClearState ==
  /\ At("clear", "pause")
  /\ DropSession
  /\ \/ Store!Erase(NoState) /\ forget' = "cleared"
     \/ UNCHANGED <<durable, forget>>
  /\ UNCHANGED <<stop, platform, agreed, acked, touched>>

Pause ==
  /\ At("pause", "start")
  /\ UNCHANGED <<stop, mode, attempt, session, durable, platform, history>>

(***************************************************************************)
(* Signals, procd and the flash                                            *)
(***************************************************************************)
StopSignal ==
  /\ pc # "stopped"
  /\ ~stop
  /\ stop' = TRUE
  /\ UNCHANGED <<pc, mode, attempt, session, durable, platform, history>>

FreshProcess ==
  /\ pc' = "start"
  /\ stop' = FALSE
  /\ DropSession
  /\ UNCHANGED <<platform, agreed, acked, touched>>

(* The service is started, or procd respawns a process that died.          *)
ProcessStart ==
  /\ FreshProcess
  /\ UNCHANGED <<durable, forget>>

PowerLoss ==
  /\ FreshProcess
  /\ Store!Recover
  /\ forget' = IF forget = "cleared" /\ disk' # NoState THEN "replied" ELSE forget

Writeback ==
  /\ flash # {disk}
  /\ Store!Settle
  /\ UNCHANGED <<pc, stop, mode, attempt, session, platform, history>>

Reconnect ==
  \/ LoadFound
  \/ LoadNothing
  \/ AttemptReconnect
  \/ GiveUpReconnect

DiscoverAndAdopt ==
  \/ OpenUdp
  \/ SendDiscovery
  \/ ListenHead
  \/ NoPreAdopt
  \/ \E c \in Controllers : PreAdopt(c)
  \/ Backoff

ConnectAndSync ==
  \/ Connected
  \/ Verified
  \/ \E f \in OptField : InitialSync(f)
  \/ ConnectFailed

ManagedLoop ==
  \/ PersistSession
  \/ LoopHead
  \/ NothingToDo
  \/ TransportFailure
  \/ \E r \in SetRequest, answered \in BOOLEAN :
       \/ HandlePlainSet(r, answered)
       \/ \E config \in Configs, outcome \in ApplyOutcome :
            HandleActionableSet(r, config, outcome, answered)
  \/ SaveConfig
  \/ HandleForget
  \/ ClearState

Next ==
  \/ StopAtHead
  \/ Reconnect
  \/ DiscoverAndAdopt
  \/ ConnectAndSync
  \/ ManagedLoop
  \/ Pause
  \/ StopSignal
  \/ ProcessStart
  \/ PowerLoss
  \/ Writeback

Spec == Init /\ [][Next]_vars

(***************************************************************************)
(* Fairness                                                                *)
(***************************************************************************)
AgentStep ==
  \/ StopAtHead
  \/ Reconnect
  \/ OpenUdp
  \/ SendDiscovery
  \/ ListenHead
  \/ NoPreAdopt
  \/ Backoff
  \/ ConnectAndSync
  \/ PersistSession
  \/ LoopHead
  \/ NothingToDo
  \/ SaveConfig
  \/ ClearState
  \/ Pause

(* Where the agent makes a call that nothing bounds: it runs a program     *)
(* (iw list at startup, the tools of an inform or of an applier) and waits *)
(* for its end, or it sends over TLS, where ssl_write_all tries again as   *)
(* long as the peer does not read.  A signal ends neither.                 *)
MayBlock == {"start", "verify", "negotiate", "receive"}

(* Elsewhere the process runs on: the other socket calls have their        *)
(* timeouts, the sleeps their delay, and file operations end.              *)
FairSpec == Spec /\ WF_vars(AgentStep /\ pc \notin MayBlock)

(* The agent is caught in one of those calls for ever.                     *)
Hangs == \E place \in MayBlock : <>[](pc = place)

(* A controller that keeps answering a device it does not know: each step  *)
(* of discovery and of a fresh adoption succeeds when tried often enough.  *)
(* Nothing is assumed of managed reconnects, which may all fail (the       *)
(* controller lost the device's context).                                  *)
AdoptingController ==
  /\ SF_vars(OpenUdp /\ pc' = "discover")
  /\ SF_vars(SendDiscovery /\ pc' = "listen")
  /\ SF_vars(\E c \in Controllers : PreAdopt(c))
  /\ SF_vars(mode = "fresh" /\ Connected)
  /\ SF_vars(mode = "fresh" /\ Verified)
  /\ SF_vars(mode = "fresh" /\ \E f \in OptField : InitialSync(f))

(***************************************************************************)
(* Properties                                                              *)
(***************************************************************************)
(* Types; no more than the configured reconnect attempts are made, and     *)
(* versions in memory and on disk fit 32 bits.                             *)
TypeOK ==
  /\ pc \in Idle \cup Seeking \cup Connecting \cup InSession
  /\ stop \in BOOLEAN
  /\ mode \in {"managed", "fresh"}
  /\ attempt \in 0..ReconnectAttempts
  /\ session \in ManagedState \cup {NoState}
  /\ disk \in ManagedState \cup {NoState}
  /\ flash \in SUBSET (ManagedState \cup {NoState})
  /\ platform \in Configs \cup {Factory, Mixed}
  /\ reported \in ManagedState \cup {NoState}
  /\ agreed \in SUBSET ManagedState
  /\ acked \in Configs \cup {Factory}
  /\ touched \in BOOLEAN
  /\ saved \in BOOLEAN
  /\ forget \in {"no", "replied", "cleared"}

(* Whatever a crash or a power loss brings back, the agent reconnects as   *)
(* managed only with a state its controller confirmed: a version reaches   *)
(* the disk only after a completed sync or an answered successful SET.     *)
PersistedWasAgreed ==
  /\ (flash \cup {disk}) \ {NoState} \subseteq agreed
  /\ pc \in Connecting /\ mode = "managed" => session \in agreed

(* While the managed loop runs, the disk holds the state controller and    *)
(* agent last agreed on (a version both can store), unless the last save   *)
(* failed: a killed process reconnects with the version it last reported.  *)
DiskTracksSession ==
  pc \in {"managed", "receive"} /\ saved => disk = reported

(* errcode 0 means applied: as long as no later SET_REQUEST reached the    *)
(* appliers, the platform runs the content of the last one the agent       *)
(* answered with success, across reconnects and restarts.                  *)
AckedConfigIsRunning == ~touched => platform = acked

(* Once clear() succeeded the agent goes through discovery and adoption    *)
(* before it connects again; only a power loss that undoes the unlink can  *)
(* bring the forgotten session back.                                       *)
ClearedStaysCleared == forget = "cleared" /\ pc \in Connecting => mode = "fresh"

(* "Handles FORGET by replying and clearing managed state" (README): once  *)
(* FORGET was answered the agent does not reconnect as managed.            *)
ForgetIsFinal == forget # "no" /\ pc \in Connecting => mode = "fresh"

(* SIGINT and SIGTERM end the daemon from wherever it is, whatever the     *)
(* network does, unless the process dies first or hangs in a program it    *)
(* runs or in a send to a peer that stopped reading.  "Exits on            *)
(* SIGINT/SIGTERM" (README.md:346) makes no such exception; the code does. *)
StopIsHonoured == Hangs \/ (stop ~> (pc = "stopped" \/ ~stop))

ProcessDies == pc \notin {"start", "pause"} /\ pc' = "start"

(* With a controller that keeps answering, and unless the process hangs,   *)
(* keeps dying or is told to stop, the daemon is managed again and again:  *)
(* failed reconnects, lost datagrams and broken handshakes only delay it   *)
(* (README "Reconnects after transport failures").                         *)
AlwaysManagedAgain ==
  AdoptingController /\ <>[][~ProcessDies]_vars
    => Hangs \/ []<>(pc \in InSession \cup {"stopped"} \/ stop)

LifecycleStateOf ==
  CASE pc \in Idle      -> "disconnected"
    [] pc \in Seeking   -> "discovering"
    [] pc = "tls"       -> IF mode = "managed" THEN "rebuilding" ELSE "adopting"
    [] pc = "verify"    -> "verifying"
    [] pc = "negotiate" -> "negotiating"
    [] pc \in InSession -> "managed"

Session == INSTANCE Lifecycle WITH state <- LifecycleStateOf

(* The daemon moves through the states of lifecycle/session.cpp along the  *)
(* transitions can_transition allows, crashes and signals included.        *)
FollowsLifecycle == Session!Spec
=============================================================================
