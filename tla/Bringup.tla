------------------------------ MODULE Bringup ------------------------------
(***************************************************************************)
(* The agent as a service: the configuration file is edited while procd    *)
(* starts, restarts and respawns the agent, and each process goes from its *)
(* settings and the managed state of an earlier one to a session with a    *)
(* controller, over a direct reconnect or over discovery.                  *)
(*                                                                         *)
(* Daemon follows one configuration through the steps of the protocol;     *)
(* here it is the identities that count: which host, controller id, port   *)
(* and MAC address a connection is made with, and where they come from.    *)
(* Handshake and managed loop are one place each (Adoption, Daemon).       *)
(***************************************************************************)
EXTENDS AgentConfig

CONSTANTS
  Files,         \* configurations an administrator may write
  Earlier,       \* managed states that earlier configurations may have left
  Datagrams,     \* what may arrive at the discovery socket
  SiteIds,       \* header.dest texts of 24 characters
  NoInstance,    \* procd has no instance of the agent
  NoState,       \* no managed state on disk
  NoTarget,      \* no connection is being made
  Attempts,      \* managed_reconnect_attempts, if not set
  Respawns,      \* respawn retries of the init script
  MaxQueue,      \* bound: datagrams waiting at the socket
  MaxEdits       \* bound: edits of the file

ASSUME BringupAssumption ==
  /\ Attempts \in Nat /\ Respawns \in Nat
  /\ MaxQueue \in Nat \ {0} /\ MaxEdits \in Nat
  /\ None \notin Datagrams
  /\ \A f \in Files : InitEnv(f) # NoInstance

VARIABLES
  file,       \* /etc/config/openomada
  pending,    \* a change of the file procd has not been told of
  edits,      \* edits so far, to bound the model
  instance,   \* the environment of the instance procd keeps, or NoInstance
  fails,      \* respawns since the instance was started
  term,       \* the process was told to end
  pc,         \* where the process is; "none" without a process
  env,        \* its environment
  settings,   \* of the process
  attempt,    \* direct reconnect attempts made
  queue,      \* datagrams waiting at the discovery socket
  target,     \* what the connection is made with, or the last one
  disk        \* the managed state

(* History, read by the properties only.                                   *)
VARIABLES
  started,    \* the file start_service last read
  cause       \* the datagram of the current adoption; None when reconnecting

service == <<file, pending, edits, instance, fails, term>>
vars == <<file, pending, edits, instance, fails, term, pc, env, settings, attempt,
          queue, target, disk, started, cause>>

Discovering == {"announce", "await"}
Running == {"load", "reconnect", "open", "connect", "session"} \cup Discovering

Host == settings[<<"controller", "host">>]
Mac == settings[<<"device", "mac">>]
Text(o) == Setting(settings, o, "")
ManagePort == Setting(settings, <<"agent", "manage_port">>, 29814)
ReconnectAttempts == Setting(settings, <<"agent", "managed_reconnect_attempts">>, Attempts)

(***************************************************************************)
(* procd and the init script                                               *)
(***************************************************************************)
(* A new process with this environment, or none.                           *)
Fresh(environment) ==
  /\ pc' = IF environment = NoInstance THEN "none" ELSE "exec"
  /\ env' = environment
  /\ settings' = <<>>
  /\ attempt' = 0
  /\ queue' = <<>>
  /\ target' = NoTarget
  /\ cause' = None

(* Mutant: start_service does not look at enabled.                         *)
StartServiceAlways(f) == InitEnv(f)

StartService(f) == IF Starts(f) THEN InitEnv(f) ELSE NoInstance

Init ==
  /\ file \in Files
  /\ pending = FALSE
  /\ edits = 0
  /\ instance = StartService(file)
  /\ fails = 0
  /\ term = FALSE
  /\ pc = IF instance = NoInstance THEN "none" ELSE "exec"
  /\ env = instance
  /\ settings = <<>>
  /\ attempt = 0
  /\ queue = <<>>
  /\ target = NoTarget
  /\ disk \in {NoState} \cup Earlier
  /\ started = file
  /\ cause = None

Edit(f) ==
  /\ edits < MaxEdits
  /\ edits' = edits + 1
  /\ file' = f
  /\ pending' = TRUE
  /\ UNCHANGED <<instance, fails, term, pc, env, settings, attempt, queue, target, disk,
                 started, cause>>

(* Mutant: a change of the file is no reason to restart.                   *)
ReloadIgnored ==
  /\ pending
  /\ pending' = FALSE
  /\ UNCHANGED <<file, edits, instance, fails, term, pc, env, settings, attempt, queue, target,
                 disk, started, cause>>

(* procd_add_reload_trigger, reload_service: the service is stopped and    *)
(* started with what the file says now; a process that runs is told to end *)
(* and the next one waits for it.                                          *)
Reload ==
  /\ pending
  /\ pending' = FALSE
  /\ instance' = StartService(file)
  /\ started' = file
  /\ fails' = 0
  /\ IF pc = "none"
     THEN /\ term' = FALSE
          /\ Fresh(StartService(file))
     ELSE /\ term' = TRUE
          /\ UNCHANGED <<pc, env, settings, attempt, queue, target, cause>>
  /\ UNCHANGED <<file, edits, disk>>

(* The process ends because it was told to, by SIGTERM or, when it is too  *)
(* slow, by SIGKILL.                                                       *)
Terminated ==
  /\ term
  /\ pc # "none"
  /\ term' = FALSE
  /\ Fresh(instance)
  /\ UNCHANGED <<file, pending, edits, instance, fails, disk, started>>

(* It ends otherwise: procd starts it again with the same environment, but *)
(* not more than Respawns times in a row.  A process that lasted starts    *)
(* the count anew.                                                         *)
Respawn(lasted) ==
  LET count == IF lasted THEN 0 ELSE fails IN
  IF count < Respawns
  THEN fails' = count + 1 /\ Fresh(instance)
  ELSE fails' = fails /\ Fresh(NoInstance)

Dies ==
  /\ ~term
  /\ pc \in Running
  /\ \E lasted \in BOOLEAN : Respawn(lasted)
  /\ UNCHANGED <<file, pending, edits, instance, term, disk, started>>

(***************************************************************************)
(* main, run_daemon                                                        *)
(***************************************************************************)
ConfigLoaded ==
  /\ pc = "exec"
  /\ ~LoadFails(file, env)
  /\ Enabled(Settings(file, env))
  /\ settings' = Settings(file, env)
  /\ pc' = "load"
  /\ UNCHANGED <<service, env, attempt, queue, target, disk, started, cause>>

(* The configuration is in error (exit 1) or switches the agent off (exit  *)
(* 0); both are the same to procd.                                         *)
ConfigRefused ==
  /\ pc = "exec"
  /\ ~term
  /\ LoadFails(file, env) \/ ~Enabled(Settings(file, env))
  /\ Respawn(FALSE)
  /\ UNCHANGED <<file, pending, edits, instance, term, disk, started>>

(* Mutant: load() does not look at the host the state belongs to.          *)
UsableOfAnyHost(state) == state # NoState /\ state.mac = Mac

(* JsonSessionStateRepository::load: a state of another device or another  *)
(* controller host is ignored, one that cannot be read is none.            *)
Usable(state) == state # NoState /\ state.mac = Mac /\ state.host = Host

LoadState ==
  /\ pc = "load"
  /\ pc' \in {"open"} \cup (IF Usable(disk) THEN {"reconnect"} ELSE {})
  /\ attempt' = 0
  /\ UNCHANGED <<service, env, settings, queue, target, disk, started, cause>>

(* settings_for_managed_state: the state's identity goes before that of    *)
(* the configuration.                                                      *)
TryReconnect ==
  /\ pc = "reconnect"
  /\ attempt < ReconnectAttempts
  /\ pc' = "connect"
  /\ cause' = None
  /\ target' = [mac |-> Mac, host |-> disk.host, controller |-> disk.controller,
                port |-> disk.port, dest |-> "",
                site |-> IF disk.site # "" THEN disk.site ELSE Text(<<"controller", "site_id">>)]
  /\ UNCHANGED <<service, env, settings, attempt, queue, disk, started>>

(* A rediscovery datagram is sent; its answers go to a socket of its own.  *)
GiveUpReconnect ==
  /\ pc = "reconnect"
  /\ attempt >= ReconnectAttempts
  /\ pc' = "open"
  /\ UNCHANGED <<service, env, settings, attempt, queue, target, disk, started, cause>>

(***************************************************************************)
(* discover_and_adopt                                                      *)
(***************************************************************************)
(* UdpDiscoveryTransport::open, with a fresh socket each time.             *)
OpenSocket ==
  /\ pc = "open"
  /\ pc' \in {"announce", "load"}
  /\ queue' = <<>>
  /\ UNCHANGED <<service, env, settings, attempt, target, disk, started, cause>>

SendDiscovery ==
  /\ pc = "announce"
  /\ pc' \in {"await", "announce"}
  /\ UNCHANGED <<service, env, settings, attempt, queue, target, disk, started, cause>>

(* Anybody may send to the socket, while an adoption is tried too.         *)
Arrives(d) ==
  /\ pc \in Discovering \/ (pc = "connect" /\ cause # None)
  /\ Len(queue) < MaxQueue
  /\ queue' = Append(queue, d)
  /\ UNCHANGED <<service, pc, env, settings, attempt, target, disk, started, cause>>

ReceiveTimeout ==
  /\ pc = "await"
  /\ queue = <<>>
  /\ pc' = "announce"
  /\ UNCHANGED <<service, env, settings, attempt, queue, target, disk, started, cause>>

(* Mutant: what an earlier datagram said is kept where this one is silent. *)
ParsePreAdoptSticky(d) ==
  LET configured == IF target # NoTarget THEN target.controller
                    ELSE Text(<<"controller", "controller_id">>)
  IN  [dest |-> IF d.dest \in SiteIds THEN d.dest ELSE "",
       controller |-> IF configured = "" /\ d.dest \notin SiteIds THEN d.dest ELSE configured,
       port |-> IF d.port \in 1..65535 THEN d.port
                ELSE ManagePort]

(* parse_pre_adopt_request: header.dest is a site id or, unless one is     *)
(* configured, the controller id.                                          *)
ParsePreAdopt(d) ==
  LET configured == Text(<<"controller", "controller_id">>)
  IN  [dest |-> IF d.dest \in SiteIds THEN d.dest ELSE "",
       controller |-> IF configured = "" /\ d.dest \notin SiteIds THEN d.dest ELSE configured,
       port |-> IF d.port \in 1..65535 THEN d.port
                ELSE ManagePort]

IsOffer(d) == d.kind = "PRE_ADOPT_REQUEST" /\ ParsePreAdopt(d).controller # ""

(* Mutant: what does not decode is a reason to open the socket again.      *)
ReceiveOtherReopening ==
  LET d == Head(queue) IN
  /\ pc = "await"
  /\ queue # <<>>
  /\ ~IsOffer(d)
  /\ pc' = IF d.kind = "undecodable" THEN "open" ELSE "await"
  /\ queue' = Tail(queue)
  /\ UNCHANGED <<service, env, settings, attempt, target, disk, started, cause>>

(* A frame that does not decode ends the round; any other message, and an  *)
(* offer without a controller id, is passed over.                          *)
ReceiveOther ==
  LET d == Head(queue) IN
  /\ pc = "await"
  /\ queue # <<>>
  /\ ~IsOffer(d)
  /\ pc' = IF d.kind = "undecodable" THEN "announce" ELSE "await"
  /\ queue' = Tail(queue)
  /\ UNCHANGED <<service, env, settings, attempt, target, disk, started, cause>>

ReceivePreAdopt ==
  LET d == Head(queue)
      offer == ParsePreAdopt(d)
  IN
  /\ pc = "await"
  /\ queue # <<>>
  /\ IsOffer(d)
  /\ pc' = "connect"
  /\ queue' = Tail(queue)
  /\ target' = [mac |-> Mac, host |-> Host, controller |-> offer.controller,
                port |-> offer.port, dest |-> offer.dest,
                site |-> Text(<<"controller", "site_id">>)]
  /\ cause' = d
  /\ UNCHANGED <<service, env, settings, attempt, disk, started>>

(***************************************************************************)
(* connect_and_sync, the session                                           *)
(***************************************************************************)
ConnectFails ==
  /\ pc = "connect"
  /\ IF cause = None
     THEN pc' = "reconnect" /\ attempt' = attempt + 1
     ELSE pc' = "announce" /\ UNCHANGED attempt
  /\ UNCHANGED <<service, env, settings, queue, target, disk, started, cause>>

(* managed_state_from_adoption and save_state, which may fail.             *)
Adopted ==
  /\ pc = "connect"
  /\ pc' = "session"
  /\ queue' = <<>>
  /\ disk' \in {disk, [mac |-> target.mac, host |-> target.host,
                       controller |-> target.controller, port |-> target.port,
                       site |-> target.site]}
  /\ UNCHANGED <<service, env, settings, attempt, target, started, cause>>

(* The connection is lost, or FORGET clears the state, if it can.          *)
SessionEnds ==
  /\ pc = "session"
  /\ pc' = "load"
  /\ disk' \in {disk, NoState}
  /\ target' = NoTarget
  /\ cause' = None
  /\ UNCHANGED <<service, env, settings, attempt, queue, started>>

Agent ==
  \/ ConfigLoaded
  \/ ConfigRefused
  \/ LoadState
  \/ TryReconnect
  \/ GiveUpReconnect
  \/ OpenSocket
  \/ SendDiscovery
  \/ ReceiveTimeout
  \/ ReceiveOther
  \/ ReceivePreAdopt
  \/ ConnectFails
  \/ Adopted

Next ==
  \/ Agent
  \/ SessionEnds
  \/ \E d \in Datagrams : Arrives(d)
  \/ \E f \in Files : Edit(f)
  \/ Reload
  \/ Terminated
  \/ Dies

Spec == Init /\ [][Next]_vars

(* The process runs, and a DISCOVERY it cannot send is sent in the end;    *)
(* but at startup it runs iw and in the handshake it sends over TLS, and   *)
(* neither need end.  procd ends what it told to end, with SIGKILL if it   *)
(* has to; whoever edits the file tells procd (reload_config).             *)
FairSpec ==
  /\ Spec
  /\ WF_vars(Agent /\ pc \notin {"exec", "connect"})
  /\ WF_vars(Terminated)
  /\ WF_vars(Reload)

(***************************************************************************)
(* Properties                                                              *)
(***************************************************************************)
(* "Honors `controller.enabled`" (README): procd keeps an instance exactly *)
(* when the option enabled of the controller section, as the agent reads   *)
(* it, was on when the service was last started.                           *)
HonorsEnabled ==
  (instance # NoInstance)
    <=> ByType(started, <<"controller", "enabled">>) \in TrueTexts

(* SettingsOf[f][g]: of a process started for file f that reads file g.    *)
SettingsOf == [f \in Files |-> [g \in Files |-> Settings(g, InitEnv(f))]]

(* Edits, reloads, terminations and respawns in any order: a process that  *)
(* got past load_daemon_config was started for one file, that enables the  *)
(* agent as the script reads it, and read one file, that enables it as the *)
(* agent does, and has its settings from these two only.  Unless it has    *)
(* been told to end, the first is the file the service was started with    *)
(* last: no process outlives the file it was started for unnoticed.        *)
RunsAsStarted ==
  pc \in Running =>
    \E f, g \in Files :
      /\ term \/ f = started
      /\ settings = SettingsOf[f][g] /\ Enabled(settings)
      /\ Starts(f) /\ env = InitEnv(f)

(* Whatever an earlier process left on disk and whatever the file said     *)
(* then, every connection goes to the host this process is configured      *)
(* with, as the device it is configured to be.                             *)
ContactsConfigured ==
  pc \in {"connect", "session"} => target.host = Host /\ target.mac = Mac

(* An adoption uses the controller id, port and destination of one         *)
(* datagram, completed from the configuration, and nothing of the offers   *)
(* before it.                                                              *)
TargetFromOneDatagram ==
  pc = "connect" /\ cause # None =>
    LET id == Text(<<"controller", "controller_id">>) IN
    /\ target.controller = IF id # "" THEN id ELSE cause.dest
    /\ target.dest \in {"", cause.dest}
    /\ target.port \in {cause.port, ManagePort}

(* Once the file is left alone the service catches up with it: there is a  *)
(* process only if the file enables it, and its settings are those of the  *)
(* file, although a respawned process meanwhile combines the environment   *)
(* of the old file with the options of the new one.                        *)
SettingsCatchUp ==
  <>[](pc \in Running =>
         Starts(file) /\ settings = SettingsOf[file][file])

(* An offer that reached the socket is not lost while adoptions of other   *)
(* offers fail and datagrams without use keep arriving: it is tried in the *)
(* end, unless the agent has a session, the process ends before, or the    *)
(* handshake with another controller hangs for ever.                       *)
OffersAreTried ==
  <>[](pc = "connect") \/
  \A d \in {e \in Datagrams : e.kind = "PRE_ADOPT_REQUEST"} :
    d \in Range(queue) /\ IsOffer(d)
      ~> (pc = "connect" /\ cause = d) \/ pc \in {"session", "exec", "none"}
=============================================================================
