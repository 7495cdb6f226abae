--------------------------- MODULE BringupProofs ---------------------------
(***************************************************************************)
(* The agent as a service for every set of configuration files, of states  *)
(* left on disk and of datagrams, every number of edits, respawns and      *)
(* reconnect attempts and every length of the socket's queue.              *)
(***************************************************************************)
EXTENDS Bringup, SequenceTheorems, TLAPS

(* A direct reconnect is tried only with a state of this device and host.  *)
ReconnectsUsable ==
  pc = "reconnect" \/ (pc = "connect" /\ cause = None) => Usable(disk)

ContactInv ==
  /\ queue \in Seq(Datagrams)
  /\ ReconnectsUsable
  /\ ContactsConfigured
  /\ TargetFromOneDatagram

(* The process was started for file f.                                     *)
StartedFor(f) ==
  /\ Starts(f) /\ env = InitEnv(f)
  /\ term \/ f = started

(* What procd keeps is what start_service made of the file it read, and a  *)
(* process has the environment of a file that enables it, that file unless *)
(* it was told to end.                                                     *)
ServiceInv ==
  /\ file \in Files /\ started \in Files
  /\ instance = StartService(started)
  /\ pc # "none" => \E f \in Files : StartedFor(f)

(* A process that got past load_daemon_config has settings of one file.    *)
SettingsInv ==
  pc \in Running =>
    \E f \in Files : /\ settings = Settings(f, env)
                     /\ ~LoadFails(f, env) /\ Enabled(settings)

-----------------------------------------------------------------------------
(* A new process, or none, has no connection and no datagrams.             *)
LEMMA FreshInv ==
  ASSUME NEW e, Fresh(e)
  PROVE  ContactInv' /\ pc' \in {"none", "exec"} /\ env' = e
<1>1. pc' \in {"none", "exec"} /\ env' = e /\ queue' = <<>>
  BY DEF Fresh
<1>2. queue' \in Seq(Datagrams)
  BY <1>1, EmptySeq
<1>3. QED
  BY <1>1, <1>2 DEF ContactInv, ReconnectsUsable, ContactsConfigured, TargetFromOneDatagram

(* Steps of the service that leave the process alone.                      *)
LEMMA AloneInv ==
  ASSUME ContactInv, UNCHANGED <<pc, settings, queue, target, disk, cause>>
  PROVE  ContactInv'
<1>1. /\ pc' = pc /\ settings' = settings /\ queue' = queue /\ target' = target
      /\ disk' = disk /\ cause' = cause
  OBVIOUS
<1>2. Host' = Host /\ Mac' = Mac /\ ManagePort' = ManagePort
  BY <1>1 DEF Host, Mac, ManagePort
<1>3. Usable(disk)' = Usable(disk)
  BY <1>1, <1>2 DEF Usable
<1>4. Text(<<"controller", "controller_id">>)' = Text(<<"controller", "controller_id">>)
  BY <1>1 DEF Text
<1>5. QED
  BY <1>1, <1>2, <1>3, <1>4
     DEF ContactInv, ReconnectsUsable, ContactsConfigured, TargetFromOneDatagram

(* Steps that make no connection and need no state.                        *)
LEMMA UnconnectedInv ==
  ASSUME queue' \in Seq(Datagrams), pc' \notin {"reconnect", "connect", "session"}
  PROVE  ContactInv'
  BY DEF ContactInv, ReconnectsUsable, ContactsConfigured, TargetFromOneDatagram

(* A state is tried only if load() returned it.                            *)
LEMMA LoadStateInv == ContactInv /\ LoadState => ContactInv'
<1> SUFFICES ASSUME ContactInv, LoadState
             PROVE  ContactInv'
  OBVIOUS
<1>1. /\ UNCHANGED <<settings, queue, disk>>
      /\ pc' = "open" \/ (pc' = "reconnect" /\ Usable(disk))
  BY DEF LoadState
<1>2. Usable(disk)' = Usable(disk)
  BY <1>1 DEF Usable, Mac, Host
<1>3. queue' \in Seq(Datagrams)
  BY <1>1 DEF ContactInv
<1>4. QED
  BY <1>1, <1>2, <1>3
     DEF ContactInv, ReconnectsUsable, ContactsConfigured, TargetFromOneDatagram

(* settings_for_managed_state: the host of the state is the configured one *)
(* because load() took no other.                                           *)
LEMMA TryReconnectInv == ContactInv /\ TryReconnect => ContactInv'
<1> SUFFICES ASSUME ContactInv, TryReconnect
             PROVE  ContactInv'
  OBVIOUS
<1>1. /\ pc = "reconnect" /\ pc' = "connect" /\ cause' = None
      /\ target'.mac = Mac /\ target'.host = disk.host
      /\ UNCHANGED <<settings, queue, disk>>
  BY DEF TryReconnect
<1>2. Usable(disk)
  BY <1>1 DEF ContactInv, ReconnectsUsable
<1>3. Usable(disk)' /\ Host' = Host /\ Mac' = Mac
  BY <1>1, <1>2 DEF Usable, Mac, Host
<1>4. target'.host = Host' /\ target'.mac = Mac'
  BY <1>1, <1>2, <1>3 DEF Usable
<1>5. queue' \in Seq(Datagrams)
  BY <1>1 DEF ContactInv
<1>6. QED
  BY <1>1, <1>3, <1>4, <1>5
     DEF ContactInv, ReconnectsUsable, ContactsConfigured, TargetFromOneDatagram

(* What parse_pre_adopt_request takes from a datagram.                     *)
ConfiguredId == Text(<<"controller", "controller_id">>)
OfferController(d) ==
  IF ConfiguredId = "" /\ d.dest \notin SiteIds THEN d.dest ELSE ConfiguredId
OfferDest(d) == IF d.dest \in SiteIds THEN d.dest ELSE ""
OfferPort(d) == IF d.port \in 1..65535 THEN d.port ELSE ManagePort

(* They are the fields of the parsed offer.                                *)
LEMMA ParsedOffer ==
  ASSUME NEW d
  PROVE  /\ ParsePreAdopt(d).controller = OfferController(d)
         /\ ParsePreAdopt(d).dest = OfferDest(d)
         /\ ParsePreAdopt(d).port = OfferPort(d)
<1>1. ParsePreAdopt(d) = [dest |-> OfferDest(d), controller |-> OfferController(d),
                          port |-> OfferPort(d)]
  BY DEF ParsePreAdopt, OfferDest, OfferController, OfferPort, ConfiguredId
<1>2. QED
  BY <1>1

(* An adoption takes host and MAC address from the settings and the rest   *)
(* from the datagram.                                                      *)
LEMMA ReceivePreAdoptInv == ContactInv /\ ReceivePreAdopt => ContactInv'
<1> SUFFICES ASSUME ContactInv, ReceivePreAdopt
             PROVE  ContactInv'
  OBVIOUS
<1> DEFINE d == Head(queue)
<1>1. /\ queue # <<>> /\ IsOffer(d) /\ pc' = "connect" /\ queue' = Tail(queue)
      /\ cause' = d /\ settings' = settings
      /\ target' = [mac |-> Mac, host |-> Host, controller |-> ParsePreAdopt(d).controller,
                    port |-> ParsePreAdopt(d).port, dest |-> ParsePreAdopt(d).dest,
                    site |-> Text(<<"controller", "site_id">>)]
  BY DEF ReceivePreAdopt
<1>2. d \in Datagrams /\ queue' \in Seq(Datagrams)
  BY <1>1, HeadTailProperties DEF ContactInv
<1>3. cause' # None
  BY <1>1, <1>2, BringupAssumption
<1>4. Host' = Host /\ Mac' = Mac /\ ManagePort' = ManagePort /\ ConfiguredId' = ConfiguredId
  <2>1. Host' = Host /\ Mac' = Mac
    BY <1>1 DEF Host, Mac
  <2>2. ManagePort' = ManagePort
    BY <1>1 DEF ManagePort
  <2>3. ConfiguredId' = ConfiguredId
    BY <1>1 DEF ConfiguredId, Text
  <2>4. QED
    BY <2>1, <2>2, <2>3
<1>5. target'.host = Host' /\ target'.mac = Mac'
  BY <1>1, <1>4
<1> HIDE DEF d
<1>6. /\ target'.controller = OfferController(d) /\ target'.dest = OfferDest(d)
      /\ target'.port = OfferPort(d) /\ OfferController(d) # ""
  BY <1>1, ParsedOffer DEF IsOffer
<1>7. TargetFromOneDatagram'
  <2>1. target'.controller = IF ConfiguredId' # "" THEN ConfiguredId' ELSE cause'.dest
    BY <1>1, <1>4, <1>6 DEF OfferController
  <2>2. target'.dest \in {"", cause'.dest}
    BY <1>1, <1>6 DEF OfferDest
  <2>3. target'.port \in {cause'.port, ManagePort'}
    <3> DEFINE valid == d.port \in 1..65535
    <3>1. OfferPort(d) = IF valid THEN d.port ELSE ManagePort
      BY DEF OfferPort
    <3> HIDE DEF valid
    <3>2. OfferPort(d) = d.port \/ OfferPort(d) = ManagePort
      BY <3>1
    <3>3. QED
      BY <1>1, <1>4, <1>6, <3>2, Zenon
  <2>4. QED
    BY <2>1, <2>2, <2>3 DEF TargetFromOneDatagram, ConfiguredId
<1>8. QED
  BY <1>1, <1>2, <1>3, <1>5, <1>7 DEF ContactInv, ReconnectsUsable, ContactsConfigured

(* A failed reconnect goes on with the state on disk, a failed adoption    *)
(* back to the socket.                                                     *)
LEMMA ConnectFailsInv == ContactInv /\ ConnectFails => ContactInv'
<1> SUFFICES ASSUME ContactInv, ConnectFails
             PROVE  ContactInv'
  OBVIOUS
<1>1. /\ pc = "connect" /\ UNCHANGED <<settings, queue, disk>>
      /\ (cause = None /\ pc' = "reconnect") \/ pc' = "announce"
  BY DEF ConnectFails
<1>2. queue' \in Seq(Datagrams) /\ (cause = None => Usable(disk))
  BY <1>1 DEF ContactInv, ReconnectsUsable
<1>3. Usable(disk)' = Usable(disk)
  BY <1>1 DEF Usable, Mac, Host
<1>4. QED
  BY <1>1, <1>2, <1>3
     DEF ContactInv, ReconnectsUsable, ContactsConfigured, TargetFromOneDatagram

(* The session keeps the identity of the connection.                       *)
LEMMA AdoptedInv == ContactInv /\ Adopted => ContactInv'
<1> SUFFICES ASSUME ContactInv, Adopted
             PROVE  ContactInv'
  OBVIOUS
<1>1. /\ pc = "connect" /\ pc' = "session" /\ queue' = <<>>
      /\ UNCHANGED <<settings, target, cause>>
  BY DEF Adopted
<1>2. queue' \in Seq(Datagrams)
  BY <1>1, EmptySeq
<1>3. target.host = Host /\ target.mac = Mac
  BY <1>1 DEF ContactInv, ContactsConfigured
<1>4. target'.host = Host' /\ target'.mac = Mac'
  BY <1>1, <1>3 DEF Host, Mac
<1>5. QED
  BY <1>1, <1>2, <1>4
     DEF ContactInv, ReconnectsUsable, ContactsConfigured, TargetFromOneDatagram

(* A datagram that arrives changes nothing of a connection being made.     *)
LEMMA ArrivesInv ==
  ASSUME NEW d \in Datagrams, ContactInv, Arrives(d)
  PROVE  ContactInv'
<1>1. /\ queue' = Append(queue, d)
      /\ UNCHANGED <<pc, settings, target, disk, cause>>
  BY DEF Arrives
<1>2. queue' \in Seq(Datagrams)
  BY <1>1, AppendProperties DEF ContactInv
<1>3. Host' = Host /\ Mac' = Mac /\ ManagePort' = ManagePort
  BY <1>1 DEF Host, Mac, ManagePort
<1>4. Usable(disk)' = Usable(disk)
  BY <1>1, <1>3 DEF Usable
<1>5. Text(<<"controller", "controller_id">>)' = Text(<<"controller", "controller_id">>)
  BY <1>1 DEF Text
<1>6. QED
  BY <1>1, <1>2, <1>3, <1>4, <1>5
     DEF ContactInv, ReconnectsUsable, ContactsConfigured, TargetFromOneDatagram

(* The steps of the process that make no connection.                       *)
Preparing ==
  \/ ConfigLoaded \/ GiveUpReconnect \/ OpenSocket \/ SendDiscovery \/ ReceiveTimeout
  \/ ReceiveOther \/ SessionEnds

(* They keep the invariant.                                                *)
LEMMA PreparingInv == ContactInv /\ Preparing => ContactInv'
<1> SUFFICES ASSUME ContactInv, Preparing
             PROVE  ContactInv'
  OBVIOUS
<1>1. /\ pc' \in {"load", "open", "announce", "await"}
      /\ queue' = queue \/ queue' = <<>> \/ (queue # <<>> /\ queue' = Tail(queue))
  BY DEF Preparing, ConfigLoaded, GiveUpReconnect, OpenSocket, SendDiscovery, ReceiveTimeout,
     ReceiveOther, SessionEnds
<1>2. queue \in Seq(Datagrams) /\ <<>> \in Seq(Datagrams)
  BY EmptySeq DEF ContactInv
<1>3. queue # <<>> => Tail(queue) \in Seq(Datagrams)
  BY <1>2, HeadTailProperties
<1>4. queue' \in Seq(Datagrams)
  BY <1>1, <1>2, <1>3, Zenon
<1>5. QED
  BY <1>1, <1>4, UnconnectedInv

(* Whatever procd and the administrator do keeps the invariant.            *)
LEMMA ServiceStepInv ==
  ContactInv /\ (ConfigRefused \/ (\E f \in Files : Edit(f)) \/ Reload \/ Terminated \/ Dies)
    => ContactInv'
<1> SUFFICES ASSUME ContactInv,
                    ConfigRefused \/ (\E f \in Files : Edit(f)) \/ Reload \/ Terminated \/ Dies
             PROVE  ContactInv'
  OBVIOUS
<1>1. CASE ConfigRefused \/ Terminated \/ Dies
  <2>1. \E e : Fresh(e)
    BY <1>1, Zenon DEF ConfigRefused, Terminated, Dies, Respawn
  <2>2. QED
    BY <2>1, FreshInv
<1>2. CASE Reload
  <2>1. \/ Fresh(StartService(file))
        \/ UNCHANGED <<pc, settings, queue, target, disk, cause>>
    BY <1>2 DEF Reload
  <2>2. QED
    BY <2>1, FreshInv, AloneInv
<1>3. CASE \E f \in Files : Edit(f)
  <2>1. UNCHANGED <<pc, settings, queue, target, disk, cause>>
    BY <1>3 DEF Edit
  <2>2. QED
    BY <2>1, AloneInv
<1>4. QED
  BY <1>1, <1>2, <1>3

(* The invariant of the identities a connection is made with.              *)
THEOREM ContactCorrect == Spec => []ContactInv
<1>1. Init => ContactInv
  <2> SUFFICES ASSUME Init
               PROVE  ContactInv
    OBVIOUS
  <2>1. queue = <<>> /\ pc \in {"exec", "none"}
    BY DEF Init
  <2>2. queue \in Seq(Datagrams)
    BY <2>1, EmptySeq
  <2>3. QED
    BY <2>1, <2>2 DEF ContactInv, ReconnectsUsable, ContactsConfigured, TargetFromOneDatagram
<1>2. ContactInv /\ [Next]_vars => ContactInv'
  <2> SUFFICES ASSUME ContactInv, [Next]_vars
               PROVE  ContactInv'
    OBVIOUS
  <2>1. CASE Preparing \/ LoadState \/ TryReconnect \/ ReceivePreAdopt \/ ConnectFails \/ Adopted
    BY <2>1, PreparingInv, LoadStateInv, TryReconnectInv, ReceivePreAdoptInv, ConnectFailsInv,
       AdoptedInv
  <2>2. CASE \E d \in Datagrams : Arrives(d)
    BY <2>2, ArrivesInv
  <2>3. CASE ConfigRefused \/ (\E f \in Files : Edit(f)) \/ Reload \/ Terminated \/ Dies
    BY <2>3, ServiceStepInv
  <2>4. CASE UNCHANGED vars
    BY <2>4, AloneInv DEF vars
  <2>5. QED
    BY <2>1, <2>2, <2>3, <2>4 DEF Next, Agent, Preparing
<1>3. QED
  BY <1>1, <1>2, PTL DEF Spec

(* Every connection goes to the host this process is configured with, as   *)
(* the device it is configured to be, whatever state is on disk.           *)
THEOREM ContactsOnlyConfigured == Spec => []ContactsConfigured
<1>1. ContactInv => ContactsConfigured
  BY DEF ContactInv
<1>2. QED
  BY <1>1, ContactCorrect, PTL

(* An adoption never mixes what two offers said.                           *)
THEOREM OneDatagram == Spec => []TargetFromOneDatagram
<1>1. ContactInv => TargetFromOneDatagram
  BY DEF ContactInv
<1>2. QED
  BY <1>1, ContactCorrect, PTL

-----------------------------------------------------------------------------
(* Steps of a running process keep its settings and its environment.       *)
LEMMA RunningKeeps ==
  ASSUME pc \in Running,
         LoadState \/ TryReconnect \/ GiveUpReconnect \/ OpenSocket \/ SendDiscovery
         \/ ReceiveTimeout \/ ReceiveOther \/ ReceivePreAdopt \/ ConnectFails \/ Adopted
         \/ SessionEnds \/ (\E d \in Datagrams : Arrives(d))
  PROVE  UNCHANGED <<service, env, settings, started>>
  BY DEF LoadState, TryReconnect, GiveUpReconnect, OpenSocket, SendDiscovery, ReceiveTimeout,
     ReceiveOther, ReceivePreAdopt, ConnectFails, Adopted, SessionEnds, Arrives

(* These steps are only taken by a running process.                        *)
LEMMA OnlyRunning ==
  ASSUME LoadState \/ TryReconnect \/ GiveUpReconnect \/ OpenSocket \/ SendDiscovery
         \/ ReceiveTimeout \/ ReceiveOther \/ ReceivePreAdopt \/ ConnectFails \/ Adopted
         \/ SessionEnds \/ (\E d \in Datagrams : Arrives(d))
  PROVE  pc \in Running
  BY DEF LoadState, TryReconnect, GiveUpReconnect, OpenSocket, SendDiscovery, ReceiveTimeout,
     ReceiveOther, ReceivePreAdopt, ConnectFails, Adopted, SessionEnds, Arrives, Running,
     Discovering

(* A new process has the environment start_service made of the file, which *)
(* then enables it.                                                        *)
LEMMA FreshStarted ==
  ASSUME started' \in Files, Fresh(StartService(started')) \/ Fresh(NoInstance)
  PROVE  pc' # "none" => \E f \in Files : StartedFor(f)'
<1> SUFFICES ASSUME pc' # "none"
             PROVE  StartedFor(started)'
  OBVIOUS
<1>1. env' = StartService(started') /\ StartService(started') # NoInstance
  BY DEF Fresh
<1>2. Starts(started') /\ env' = InitEnv(started')
  BY <1>1, Zenon DEF StartService
<1>3. QED
  BY <1>2 DEF StartedFor

(* The process ends and procd starts it again with the environment it      *)
(* keeps, or not at all.                                                   *)
LEMMA RestartInv ==
  ASSUME ServiceInv, ConfigRefused \/ Terminated \/ Dies
  PROVE  ServiceInv' /\ SettingsInv'
<1>1. UNCHANGED <<file, started, instance>>
  BY DEF ConfigRefused, Terminated, Dies
<1>2. Fresh(instance) \/ Fresh(NoInstance)
  BY Zenon DEF ConfigRefused, Terminated, Dies, Respawn
<1>3. pc' \notin Running
  BY <1>2 DEF Fresh, Running, Discovering
<1>4. /\ file' \in Files /\ started' \in Files
      /\ instance = StartService(started') /\ instance' = StartService(started)'
  BY <1>1 DEF ServiceInv, StartService
<1>5. pc' # "none" => \E f \in Files : StartedFor(f)'
  BY <1>2, <1>4, FreshStarted
<1>6. QED
  BY <1>3, <1>4, <1>5 DEF ServiceInv, SettingsInv

(* The service is stopped and started with the file as it is now.          *)
LEMMA ReloadInv ==
  ASSUME ServiceInv, SettingsInv, Reload
  PROVE  ServiceInv' /\ SettingsInv'
<1>1. /\ file' = file /\ started' = file /\ instance' = StartService(file)
      /\ \/ Fresh(StartService(file))
         \/ term' = TRUE /\ UNCHANGED <<pc, env, settings>>
  BY DEF Reload
<1>2. /\ file' \in Files /\ started' \in Files
      /\ StartService(file) = StartService(started') /\ instance' = StartService(started)'
  BY <1>1 DEF ServiceInv, StartService
<1>3. CASE Fresh(StartService(file))
  <2>1. pc' \notin Running
    BY <1>3 DEF Fresh, Running, Discovering
  <2>2. pc' # "none" => \E f \in Files : StartedFor(f)'
    BY <1>2, <1>3, FreshStarted
  <2>3. QED
    BY <1>2, <2>1, <2>2 DEF ServiceInv, SettingsInv
<1>4. CASE term' = TRUE /\ UNCHANGED <<pc, env, settings>>
  <2>1. pc' # "none" => \E f \in Files : StartedFor(f)'
    BY <1>4 DEF ServiceInv, StartedFor
  <2>2. SettingsInv'
    BY <1>4 DEF SettingsInv
  <2>3. QED
    BY <1>2, <2>1, <2>2 DEF ServiceInv
<1>5. QED
  BY <1>1, <1>3, <1>4

(* What the service keeps is what start_service made of one file, and a    *)
(* running process has the settings of one file under that environment.    *)
THEOREM ServiceCorrect == Spec => [](ServiceInv /\ SettingsInv)
<1>1. Init => ServiceInv /\ SettingsInv
  <2> SUFFICES ASSUME Init
               PROVE  ServiceInv /\ SettingsInv
    OBVIOUS
  <2>1. /\ file \in Files /\ started = file /\ instance = StartService(file)
        /\ env = instance /\ pc \in {"exec", "none"}
    BY DEF Init
  <2>2. pc \notin Running
    BY <2>1 DEF Running, Discovering
  <2>3. ASSUME pc # "none" PROVE StartedFor(started)
    <3>1. env = StartService(started) /\ StartService(started) # NoInstance
      BY <2>1, <2>3 DEF Init
    <3>2. Starts(started) /\ env = InitEnv(started)
      BY <3>1, Zenon DEF StartService
    <3>3. QED
      BY <3>2 DEF StartedFor
  <2>4. QED
    BY <2>1, <2>2, <2>3 DEF ServiceInv, SettingsInv
<1>2. ServiceInv /\ SettingsInv /\ [Next]_vars => ServiceInv' /\ SettingsInv'
  <2> SUFFICES ASSUME ServiceInv, SettingsInv, [Next]_vars
               PROVE  ServiceInv' /\ SettingsInv'
    OBVIOUS
  <2>1. CASE LoadState \/ TryReconnect \/ GiveUpReconnect \/ OpenSocket \/ SendDiscovery
             \/ ReceiveTimeout \/ ReceiveOther \/ ReceivePreAdopt \/ ConnectFails \/ Adopted
             \/ SessionEnds \/ (\E d \in Datagrams : Arrives(d))
    <3>1. pc \in Running
      BY <2>1, OnlyRunning
    <3>2. UNCHANGED <<file, instance, term, env, settings, started>>
      BY <2>1, <3>1, RunningKeeps DEF service
    <3>3. pc # "none" /\ StartService(started)' = StartService(started)
      BY <3>1, <3>2 DEF Running, Discovering, StartService
    <3>4. ServiceInv'
      BY <3>2, <3>3 DEF ServiceInv, StartedFor
    <3>5. SettingsInv'
      BY <3>1, <3>2 DEF SettingsInv
    <3>6. QED
      BY <3>4, <3>5
  <2>2. CASE ConfigLoaded
    <3>1. /\ UNCHANGED <<file, instance, term, env, started>> /\ pc = "exec"
          /\ settings' = Settings(file, env) /\ ~LoadFails(file, env)
          /\ Enabled(Settings(file, env))
      BY <2>2 DEF ConfigLoaded, service
    <3>2. StartService(started)' = StartService(started)
      BY <3>1 DEF StartService
    <3>3. ServiceInv'
      BY <3>1, <3>2 DEF ServiceInv, StartedFor
    <3>4. SettingsInv'
      BY <3>1 DEF SettingsInv, ServiceInv
    <3>5. QED
      BY <3>3, <3>4
  <2>3. CASE ConfigRefused \/ Terminated \/ Dies
    BY <2>3, RestartInv
  <2>4. CASE Reload
    BY <2>4, ReloadInv
  <2>5. CASE (\E f \in Files : Edit(f)) \/ UNCHANGED vars
    <3>1. /\ UNCHANGED <<pc, instance, term, env, settings, started>>
          /\ file' \in Files
      BY <2>5 DEF Edit, vars, ServiceInv
    <3>2. StartService(started)' = StartService(started)
      BY <3>1 DEF StartService
    <3>3. ServiceInv'
      BY <3>1, <3>2 DEF ServiceInv, StartedFor
    <3>4. SettingsInv'
      BY <3>1 DEF SettingsInv
    <3>5. QED
      BY <3>3, <3>4
  <2>6. QED
    BY <2>1, <2>2, <2>3, <2>4, <2>5 DEF Next, Agent
<1>3. QED
  BY <1>1, <1>2, PTL DEF Spec

(* Through every edit, reload, termination and respawn, and however script *)
(* and agent disagree about a file, a process runs only with the           *)
(* environment of a file that enables it for the script, the last one the  *)
(* service was started with unless it was told to end, and with the        *)
(* options of one file that enables it for the agent.                      *)
THEOREM RunsOnlyAsStarted == Spec => []RunsAsStarted
<1>1. ServiceInv /\ SettingsInv => RunsAsStarted
  <2> SUFFICES ASSUME ServiceInv, SettingsInv, pc \in Running
               PROVE  \E f, g \in Files :
                        /\ term \/ f = started
                        /\ settings = SettingsOf[f][g] /\ Enabled(settings)
                        /\ Starts(f) /\ env = InitEnv(f)
    BY DEF RunsAsStarted
  <2>1. PICK f \in Files : StartedFor(f)
    BY DEF ServiceInv, Running, Discovering
  <2>2. PICK g \in Files : settings = Settings(g, env) /\ Enabled(settings)
    BY DEF SettingsInv
  <2>3. SettingsOf[f][g] = Settings(g, InitEnv(f))
    BY DEF SettingsOf
  <2>4. QED
    BY <2>1, <2>2, <2>3 DEF StartedFor
<1>2. QED
  BY <1>1, ServiceCorrect, PTL

(* What validate_daemon_config asks of an enabled configuration: a host    *)
(* and a MAC address that are not empty.                                   *)
LEMMA ConfiguredTexts ==
  ASSUME NEW f, NEW e, settings = Settings(f, e), ~LoadFails(f, e), Enabled(settings)
  PROVE  Host # "" /\ Mac # ""
<1>1. ~Incomplete(settings)
  BY DEF LoadFails
<1>2. /\ Setting(settings, <<"controller", "host">>, "") # ""
      /\ Setting(settings, <<"device", "mac">>, "") # ""
  BY <1>1 DEF Incomplete
<1>3. QED
  BY <1>2 DEF Setting, Host, Mac

(* No connection is ever made without a host or without a MAC address,     *)
(* wherever they come from: the checks of load_daemon_config_from_text and *)
(* the comparison of JsonSessionStateRepository::load make it so together. *)
THEOREM NeverAnonymous ==
  Spec => [](pc \in {"connect", "session"} => target.host # "" /\ target.mac # "")
<1>1. ContactInv /\ ServiceInv /\ SettingsInv
        => (pc \in {"connect", "session"} => target.host # "" /\ target.mac # "")
  <2> SUFFICES ASSUME ContactInv, SettingsInv, pc \in {"connect", "session"}
               PROVE  target.host # "" /\ target.mac # ""
    OBVIOUS
  <2>1. target.host = Host /\ target.mac = Mac
    BY DEF ContactInv, ContactsConfigured
  <2>2. \E f \in Files : /\ settings = Settings(f, env)
                         /\ ~LoadFails(f, env) /\ Enabled(settings)
    BY DEF SettingsInv, Running
  <2>3. Host # "" /\ Mac # ""
    BY <2>2, ConfiguredTexts
  <2>4. QED
    BY <2>1, <2>3
<1>2. QED
  BY <1>1, ContactCorrect, ServiceCorrect, PTL
=============================================================================
