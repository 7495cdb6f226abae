# TLA+ model of the openomada device agent

The repository is a native agent that makes an OpenWrt access point look like a
managed device to an Omada controller.  It is one process with one thread
(`src/src/cli/main.cpp`, `run_daemon`).  What makes it hard is not threads of its
own but what runs beside it: a controller that may answer late, twice or not at
all, a byte stream with a receive timeout, programs it starts (`uci`, `wifi`,
`ndsctl`, `ubus`), a flash file system, signals, procd and the power switch.

Paths below are relative to `src/`, the repository.

## 1. Inventory

| Component (source) | State | Operations | Talks to |
|---|---|---|---|
| Daemon loop (`src/cli/main.cpp`, `src/lifecycle/reconnect.cpp`) | stop flag, session, reconnect attempts | reconnect, discover and adopt, managed loop, save, clear, back off | everything below, in one thread |
| Session life cycle (`src/lifecycle/session.cpp`) | one of seven states | `transition` | the graph the daemon follows |
| Managed-state repository (`src/persistence/`) | one JSON file and its `.tmp` | `load`, `save`, `clear` | kernel, flash |
| Adoption handshake (`src/lifecycle/adoption.cpp`) | account, random keys, sequence number, result | five request/response exchanges, `receive_until` | transport, controller |
| Discovery (`src/lifecycle/discovery.cpp`, `src/transport/udp_discovery.cpp`) | UDP socket, sequence number | broadcast, wait for PRE_ADOPT_REQUEST | controller |
| Frame transport (`src/transport/tls_client.cpp`, `src/transport/socket.cpp`, `src/protocol/frame_codec.cpp`) | socket, TLS connection, bytes of the frame in progress | `connect`, `send_payload`, `receive_payload` with a timeout, `close` | controller |
| Managed requests (`src/lifecycle/managed_request_handler.cpp`, `src/application/configuration_exchange.cpp`) | configuration version | SET, GET, NOTIFY, portal auth, FORGET | parser, appliers, transport |
| Configuration parser (`src/application/configuration.cpp`) | none | JSON body to typed update, whole or not at all | request handler |
| Appliers (`src/application/configuration_applier.cpp`, `src/openwrt/uci.cpp`, `src/openwrt/opennds.cpp`) | the device's UCI configuration, staged and committed; openNDS | validate, plan, run commands in order | process executor |
| Capabilities (`src/platform/capabilities.cpp`) | computed once | detect | guard and UCI planner |
| Process executor (`src/openwrt/process.cpp`) | two pipes and a child per call | `run_process`, `write_file_atomically` | kernel, programs |
| Inform scheduler (`src/lifecycle/managed_session.cpp`) | next sequence number, next due time, start time | `poll`, `send_inform` | clock, managed loop |
| Inform snapshot (`src/openwrt/inform_provider.cpp`, `src/openwrt/telemetry.cpp`, `src/application/client_state.cpp`) | local to one call | query `ubus`, hostapd, leases, openNDS; merge | process executor |
| Agent configuration (`src/application/daemon_config.cpp`) | the settings of a process | parse file and environment, precedence, checks | daemon loop |
| Service (`openwrt/files/openomada.init`) | procd's instance and its environment | start, reload, respawn | the configuration file, the agent |
| JSON, MAC addresses, crypto, device profile | none that changes | parse, format, hash | all |

How they interact.  The init script reads the configuration file and starts the agent
with part of it in the environment; the agent reads the file again.  The daemon loads the managed state and tries to reconnect with
it; if that fails too often it rediscovers, and otherwise it discovers and is
adopted.  Both ends of this run the same handshake over a TLS connection.  Then the
managed loop alternates between the scheduler (is an inform due?), one
`receive_payload`, and the handler of what arrived.  A SET_REQUEST is parsed, goes
through the chain of appliers, is answered, and only then is the version stored in
the session and the session saved.  FORGET is answered and then the state cleared.

What is hard here, and what must hold:

* *Answer, apply, save in three steps* with failures and deaths between them: what is
  on disk must be something the controller agreed to, and what was acknowledged must
  be running.
* *A file replaced atomically* with a power loss anywhere: never half a document.
* *A handshake in lock step* on a connection that carries other messages too: a
  completed sync must be mutual, and must end.
* *Length-prefixed frames under a receive timeout*: framing must not get out of step.
* *Command sequences without rollback*: success must mean that the device serves the
  update although earlier ones failed halfway and left staged changes behind.
* *Pipes between two processes*: no deadlock, no zombie, no truncated "success".
* *A schedule on the wall clock in a thread that also waits and works*: informs must
  keep coming and must not come in bursts.
* *One snapshot out of many queries* while stations roam: no station reported that
  was not there, no count under the wrong SSID.

* *One configuration file, two readers*, and a managed state that outlives it: the agent
  must end up with the settings of the file, and must not use a state of another
  controller or device.
* *Offers by datagram from anybody*: an adoption must not mix two of them, and none must
  starve behind the others.

`PROJECT.json` lists these hazards one by one with their source lines.

## 2. Modules

```
StateStore  <|-- StateRepository          "implements", TLC and TLAPS
    |                 StateRepositoryProofs
    v
  Daemon ---- EXTENDS ConfigExchange;  uses StateStore for its disk
    |   \____ implements Lifecycle
    |   \____ DaemonProofs
    |
    +-- its handshake step in detail:     Adoption  (EXTENDS ConfigExchange)
    |                                        \__ AdoptionProofs
    +-- its connection in detail:         FrameTransport
    |                                        \__ FrameTransportProofs
    +-- its applier step in detail:       Appliers  (EXTENDS ConfigParser, Capabilities,
    |                                        |       UciPlan, OpenNdsPlan)
    |                                        |__ AppliersProofs
    |                                        \__ one command in detail: ProcessRunner,
    |                                                ProcessRunnerProofs
    +-- the timing of its managed loop:   InformScheduler  \__ InformProofs
    +-- the content of an inform:         InformProvider   /   (about both)
    +-- the life of the service around it: Bringup (EXTENDS AgentConfig), BringupProofs
```

`MC*` modules hold the constants of the model-checked instances.  Definitions that a
comment calls a mutant are broken variants of the definition after them; each property
of each passing run fails with its mutant (`PROJECT.json`, "mutants").

**StateStore** is the abstract repository: a register, replaced and erased as a whole,
with the set of values a power loss may leave (`stable`).  **StateRepository** is
`JsonSessionStateRepository` call by call: `mkdir_p`, `open`, `write`, `fsync`,
`rename`, `fsync` of the directory, each of which may fail, with the death of the
process or a power loss between any two.  A file's content is what `load` can tell
apart: one of our states, torn, foreign, oversize, absent.

**ConfigExchange** has the arithmetic of configuration versions: who is answered
(`Answerable`), with which version (`ResponseVersion`), and which one is kept
(`StoredVersion`, `UintBodyField`), with fields outside the 32 bits that can be stored.

**Daemon** is `run_daemon`.  `pc` is the place in the loop; every blocking call is a
step of its own, so that signals, deaths and power losses come between any two.
Handlers are whole: `HandleActionableSet` applies, answers (or fails to) and moves to
`SaveConfig`; `HandleForget` answers and moves to `ClearState`.  The appliers are known
by their outcome: the update is on the platform, part of it is (`Mixed`), or nothing is.
`reported`, `agreed`, `acked`, `touched`, `saved` and `forget` are history.
**Lifecycle** is the transition graph of `session.cpp`.  The daemon does not use
`ControllerSession`; that it follows the graph is a refinement, `FollowsLifecycle`.

**Adoption** is `run_v2_initial_sync`: five exchanges, `receive_until` with its bound on
skipped messages, every early return.  The controller is external: it serves requests
in order, with each flaw the device looks for, repeats its last message, says unrelated
things, disconnects.  Authentication is symbolic: a digest is the account it was
computed with.

**FrameTransport** is the transport of one session.  `connect_tcp` goes through the
addresses of the host, each of whose calls may fail, then TLS is set up or everything is
closed.  `send_payload` writes into a bounded window that the controller empties.
`receive_payload` reads byte by byte, with a prefix of two digits in base `Base` in place
of four bytes.  `Timeout` does what the callers do: the handshake gives up, the managed
loop goes on with the same connection.

**ConfigParser** takes a request from its JSON to the update the appliers get, or to a
refusal.  A JSON value is a record with its type, so that a wrong type, a number in a
text, an object in place of a list and a missing member are told apart as the code does;
`Bad...` operators are the checks, `Parse...` operators the conversions.  `SetKind` and
`PortalAuthKind` give the kinds that `ConfigExchange` and `Daemon` know.

**Appliers** starts from such a request, parses it, and is the chain guard, UCI, openNDS.
`Capabilities`, `UciPlan` and `OpenNdsPlan` are the pure parts: capability detection,
validation, the openNDS policy and the commands of the two plans, as operators without
recursion.  A plan is a sequence of UCI commands on a staged configuration; `commit` makes
a package permanent, the wifi reload or the openNDS restart makes it effective.  A batch
may stop after any line, a process may die, the device may reboot.  What is staged
survives a failed update.

**AgentConfig** is the configuration file as its two readers see it: the init script by
the names of the sections, the agent by their types, with every option's type, the
precedence of the environment (an empty variable included), what does not parse and what
an enabled agent cannot do without.  `Passed` says which of the options the script sets
reach the agent (section 5).  **Bringup** is the service around the daemon: the
file is edited, procd starts, reloads, ends and respawns processes, each with the
environment of the last start and the file of the moment, and a process goes over a
reconnect with the state an earlier one left, or over discovery with datagrams from
anybody, to a session.  Where `Daemon` follows one configuration through the protocol,
`Bringup` follows the identities: host, MAC address, controller id, port, site.

**ProcessRunner** is `run_process`: parent and child over two bounded pipes, pipe ends
held by each (which is what end-of-file and SIGPIPE depend on), `exec` that may fail, a
program that reads, writes, closes and exits as it likes.  Every call may fail, `read` and
`waitpid` at the end too.

**InformScheduler** has the scheduler's four variables in a loop whose steps take time,
on a clock that may be set back or forward.  The receive timeout is that of one read of the
socket, and `ReceivePart` starts it anew, as often as a frame comes in parts; building and
sending an inform and handling a request take as long as they take.  `time`, `lastDue`,
`back`, `ahead`, `work` and `parts` are history.

**InformProvider** is `OpenWrtInformProvider::build`, query by query, with the network
changing in between, and the merge of clients and counters.  `stage` is the source that is
asked next.  The loops of the code over interfaces, leases and clients are recursive
functions of the number of items behind them, a `std::map` is a function.

## 3. Runs

| Run | States | What it shows |
|---|---|---|
| `repository` | 4,704 | no reader and no power loss finds a torn file; `save` tells the truth; the repository is the register |
| `daemon` | 57,657 | what is persisted was agreed, the disk keeps up, acknowledged means applied, cleared stays cleared, the life cycle graph is followed; a stop signal ends the daemon unless it hangs in a program or a send; failed reconnects never keep it from being managed again |
| `daemon_forget` | violation | finding 1 |
| `adoption` | 475,296 | a complete sync is whole and mutual; receives are bounded; the handshake ends; a controller that answers adopts the device in spite of other messages |
| `frame_transport` | 324,534 | a connection is complete or closed; payloads are the frames sent; each arrives or the connection ends; a send returns |
| `frame_stall` | violation | finding 2 |
| `inform` | 1,447,284 | an inform is late by no more than the work, the reads and the clock account for; informs are spaced |
| `appliers` | 742,892 | an applied update is served on the air and in openNDS; no SSID without its network; a rejected update touched nothing; the portal configuration is that of one update; a malformed request is never applied, but for the one error the parser loses |
| `snapshot` | 1,541,868 | reported stations were there, those that stayed are reported, counts belong to their SSID and radio, and the address is that of the source that wins (against a reference definition) |
| `process` | 12,010 | success is complete, also when `read` or `waitpid` fail, nothing is left over, the call returns |
| `bringup` | 105,392 | a process runs only as it was started, with settings of files that enable it; connections go to the configured host as the configured device, with the identity of one offer; settings catch up with the file; an offer that arrived is tried unless a handshake hangs |
| `packaged_names` | violation | finding 3 |

A type invariant is kept where a theorem proves it: `daemon` and `inform` check theirs,
and the one of StateRepository is proved.

Bounds, and why they are enough:

* `daemon`: one controller, one configuration (beside the factory's and one carried out
  in part), versions 0 and 1 with fields from -1 to 2, so that fields below, inside and
  above the storable range occur; two reconnect attempts so that there is a last one and
  one before.  The theorems have the same safety properties for any number of
  controllers, configurations and versions.  Each disk value may lag behind by any number
  of updates.
* `daemon_forget`: one configuration and one version; they do not matter to what it asks.
* `adoption`: `MaxSkipped` 2 (8 in the code) and three messages of noise: enough to go
  past the limit in one exchange and up to it in another.
* `frame_transport`: base 4 gives lengths 0 to 15; payloads of 0 (invalid), 1, 2 and 12
  (above the limit of 10); three frames from the controller.  Two addresses, so that one
  fails before another succeeds and after one did; a window of 2 and own frames of 3
  bytes, so that no frame fits the window; two of them, so that the second meets what the
  first left.
* `inform`: interval 3, receive timeout 2, up to two reads of an iteration that bring only
  part of a frame, so that the receive alone outlasts the interval; work of any length
  within the 14 units of time; sequence numbers modulo 8 starting at 5, so that they wrap;
  clock steps up to 2 each way.  The theorem is for any such bounds.
* `appliers`: three updates in a row, the shortest history in which leftovers of a
  failed update meet two later ones; two SSID limits; requests that share a section,
  carry VLANs, exceed the limit, need what the platform lacks, or carry a portal, a free
  policy or clients; requests with a defect in each kind of family, alone and beside
  sound ones, with numbers as texts, objects in place of lists and a scalar in place of a
  list.
* `snapshot`: two stations, three interfaces on a radio with two SSIDs and on one without
  a known band, two changes of the network within a build (a roam is two), each query
  failing or not, lease files with ties, duplicates, a comment and a broken line.
* `process`: pipes of 2, data up to 4, a capture limit of 3: each may be below, at or
  above the other.
* `bringup`: five files (two hosts, one of them with a configured controller id; one that does
  not switch the agent on; one without a MAC address, which the agent refuses; one whose
  sections are named as in the packaged file and which is on for the agent only), four
  datagrams (offers of two controllers, with and without a port; one with a site id only;
  one that does not decode), two of which may wait; one edit on top of a state that an earlier
  configuration left, of this or of another device; one respawn (five in the script).  A second edit only
  repeats the first: a reload forgets what was before it, except the state on disk, and
  there may be one to begin with.  All options the script sets reach the agent.
* `packaged_names`: the packaged file, off and on; only the last option the script sets
  reaches the agent.

Deadlock is checked in every run but `bringup` and `packaged_names`, where a service that
is disabled, or that procd gave up, has nothing left to do.

### Fairness

* `Daemon.FairSpec`: weak fairness of the agent's own steps outside `MayBlock`.  Justified by
  what bounds them: connect timeouts, the timeout of the discovery socket, sleeps with their
  delay, file operations.  In `MayBlock` (startup, the two parts of the handshake, the body
  of the managed loop) the agent runs programs, for whose end `run_process` waits without a
  timeout, or sends over TLS, where `ssl_write_all` tries again as long as the peer does not
  read; nothing bounds these, so nothing is assumed of them.  `StopIsHonoured` and
  `AlwaysManagedAgain` name the daemon that stays there for ever (`Hangs`) as their exception,
  and fail without it.
* `Daemon.AdoptingController`, the premise of `AlwaysManagedAgain`: each step of discovery and
  fresh adoption succeeds if tried again and again.  Nothing is assumed of managed
  reconnects.
* `Adoption.FairSpec`: the device runs and its sends return (a handshake whose send hangs is
  in `Daemon`'s `Hangs`); nothing else is assumed of the controller.  `Adopts`
  speaks of the behaviours in which it answers in time (`Cooperative`).
* `FrameTransport.FairSpec`: the network delivers, the agent reads what arrived, the
  controller reads what it was sent or closes.
* `Bringup.FairSpec`: the agent runs, except at startup and in a handshake, which may hang as
  in `Daemon`, and a DISCOVERY that cannot be sent is sent in the end; `OffersAreTried`
  excepts a handshake with another controller that hangs; procd ends what it told to end; whoever edits the file runs `reload_config`.
  Nothing is assumed of the network, of connections or of the end of sessions.
* `ProcessRunner.FairSpec`: both processes are scheduled.  A blocked `read` is not assumed to
  fail in the end.  A program may read and write
  in any order but only finitely much.

### Findings

1. `README.md:344`: "Handles FORGET by replying and clearing managed state."  The reply
   leaves first; the process may die before `clear`, a failed `clear` is only logged, and an
   unlink that was not synced may be undone by a power loss.  In each case the agent
   then reconnects as managed (`ForgetIsFinal` is violated).  What does hold is
   `ClearedStaysCleared`.
2. `README.md:91`: "TCP messages use a 4-byte big-endian length prefix followed by UTF-8
   JSON."  When the receive timeout hits inside a frame, `receive_payload` drops what it
   has read and the managed loop goes on: the rest of the frame is taken for a new one
   (`PayloadsAreFrames` is violated under `StallingSettings`).  With a caller that gives
   the connection up, or a peer that does not stall within a frame, it holds.
3. `README.md:374` says that the init script "honors `controller.enabled`".
   `config_get_bool enabled controller enabled 0` asks for a section *named* `controller`;
   the README's example (line 254) and the packaged `openomada.config` name it `main` and
   make `controller` its *type*.  The script then sees the default 0 and never starts the
   agent (`HonorsEnabled` is violated in the first state of `packaged_names`).  For
   files named in any way what holds is `RunsAsStarted`: a process that runs was enabled by
   the file it was started for, as the script reads it, and by the one it read itself.

Three more disagreements have no run of their own; a property that passes names each of them
as its exception:

* `README.md:346`: "Exits on SIGINT/SIGTERM."  A signal ends neither a send to a peer that
  stopped reading (`tls_client.cpp:74`) nor the wait for a program (`process.cpp:247` and
  `270`): the exception `Hangs` of `StopIsHonoured`.
* `configuration.cpp:214` makes a `portalConfigList` that is neither list nor object an error,
  "must be an object or array", and the loop at `configuration.cpp:667` loses it: the request is
  answered with success unless a client family follows.  This is the exception `ErrorLost` of
  `DefectsAreRefused`.
* `README.md:66` says of SET_REQUEST "unsupported or unapplied families return explicit error".
  The fourteen passive families do not: they are accepted and nothing is done, as
  `tests/test_configuration.cpp:199` asks.  `DefectsAreRefused` does not count them as defects.

Noted, and contradicted by no statement in the repository: a radio's `staNum` is the maximum
over its SSIDs, not the sum (`telemetry.cpp:497`); a station that roams against the order in
which interfaces are asked is in no answer and missing from that snapshot; SSIDs that later
updates no longer mention stay configured (`uci.cpp:349`); an error response without a known
local version reports the version the controller asked for
(`configuration_exchange.cpp:259`); a controller that trickles a frame holds up the informs
(`tls_client.cpp:35`, the `parts` of `InformsKeepComing`); the configuration's controller id,
port and site have no effect while there is a managed state of the same host
(`reconnect.cpp:32`).

## 4. Proofs

TLAPS proves, for all values of the constants under the named assumptions:

* **StateRepositoryProofs** (assumption `ContentsDiffer`: the kinds of content are
  different).  `RepositoryTypes`, `AtomicWrites`, `HonestSave`, and
  `RepositoryRefinesStore`, that the repository implements StateStore.  Inductive
  invariant `RepositoryInv`: `NeverTorn` alone is not inductive, since the rename would
  have to know what it renames; `SaveProgress` says what each system call relies on (the
  temporary file is whole from the sync on and durable from the rename on, the visible
  file is the old one until then).
* **DaemonProofs** (`ExchangeAssumption`, `DaemonAssumption`, `NoStateAssumption`:
  versions are natural numbers, the markers are none of the values).  `DaemonTypes`,
  `PersistedStatesAgreed`, `DiskKeepsUp`, `AcknowledgedIsApplied`, `ClearedForGood` and the
  refinement `DaemonFollowsLifecycle`.  Inductive invariant `DaemonInv`: the session
  object exists where it is used (`SessionHeld`); what is on disk, what is loaded from it
  and what a session holds was agreed (`SessionAgreed`: the disk's part alone is not
  inductive because a save writes the session); the disk equals the session unless the
  last save failed (`SessionSaved`); after `clear` there is nothing to reconnect with
  (`Forgotten`).  One lemma per action or group of actions.
* **InformProofs**, first part, about InformScheduler (`InformAssumption`).
  `SchedulerTypes`, `InformsComeInTime` and `InformsSpaced`.  Inductive invariant
  `InformInv`: `DueOnClock` ties the next due time to real time and the clock's setbacks;
  `Lateness` gives for each place of the loop how much of the bound may be used up there:
  the work so far, a receive timeout for each read that is over and the time spent in the
  one in progress.
* **InformProofs**, second part, about InformProvider (`ProviderAssumption`: interfaces
  have names of their own, there are finitely many stations, their counters are natural
  numbers, lease files and openNDS answers are lists, a failed query is no set of
  stations).  `OnlyAssociatedAlways`, `StayersReportedAlways`, `StatsOfOwnSsidAlways`,
  `RadioTotalsAlways` and `MetadataPrecedenceAlways`, for any number of interfaces,
  stations, leases, sessions and changes of the network within a build.  Inductive
  invariant `ProviderInv`, which says for each stage of a build what the sources asked
  before it left.  `NetworkInv`: what hostapd holds lies between `held` and `seen`.
  `AnswersInv`: the k-th answer is that of the k-th listed interface, failed ones
  included, and the list is in the order of the network; none of the properties speaks of
  this, and without it an answer could count for another SSID.  `AssociatedInv`: the clients
  collected so far were seen, and whoever stayed on an interface that answered is among
  them.  `MembersInv`, `MetadataInv` and `ClientsInv`: members, leases, sessions and clients
  are the merges of exactly these inputs.  The properties then follow from lemmas about the
  loops: what `NewestLeases`, `MergeAssociated` and `WirelessMembers` make of lists of any
  length, by induction on the number of items behind them.
* **ProcessRunnerProofs** (`RunnerAssumption`: a pipe holds at least a byte).
  `RunnerOkIsComplete` and `RunnerLeavesNothing`, for every size of the pipes, of the data
  and of the limit.  Inductive invariant `RunnerInv`: who can hold which pipe end at which
  place (`Ends`) is what makes end-of-file mean that nobody writes any more; `Kept` counts
  what has left the pipe against what is captured; `Ended` says that past the end nothing is
  in it, and that no result is a success after a read or a wait that failed.
* **AdoptionProofs** (`AdoptionAssumption`, `ExchangeAssumption`).  `CompleteIsMutual` and
  `ReceivesBounded`, for every limit on skipped messages and any number of messages in
  between.  Inductive invariant `AdoptionInv`: device and controller are in step
  (`Lockstep`); whatever answer is on the connection, repeated or late, is true of the
  controller (`Answers`), without which an answer to an earlier exchange could complete a
  later one; what the exchanges behind the device established stays so (`Established`);
  each exchange has spent no more receives than its share (`Spent`).
* **FrameTransportProofs** (`FrameAssumption`).  `ConnectAllOrNothing` (by `ConnectInv`, what
  is open at each place of `connect`) and `FramesInOrder`, for every base, payload limit,
  window and number of frames.  `PayloadsAreFrames` is proved for the handshake with any
  peer and for the managed loop with a peer that does not stall within a frame; the rest is
  finding 2.  Inductive invariant `FrameInv`: the bytes read, those in the socket's buffer
  and those on their way are one sequence of whole frames (`Framed`), of which the receiver
  has read less than one (`Partial`).
* **BringupProofs** (`BringupAssumption`: no datagram is the marker for none, no environment
  of an instance is the marker for no instance; `PassedAssumption`: the agent gets nothing
  that the script does not set).  `ContactsOnlyConfigured`, `OneDatagram`, `NeverAnonymous`
  and `RunsOnlyAsStarted`, for all files however their sections are named, all stored states
  and datagrams, and whichever variables reach the agent.  Invariants: `ContactInv` (the
  target, the settings and the source of the target are changed together), `ServiceInv`
  (what procd keeps is what `start_service` made of one file, and a process has the
  environment of that file unless it was told to end, `StartedFor`) and `SettingsInv` (a
  running process has the settings of one file under that environment, though the file was
  edited since).  `RunsAsStarted` needs both: a respawn takes the environment from procd and
  the options from a file that may be a later one.
* **AppliersProofs** (`AppliersAssumption`: SSID limits are numbers, the lists of an update
  are lists, policies are finite).  `RejectedLeavesDevice`, `OnePortalPolicy`,
  `SsidsHaveNetworks`, `AppliedUpdatesServed` and `DefectsNeverSucceed`, for all requests,
  platforms, lengths of lists and points at which a batch or a plan fails.  Inductive invariant `AppliersInv`, in
  three parts that build on each other.  `OutcomeInv`: no command has run where an update can still be rejected.
  `BatchInv`: `NetworksExist` alone is not inductive, since the staged configuration may
  hold what an earlier, failed update left; so the order of the batch is kept
  (`UciOrder`: networks, their commit, wireless, its commit; a network that is deleted is
  set again before the commit) and each VLAN that a committed, staged or coming
  SSID is on has a network that is there or on its way (`NetInv`).  `PortalInv`: nothing but
  the restart follows the commit of openNDS, and what is staged together with what is still to be
  carried out is exactly the policy (`Progress`), unless a tolerated deletion failed.
  `AppliedUpdatesServed` needs one more, `ServedInv`, which says at each place of an update
  what the rest of its commands will make of the device: the last line of the batch about
  an SSID's section makes it what the update wants, and what is staged there counts only
  when no such line is left (`BatchLeads`); the commit of wireless is the last line; the
  openNDS restart comes last, after the commit and the script (`PlanLeads`); of several
  items about a client the last decides (`ClientsLead`).  That these hold of the plans as
  they are built is `UciPlanLeads`, `PlanLeadsStart` and `ClientsLeadStart`, lemmas about
  `build_uci_plan`, the openNDS plan and the client items for lists of any length.
  `DefectsNeverSucceed` is about the parser: `Defect` says of the JSON alone what can be wrong
  with a request (a family or an item of the wrong type, a VLAN id, a name or a MAC address
  out of range, an unknown key), `DefectIsRefused` that the parser refuses it wherever in the
  request it is, and `SuccessIsParsed` that no refused request is ever answered with success.
  A `portalConfigList` that is neither list nor object is a `Defect` too; the theorem says
  that it is the only one that gets through, and only without a client family after it
  (`ErrorLost`, section 3).

The installed provers cannot instantiate induction theorems with an operator as a
parameter.  Where a proof needs induction (the elements of `FlattenSeq` and of `SetToSeq`, the
largest of a set of numbers, sums over sets, the loops of InformProvider), AppliersProofs and
InformProofs take the statement as a set of natural numbers, whose least counterexample
exists because `<` is well-founded on them (`LeastNumber`, `Induction`), and use the recursive
functions in the definitions directly.

Only model-checked: the liveness properties `StopIsHonoured`, `AlwaysManagedAgain`,
`HandshakeEnds`, `Adopts`, `SendsReturn`, `EveryFrameArrives`, `RunEnds`, `SettingsCatchUp` and
`OffersAreTried` (fairness and ENABLED are out of the prover's reach).  Every safety property
of a passing run is also a theorem.

## 5. Assumptions about what is outside the repository

* File system: data reaches the flash with `fsync` at the latest; a rename or unlink is
  atomic, reaches the flash at some later time, and with an `fsync` of the directory.
* `uci batch` that exits with 0 carried out every line; staged changes outlive the
  process that made them; `wifi reload` makes the committed network and wireless
  configuration effective; an openNDS restart drops authorised clients.
* hostapd answers with the stations it holds at the time; it may hold a roaming station
  on two interfaces.
* procd respawns the agent after it died, a limited number of times in a row; a restart
  waits for the old process.
* `procd_set_param env` (openomada.init:44-53): whether nine calls add up or each replaces what
  the one before set is not for this repository to say.  `Passed` is the set of options that
  reach the agent; the theorems are for any, the run `bringup` has all, `packaged_names`
  the last one.  The last one makes no difference to the properties of `bringup` either.
* `config_get` of OpenWrt's `functions.sh` looks a section up by its name and gives the
  default for an option that is missing or empty.
* The controller reads what the agent sends, or the connection ends (`SendsReturn` and the
  liveness properties of Adoption only): `ssl_write_all` retries without end when the send
  timeout expires (`tls_client.cpp:74`), and neither a stop signal nor a timeout gets a daemon
  out of a send to a peer that stopped reading.  The liveness properties of Daemon do not
  assume it.
* The state file is on a file system that keeps what was synced.  On a tmpfs (where
  `/var/lib` is on many OpenWrt devices) a power loss takes the agent back to its first
  start, an initial state of the models.
* The commands that get input print little, and those that print much get none
  (`ProcessRunner.Calls`): otherwise `run_process` and its child may block each other.

## 6. Not modelled

* Text as text: JSON, UCI quoting, URLs and addresses, `iw list`.  What the code tells
  apart about a text is given with it (the number it denotes, whether it is a MAC address,
  the host in it).
* Members of a configuration family that pass through to a UCI option nobody checks.
* `--once`, `--dry-run`, `--check-config`: the service does not use them.
* GET and NOTIFY in Daemon: they change no state of the session (`NothingToDo`).
* `run_managed_reconnect` and `ControllerSession`: the daemon does not call them (the graph
  of the latter is `Lifecycle`).
* TLS itself and cryptography; formatting of informs, of the portal's ThemeSpec script and
  of the device profile: text without control.

## 7. Plan

Done, in this order: StateRepository with its proofs; Daemon with its proofs; Adoption;
FrameTransport with connect, send and receive; InformScheduler with its proofs; the
appliers; ProcessRunner; InformProvider; ConfigParser in front of the appliers; AgentConfig
and Bringup; the proofs about ProcessRunner, Adoption, FrameTransport, Bringup and Appliers;
those about InformProvider and about malformed requests.

Next: the composition of Appliers with Daemon, that is, that an applier's outcome is what
Daemon assumes of it, as a refinement.
