--------------------------- MODULE InformProvider ---------------------------
(***************************************************************************)
(* OpenWrtInformProvider::build of src/openwrt/inform_provider.cpp: one    *)
(* inform snapshot put together from four sources that are asked one after *)
(* the other: `ubus call network.wireless status`, one `get_clients` per   *)
(* listed interface, the dnsmasq lease file and `ndsctl json`.  Stations   *)
(* join, leave and roam, and interfaces go down, while it runs; any of the *)
(* commands may fail or print something that is not JSON.                  *)
(*                                                                         *)
(* A client keeps one field per kind of source: where it is associated     *)
(* (its SSID and radio), its IP address, its portal state and its downlink *)
(* counter, the only one that two sources report.                          *)
(*                                                                         *)
(* The names differ from those of InformScheduler, so that the proofs      *)
(* about both are in one module.                                           *)
(***************************************************************************)
EXTENDS Integers, FiniteSets, SequencesExt

CONSTANTS
  Macs,                 \* stations
  Network,              \* the interfaces in the order `status` lists them:
                        \*   [ifname, ssid, band], ssid and band may be None
  Bytes,                \* what hostapd counted for each station
  LeaseFiles,           \* possible contents of the lease file, in lines
  PortalAnswers,        \* possible lists of openNDS clients
  StatusListsStations,  \* whether `status` itself lists stations
  IncludeOpenNds,       \* options_.include_opennds
  MaxChanges,           \* bound: changes of the network during one build
  None, NoClients, Comment, BadLine

Interfaces == Range(Network)
Bands == {i.band : i \in Interfaces} \ {None}

ASSUME ProviderAssumption ==
  /\ Network \in Seq(Interfaces)
  /\ \A j, k \in DOMAIN Network :
       Network[j].ifname = Network[k].ifname => j = k
  /\ IsFiniteSet(Macs) /\ Bytes \in [Macs -> Nat]
  /\ \A S \in SUBSET Macs : NoClients # S
  /\ \A file \in LeaseFiles :
       /\ file \in Seq(Range(file))
       /\ \A l \in Range(file) \ {Comment, BadLine} : l.expires \in Int
  /\ \A answer \in PortalAnswers : answer \in Seq(Range(answer))
  /\ StatusListsStations \in BOOLEAN /\ IncludeOpenNds \in BOOLEAN
  /\ MaxChanges \in Nat

VARIABLES
  stage,       \* the source that is asked next
  up,          \* interfaces that exist
  assoc,       \* <<station, interface>> entries that hostapd holds
  status,      \* interfaces.interfaces, each with the stations it lists
  index,       \* interfaces asked so far
  hostapd,     \* hostapd_json_by_interface
  associated,  \* associated_clients
  metadata,    \* metadata_clients
  members,     \* the wireless members of the snapshot
  clients,     \* the clients of its clientStats, by MAC address
  changes,     \* changes of the network in this build
  seen,        \* history: entries that hostapd held at some time in it,
  held,        \*   all the time,
  told,        \*   what each interface that was asked answered,
  lines,       \*   the lease file
  portal       \*   and the answer of openNDS

network == <<up, assoc, changes, seen, held>>
sources == <<told, lines, portal>>
results == <<status, index, hostapd, associated, metadata, members, clients>>
providerVars == <<stage, network, sources, results>>

StationsOf(i) == {m \in Macs : <<m, i>> \in assoc}
TotalBytes(S) == SumFunctionOnSet(Bytes, S)

(* The elements at the given positions, in their order: SelectSeq without  *)
(* an operator argument.                                                   *)
Keep(s, kept) ==
  FlattenSeq([k \in DOMAIN s |-> IF k \in kept THEN <<s[k]>> ELSE <<>>])

(* byKey[key] = value for a std::map.                                      *)
Put(byKey, key, value) ==
  [x \in DOMAIN byKey \cup {key} |-> IF x = key THEN value ELSE byKey[x]]

NoMembers ==
  [stats |-> [b \in Bands |-> <<>>], staNum |-> [b \in Bands |-> 0],
   traffic |-> [b \in Bands |-> 0]]

ProviderInit ==
  /\ stage = "idle"
  /\ up \in SUBSET Interfaces
  /\ assoc \in SUBSET (Macs \X up)
  /\ status = <<>> /\ index = 0 /\ hostapd = <<>>
  /\ associated = <<>> /\ metadata = <<>>
  /\ members = NoMembers /\ clients = <<>>
  /\ changes = 0 /\ seen = {} /\ held = {}
  /\ told = <<>> /\ lines = <<>> /\ portal = <<>>

-----------------------------------------------------------------------------
(* The wireless members: counts and traffic from `status`, overridden      *)
(* interface by interface by what hostapd said of it.                      *)

StationCount(i) ==
  IF StatusListsStations THEN Cardinality(StationsOf(i)) ELSE 0

(* What `status` lists of the radio of a band.                             *)
StatusSsidStats(listed, b) ==
  LET named == Keep(listed, {k \in DOMAIN listed :
                               /\ listed[k].iface.band = b
                               /\ listed[k].iface.ssid # None})
  IN  [k \in DOMAIN named |-> [ssid |-> named[k].iface.ssid,
                               clntNum |-> named[k].stations, down |-> 0]]

StatusStaNum(listed, b) ==
  SumFunctionOnSet([k \in DOMAIN listed |-> listed[k].stations],
                   {k \in DOMAIN listed : listed[k].iface.band = b})

FromStatus(listed) ==
  [stats |-> [b \in Bands |-> StatusSsidStats(listed, b)],
   staNum |-> [b \in Bands |-> StatusStaNum(listed, b)],
   traffic |-> [b \in Bands |-> 0]]

SsidStats(ssid, answer) ==
  [ssid |-> ssid, clntNum |-> Cardinality(answer), down |-> TotalBytes(answer)]

MergeSsidStats(stats, entry) ==
  Append(Keep(stats, {k \in DOMAIN stats : stats[k].ssid # entry.ssid}), entry)

MergeStaNum(staNum, answer) == Max({staNum, Cardinality(answer)})

(* Mutant: an interface replaces the traffic of the others.                *)
MergeTrafficReplaces(traffic, answer) == TotalBytes(answer)

MergeTraffic(traffic, answer) == traffic + TotalBytes(answer)

Overridden(m, i, answer) ==
  IF i.band = None \/ i.ssid = None \/ answer = NoClients
  THEN m
  ELSE [m EXCEPT
          !.stats[i.band] = MergeSsidStats(@, SsidStats(i.ssid, answer)),
          !.staNum[i.band] = MergeStaNum(@, answer),
          !.traffic[i.band] = MergeTraffic(@, answer)]

WirelessMembers(listed, answers) ==
  LET count == Min({Len(listed), Len(answers)})
      merged[k \in 0..count] ==
        IF k = 0 THEN FromStatus(listed)
        ELSE Overridden(merged[k - 1], listed[k].iface, answers[k])
  IN  merged[count]

-----------------------------------------------------------------------------
(* Client states and how they are merged.                                  *)

Unset == [iface |-> None, ip |-> None, portal |-> None, down |-> 0]

HostapdClient(m, i) ==
  [mac |-> m, iface |-> i, ip |-> None, portal |-> None, down |-> Bytes[m]]

(* One line that is not a lease spoils the whole file.                     *)
ParsedLeases(file) ==
  IF BadLine \in Range(file) THEN <<>>
  ELSE Keep(file, {k \in DOMAIN file : file[k] # Comment})

(* Mutant: of two leases that expire together the first one wins.          *)
NewestLeasesFirstWins(leases) ==
  LET byMac[k \in 0..Len(leases)] ==
        IF k = 0 THEN <<>>
        ELSE LET prev == byMac[k - 1]
                 l    == leases[k]
             IN  IF l.mac \notin DOMAIN prev \/ l.expires > prev[l.mac].expires
                 THEN Put(prev, l.mac, l) ELSE prev
  IN  byMac[Len(leases)]

NewestLeases(leases) ==
  LET byMac[k \in 0..Len(leases)] ==
        IF k = 0 THEN <<>>
        ELSE LET prev == byMac[k - 1]
                 l    == leases[k]
             IN  IF l.mac \notin DOMAIN prev \/ l.expires >= prev[l.mac].expires
                 THEN Put(prev, l.mac, l) ELSE prev
  IN  byMac[Len(leases)]

LeaseClients(file) ==
  LET byMac == NewestLeases(ParsedLeases(file))
  IN  SetToSeq({[mac |-> m, iface |-> None, ip |-> byMac[m].ip,
                 portal |-> None, down |-> 0] : m \in DOMAIN byMac})

PortalClients(answer) ==
  [k \in DOMAIN answer |->
     [mac |-> answer[k].mac, iface |-> None, ip |-> answer[k].ip,
      portal |-> answer[k].portal, down |-> answer[k].down]]

MergeClient(base, overlay) ==
  [f \in DOMAIN base |->
     IF f = "mac" \/ overlay[f] = Unset[f] THEN base[f] ELSE overlay[f]]

(* The client that each station's last entry in the list gives it.         *)
ByMac(list) ==
  [m \in {c.mac : c \in Range(list)} |->
     list[Max({k \in DOMAIN list : list[k].mac = m})]]

(* Mutant: leases and sessions add clients of their own.                   *)
MergeAssociatedUnfiltered(assocClients, metaClients) ==
  LET merged[k \in 0..Len(metaClients)] ==
        IF k = 0 THEN ByMac(assocClients)
        ELSE LET prev == merged[k - 1]
                 c    == metaClients[k]
             IN  Put(prev, c.mac, IF c.mac \in DOMAIN prev
                                  THEN MergeClient(prev[c.mac], c) ELSE c)
  IN  merged[Len(metaClients)]

MergeAssociated(assocClients, metaClients) ==
  LET merged[k \in 0..Len(metaClients)] ==
        IF k = 0 THEN ByMac(assocClients)
        ELSE LET prev == merged[k - 1]
                 c    == metaClients[k]
             IN  IF c.mac \in DOMAIN prev
                 THEN Put(prev, c.mac, MergeClient(prev[c.mac], c)) ELSE prev
  IN  merged[Len(metaClients)]

-----------------------------------------------------------------------------
(* The steps of build.                                                     *)

(* Every variable of build is local, so a build starts from nothing.  What *)
(* the network did since the last one is any initial state.                *)
Begin ==
  /\ stage \in {"idle", "done"}
  /\ stage' = "status"
  /\ status' = <<>> /\ index' = 0 /\ hostapd' = <<>>
  /\ associated' = <<>> /\ metadata' = <<>>
  /\ members' = NoMembers /\ clients' = <<>>
  /\ changes' = 0 /\ seen' = assoc /\ held' = assoc
  /\ told' = <<>> /\ lines' = <<>> /\ portal' = <<>>
  /\ UNCHANGED <<up, assoc>>

StatusFails ==
  /\ stage = "status"
  /\ stage' = "done"
  /\ UNCHANGED <<network, sources, results>>

StatusAnswers ==
  /\ stage = "status"
  /\ LET listed == Keep(Network, {k \in DOMAIN Network : Network[k] \in up})
     IN  status' = [k \in DOMAIN listed |->
                      [iface |-> listed[k],
                       stations |-> StationCount(listed[k])]]
  /\ stage' = "hostapd"
  /\ UNCHANGED <<network, sources, index, hostapd, associated, metadata,
                 members, clients>>

(* The output is not JSON: no interface is asked and no member is added,   *)
(* but the other sources are.                                              *)
StatusGarbled ==
  /\ stage = "status"
  /\ stage' = "leases"
  /\ UNCHANGED <<network, sources, results>>

Asked == status[index + 1].iface

HostapdAnswers ==
  /\ stage = "hostapd" /\ index < Len(status) /\ index' = index + 1
  /\ Asked \in up
  /\ hostapd' = Append(hostapd, StationsOf(Asked))
  /\ associated' = associated \o SetToSeq({HostapdClient(m, Asked) :
                                             m \in StationsOf(Asked)})
  /\ told' = Put(told, Asked.ifname, StationsOf(Asked))
  /\ UNCHANGED <<stage, network, lines, portal, status, metadata, members,
                 clients>>

(* Mutant: a failed query leaves no entry in the list.                     *)
HostapdFailsUnaligned ==
  /\ stage = "hostapd" /\ index < Len(status) /\ index' = index + 1
  /\ told' = Put(told, Asked.ifname, NoClients)
  /\ UNCHANGED <<stage, network, lines, portal, status, hostapd, associated,
                 metadata, members, clients>>

(* Mutant: the first failed query ends the questions.                      *)
HostapdFailsGivesUp ==
  /\ stage = "hostapd" /\ index < Len(status)
  /\ stage' = "leases"
  /\ UNCHANGED <<network, sources, results>>

(* A failed query stands in the list as "{}", so that answers and          *)
(* interfaces stay aligned.  An output that is not JSON stands there as it *)
(* is and is passed over in the same way, by both of its readers.          *)
HostapdFails ==
  /\ stage = "hostapd" /\ index < Len(status) /\ index' = index + 1
  /\ hostapd' = Append(hostapd, NoClients)
  /\ told' = Put(told, Asked.ifname, NoClients)
  /\ UNCHANGED <<stage, network, lines, portal, status, associated, metadata,
                 members, clients>>

AddWireless ==
  /\ stage = "hostapd" /\ index = Len(status)
  /\ members' = WirelessMembers(status, hostapd)
  /\ stage' = "leases"
  /\ UNCHANGED <<network, sources, status, index, hostapd, associated, metadata,
                 clients>>

ReadLeases ==
  /\ stage = "leases"
  /\ lines' \in LeaseFiles
  /\ metadata' = LeaseClients(lines')
  /\ stage' = IF IncludeOpenNds THEN "portal" ELSE "merge"
  /\ UNCHANGED <<network, told, portal, status, index, hostapd, associated,
                 members, clients>>

(* A failed or empty answer adds no client, like the empty list.           *)
AskOpenNds ==
  /\ stage = "portal"
  /\ portal' \in PortalAnswers \cup {<<>>}
  /\ metadata' = metadata \o PortalClients(portal')
  /\ stage' = "merge"
  /\ UNCHANGED <<network, told, lines, status, index, hostapd, associated,
                 members, clients>>

MergeClients ==
  /\ stage = "merge"
  /\ clients' = MergeAssociated(associated, metadata)
  /\ stage' = "done"
  /\ UNCHANGED <<network, sources, status, index, hostapd, associated, metadata,
                 members>>

-----------------------------------------------------------------------------
(* The network, while a build runs.  hostapd may hold a station on two     *)
(* interfaces: the one it roamed from forgets it later.  After the last    *)
(* `get_clients` nothing is read of the network any more.                  *)

Change ==
  /\ stage \in {"status", "hostapd"}
  /\ changes < MaxChanges
  /\ changes' = changes + 1
  /\ seen' = seen \cup assoc'
  /\ held' = held \cap assoc'
  /\ UNCHANGED <<stage, sources, results>>

Associate ==
  /\ \E m \in Macs, i \in up :
       <<m, i>> \notin assoc /\ assoc' = assoc \cup {<<m, i>>}
  /\ up' = up
  /\ Change

Disassociate ==
  /\ \E entry \in assoc : assoc' = assoc \ {entry}
  /\ up' = up
  /\ Change

InterfaceDown ==
  /\ \E i \in up : up' = up \ {i} /\ assoc' = {e \in assoc : e[2] # i}
  /\ Change

InterfaceUp ==
  /\ \E i \in Interfaces \ up : up' = up \cup {i}
  /\ assoc' = assoc
  /\ Change

ProviderNext ==
  \/ Begin
  \/ StatusFails \/ StatusAnswers \/ StatusGarbled
  \/ HostapdAnswers \/ HostapdFails
  \/ AddWireless \/ ReadLeases \/ AskOpenNds \/ MergeClients
  \/ Associate \/ Disassociate \/ InterfaceDown \/ InterfaceUp

ProviderSpec == ProviderInit /\ [][ProviderNext]_providerVars

-----------------------------------------------------------------------------
(* "hostapd association is the active source of truth" (README): every     *)
(* client of clientStats was held by hostapd on the interface it is        *)
(* reported on at some time in this build.  A lease or a portal session of *)
(* a station that left never brings it back.                               *)
OnlyAssociated ==
  \A m \in DOMAIN clients : <<m, clients[m].iface>> \in seen

Failed == {n \in DOMAIN told : told[n] = NoClients}
Answered == DOMAIN told \ Failed

(* A failing interface costs only its own clients: a station that hostapd  *)
(* held all through the build on a listed interface is reported unless the *)
(* query of that very interface failed.                                    *)
StayersReported ==
  stage = "done" =>
    \A s \in Range(status), e \in held :
      e[2] = s.iface /\ e[2].ifname \notin Failed => e[1] \in DOMAIN clients

(* Interfaces fail and go down between `status` and their own query, and   *)
(* still every SSID's client count is the count of the last interface of   *)
(* that SSID and band that answered, never another interface's.            *)
StatsOfOwnSsid ==
  \A b \in Bands : \A e \in Range(members.stats[b]) :
    LET same == {k \in DOMAIN Network :
                   /\ Network[k].band = b /\ Network[k].ssid = e.ssid
                   /\ Network[k].ifname \in Answered}
    IN  same # {} =>
          LET answer == told[Network[Max(same)].ifname]
          IN  e.clntNum = Cardinality(answer) /\ e.down = TotalBytes(answer)

(* What a radio reports covers all its interfaces that answered, whatever  *)
(* their order: its traffic is their total, its staNum no less than the    *)
(* count of any of its SSIDs.                                              *)
RadioTotals ==
  stage \in {"leases", "portal", "merge", "done"} /\ status # <<>> =>
    \A b \in Bands :
      /\ \A e \in Range(members.stats[b]) : e.clntNum <= members.staNum[b]
      /\ members.traffic[b] =
           SumFunction([i \in {j \in Interfaces : /\ j.band = b /\ j.ssid # None
                                                 /\ j.ifname \in Answered}
                          |-> TotalBytes(told[i.ifname])])

(* The address a station is reported with: the one openNDS gives, else     *)
(* that of the lease that expires last (the later line of two that expire  *)
(* together), else none; its portal state is the one openNDS answered,     *)
(* none if openNDS knows none.                                             *)
MetadataPrecedence ==
  stage = "done" =>
    \A m \in DOMAIN clients :
      LET leases == ParsedLeases(lines)
          own    == {k \in DOMAIN leases : leases[k].mac = m}
          newest == CHOOSE k \in own : \A j \in own :
                      \/ leases[j].expires < leases[k].expires
                      \/ leases[j].expires = leases[k].expires /\ j <= k
          nds    == {k \in DOMAIN portal : portal[k].mac = m}
          addr   == {k \in nds : portal[k].ip # None}
          state  == {k \in nds : portal[k].portal # None}
      IN  /\ clients[m].ip = IF addr # {} THEN portal[Max(addr)].ip
                             ELSE IF own # {} THEN leases[newest].ip
                             ELSE None
          /\ clients[m].portal = IF state # {} THEN portal[Max(state)].portal
                                 ELSE None
=============================================================================
