------------------------------ MODULE UciPlan ------------------------------
(***************************************************************************)
(* The UCI plan of src/openwrt/uci.cpp: from an update and the platform's  *)
(* capabilities to the commands of one `uci batch`.  The lines that set    *)
(* the options of one section are one "set" command; what UCI does with a  *)
(* command is Effect, which OpenNdsPlan's commands use too.                *)
(*                                                                         *)
(* A configuration is a set of <<package, section or option, value>>.      *)
(***************************************************************************)
EXTENDS ConfigParser

CONSTANTS
  BandRadio,   \* band -> number of the radio it has by default
  Slug         \* SSID name -> its slug

(***************************************************************************)
(* Commands                                                                *)
(***************************************************************************)
Cmd(op, pkg, key, val) == [op |-> op, pkg |-> pkg, key |-> key, val |-> val]
Commit(pkg) == Cmd("commit", pkg, <<"", "">>, "")

Of(cfg, pkg) == {t \in cfg : t[1] = pkg}
Without(cfg, pkg, key) == {t \in cfg : ~(t[1] = pkg /\ t[2] = key)}

(* The staged configuration after a command; deleting what is not there    *)
(* changes nothing.                                                        *)
Effect(cfg, c) ==
  CASE c.op = "delete" -> Without(cfg, c.pkg, c.key)
    [] c.op = "set"    -> Without(cfg, c.pkg, c.key) \cup {<<c.pkg, c.key, c.val>>}
    [] c.op = "add"    -> cfg \cup {<<c.pkg, c.key, c.val>>}
    [] OTHER           -> cfg

(***************************************************************************)
(* Sections.  wlan_section: the first of index, ssid_id and slug of the    *)
(* name that there is, after the band; two SSIDs may share one.            *)
(***************************************************************************)
RadioSection(band, radioId) ==
  IF radioId # None THEN ToString(radioId) ELSE BandRadio[band]

WlanSection(w) ==
  <<w.band, CASE w.index # None  -> ToString(w.index)
              [] w.index = None /\ w.ssidId # None -> ToString(w.ssidId)
              [] OTHER -> Slug[w.name]>>

VlanSection(vlan) == <<"vlan", vlan>>

(* active_wlans: the first max_ssids of the SSIDs; the rest is omitted.    *)
ActiveCount(u, caps) == Min({Len(u.wlans), caps.maxSsids})
ActiveWlans(u, caps) == SubSeq(u.wlans, 1, ActiveCount(u, caps))
OmittedWlans(u, caps) == SubSeq(u.wlans, ActiveCount(u, caps) + 1, Len(u.wlans))

(***************************************************************************)
(* validate_update                                                         *)
(***************************************************************************)
ValidWlan(w, caps) ==
  /\ w.band \in caps.bands
  /\ w.vlan # None => "ssid_vlan" \in caps.supports
  /\ w.needs \subseteq caps.supports

ValidUpdate(u, caps) ==
  /\ u.radios # <<>> \/ u.wlans # <<>> => "wlan" \in caps.supports
  /\ \A i \in DOMAIN u.radios : u.radios[i].band \in caps.bands
  /\ \A i \in 1..ActiveCount(u, caps) : ValidWlan(u.wlans[i], caps)
  /\ u.mgmt # None /\ u.mgmt.enabled =>
       /\ "management_vlan" \in caps.supports
       /\ u.mgmt.vlan # None
       /\ caps.mgmt

(***************************************************************************)
(* build_uci_plan                                                          *)
(***************************************************************************)
SsidVlanLines(vlan) ==
  <<Cmd("delete", "network", VlanSection(vlan), ""),
    Cmd("set", "network", VlanSection(vlan), "none")>>

ManagementVlanLines(mgmt, caps) ==
  IF mgmt = None \/ ~caps.mgmt \/ (mgmt.enabled /\ mgmt.vlan = None) THEN <<>>
  ELSE <<Cmd("set", "network", <<"management", "">>,
             IF mgmt.enabled THEN <<mgmt.vlan>> ELSE <<>>)>>

NetworkLines(u, caps) ==
  LET active == ActiveWlans(u, caps)
      vlans == {active[i].vlan : i \in DOMAIN active} \ {None}
      lines == FlattenSeq([i \in 1..Cardinality(vlans) |->
                             SsidVlanLines(SetToSeq(vlans)[i])])
               \o ManagementVlanLines(u.mgmt, caps)
  IN  IF lines = <<>> THEN <<>> ELSE lines \o <<Commit("network")>>

RadioLines(u) ==
  FlattenSeq([i \in DOMAIN u.radios |->
    LET r == u.radios[i] IN
    IF r.channel = None THEN <<>>
    ELSE <<Cmd("set", "wireless", <<"radio", RadioSection(r.band, r.radioId)>>, r.channel)>>])

(* The default SSID of every radio that gets an SSID is switched off.      *)
DefaultLines(u, caps) ==
  LET active == ActiveWlans(u, caps)
      radios == {RadioSection(active[i].band, active[i].radioId) : i \in DOMAIN active}
  IN  [i \in 1..Cardinality(radios) |->
         Cmd("set", "wireless", <<"default", SetToSeq(radios)[i]>>, "disabled")]

OmittedLines(u, caps) ==
  LET omitted == OmittedWlans(u, caps)
  IN  [i \in DOMAIN omitted |->
         Cmd("delete", "wireless", WlanSection(omitted[i]), "")]

(* What an SSID's section holds: an iface on the lan or on its VLAN.       *)
Iface(w) ==
  [ssid |-> w.name, radio |-> RadioSection(w.band, w.radioId),
   network |-> IF w.vlan # None THEN VlanSection(w.vlan) ELSE <<"lan", None>>]

(* A section with its type and not yet all of its options.                 *)
BareIface == [ssid |-> "", radio |-> "", network |-> <<"", None>>]

WlanLines(u, caps) ==
  LET active == ActiveWlans(u, caps)
  IN  FlattenSeq([i \in DOMAIN active |->
        <<Cmd("delete", "wireless", WlanSection(active[i]), ""),
          Cmd("set", "wireless", WlanSection(active[i]), BareIface),
          Cmd("set", "wireless", WlanSection(active[i]), Iface(active[i]))>>])

(* Mutant: the omitted SSIDs are deleted last.                             *)
BuildUciPlanOmittedLast(u, caps) ==
  LET wireless == RadioLines(u) \o DefaultLines(u, caps)
                  \o WlanLines(u, caps) \o OmittedLines(u, caps)
      lines == NetworkLines(u, caps) \o wireless
  IN  IF lines = <<>> THEN <<>> ELSE lines \o <<Commit("wireless")>>

(* Mutant: the wireless package is committed before the networks it uses.  *)
BuildUciPlanWirelessFirst(u, caps) ==
  LET wireless == RadioLines(u) \o DefaultLines(u, caps)
                  \o OmittedLines(u, caps) \o WlanLines(u, caps)
  IN  wireless \o <<Commit("wireless")>> \o NetworkLines(u, caps)

BuildUciPlan(u, caps) ==
  LET wireless == RadioLines(u) \o DefaultLines(u, caps)
                  \o OmittedLines(u, caps) \o WlanLines(u, caps)
      lines == NetworkLines(u, caps) \o wireless
  IN  IF lines = <<>> THEN <<>> ELSE lines \o <<Commit("wireless")>>
=============================================================================
