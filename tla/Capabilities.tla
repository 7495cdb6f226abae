---------------------------- MODULE Capabilities ----------------------------
(***************************************************************************)
(* What the agent believes its platform can do: detect_runtime_capabilities *)
(* of src/cli/main.cpp and detect_platform_capabilities of                 *)
(* src/platform/capabilities.cpp, from the tools found in PATH, the        *)
(* configuration and the limits `iw list` reports.                         *)
(***************************************************************************)
EXTENDS Integers, FiniteSetsExt

CONSTANTS
  None,   \* std::nullopt
  Bands   \* the radio bands the configuration names (radio_bands)

(* What detection looks at: platform and radio_bands of the configuration  *)
(* (None: a text that names an unknown band), tools in PATH (nds: opennds  *)
(* and ndsctl), the portal and management VLAN settings, max_ssids, and    *)
(* the limits of the groups with AP interfaces `iw list` reports.          *)
Environment(Limits) ==
  [platform : {"auto", "openwrt", "generic", "other"}, bands : {Bands, None},
   uci : BOOLEAN, ubus : BOOLEAN, nds : BOOLEAN, portal : BOOLEAN,
   mgmt : BOOLEAN, maxSsids : Limits, apGroups : SUBSET Limits]

When(condition, features) == IF condition THEN features ELSE {}

IsOpenWrt(env) ==
  env.platform = "openwrt" \/ (env.platform = "auto" /\ env.uci /\ env.ubus)

(* iw_ap_interface_limit is the largest limit of a group; it only ever     *)
(* lowers a max_ssids above one.                                           *)
MaxSsids(env) ==
  IF IsOpenWrt(env) /\ env.maxSsids > 1 /\ env.apGroups # {}
  THEN Min({env.maxSsids, Max(env.apGroups)})
  ELSE env.maxSsids

(* Mutant: the portal is offered whether or not openNDS is installed.      *)
DetectWithoutTools(env) ==
  [supports |-> When(IsOpenWrt(env) /\ env.uci, {"wlan", "wpa2_psk"})
                \cup When(env.uci, {"ssid_vlan"})
                \cup When(env.uci /\ env.mgmt, {"management_vlan"})
                \cup When(env.portal, {"portal"}),
   bands |-> Bands, nds |-> env.nds, mgmt |-> env.mgmt, maxSsids |-> MaxSsids(env)]

(* Detection fails for an unknown platform or band; the daemon then runs   *)
(* on without any capability.  Everything not listed (WPA3, RADIUS,        *)
(* dynamic VLAN, Option 82, LEDs, client operations and rates) is off.     *)
DetectCapabilities(env) ==
  IF env.platform = "other" \/ env.bands = None
  THEN [supports |-> {}, bands |-> {}, nds |-> FALSE, mgmt |-> env.mgmt, maxSsids |-> 0]
  ELSE [supports |-> When(IsOpenWrt(env) /\ env.uci, {"wlan", "wpa2_psk"})
                     \cup When(env.uci, {"ssid_vlan"})
                     \cup When(env.uci /\ env.mgmt, {"management_vlan"})
                     \cup When(env.portal /\ env.nds, {"portal"}),
        bands |-> env.bands, nds |-> env.nds, mgmt |-> env.mgmt, maxSsids |-> MaxSsids(env)]
=============================================================================
