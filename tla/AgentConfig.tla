---------------------------- MODULE AgentConfig ----------------------------
(***************************************************************************)
(* The agent's own configuration: /etc/config/openomada as the init script *)
(* (openwrt/files/openomada.init) and as the agent                         *)
(* (src/application/daemon_config.cpp) read it, and the settings the agent *)
(* runs with.  The two do not read alike: the script asks for a section by *)
(* its name, the agent goes by the type of the sections.                   *)
(*                                                                         *)
(* A file is a sequence of sections [type, name, options]; options maps    *)
(* the keys that are set to texts, "" among them.  An option is named      *)
(* <<section, key>>; the environment maps the options it overrides to      *)
(* texts (OPENOMADA_DEVICE_PASSWORD and OPENOMADA_DEVICE_ACCOUNT_PASSWORD, *)
(* of which the second wins, are one).                                     *)
(***************************************************************************)
EXTENDS Integers, Sequences, SequencesExt

CONSTANTS
  None,       \* std::nullopt
  NumberOf,   \* text -> the number it denotes
  Macs,       \* texts that are MAC addresses
  Passed      \* options the agent gets from the script: all that it sets,
              \* or the last one if each `procd_set_param env` replaces
              \* what the one before it set

(***************************************************************************)
(* The options by the type of their values                                 *)
(***************************************************************************)
In(section, keys) == {section} \X keys

TextOptions ==
  In("controller", {"host", "controller_id", "site_id", "username", "password"})
  \cup In("agent", {"state_path", "log_level", "platform", "radio_bands", "tls_ca_file"})
  \cup In("device", {"name", "model", "model_version", "hardware_version",
                     "firmware_version", "ip"})
  \cup In("openwrt", {"management_vlan_interface", "management_vlan_device"})
  \cup In("portal", {"engine"})
BoolOptions ==
  In("controller", {"enabled"}) \cup In("agent", {"protocol_trace", "tls_verify"})
  \cup In("portal", {"enabled", "flush_conntrack_on_deauth"})
UintOptions ==
  In("agent", {"inform_interval_ms", "tcp_timeout_seconds", "reconnect_delay_ms",
               "managed_reconnect_attempts", "max_ssids"})
  \cup In("device", {"customize_region"})
PortOptions == In("agent", {"discovery_port", "local_discovery_port", "manage_port"})
MacOptions == In("device", {"mac"})

Options == TextOptions \cup BoolOptions \cup UintOptions \cup PortOptions \cup MacOptions

(***************************************************************************)
(* Looking up an option                                                    *)
(***************************************************************************)
Has(section, key) == key \in DOMAIN section.options

LastWith(file, test(_), key) ==
  LET found == SelectSeq(file, test)
  IN  IF found = <<>> THEN None ELSE Last(found).options[key]

(* parse_uci: sections of one type are one, and an option with an empty    *)
(* text, of which split_uci_tokens makes no token, is as good as none.     *)
ByType(file, o) ==
  LastWith(file, LAMBDA s : s.type = o[1] /\ Has(s, o[2]) /\ s.options[o[2]] # "", o[2])

(* config_get of OpenWrt's functions.sh: sections of one name are one.     *)
ByName(file, o) == LastWith(file, LAMBDA s : s.name = o[1] /\ Has(s, o[2]), o[2])

(***************************************************************************)
(* load_daemon_config_from_text                                            *)
(***************************************************************************)
TrueTexts == {"1", "true", "yes", "on", "enabled", "enable"}
FalseTexts == {"0", "false", "no", "off", "disabled", "disable"}

(* An empty MAC address is none.                                           *)
Parses(o, text) ==
  CASE o \in TextOptions -> TRUE
    [] o \in BoolOptions -> text \in TrueTexts \cup FalseTexts
    [] o \in UintOptions -> text \in DOMAIN NumberOf
    [] o \in PortOptions -> text \in DOMAIN NumberOf /\ NumberOf[text] <= 65535
    [] o \in MacOptions  -> text \in Macs \cup {""}

Parsed(o, text) ==
  CASE o \in BoolOptions -> text \in TrueTexts
    [] o \in UintOptions \cup PortOptions -> NumberOf[text]
    [] OTHER -> text

(* The environment wins, an empty variable included.                       *)
Value(file, env, o) == IF o \in DOMAIN env THEN env[o] ELSE ByType(file, o)

(* The settings that differ from the built-in defaults.                    *)
Settings(file, env) ==
  [o \in {p \in Options : Value(file, env, p) # None} |-> Parsed(o, Value(file, env, o))]

Setting(settings, o, default) == IF o \in DOMAIN settings THEN settings[o] ELSE default

Enabled(settings) == Setting(settings, <<"controller", "enabled">>, FALSE)

(* A text that does not parse is an error in the file even if the          *)
(* environment overrides it, except for the MAC address.                   *)
Malformed(file, env) ==
  \E o \in Options :
    LET texts == IF o \in MacOptions THEN {Value(file, env, o)}
                 ELSE {ByType(file, o)} \cup {env[v] : v \in DOMAIN env \cap {o}}
    IN  \E text \in texts \ {None} : ~Parses(o, text)

(* What an enabled agent cannot do without; state_path has a default.      *)
Incomplete(settings) ==
  /\ Enabled(settings)
  /\ \/ \E o \in {<<"controller", "host">>, <<"controller", "password">>, <<"device", "mac">>} :
          Setting(settings, o, "") = ""
     \/ Setting(settings, <<"agent", "state_path">>, "managed-state.json") = ""

LoadFails(file, env) == Malformed(file, env) \/ Incomplete(Settings(file, env))

(***************************************************************************)
(* start_service                                                           *)
(***************************************************************************)
(* config_get_bool enabled controller enabled 0                            *)
Starts(file) ==
  ByName(file, <<"controller", "enabled">>) \in {"1", "on", "true", "yes", "enabled"}

OrElse(text, default) == IF text \in {None, ""} THEN default ELSE text

(* The options the script passes on, and as what: without a default an     *)
(* option that is not found is passed on as an empty text.                 *)
InitOptions ==
  In("controller", {"host", "site_id"}) \cup In("device", {"name", "mac"})
  \cup In("agent", {"log_level", "state_path"})
  \cup In("portal", {"engine", "flush_conntrack_on_deauth"})

InitText(file, o) ==
  LET text == ByName(file, o) IN
  CASE o = <<"agent", "log_level">>  -> OrElse(text, "info")
    [] o = <<"agent", "state_path">> -> OrElse(text, "managed-state.json")
    [] o = <<"portal", "engine">>    -> OrElse(text, "opennds")
    [] o = <<"portal", "flush_conntrack_on_deauth">> ->
         IF text \in {"0", "off", "false", "no", "disabled"} THEN "0" ELSE "1"
    [] OTHER                         -> OrElse(text, "")

ASSUME PassedAssumption == Passed \subseteq InitOptions

InitEnv(file) == [o \in Passed |-> InitText(file, o)]
=============================================================================
