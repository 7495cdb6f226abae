---------------------------- MODULE ConfigParser ----------------------------
(***************************************************************************)
(* parse_set_request_json and parse_portal_auth_request_json               *)
(* (src/application/configuration.cpp): from the JSON body of a request to *)
(* the update the appliers get, or to a refusal.                           *)
(*                                                                         *)
(* A JSON value is a record with its type; None is a missing member or     *)
(* null, which json-c does not tell apart.  Of a text the model knows the  *)
(* number it denotes, if it denotes one.  Members that only pass through   *)
(* to an option nobody checks are left out.                                *)
(***************************************************************************)
EXTENDS Capabilities, Sequences, SequencesExt

CONSTANTS
  Macs   \* texts that are MAC addresses

Object(members) == [json |-> "object", of |-> members]
Array(items) == [json |-> "array", of |-> items]
Number(n) == [json |-> "int", of |-> n]
Flag(b) == [json |-> "boolean", of |-> b]
Text(t) == [json |-> "string", of |-> t, number |-> None]
Digits(t, n) == [json |-> "string", of |-> t, number |-> n]

IsObject(raw) == raw # None /\ raw.json = "object"
Member(raw, key) == IF key \in DOMAIN raw.of THEN raw.of[key] ELSE None

(***************************************************************************)
(* Conversions: what does not convert counts as missing.                   *)
(***************************************************************************)
OptionalInt(raw) ==
  IF raw = None THEN None
  ELSE CASE raw.json = "int"     -> raw.of
         [] raw.json = "boolean" -> IF raw.of THEN 1 ELSE 0
         [] raw.json = "string"  -> raw.number
         [] OTHER                -> None

OptionalBool(raw) ==
  IF raw = None THEN None
  ELSE CASE raw.json = "boolean" -> raw.of
         [] raw.json = "int"     -> raw.of # 0
         [] raw.json = "string"  -> raw.of \in {"1", "true", "yes", "on", "enable", "enabled"}
         [] OTHER                -> FALSE

(* A value that is no text reads as its JSON; its type stands for that.    *)
OptionalString(raw) ==
  IF raw = None THEN "" ELSE IF raw.json = "string" THEN raw.of ELSE raw.json

(* Mutant: the range of a VLAN id is not checked.                          *)
BadVlanIdUnchecked(raw) == FALSE

(* optional_vlan_id: 0 is no VLAN, anything else outside 1..4094 an error. *)
BadVlanId(raw) ==
  LET n == OptionalInt(raw) IN n # None /\ n \notin 0..4094

VlanId(raw) == IF OptionalInt(raw) = 0 THEN None ELSE OptionalInt(raw)

(***************************************************************************)
(* iter_items: an object stands for a list of one.  A list of another type *)
(* is an error and has no items; whoever calls has to look at the error.   *)
(***************************************************************************)
Items(raw) ==
  IF raw = None THEN <<>>
  ELSE CASE raw.json = "object" -> <<raw>>
         [] raw.json = "array"  -> raw.of
         [] OTHER               -> <<>>

BadList(raw) == raw # None /\ raw.json \notin {"object", "array"}

(* A list every item of which has to be an object and pass a check.        *)
BadItems(raw, bad(_)) ==
  \/ BadList(raw)
  \/ \E i \in DOMAIN Items(raw) : ~IsObject(Items(raw)[i]) \/ bad(Items(raw)[i])

ForEach(raw, parse(_)) == [i \in DOMAIN Items(raw) |-> parse(Items(raw)[i])]

(***************************************************************************)
(* Radios and SSIDs                                                        *)
(***************************************************************************)
AllBands == <<"2G", "5G", "5G2", "6G">>
RadioKey == [b \in Range(AllBands) |->
  CASE b = "2G"  -> "wirelessBasic_2G"  [] b = "5G" -> "wirelessBasic_5G"
    [] b = "5G2" -> "wirelessBasic_5G2" [] b = "6G" -> "wirelessBasic_6G"]
SsidKey == [b \in Range(AllBands) |->
  CASE b = "2G"  -> "ssid_2G"  [] b = "5G" -> "ssid_5G"
    [] b = "5G2" -> "ssid_5G2" [] b = "6G" -> "ssid_6G"]

(* The channel stands for the options of a radio, each set when present.   *)
ParseRadio(band, raw) ==
  [band |-> band, radioId |-> OptionalInt(Member(raw, "radioId")),
   channel |-> OptionalInt(Member(raw, "channel"))]

(* active_mapping: an object none of whose flags is off.                   *)
ActiveMapping(raw) ==
  /\ IsObject(raw)
  /\ \A flag \in {"enable", "enabled", "radiusEnable", "authEnable", "accountingEnable"} :
       Member(raw, flag) # None => OptionalBool(Member(raw, flag))

(* The features an SSID asks for besides its VLAN.                         *)
Needs(raw) ==
  When(OptionalInt(Member(raw, "dyVlanMode")) \notin {None, 0}, {"dynamic_vlan"})
  \cup When(/\ Member(raw, "dhcpOp82") # None
            /\ OptionalBool(Member(Member(raw, "dhcpOp82"), "option82En")) = TRUE,
            {"option82"})
  \cup When(OptionalBool(Member(raw, "portal")) = TRUE, {"portal"})
  \cup When(Member(raw, "pskKey") # None,
            {IF OptionalInt(Member(raw, "pskVer")) = 3 THEN "wpa3_psk" ELSE "wpa2_psk"})
  \cup When(\E key \in {"radiusAuth", "radiusAccounting", "macAuth"} :
              ActiveMapping(Member(raw, key)), {"radius"})

BadSsidItem(raw) ==
  \/ Len(OptionalString(Member(raw, "ssidName"))) > 32
  \/ BadVlanId(Member(raw, "vlanId"))
  \/ Member(raw, "dhcpOp82") # None /\ ~IsObject(Member(raw, "dhcpOp82"))

ParseSsidItem(band, radioId, raw) ==
  [band |-> band, radioId |-> radioId,
   ssidId |-> OptionalInt(Member(raw, "id")),
   index |-> OptionalInt(Member(raw, "index")),
   name |-> OptionalString(Member(raw, "ssidName")),
   vlan |-> VlanId(Member(raw, "vlanId")),
   needs |-> Needs(raw)]

BadSsids(raw) == ~IsObject(raw) \/ BadItems(Member(raw, "ssid"), BadSsidItem)

ParseSsids(band, raw) ==
  ForEach(Member(raw, "ssid"),
          LAMBDA item : ParseSsidItem(band, OptionalInt(Member(raw, "radioId")), item))

BadManagementVlan(raw) ==
  ~IsObject(raw) \/ BadVlanId(Member(raw, "managementVlanId"))

ParseManagementVlan(raw) ==
  [enabled |-> OptionalBool(Member(raw, "managementVlanEnable")) = TRUE,
   vlan |-> VlanId(Member(raw, "managementVlanId"))]

(***************************************************************************)
(* Portal.  A rule and the objects among its children and entries count    *)
(* alike; other children are passed over.                                  *)
(***************************************************************************)
BadRule(raw) == BadList(Member(raw, "children")) \/ BadList(Member(raw, "entries"))

BadFreePolicy(raw) ==
  \/ ~IsObject(raw)
  \/ BadItems(Member(raw, "portalFreePolicy"), BadRule)
  \/ BadItems(Member(raw, "urlPortalFreePolicy"), BadRule)

Rules(raw, parse(_)) ==
  FlattenSeq(ForEach(raw, LAMBDA item :
    LET inner == SelectSeq(Items(Member(item, "children")) \o Items(Member(item, "entries")),
                           IsObject)
    IN  <<parse(item)>> \o [i \in DOMAIN inner |-> parse(inner[i])]))

ParseLayer2Rule(raw) ==
  [dst_ip |-> OptionalString(Member(raw, "dstIp")), value |-> OptionalString(Member(raw, "value")),
   dst_mask |-> OptionalInt(Member(raw, "dstMask")), mask |-> OptionalInt(Member(raw, "mask"))]

ParseUrlRule(raw) ==
  <<OptionalString(Member(raw, "url")), OptionalString(Member(raw, "host")),
    OptionalString(Member(raw, "value"))>>

ParseFreePolicy(raw) ==
  [layer2 |-> Rules(Member(raw, "portalFreePolicy"), ParseLayer2Rule),
   urls |-> Rules(Member(raw, "urlPortalFreePolicy"), ParseUrlRule)]

ParsePortal(raw) ==
  [servers |-> <<OptionalString(Member(raw, "externalPortalServer")),
                 OptionalString(Member(raw, "extAuthServer"))>>,
   redirect |-> OptionalBool(Member(raw, "redirect")),
   redirect_url |-> OptionalString(Member(raw, "redirectUrl"))]

(***************************************************************************)
(* Clients                                                                 *)
(***************************************************************************)
BadMac(raw) == OptionalString(raw) \notin Macs

BadClient(raw) == BadMac(Member(raw, "clientMac"))

ParseClient(raw) ==
  [mac |-> OptionalString(Member(raw, "clientMac")),
   unauth |-> OptionalBool(Member(raw, "unauth"))]

BadRateConfig(raw) ==
  \/ ~IsObject(raw)
  \/ BadItems(Member(raw, "clientRateLimit"), LAMBDA item : BadMac(Member(item, "mac")))

(* authedUsers of EVENT_PORTAL_AUTH: an rst other than 0 and 1 is skipped  *)
(* without a look at the rest of the item.                                 *)
UserMac(raw) ==
  IF Member(raw, "mac") # None THEN Member(raw, "mac") ELSE Member(raw, "clientMac")
Decided(raw) == OptionalInt(Member(raw, "rst")) \in {0, 1}

BadUser(raw) == Decided(raw) /\ BadMac(UserMac(raw))

ParseUsers(raw) ==
  LET decided == SelectSeq(Items(raw), Decided)
  IN  [i \in DOMAIN decided |->
         [mac |-> OptionalString(UserMac(decided[i])),
          unauth |-> OptionalInt(Member(decided[i], "rst")) = 0]]

(***************************************************************************)
(* parse_body_object                                                       *)
(***************************************************************************)
kCommonKeys == {"sequenceId", "configVersion", "configVersionInc"}
kPassiveKeys ==
  {"ipGroup", "ipv6Group", "lanSetting", "lldp", "logSetting", "macFilterGlobal",
   "schedulerGlobal", "schedulerAssoc", "snmp", "ssh", "wirelessAdv_2G",
   "wirelessAdv_5G", "wirelessAdv_5G2", "wirelessAdv_6G"}
LedKeys == {"led", "wifiControlLed"}
OperationKeys == {"clientOperation", "clientOperation_cmd"}
kKnownKeys ==
  Range(RadioKey) \cup Range(SsidKey) \cup LedKeys \cup OperationKeys
  \cup {"clientConfig", "clientRateConfig", "managementVlan", "portalConfigList",
        "portalFreePolicyConfig"}

BadFamily(key, raw) ==
  CASE key \in Range(RadioKey) \cup LedKeys -> ~IsObject(raw)
    [] key \in Range(SsidKey)               -> BadSsids(raw)
    [] key = "managementVlan"               -> BadManagementVlan(raw)
    [] key = "portalFreePolicyConfig"       -> BadFreePolicy(raw)
    [] key = "portalConfigList"             -> BadItems(raw, LAMBDA item : FALSE)
    [] key \in OperationKeys \cup {"clientConfig"} -> BadItems(raw, BadClient)
    [] key = "clientRateConfig"             -> BadRateConfig(raw)
    [] OTHER                                -> FALSE

(* The error about a portalConfigList that is no list is set and not       *)
(* looked at; it is only found if a family about clients follows.          *)
ErrorUnseen(body) ==
  /\ BadList(Member(body, "portalConfigList"))
  /\ \A key \in OperationKeys \cup {"clientConfig", "clientRateConfig"} :
       Member(body, key) = None

ParseFails(body) ==
  \E key \in DOMAIN body.of :
    /\ body.of[key] # None
    /\ BadFamily(key, body.of[key])
    /\ ~(key = "portalConfigList" /\ ErrorUnseen(body))

UnhandledKeys(body) == DOMAIN body.of \ (kCommonKeys \cup kKnownKeys \cup kPassiveKeys)

NoFamilies ==
  [unsupported |-> FALSE, wlans |-> <<>>, radios |-> <<>>, mgmt |-> None,
   free |-> None, portals |-> <<>>, clients |-> <<>>]

(* An LED, a client operation or a rate limit is only known to be there.   *)
ParseBody(body) ==
  LET raw(key) == Member(body, key)
      present(key) == raw(key) # None
  IN  [unsupported |->
         \/ \E key \in LedKeys \cup {"clientRateConfig"} : present(key)
         \/ \E key \in OperationKeys : Items(raw(key)) # <<>>,
       radios |->
         LET bands == SelectSeq(AllBands, LAMBDA b : present(RadioKey[b]))
         IN  [i \in DOMAIN bands |-> ParseRadio(bands[i], raw(RadioKey[bands[i]]))],
       wlans |->
         LET bands == SelectSeq(AllBands, LAMBDA b : present(SsidKey[b]))
         IN  FlattenSeq([i \in DOMAIN bands |->
               ParseSsids(bands[i], raw(SsidKey[bands[i]]))]),
       mgmt |-> IF present("managementVlan")
                THEN ParseManagementVlan(raw("managementVlan")) ELSE None,
       free |-> IF present("portalFreePolicyConfig")
                THEN ParseFreePolicy(raw("portalFreePolicyConfig")) ELSE None,
       portals |-> ForEach(raw("portalConfigList"), ParsePortal),
       clients |-> ForEach(raw("clientConfig"), ParseClient)]

IsActionable(u) == u # NoFamilies

(***************************************************************************)
(* What becomes of a request, as in ConfigExchange!Kinds, and its update.  *)
(***************************************************************************)
SetKind(body) ==
  CASE ~IsObject(body)                  -> "nobody"
    [] IsObject(body) /\ ParseFails(body) -> "invalid"
    [] IsObject(body) /\ ~ParseFails(body) ->
         IF UnhandledKeys(body) # {} THEN "unhandled"
         ELSE IF IsActionable(ParseBody(body)) THEN "actionable" ELSE "inert"

PortalAuthKind(body) ==
  IF ~IsObject(body) THEN "nobody"
  ELSE IF BadItems(Member(body, "authedUsers"), BadUser) THEN "invalid"
  ELSE IF ParseUsers(Member(body, "authedUsers")) = <<>> THEN "inert" ELSE "actionable"

Kind(request) ==
  IF request.type = "SET_REQUEST" THEN SetKind(request.body) ELSE PortalAuthKind(request.body)

Update(request) ==
  IF request.type = "SET_REQUEST" THEN ParseBody(request.body)
  ELSE [NoFamilies EXCEPT !.clients = ParseUsers(Member(request.body, "authedUsers"))]
=============================================================================
