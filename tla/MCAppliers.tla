----------------------------- MODULE MCAppliers -----------------------------
EXTENDS Appliers

MCBands == {"2G", "5G"}
MCBandRadio == [b \in Range(AllBands) |->
  CASE b = "2G" -> "0" [] b = "5G" -> "1" [] b = "5G2" -> "2" [] b = "6G" -> "3"]
MCSlug == [n \in {"Guest", "guest!", "staff"} |-> IF n = "staff" THEN "staff" ELSE "guest"]
MCHostOf == [t \in {"", "a", "http://b/portal", "no host"} |->
  CASE t = "a" -> "a" [] t = "http://b/portal" -> "b" [] OTHER -> None]

Set(body) == [type |-> "SET_REQUEST", body |-> Object(body)]
Auth(users) == [type |-> "EVENT_PORTAL_AUTH", body |-> Object("authedUsers" :> users)]

Ssid(name) == "ssidName" :> Text(name)
Client(mac, unauth) == Object("clientMac" :> Text(mac) @@ "unauth" :> Flag(unauth))

(* SSIDs: two that share a section by their slugs, the second one over a   *)
(* limit of one; a VLAN and an omitted SSID; the management VLAN; an LED.  *)
Twins ==
  Set("ssid_2G" :> Object("ssid" :> Array(<<
    Object(Ssid("Guest") @@ "vlanId" :> Digits("10", 10) @@ "pskKey" :> Text("k")
           @@ "radiusAuth" :> Object("enable" :> Flag(FALSE))),
    Object(Ssid("guest!") @@ "vlanId" :> Number(0))>>)))
Tagged ==
  Set("ssid_2G" :> Object("ssid" :> Array(<<
        Object(Ssid("staff") @@ "index" :> Number(1) @@ "vlanId" :> Number(20)),
        Object(Ssid("Guest") @@ "id" :> Number(7))>>))
      @@ "configVersion" :> Number(1))
Management ==
  Set("managementVlan" :> Object("managementVlanEnable" :> Text("on")
                                 @@ "managementVlanId" :> Number(99))
      @@ "wirelessBasic_5G" :> Object("channel" :> Number(36)))
Led == Set("led" :> Object(<<>>))
Inert == Set("ssh" :> Flag(TRUE))

(* Portal: a policy with a client, a portal alone with clients told twice, *)
(* EVENT_PORTAL_AUTH, and SSIDs that need what the platform lacks together *)
(* with a policy.                                                          *)
FreePolicy ==
  Set("portalFreePolicyConfig" :> Object(
        "portalFreePolicy" :> Object("children" :> Array(<<
          Object("value" :> Text("n") @@ "mask" :> Number(24)), None>>))
        @@ "urlPortalFreePolicy" :> Array(<<Object("host" :> Text("a"))>>))
      @@ "clientConfig" :> Array(<<Client("m1", FALSE)>>))
PortalOnly ==
  Set("portalConfigList" :> Array(<<Object("redirectUrl" :> Text("land"))>>)
      @@ "clientConfig" :> Array(<<Client("m1", FALSE), Client("m1", TRUE),
                                   Client("m2", FALSE)>>))
Admit == Auth(Array(<<Object("mac" :> Text("m2") @@ "rst" :> Number(1)),
                      Object("rst" :> Number(2))>>))
Enterprise ==
  Set("ssid_2G" :> Object("ssid" :> Object(Ssid("staff")
        @@ "index" :> Number(1) @@ "macAuth" :> Object(<<>>)))
      @@ "portalFreePolicyConfig" :> Object("urlPortalFreePolicy" :> Object(
           "url" :> Text("http://b/portal"))))
Radio ==
  Set("wirelessBasic_2G" :> Object("radioId" :> Number(0) @@ "channel" :> Number(11))
      @@ "portalFreePolicyConfig" :> Object(
           "portalFreePolicy" :> Object("dstIp" :> Text("n") @@ "dstMask" :> Number(33))
           @@ "urlPortalFreePolicy" :> Object("url" :> Text("http://b/portal"))))

Sound == {Twins, Tagged, Management, Led, Inert, FreePolicy, PortalOnly, Admit,
          Enterprise, Radio}

(* Each of these is a sound request but for one thing.                     *)
Defective ==
  {Set("ssid_2G" :> Object("ssid" :> Object(Ssid("staff") @@ "vlanId" :> Number(4095)))),
   Set("ssid_2G" :> Object("ssid" :> Object(Ssid("staff") @@ "vlanId" :> Number(-1)))),
   Set("ssid_2G" :> Object("ssid" :> Object(Ssid("a name of thirty-three characters")))),
   Set("ssid_2G" :> Object("ssid" :> Array(<<Object(Ssid("staff")), None>>))),
   Set("ssid_2G" :> Object("ssid" :> Object(Ssid("staff") @@ "dhcpOp82" :> Flag(TRUE)))),
   Set("ssid_2G" :> Object("ssid" :> Text("staff"))),
   Set("ssid_5G" :> Number(5)),
   Set("wirelessBasic_2G" :> Number(11)),
   Set("managementVlan" :> Object("managementVlanId" :> Number(4095))),
   Set("portalFreePolicyConfig" :> Object("urlPortalFreePolicy" :> Text("a"))),
   Set("portalFreePolicyConfig" :> Object(
         "portalFreePolicy" :> Object("entries" :> Text("n")))),
   Set("portalConfigList" :> Array(<<None>>)),
   Set("portalConfigList" :> Text("land") @@ "clientConfig" :> Client("m1", FALSE)),
   Set("portalConfigList" :> Text("land") @@ "ssid_5G" :> Number(5)),
   Set("clientConfig" :> Client("nobody", FALSE)),
   Set("clientRateConfig" :> Object("clientRateLimit" :> Object("mac" :> Text("")))),
   Set("wirelessBasic_2G" :> Object("channel" :> Number(11)) @@ "wirelessBasic_7G" :> Number(7)),
   [type |-> "SET_REQUEST", body |-> Array(<<>>)],
   Auth(Text("m1")),
   Auth(Object("mac" :> Text("nobody") @@ "rst" :> Number(1)))}

(* What gets through: a portalConfigList that is no list, alone and beside *)
(* another family, and a client without a word on what to do with it.      *)
GetsThrough ==
  {Set("portalConfigList" :> Text("land")),
   Set("portalConfigList" :> Text("land") @@ "wirelessBasic_2G" :> Object("channel" :> Number(11))),
   Set("clientConfig" :> Object("clientMac" :> Text("m1")))}

MCRequests == Sound \cup Defective \cup GetsThrough
=============================================================================
