----------------------------- MODULE MCBringup -----------------------------
EXTENDS Bringup

Section(type, name, options) == [type |-> type, name |-> name, options |-> options]

(* The sections of the README's example, each with a name.                 *)
File(name(_), enabled, host, id, mac) ==
  <<Section("controller", name("controller"),
      "enabled" :> enabled @@ "host" :> host @@ "controller_id" :> id @@ "password" :> "pw"),
    Section("agent", name("agent"), "managed_reconnect_attempts" :> "1"),
    Section("device", name("device"), "mac" :> mac)>>

OwnName(type) == type

(* As in the README and in the packaged file.                              *)
Main(type) == "main"

(* Two hosts, one of them with a configured controller id; not switched    *)
(* on; without a MAC address; and switched on for the agent only.          *)
MCFiles ==
  {File(OwnName, "1", "h1", "", "m1"),
   File(OwnName, "1", "h2", "c9", "m1"),
   File(OwnName, "", "h2", "", "m1"),
   File(OwnName, "1", "h1", "", ""),
   File(Main, "1", "h2", "", "m1")}

PackagedFiles == {File(Main, e, "h1", "", "m1") : e \in {"0", "1"}}

Datagram(kind, dest, port) == [kind |-> kind, dest |-> dest, port |-> port]

MCDatagrams ==
  {Datagram("PRE_ADOPT_REQUEST", "c1", 1), Datagram("PRE_ADOPT_REQUEST", "c2", 0),
   Datagram("PRE_ADOPT_REQUEST", "site", 2), Datagram("undecodable", "", 0)}

(* A state of the first host, and one of another device.                   *)
MCEarlier ==
  {[mac |-> mac, host |-> "h1", controller |-> "c0", port |-> 9, site |-> ""] :
     mac \in {"m1", "m2"}}

MCNumberOf == "1" :> 1

(* The environment is that of the last call of procd_set_param.            *)
LastOption == In("portal", {"flush_conntrack_on_deauth"})
=============================================================================
