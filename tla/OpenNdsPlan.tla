---------------------------- MODULE OpenNdsPlan ----------------------------
(***************************************************************************)
(* The openNDS policy and plan of src/openwrt/opennds.cpp.  The walled     *)
(* garden's port list follows its FQDN list and is not kept apart;         *)
(* gatewayfqdn and allow_preemptive_authentication are constants of every  *)
(* plan and are left out, as is the chmod of the ThemeSpec script.  What   *)
(* a text is as an address or a URL is given by constants.                 *)
(***************************************************************************)
EXTENDS UciPlan

CONSTANTS
  Addresses,      \* texts that are IPv4 addresses
  HostOf,         \* text -> the host host_from_urlish finds in it, or None
  WebUrls,        \* texts normal_portal_url takes
  PortalUrls,     \* those of them with "portal" in their path
  ControllerUrl   \* the portal entry at controller_host; None without one

Option(name) == <<"opennds", name>>

HasPolicyUpdate(u) == u.free # None \/ u.portals # <<>>
HasClientUpdate(u) == \E i \in DOMAIN u.clients : u.clients[i].unauth # None

(* The first text of a list a test accepts.                                *)
FirstIn(texts, accepted) ==
  LET found == SelectSeq(texts, LAMBDA t : t \in accepted)
  IN  IF found = <<>> THEN None ELSE found[1]

(* landing_page_url: of the portals that do not forbid the redirection.    *)
LandingPage(u) ==
  LET portals == SelectSeq(u.portals, LAMBDA p : p.redirect # FALSE)
  IN  FirstIn([i \in DOMAIN portals |-> portals[i].redirect_url], WebUrls)

(* portal_redirect_url: the external server of a portal, then a portal URL *)
(* of the free policy, then a portal's landing page, then the controller.  *)
RedirectUrl(u) ==
  LET candidates ==
        <<FirstIn(FlattenSeq([i \in DOMAIN u.portals |-> u.portals[i].servers]), WebUrls),
          IF u.free # None THEN FirstIn(FlattenSeq(u.free.urls), PortalUrls) ELSE None,
          LandingPage(u),
          ControllerUrl>>
  IN  IF \A i \in DOMAIN candidates : candidates[i] = None THEN None
      ELSE candidates[Min({i \in DOMAIN candidates : candidates[i] # None})]

(* network_from_rule: the first text there is, with the mask if there is   *)
(* one; a rule that makes no network is passed over.                       *)
NetworkOf(rule) ==
  LET address == IF rule.dst_ip # "" THEN rule.dst_ip ELSE rule.value
      mask == IF rule.dst_mask # None THEN rule.dst_mask ELSE rule.mask
  IN  CASE address \notin Addresses      -> None
        [] address \in Addresses /\ mask = None -> <<address>>
        [] address \in Addresses /\ mask # None ->
             IF mask < 0 THEN <<address>>
             ELSE IF mask <= 32 THEN <<address, mask>> ELSE None

(* opennds_portal_policy_from_omada_config: from this update alone.        *)
Policy(u) ==
  [fqdns |-> IF u.free = None THEN {}
             ELSE {HostOf[t] : t \in Range(FlattenSeq(u.free.urls))} \ {None},
   users |-> IF u.free = None THEN {}
             ELSE {NetworkOf(rule) : rule \in Range(u.free.layer2)} \ {None},
   redirect |-> RedirectUrl(u),
   landing |-> LandingPage(u)]

Deletions ==
  <<Cmd("delete", "opennds", Option("fqdn"), ""),
    Cmd("delete", "opennds", Option("users"), ""),
    Cmd("delete", "opennds", Option("themespec"), "")>>

Additions(name, values) ==
  [i \in 1..Cardinality(values) |->
     Cmd("add", "opennds", Option(name), SetToSeq(values)[i])]

ThemeLines(policy) ==
  IF policy.redirect = None
  THEN <<Cmd("set", "opennds", Option("login"), "1")>>
  ELSE <<Cmd("write", "theme", Option("theme"), <<policy.redirect, policy.landing>>),
         Cmd("set", "opennds", Option("login"), "3"),
         Cmd("set", "opennds", Option("themespec"), "path")>>

(* Mutant: the lists of an earlier policy are not deleted first.           *)
BuildOpenNdsPlanAppending(policy) ==
  Additions("fqdn", policy.fqdns) \o Additions("users", policy.users)
  \o ThemeLines(policy)
  \o <<Commit("opennds"), Cmd("restart", "opennds", <<"", "">>, "")>>

BuildOpenNdsPlan(policy) ==
  Deletions \o Additions("fqdn", policy.fqdns) \o Additions("users", policy.users)
  \o ThemeLines(policy)
  \o <<Commit("opennds"), Cmd("restart", "opennds", <<"", "">>, "")>>

(* The openNDS configuration that carries out a policy.                    *)
PolicyConfig(policy) ==
  {<<"opennds", Option("fqdn"), f>> : f \in policy.fqdns}
  \cup {<<"opennds", Option("users"), r>> : r \in policy.users}
  \cup IF policy.redirect = None
       THEN {<<"opennds", Option("login"), "1">>}
       ELSE {<<"opennds", Option("login"), "3">>,
             <<"opennds", Option("themespec"), "path">>}
=============================================================================
