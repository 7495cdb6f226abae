------------------------------ MODULE Appliers ------------------------------
(***************************************************************************)
(* A SET_REQUEST or EVENT_PORTAL_AUTH from its JSON body to the platform:  *)
(* ConfigParser says what it asks for, and if that is anything             *)
(* CompositeConfigurationApplier runs RuntimeSupportGuard,                 *)
(* OpenWrtUciReconciler and OpenNdsPortalReconciler in this order and the  *)
(* first one that fails ends the update.  Nothing is rolled back, so this  *)
(* module keeps what an update left behind command by command: staged UCI  *)
(* changes outlive the command, the update and the process.                *)
(*                                                                         *)
(* Daemon knows an update only by its outcome (rejected, partial, applied);*)
(* the properties here say what these outcomes are worth.                  *)
(***************************************************************************)
EXTENDS OpenNdsPlan

CONSTANTS
  Requests,  \* requests the controller may send: their type and body
  Limits,    \* values of max_ssids and of the limits iw reports
  NoUpdate,  \* no update
  MaxUpdates \* bound: updates received

VARIABLES
  caps,        \* detected once, when the daemon starts
  pc,          \* "idle" or the applier step that is running
  update,      \* the request whose update is being applied
  queue,       \* the commands of the plan not yet run
  staged,      \* the configuration `uci` shows
  committed,   \* the configuration files
  wifi,        \* wireless and network configuration at the last reload
  portal,      \* openNDS configuration at its last restart
  theme,       \* redirect target and landing page of the ThemeSpec script
  authorised   \* clients openNDS lets through

(* History, read by the properties only.                                   *)
VARIABLES
  outcome,   \* of the last update: "none", "rejected", "failed", "applied"
  ran,       \* the current or last update ran a command
  done,      \* the last request, if it succeeded and nothing came after it
  missed,    \* a tolerated `uci -q delete` left something behind
  cut,       \* some `uci batch` did not run to its end
  received   \* updates received, to bound the model

device == <<staged, committed, wifi, portal, theme, authorised>>
vars == <<caps, pc, update, queue, device, outcome, ran, done, missed, cut, received>>

Init ==
  /\ caps \in {DetectCapabilities(env) : env \in Environment(Limits)}
  /\ pc = "idle"
  /\ update = NoUpdate
  /\ queue = <<>>
  /\ staged = {} /\ committed = {} /\ wifi = {} /\ portal = {}
  /\ theme = None
  /\ authorised = {}
  /\ outcome = "none"
  /\ ran = FALSE
  /\ done = NoUpdate
  /\ missed = FALSE
  /\ cut = FALSE
  /\ received = 0

Finish(result) ==
  /\ pc' = "idle"
  /\ update' = NoUpdate
  /\ queue' = <<>>
  /\ outcome' = result
  /\ done' = IF result = "applied" THEN update ELSE NoUpdate

(***************************************************************************)
(* evaluate_set_request_with_optional_applier, the EVENT_PORTAL_AUTH       *)
(* handler, and RuntimeSupportGuard                                        *)
(***************************************************************************)
(* LEDs, client operations and rate limits (unsupported) have no backend.  *)
GuardAccepts(u) ==
  /\ ~u.unsupported
  /\ u.free # None \/ u.portals # <<>> \/ u.clients # <<>>
       => "portal" \in caps.supports

(* What the parser makes of the requests.                                  *)
KindOf == [r \in Requests |-> Kind(r)]
Parsed == {r \in Requests : KindOf[r] \in {"inert", "actionable"}}
UpdateOf == [r \in Parsed |-> Update(r)]

(* The lists of an update are lists, what a policy allows is finite, and   *)
(* limits are finitely many numbers (uint32_t).                            *)
ASSUME AppliersAssumption ==
  /\ Limits \subseteq Nat /\ IsFiniteSet(Limits)
  /\ \A u \in Range(UpdateOf) :
       /\ u.wlans \in Seq(Range(u.wlans)) /\ u.radios \in Seq(Range(u.radios))
       /\ u.clients \in Seq(Range(u.clients))
       /\ IsFiniteSet(Policy(u).fqdns) /\ IsFiniteSet(Policy(u).users)

(* What happens to a request before an applier plans anything.             *)
Verdict(request) ==
  CASE KindOf[request] \in {"nobody", "invalid", "unhandled"} -> "refused"
    [] KindOf[request] = "inert" -> "nothing"
    [] KindOf[request] = "actionable" ->
         IF GuardAccepts(UpdateOf[request]) THEN "apply" ELSE "refused"

(* A request arrives; the outcome of the last one is of no more interest.  *)
Receive(request) ==
  LET verdict == Verdict(request) IN
  /\ pc = "idle"
  /\ received < MaxUpdates
  /\ received' = received + 1
  /\ done' = IF verdict = "nothing" THEN request ELSE NoUpdate
  /\ ran' = FALSE
  /\ queue' = <<>>
  /\ pc' = IF verdict = "apply" THEN "plan" ELSE "idle"
  /\ update' = IF verdict = "apply" THEN request ELSE NoUpdate
  /\ outcome' = CASE verdict = "apply"   -> "none"
                  [] verdict = "refused" -> "rejected"
                  [] verdict = "nothing" -> "applied"
  /\ UNCHANGED <<caps, device, missed, cut>>

(***************************************************************************)
(* OpenWrtUciReconciler::apply                                             *)
(***************************************************************************)
UciRejects ==
  /\ pc = "plan"
  /\ ~ValidUpdate(UpdateOf[update], caps)
  /\ Finish("rejected")
  /\ UNCHANGED <<caps, device, ran, missed, cut, received>>

UciPlans ==
  /\ pc = "plan"
  /\ ValidUpdate(UpdateOf[update], caps)
  /\ queue' = BuildUciPlan(UpdateOf[update], caps)
  /\ pc' = IF queue' = <<>> THEN "portal" ELSE "batch"
  /\ UNCHANGED <<caps, update, device, outcome, ran, done, missed, cut, received>>

(* One line of the batch.                                                  *)
RunUci(c) ==
  /\ staged' = Effect(staged, c)
  /\ committed' = IF c.op = "commit"
                  THEN (committed \ Of(committed, c.pkg)) \cup Of(staged, c.pkg)
                  ELSE committed

BatchLine ==
  /\ pc = "batch"
  /\ RunUci(Head(queue))
  /\ queue' = Tail(queue)
  /\ pc' = IF queue' = <<>> THEN "reload" ELSE "batch"
  /\ ran' = TRUE
  /\ UNCHANGED <<caps, update, wifi, portal, theme, authorised, outcome, done, missed, cut, received>>

(* The batch fails at this line.                                           *)
BatchFails ==
  /\ pc = "batch"
  /\ Finish("failed")
  /\ cut' = TRUE
  /\ UNCHANGED <<caps, device, ran, missed, received>>

ReloadWifi ==
  /\ pc = "reload"
  /\ wifi' = Of(committed, "wireless") \cup Of(committed, "network")
  /\ pc' = "portal"
  /\ UNCHANGED <<caps, update, queue, staged, committed, portal, theme, authorised,
                 outcome, ran, done, missed, cut, received>>

ReloadFails ==
  /\ pc = "reload"
  /\ Finish("failed")
  /\ UNCHANGED <<caps, device, ran, missed, cut, received>>

(***************************************************************************)
(* OpenNdsPortalReconciler::apply, which the composite holds only when the *)
(* portal is supported                                                     *)
(***************************************************************************)
PortalUpdate(u) == HasPolicyUpdate(u) \/ HasClientUpdate(u)

(* Clients without a word on their authorisation are passed over.          *)
ClientItems(u) ==
  FlattenSeq([i \in DOMAIN u.clients |->
    IF u.clients[i].unauth = None THEN <<>> ELSE <<u.clients[i]>>])

PortalSkipped ==
  /\ pc = "portal"
  /\ "portal" \notin caps.supports \/ ~PortalUpdate(UpdateOf[update])
  /\ Finish("applied")
  /\ UNCHANGED <<caps, device, ran, missed, cut, received>>

PortalPlans ==
  /\ pc = "portal"
  /\ "portal" \in caps.supports
  /\ PortalUpdate(UpdateOf[update])
  /\ CASE ~caps.nds -> Finish("rejected")
       [] caps.nds /\ HasPolicyUpdate(UpdateOf[update]) ->
            /\ pc' = "policy"
            /\ queue' = BuildOpenNdsPlan(Policy(UpdateOf[update]))
            /\ UNCHANGED <<update, outcome, done>>
       [] caps.nds /\ ~HasPolicyUpdate(UpdateOf[update]) ->
            /\ pc' = "clients"
            /\ queue' = ClientItems(UpdateOf[update])
            /\ UNCHANGED <<update, outcome, done>>
  /\ UNCHANGED <<caps, device, ran, missed, cut, received>>

(* What follows the policy's last command: the clients.                    *)
PolicyAdvances ==
  IF Tail(queue) = <<>>
  THEN pc' = "clients" /\ queue' = ClientItems(UpdateOf[update])
  ELSE pc' = "policy" /\ queue' = Tail(queue)

(* A restarted openNDS has its committed configuration and no clients.     *)
PolicyCommand ==
  LET c == Head(queue) IN
  /\ pc = "policy"
  /\ RunUci(c)
  /\ theme' = IF c.op = "write" THEN c.val ELSE theme
  /\ portal' = IF c.op = "restart" THEN Of(committed, "opennds") ELSE portal
  /\ authorised' = IF c.op = "restart" THEN {} ELSE authorised
  /\ PolicyAdvances
  /\ ran' = TRUE
  /\ UNCHANGED <<caps, update, wifi, outcome, done, missed, cut, received>>

(* quiet_uci_delete: a failed deletion is passed over, whatever failed.    *)
DeleteTolerated ==
  /\ pc = "policy"
  /\ Head(queue).op = "delete"
  /\ PolicyAdvances
  /\ missed' = (missed \/ Effect(staged, Head(queue)) # staged)
  /\ UNCHANGED <<caps, update, device, outcome, ran, done, cut, received>>

PolicyFails ==
  /\ pc = "policy"
  /\ Head(queue).op # "delete"
  /\ Finish("failed")
  /\ UNCHANGED <<caps, device, ran, missed, cut, received>>

(* ndsctl deauth or auth of one client; the lookup of its address and the  *)
(* conntrack flush are best effort and change nothing here.                *)
ClientCommand ==
  LET item == Head(queue) IN
  /\ pc = "clients"
  /\ queue # <<>>
  /\ authorised' = IF item.unauth THEN authorised \ {item.mac} ELSE authorised \cup {item.mac}
  /\ queue' = Tail(queue)
  /\ ran' = TRUE
  /\ UNCHANGED <<caps, pc, update, staged, committed, wifi, portal, theme,
                 outcome, done, missed, cut, received>>

ClientFails ==
  /\ pc = "clients"
  /\ queue # <<>>
  /\ Finish("failed")
  /\ UNCHANGED <<caps, device, ran, missed, cut, received>>

ClientsDone ==
  /\ pc = "clients"
  /\ queue = <<>>
  /\ Finish("applied")
  /\ UNCHANGED <<caps, device, ran, missed, cut, received>>

(***************************************************************************)
(* The process dies and is started again; staged changes stay.             *)
(***************************************************************************)
ProcessDies ==
  /\ pc # "idle"
  /\ Finish("failed")
  /\ cut' = (cut \/ pc = "batch")
  /\ UNCHANGED <<caps, device, ran, missed, received>>

(* The device restarts: staged changes are gone, the files are loaded.     *)
Reboot ==
  /\ Finish("none")
  /\ staged' = committed
  /\ wifi' = Of(committed, "wireless") \cup Of(committed, "network")
  /\ portal' = Of(committed, "opennds")
  /\ authorised' = {}
  /\ ran' = FALSE
  /\ cut' = (cut \/ pc = "batch")
  /\ UNCHANGED <<caps, committed, theme, missed, received>>

Next ==
  \/ \E request \in Requests : Receive(request)
  \/ UciRejects
  \/ UciPlans
  \/ BatchLine
  \/ BatchFails
  \/ ReloadWifi
  \/ ReloadFails
  \/ PortalSkipped
  \/ PortalPlans
  \/ PolicyCommand
  \/ DeleteTolerated
  \/ PolicyFails
  \/ ClientCommand
  \/ ClientFails
  \/ ClientsDone
  \/ ProcessDies
  \/ Reboot

Spec == Init /\ [][Next]_vars

(***************************************************************************)
(* Properties                                                              *)
(***************************************************************************)
(* The last of the entries of a list that is about the same thing wins.    *)
LastFor(list, about(_), x) ==
  list[Max({i \in DOMAIN list : about(list[i]) = x})]

SsidsServed(u) ==
  LET active == ActiveWlans(u, caps)
      sections == {WlanSection(active[i]) : i \in DOMAIN active}
  IN  /\ \A s \in sections :
           LET w == LastFor(active, WlanSection, s) IN
           /\ {t \in Of(wifi, "wireless") : t[2] = s} = {<<"wireless", s, Iface(w)>>}
           /\ w.vlan # None => <<"network", VlanSection(w.vlan), "none">> \in wifi
      /\ \A i \in DOMAIN u.wlans :
           WlanSection(u.wlans[i]) \notin sections =>
             \A t \in Of(wifi, "wireless") : t[2] # WlanSection(u.wlans[i])

PortalServed(u) ==
  HasPolicyUpdate(u) =>
    /\ portal = PolicyConfig(Policy(u))
    /\ RedirectUrl(u) # None => theme = <<RedirectUrl(u), LandingPage(u)>>

ClientsServed(u) ==
  LET items == ClientItems(u) IN
  \A i \in DOMAIN items :
    LET last == LastFor(items, LAMBDA item : item.mac, items[i].mac)
    IN  (last.mac \in authorised) <=> ~last.unauth

(* errcode 0 means applied (the "applied" of Daemon): every active SSID of *)
(* the update is on the air with its own settings, on a network that       *)
(* exists; an omitted SSID is not; openNDS runs the update's policy and    *)
(* its clients are authorised as told.  Whatever earlier updates failed,   *)
(* were cut short or left staged makes no difference.                      *)
AppliedIsServed ==
  done # NoUpdate =>
    /\ SsidsServed(UpdateOf[done])
    /\ missed \/ PortalServed(UpdateOf[done])
    /\ ClientsServed(UpdateOf[done])

(***************************************************************************)
(* What can be wrong with a request, said of its JSON alone.               *)
(***************************************************************************)
NoObject(raw) == raw = None \/ raw.json # "object"
NoList(raw) == raw # None /\ raw.json \notin {"object", "array"}
NoVlan(raw) == OptionalInt(raw) # None /\ OptionalInt(raw) \notin 0..4094
NoMac(raw) == OptionalString(raw) \notin Macs

(* Something else than objects in a list, or a flawed one.                 *)
FlawedItem(raw, flawed(_)) ==
  /\ raw # None
  /\ \/ raw.json = "object" /\ flawed(raw)
     \/ raw.json = "array" /\ \E item \in Range(raw.of) : NoObject(item) \/ flawed(item)

FlawedSsid(raw) ==
  \/ NoVlan(Member(raw, "vlanId"))
  \/ Len(OptionalString(Member(raw, "ssidName"))) > 32
  \/ Member(raw, "dhcpOp82") # None /\ NoObject(Member(raw, "dhcpOp82"))
FlawedRule(raw) == \E key \in {"children", "entries"} : NoList(Member(raw, key))
FlawedPortal(raw) == FALSE
FlawedClient(raw) == NoMac(Member(raw, "clientMac"))
FlawedLimit(raw) == NoMac(Member(raw, "mac"))
FlawedUser(raw) == OptionalInt(Member(raw, "rst")) \in {0, 1} /\ NoMac(UserMac(raw))

ClientFamilies == OperationKeys \cup {"clientConfig"}

(* A family that has to be an object and is none.                          *)
Shapeless(key, raw) ==
  /\ key \in Range(RadioKey) \cup Range(SsidKey) \cup LedKeys
       \cup {"managementVlan", "portalFreePolicyConfig", "clientRateConfig"}
  /\ NoObject(raw)

(* A list inside a family, or the family itself, that is no list or has a  *)
(* flawed item.                                                            *)
Flawed(key, raw) ==
  LET inner(name) == Member(raw, name) IN
  \/ /\ key \in Range(SsidKey)
     /\ NoList(inner("ssid")) \/ FlawedItem(inner("ssid"), FlawedSsid)
  \/ key = "managementVlan" /\ NoVlan(inner("managementVlanId"))
  \/ /\ key = "portalFreePolicyConfig"
     /\ \E name \in {"portalFreePolicy", "urlPortalFreePolicy"} :
          NoList(inner(name)) \/ FlawedItem(inner(name), FlawedRule)
  \/ /\ key = "clientRateConfig"
     /\ NoList(inner("clientRateLimit")) \/ FlawedItem(inner("clientRateLimit"), FlawedLimit)
  \/ key = "portalConfigList" /\ (NoList(raw) \/ FlawedItem(raw, FlawedPortal))
  \/ key \in ClientFamilies /\ (NoList(raw) \/ FlawedItem(raw, FlawedClient))

(* A family that means nothing to the agent, or one with a flaw.           *)
FlawIn(body, key) ==
  LET raw == body.of[key] IN
  \/ key \notin kCommonKeys \cup kKnownKeys \cup kPassiveKeys
  \/ raw # None /\ (Shapeless(key, raw) \/ Flawed(key, raw))

Defect(request) ==
  LET body == request.body IN
  \/ NoObject(body)
  \/ /\ request.type = "SET_REQUEST"
     /\ \E key \in DOMAIN body.of : FlawIn(body, key)
  \/ /\ request.type # "SET_REQUEST"
     /\ LET users == Member(body, "authedUsers")
        IN  NoList(users) \/ FlawedItem(users, FlawedUser)

(* The error parse_body_object computes and loses: "portalConfigList must  *)
(* be an object or array" (iter_items) is looked at inside the loop over   *)
(* the items, of which there are none, and found later only if a family    *)
(* about clients is there.                                                 *)
ErrorLost(body, key) ==
  /\ key = "portalConfigList"
  /\ NoList(body.of[key])
  /\ \A other \in ClientFamilies \cup {"clientRateConfig"} : Member(body, other) = None

OnlyLostErrors(request) ==
  /\ request.type = "SET_REQUEST"
  /\ ~NoObject(request.body)
  /\ \A key \in DOMAIN request.body.of :
       FlawIn(request.body, key) => ErrorLost(request.body, key)

(* A request with anything in it that has the wrong type, is out of range  *)
(* or is of a family the agent does not know is never answered with        *)
(* success, not even for the rest of it, with the one exception the code   *)
(* has: a portalConfigList that is no list, the error about which is lost. *)
(* Passive families are no defect: the agent accepts them and does nothing *)
(* (test_configuration.cpp:199).                                           *)
DefectsAreRefused == done # NoUpdate /\ Defect(done) => OnlyLostErrors(done)

(* A rejected update (the "rejected" of Daemon) left the device alone: no  *)
(* applier turns an update down for lack of support once a command of an   *)
(* earlier applier ran.                                                    *)
RejectedUntouched == outcome = "rejected" => ~ran

PolicyConfigs ==
  {PolicyConfig(Policy(u)) : u \in {v \in Range(UpdateOf) : HasPolicyUpdate(v)}}

(* The openNDS configuration is always that of one update: neither a plan  *)
(* that failed half way and left its part staged nor an older policy       *)
(* shows in it, unless a tolerated deletion failed.                        *)
PortalFromOneUpdate ==
  missed \/ Of(committed, "opennds") \in PolicyConfigs \cup {{}}

(* No SSID in the configuration files is on a VLAN that has no network, at *)
(* any line of any batch, SSIDs that earlier updates left included; only a *)
(* batch cut short can break this.                                         *)
NetworksExist ==
  cut \/ \A t \in Of(committed, "wireless") :
           t[2][1] \in Range(AllBands) /\ t[3].network[1] = "vlan" =>
             <<"network", t[3].network, "none">> \in committed
=============================================================================
