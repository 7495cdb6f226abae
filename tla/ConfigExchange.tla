--------------------------- MODULE ConfigExchange ---------------------------
(***************************************************************************)
(* The version arithmetic of a SET_REQUEST (application/                   *)
(* configuration_exchange.cpp, lifecycle/managed_request_handler.cpp): who *)
(* is answered, with which configVersion, and which version the agent      *)
(* keeps.  U32Max stands for UINT32_MAX, the widest version the agent can  *)
(* store; the fields of a request are 64 bit and may lie outside.          *)
(***************************************************************************)
EXTENDS Integers

CONSTANTS
  U32Max,   \* largest storable version
  Field,    \* integers a controller may put in a version field
  None      \* std::nullopt: field absent, version unknown

ASSUME ExchangeAssumption ==
  /\ U32Max \in Nat
  /\ Field \subseteq Int
  /\ None \notin Int

Version == 0..U32Max
OptVersion == Version \cup {None}
OptField == Field \cup {None}

(***************************************************************************)
(* What the agent distinguishes in a SET_REQUEST: how far the body parses  *)
(* (kind), whether it carries sequenceId, and its two version fields.      *)
(*   "nobody"      the body is not a JSON object                           *)
(*   "invalid"     a known family does not parse                           *)
(*   "unhandled"   a key no applier knows                                  *)
(*   "inert"       nothing for an applier to do                            *)
(*   "actionable"  at least one family for the appliers                    *)
(***************************************************************************)
Kinds == {"nobody", "invalid", "unhandled", "inert", "actionable"}

SetRequest ==
  {r \in [kind : Kinds, sequenceId : BOOLEAN, configVersion : OptField,
          configVersionInc : OptField] :
     r.kind = "nobody" => /\ ~r.sequenceId
                          /\ r.configVersion = None
                          /\ r.configVersionInc = None}

(* Mutant: what the appliers answered is not looked at.                    *)
ErrcodeUnchecked(r, applied) ==
  IF r.kind \in {"inert", "actionable"} THEN "ok" ELSE "err"

(* evaluate_set_request_with_optional_applier: the error code, given what  *)
(* the appliers answered if they had to run.                               *)
Errcode(r, applied) ==
  IF r.kind = "inert" \/ (r.kind = "actionable" /\ applied) THEN "ok" ELSE "err"

(* build_set_response_body_json fails: the request gets no answer at all.  *)
Answerable(r, current) ==
  /\ r.kind # "nobody"
  /\ r.sequenceId
  /\ \/ r.configVersion # None
     \/ /\ r.configVersionInc # None
        /\ current # None
        /\ r.configVersionInc >= 0

(* The version the request asks for; an absolute version wins.             *)
RequestedVersion(r, current) ==
  IF r.configVersion # None THEN r.configVersion ELSE current + r.configVersionInc

(* The configVersion of the SET_RESPONSE.                                  *)
ResponseVersion(r, current, errcode) ==
  IF errcode # "ok" /\ current # None THEN current ELSE RequestedVersion(r, current)

(* Mutant: a failed SET advances the local version as well.                *)
StoredVersionAlways(r, current, errcode) ==
  LET v == RequestedVersion(r, current)
  IN  IF v \in Version THEN v ELSE current

(* state->config_version after the response was sent.                      *)
StoredVersion(r, current, errcode) ==
  LET v == ResponseVersion(r, current, errcode)
  IN  IF errcode = "ok" /\ v \in Version THEN v ELSE current

(* uint_body_field: a negative or absent field is unknown, a field above   *)
(* UINT32_MAX is truncated by the cast.                                    *)
UintBodyField(f) ==
  IF f = None THEN None ELSE IF f < 0 THEN None ELSE f % (U32Max + 1)
=============================================================================
