-------------------------- MODULE FrontendProtocol ---------------------------
(***************************************************************************)
(* Decoding of one message of a page (protocol/request.rs).  A message is  *)
(* what serde sees of it: whether it is JSON of an acceptable size, its    *)
(* top-level shape and the form of each field.  serde reads a structure    *)
(* from an object or, field by field, from an array; only an object gives  *)
(* its id away before it is known to be well formed.                       *)
(***************************************************************************)
EXTENDS ProtocolValues

Modes   == {"Greeter", "Locker"}
Methods == {"state.get", "auth.begin", "auth.respond", "auth.cancel", "session.select",
            "power.request"}

\* params: its fields, the forms of the values that are there, and whether an action is one
\* of the three words of PowerAction
Params(fields, number, text) ==
  [fields |-> fields, number |-> number, text |-> text, known_action |-> TRUE]
NoParams == Params({}, "safe", "plain")

Message(method, params) ==
  [size |-> "fits", json |-> "object", known |-> TRUE, protocol |-> "one", id |-> "safe",
   method |-> method, params |-> params]

MessageForms ==
  [size : {"fits", "oversized"}, json : {"object", "array", "other", "invalid"}, known : BOOLEAN,
   protocol : {"one", "other", "not_u16"}, id : IntegerForms, method : STRING,
   params : [fields : SUBSET STRING, number : IntegerForms, text : TextForms,
             known_action : BOOLEAN]]

NoId == "none"
Accepted(id, method, username) ==
  [code |-> "ok", id |-> id, method |-> method, username |-> username]
Refused(id, code) == [code |-> code, id |-> id, method |-> "none", username |-> FALSE]

\* request_id_hint
IdHint(m) == IF m.json = "object" /\ m.id = "safe" THEN m.id ELSE NoId

\* RawEnvelope: all four fields, of the right types, and no other
IsEnvelope(m) ==
  m.json \in {"object", "array"} /\ m.known /\ m.id # "not_u64" /\ m.protocol # "not_u16"

\* auth.begin has a form for each role; the untagged choice takes what fits
ParamsFit(method, p) ==
  CASE method = "auth.begin"     -> p.fields \in {{}, {"username"}}
    [] method = "auth.respond"   -> p.fields = {"promptId", "response"} /\ p.number # "not_u64"
    [] method = "session.select" -> p.fields = {"sessionId"}
    [] method = "power.request"  -> p.fields = {"action"} /\ p.known_action
    [] OTHER                     -> p.fields = {}

\* the values, once the types are right
ParamsValid(method, p) ==
  CASE method = "auth.begin"     -> p.fields = {"username"} => ValidName(p.text)
    [] method = "auth.respond"   -> p.number = "safe" /\ ValidText(p.text, TRUE, FALSE)
    [] method = "session.select" -> ValidName(p.text)
    [] OTHER                     -> TRUE

DecodeMethod(m) ==
  IF m.method \notin Methods THEN Refused(m.id, "unknown_method")
  ELSE IF ParamsFit(m.method, m.params) /\ ParamsValid(m.method, m.params)
  THEN Accepted(m.id, m.method, m.params.fields = {"username"})
  ELSE Refused(m.id, "invalid_params")

DecodeRequest(m) ==
  IF m.size = "oversized"                    THEN Refused(NoId, "message_too_large")
  ELSE IF m.json = "invalid"                 THEN Refused(NoId, "invalid_json")
  ELSE IF ~IsEnvelope(m) \/ m.id = "unsafe"  THEN Refused(IdHint(m), "invalid_request")
  ELSE IF m.protocol # "one"                 THEN Refused(m.id, "unsupported_version")
  ELSE DecodeMethod(m)

\* the form of auth.begin follows the role
AllowedInModeInAnyForm(d, mode) == d.method = "session.select" => mode = "Greeter"

AllowedInMode(d, mode) ==
  CASE d.method = "auth.begin"     -> d.username <=> mode = "Greeter"
    [] d.method = "session.select" -> mode = "Greeter"
    [] OTHER                       -> TRUE

\* decode_request_for_mode
DecodeRequestForMode(m, mode) ==
  LET d == DecodeRequest(m) IN
  IF d.code # "ok" \/ AllowedInMode(d, mode) THEN d
  ELSE Refused(d.id, IF d.method = "session.select" THEN "method_disabled" ELSE "invalid_params")
==============================================================================
