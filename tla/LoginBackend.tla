---------------------------- MODULE LoginBackend ----------------------------
(***************************************************************************)
(* The abstract specification of a LoginBackend: one serial object and the *)
(* session its service holds for it, seen at the instants its calls        *)
(* return.  GreetdClient is shown to implement it; Greeter is built on the *)
(* same outcome sets.                                                      *)
(***************************************************************************)
EXTENDS LoginContract

VARIABLES op,       \* the call that returned last
          state,    \* ConversationBackend::state() after it
          session,  \* what greetd holds
          result    \* it returned Ok or Err

vars == <<op, state, session, result>>

Init == op = "connect" /\ state = "Idle" /\ session = "none" /\ result = "Ok"

Call(name, outcomes) ==
  \E o \in outcomes :
    op' = name /\ state' = o.state /\ session' = o.session /\ result' = o.result

BeginLogin   == Call("begin_login", BeginLoginOutcomes(state, session))
Respond      == Call("respond", LoginRespondOutcomes(state, session))
Cancel       == Call("cancel", LoginCancelOutcomes(state, session))
StartSession == Call("start_session", StartSessionOutcomes(state, session))

Next == BeginLogin \/ Respond \/ Cancel \/ StartSession

Spec == Init /\ [][Next]_vars
=============================================================================
