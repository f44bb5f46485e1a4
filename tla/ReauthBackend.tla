--------------------------- MODULE ReauthBackend ----------------------------
(***************************************************************************)
(* The abstract specification of a ReauthBackend: one serial object, seen  *)
(* at the instants its calls return.  PamBackend is shown to implement it, *)
(* and Locker is built on the same outcome sets, so the two components     *)
(* meet exactly here.                                                      *)
(***************************************************************************)
EXTENDS AuthBackend

VARIABLES op,      \* the call that returned last
          state,   \* ConversationBackend::state() after it
          result   \* it returned Ok or Err

vars == <<op, state, result>>

Init == op = "connect" /\ state = "Idle" /\ result = "Ok"

Call(name, outcomes) ==
  \E o \in outcomes : op' = name /\ state' = o.state /\ result' = o.result

BeginReauth == Call("begin_reauth", BeginOutcomes(state))
Respond     == Call("respond", RespondOutcomes(state))
Cancel      == Call("cancel", CancelOutcomes(state))

Next == BeginReauth \/ Respond \/ Cancel

Spec == Init /\ [][Next]_vars
=============================================================================
