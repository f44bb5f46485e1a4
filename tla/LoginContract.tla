--------------------------- MODULE LoginContract ----------------------------
(***************************************************************************)
(* What the greeter's controller may assume of its LoginBackend between    *)
(* two calls.  An outcome is the conversation's state, what greetd holds   *)
(* for this greeter, and whether the call returned Ok:                     *)
(*                                                                         *)
(*   none     no session is being configured                              *)
(*   open     a session is being configured, authenticated or not          *)
(*   started  the user's session was started                               *)
(*                                                                         *)
(* Unlike a PAM worker, which is killed, greetd has to be asked to give up *)
(* a session, and the connection to it can be lost on either side of any   *)
(* request.  A call whose own guard fails changes nothing.                 *)
(***************************************************************************)

Sessions == {"none", "open", "started"}

LoginRestStates == {"Disconnected", "Idle", "Authenticating", "Waiting",
                    "Authenticated", "Failed"}

LoginOutcome(state, session, result) ==
  [state |-> state, session |-> session, result |-> result]

LoginRefused(state, session) == {LoginOutcome(state, session, "Err")}

\* the connection broke before or after greetd acted on the request
Lost(sessions) == {LoginOutcome("Disconnected", s, "Err") : s \in sessions}

\* greetd answered with an error that is no rejection: the session it may still
\* hold is not cancelled
ServiceError(sessions) == {LoginOutcome("Failed", s, "Err") : s \in sessions}

\* where an exchange of authentication messages can stop
LoginAdvance ==
  {LoginOutcome("Waiting", "open", "Ok"), LoginOutcome("Authenticated", "open", "Ok"),
   LoginOutcome("Failed", "none", "Ok"),
   LoginOutcome("Authenticating", "open", "Err")}    \* prompt identifiers exhausted
    \cup ServiceError({"none", "open"}) \cup Lost({"none", "open"})

BeginLoginOutcomes(state, session) ==
  IF state \notin {"Idle", "Failed"} THEN LoginRefused(state, session)
  ELSE IF session = "none" THEN LoginAdvance
  ELSE ServiceError({session}) \cup Lost({session})

LoginRespondOutcomes(state, session) ==
  LoginRefused(state, session) \cup (IF state = "Waiting" THEN LoginAdvance ELSE {})

\* needs_cancel
LoginInTransaction(state, session) ==
  session = "open" /\ state \in {"Authenticating", "Waiting", "Authenticated"}

LoginCancelOutcomes(state, session) ==
  IF LoginInTransaction(state, session)
  THEN {LoginOutcome("Idle", "none", "Ok")}
         \cup ServiceError({"none"}) \cup Lost({"none", session})
  ELSE LoginRefused(state, session)

StartSessionOutcomes(state, session) ==
  IF state = "Authenticated" /\ session = "open"
  THEN {LoginOutcome("Authenticated", "started", "Ok")}
         \cup ServiceError({"open"}) \cup Lost({"open", "started"})
  ELSE LoginRefused(state, session)
=============================================================================
