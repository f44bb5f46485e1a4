---------------------------- MODULE AuthBackend -----------------------------
(***************************************************************************)
(* What the locker controller may assume of its ReauthBackend between two  *)
(* calls: the states it can rest in, and for each call the pairs           *)
(* (state afterwards, Ok or Err).  A call whose own guard fails     *)
(* returns an error and changes nothing.  An error that ends a transaction *)
(* leaves Failed, from which begin is accepted again, or Disconnected,     *)
(* from which it never is.                                                 *)
(***************************************************************************)

RestStates == {"Disconnected", "Idle", "Waiting", "Authenticated", "Failed"}

InTransaction(state) == state \in {"Waiting", "Authenticated"}

Outcome(state, result) == [state |-> state, result |-> result]

Refused(state) == {Outcome(state, "Err")}

\* where an exchange with the service can stop
Advance == {Outcome("Waiting", "Ok"), Outcome("Authenticated", "Ok"),
            Outcome("Failed", "Ok"), Outcome("Failed", "Err"),
            Outcome("Disconnected", "Err")}

BeginOutcomes(state) ==
  IF state \in {"Idle", "Failed"} THEN Advance ELSE Refused(state)

\* an answer to a prompt that is no longer active is refused
RespondOutcomes(state) ==
  IF state = "Waiting" THEN Advance \cup Refused(state) ELSE Refused(state)

\* a PAM transaction is ended by killing its worker, which cannot fail
CancelOutcomes(state) ==
  IF InTransaction(state) THEN {Outcome("Idle", "Ok")} ELSE Refused(state)
=============================================================================
