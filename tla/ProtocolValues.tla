--------------------------- MODULE ProtocolValues ----------------------------
(***************************************************************************)
(* The values of the frontend protocol (fomalhaut-web/src/protocol).  A    *)
(* text is known by its form, the only thing the validators look at: how   *)
(* it compares with the limit of its field and what characters it holds.   *)
(***************************************************************************)
TextForms == {"plain", "empty", "long", "control", "nul"}

\* validate_text; every caller passes the limit of its own field, which "long" exceeds
ValidText(form, allow_empty, reject_controls) ==
  /\ form = "empty" => allow_empty
  /\ form \notin {"long", "nul"}
  /\ form = "control" => ~reject_controls

\* usernames, display names and identifiers
ValidName(form) == ValidText(form, FALSE, TRUE)

\* JavaScript represents an integer exactly up to MAX_SAFE_INTEGER
IntegerForms == {"safe", "unsafe", "not_u64"}

-----------------------------------------------------------------------------
(* Values the host puts into a snapshot. *)

NoAvatar == 0

\* avatar_url is the identifier of fomalhaut://avatar/<identifier>
UserSummary(username, avatar_url) == [username |-> username, avatar_url |-> avatar_url]

\* UserSummary::new, IdentitySummary::new; the host makes the url, so its form is right
AcceptsUserSummary(username_form, display_form) ==
  ValidName(username_form) /\ ValidName(display_form)

\* SessionSummary::new; the identifier is the stem behind the prefix of its kind
AcceptsSessionSummary(id_form, name_form) ==
  ValidName(id_form) /\ ValidText(name_form, FALSE, FALSE)
==============================================================================
