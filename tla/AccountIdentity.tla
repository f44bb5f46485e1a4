--------------------------- MODULE AccountIdentity ---------------------------
(***************************************************************************)
(* The account the locker authenticates (fomalhaut-pam identity.rs): the   *)
(* real uid of its own process and the one passwd record getent prints for *)
(* it.                                                                     *)
(***************************************************************************)
EXTENDS Naturals, Sequences, SequencesExt

RootUid == 0

\* parse_process_uid: real, effective, saved and filesystem uid, all the same and not root
IsUnprivileged(uids) ==
  Len(uids) = 4 /\ uids[1] # RootUid /\ \A i \in 1 .. 4 : uids[i] = uids[1]

\* valid_identity_text; the record is split at colons, so none is left in a name
ValidIdentityText(form) == form = "plain"

\* the display name is the first part of gecos, or the username
DisplayForm(record) == IF record.gecos = "empty" THEN record.username ELSE record.gecos

\* parse_passwd_identity: one record, of seven fields, of the uid that was asked for
IsAccountOf(uid, records) ==
  /\ Len(records) = 1
  /\ LET r == records[1] IN
       /\ r.fields = 7
       /\ r.uid = uid
       /\ ValidIdentityText(r.username)
       /\ ValidIdentityText(DisplayForm(r))
==============================================================================
