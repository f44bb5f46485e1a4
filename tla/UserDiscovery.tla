---------------------------- MODULE UserDiscovery ----------------------------
(***************************************************************************)
(* What user discovery makes of what it reads (fomalhaut-user): the users  *)
(* of the accounts service, the lines of the passwd database, the files    *)
(* that icons name, and the public list.  A username is a number in the    *)
(* order of the names; the empty one is the least.                         *)
(***************************************************************************)
EXTENDS ProtocolValues, Naturals, Sequences, SequencesExt

EmptyName == 0
LongName  == 9
NameForm(username) == CASE username = EmptyName -> "empty"
                        [] username = LongName  -> "long"
                        [] OTHER                -> "plain"

RawUser(uid, username, display, icon, frequency) ==
  [uid |-> uid, username |-> username, display_name |-> display, icon_file |-> icon,
   login_frequency |-> frequency]

-----------------------------------------------------------------------------
(* Icons.  An icon file is what its opened handle tells: the owner, and    *)
(* whether the real path lies under the trusted root.  Its kind is         *)
(* "nothing" when the path is not absolute, is a link or does not open.    *)

IconKinds == {"nothing", "file", "fifo"}

NoIcon == [kind |-> "nothing", owner |-> 0, trusted_root |-> FALSE, size |-> "fits",
           magic |-> "png"]

\* there is no O_NONBLOCK: the open of a FIFO waits until somebody opens it for writing
OpenWaits(icon) == icon.kind = "fifo"

AvatarContentTypes == {"png", "jpeg", "webp"}

\* read_avatar, once the file is open: only a regular one is read
ReadsAvatar(icon, uid) ==
  /\ icon.kind = "file"
  /\ icon.size = "fits"
  /\ icon.owner = uid \/ icon.trusted_root
  /\ icon.magic \in AvatarContentTypes

\* ResourceAsset::avatar, of which the body is known by whose it is
Avatar(identifier, uid) == [identifier |-> identifier, body |-> uid]

\* discover_current_avatar: the identity found must be the one asked for
IsAccount(uid, username, found) == found.uid = uid /\ found.username = username

CurrentAvatarWaits(uid, username, found) ==
  IsAccount(uid, username, found) /\ OpenWaits(found.icon_file)

CurrentAvatar(uid, username, found) ==
  IF IsAccount(uid, username, found) /\ ReadsAvatar(found.icon_file, uid)
  THEN <<Avatar(1, uid)>> ELSE <<>>

-----------------------------------------------------------------------------
(* The accounts service. *)

\* accounts_service_user: properties that cannot be read make no user; an unreadable
\* icon or login frequency is none
IsPublicAccount(properties) == properties.reads /\ ~properties.system /\ ~properties.locked

AccountsServiceUser(properties) ==
  RawUser(properties.uid, properties.username,
          IF properties.real_name = "empty" THEN NameForm(properties.username)
                                            ELSE properties.real_name,
          properties.icon_file, properties.login_frequency)

AccountsServiceUsers(listed) ==
  LET public == SelectSeq(listed, IsPublicAccount)
  IN  [i \in DOMAIN public |-> AccountsServiceUser(public[i])]

-----------------------------------------------------------------------------
(* The passwd database. *)

DefaultRange == [minimum |-> 1, maximum |-> 2]    \* 1000 .. 60000, scaled down

\* read_uid_range: the last line of a key counts, and a value that is no number
\* (NoNumber) or a key without a line leaves no range
NoNumber == 99
UidRange(login_defs) ==
  LET values(key) == SelectSeq(login_defs, LAMBDA line : line.key = key)
      given(key)  == values(key) # <<>> /\ Last(values(key)).value # NoNumber
      minimum     == Last(values("UID_MIN")).value
      maximum     == Last(values("UID_MAX")).value
  IN  IF given("UID_MIN") /\ given("UID_MAX") /\ minimum <= maximum
      THEN [minimum |-> minimum, maximum |-> maximum]
      ELSE DefaultRange

\* parse_passwd: one line that is malformed fails all
PasswdParses(lines, max_entries) ==
  Len(lines) <= max_entries /\ \A line \in ToSet(lines) : line.fields = 7 /\ line.uid # NoNumber

PasswdUsers(lines, range) ==
  LET listed == SelectSeq(lines, LAMBDA line :
                  line.uid \in range.minimum .. range.maximum /\ line.shell = "login")
  IN  [i \in DOMAIN listed |-> RawUser(listed[i].uid, listed[i].username,
                                       NameForm(listed[i].username), NoIcon, 0)]

-----------------------------------------------------------------------------
(* The public list. *)

Before(left, right) ==
  \/ left.login_frequency > right.login_frequency
  \/ left.login_frequency = right.login_frequency /\ left.username <= right.username

NoUsers == [seen |-> {}, summaries |-> <<>>, avatars |-> <<>>]

\* the icon of a user is opened only when the list still takes the user
Considers(max_users, public, user) ==
  Len(public.summaries) < max_users /\ user.username \notin public.seen

\* one user of the loop of build_public_users
PublishUser(max_users, public, user) ==
  LET named   == [public EXCEPT !.seen = @ \cup {user.username}]
      shows   == ReadsAvatar(user.icon_file, user.uid)
      next    == Len(public.avatars) + 1
      summary == UserSummary(user.username, IF shows THEN next ELSE NoAvatar)
  IN  IF ~Considers(max_users, public, user) THEN public
      ELSE IF ~AcceptsUserSummary(NameForm(user.username), user.display_name) THEN named
      ELSE [named EXCEPT
             !.summaries = Append(@, summary),
             !.avatars   = IF shows THEN Append(@, Avatar(next, user.uid)) ELSE @]

\* build_public_users; its sort is stable
Sorted(raw) == SortSeq(raw, LAMBDA l, r : Before(l, r) /\ ~Before(r, l))

PublishAll(max_users, users) ==
  FoldLeft(LAMBDA public, user : PublishUser(max_users, public, user), NoUsers, users)

BuildPublicUsers(raw, max_users) == PublishAll(max_users, Sorted(raw))

\* ... which comes to the open of a FIFO
BuildWaits(raw, max_users) ==
  LET sorted == Sorted(raw)
  IN  \E n \in DOMAIN sorted :
        /\ OpenWaits(sorted[n].icon_file)
        /\ Considers(max_users, PublishAll(max_users, SubSeq(sorted, 1, n - 1)), sorted[n])
==============================================================================
