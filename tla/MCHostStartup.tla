---------------------------- MODULE MCHostStartup -----------------------------
(* What the files, services and pages of HostStartup may hold, for TLC: each *)
(* good case, and each way out of it that the code distinguishes.            *)
EXTENDS HostStartup

MCDirectories == <<"Wayland", "Wayland", "X11">>

MCConfigFiles ==
  {[state |-> s, raw |-> RawConfig] : s \in {"missing", "unreadable", "oversized", "not_toml"}}
  \cup {[state |-> "toml", raw |-> r] :
         r \in {[RawConfig EXCEPT !.provider = p] : p \in {"auto", "accounts_service", "nss", "none"}}
               \cup {[RawConfig EXCEPT !.default = d, !.greeter = g, !.provider = "none"] :
                      d \in {"id", "directory", "invalid"}, g \in {Unset, "directory"}}
               \cup {[RawConfig EXCEPT !.actions = a, !.provider = "none"] :
                      a \in {<<"suspend", "poweroff">>, <<"reboot", "reboot">>}}
               \cup {[RawConfig EXCEPT !.paths = "relative"], [RawConfig EXCEPT !.scale = "zero"]}}

\* an argument in quotes, as the desktop entry grammar writes it
QuoteCharacter(c) == CASE Escapable(c) -> <<"\\", c>> [] c = "%" -> <<"%", "%">> [] OTHER -> <<c>>
Quote(argument) ==
  <<"\"">> \o FlattenSeq([i \in DOMAIN argument |-> QuoteCharacter(argument[i])]) \o <<"\"">>
QuoteAll(args) == FlattenSeq([i \in DOMAIN args |-> <<" ">> \o Quote(args[i])])

Commands == {<<<<"w">>, <<>>, <<"\"", "$", "=">>>>, <<<<"%", " ", "p", "\\">>, <<"w", "w">>>>}
Execs(meant_as) ==
  {[entry |-> [Entry EXCEPT !.Exec = QuoteAll(args)], command |-> args] : args \in meant_as}
Plain == {[entry |-> [Entry EXCEPT !.Exec = <<"w", "\\", " ", "w", " ", "=">>],
           command |-> <<<<"w", " ", "w">>, <<"=">>>>]}
BadExecs == {<<>>, <<" ">>, <<"p">>, <<"w", "$">>, <<"%", "w">>, <<"w", "%">>, <<"\\">>, <<"w", "nul">>,
             <<"\"", "w">>, <<"\"", "$", "\"">>, <<"\"", "\\", "w", "\"">>, <<"\"", "\"">>,
             <<"w", "\"", "w", "\"">>, <<"\"", "w", "\"", "w">>, <<"w", "=">>}
BadEntries ==
  {[Entry EXCEPT !.Exec = x] : x \in BadExecs} \cup
  {[Entry EXCEPT !.parses = FALSE], [Entry EXCEPT !.group = FALSE],
   [Entry EXCEPT !.Hidden = "true"], [Entry EXCEPT !.Hidden = "1"],
   [Entry EXCEPT !.NoDisplay = "true"], [Entry EXCEPT !.Type = "Link"],
   [Entry EXCEPT !.Name = "empty"], [Entry EXCEPT !.Name = Absent],
   [Entry EXCEPT !.TryExec = "nothing"], [Entry EXCEPT !.DesktopNames = "bad_name"]}
MCDesktopFiles ==
  Execs(Commands) \cup Plain
  \cup {[entry |-> e, command |-> <<>>] : e \in BadEntries}
  \cup {[entry |-> [Entry EXCEPT !.Name = "long", !.DesktopNames = "names"], command |-> <<<<"w">>>>]}

Candidate(id, parses) == [opens |-> TRUE, manifest |-> parses, id |-> id]
MCThemeRoots ==
  {<<[state |-> s, candidates |-> c], [state |-> "listed", candidates |-> <<Candidate(TRUE, "parses")>>]>> :
     s \in {"missing", "unreadable", "listed"}, c \in {<<>>, <<Candidate(FALSE, "parses")>>}}
  \cup {<<[state |-> "listed", candidates |-> <<Candidate(TRUE, "invalid"), Candidate(FALSE, "parses")>>]>>}

ThemeDirectory(entrypoint) ==
  [opens |-> TRUE, manifest |-> "parses", valid_id |-> TRUE, valid_name |-> TRUE, protocol |-> 1,
   entrypoint |-> entrypoint, entry_file |-> "text"]
Index == <<Segment("index", "html")>>
Page  == <<Name("sub"), Segment("page", "htm")>>
MCThemeDirectories ==
  {ThemeDirectory(p) : p \in {Index, Page, <<Segment("app", "js")>>, <<Name(".."), Segment("index", "html")>>}}
  \cup {[ThemeDirectory(Index) EXCEPT !.opens = FALSE], [ThemeDirectory(Index) EXCEPT !.manifest = "invalid"],
        [ThemeDirectory(Index) EXCEPT !.valid_id = FALSE], [ThemeDirectory(Index) EXCEPT !.protocol = 2],
        [ThemeDirectory(Index) EXCEPT !.entry_file = "outside"]}

\* accounts have the uid of their name, which marks their avatars
Icon(owner, magic) == [NoIcon EXCEPT !.kind = "file", !.owner = owner, !.magic = magic]
Fifo(owner)        == [Icon(owner, "png") EXCEPT !.kind = "fifo"]
Account(username, real_name, icon, frequency) ==
  [reads |-> TRUE, system |-> FALSE, locked |-> FALSE, uid |-> username, username |-> username,
   real_name |-> real_name, icon_file |-> icon, login_frequency |-> frequency]
Accounts ==
  {Account(1, "empty", Icon(1, "png"), 0), Account(1, "plain", NoIcon, 1),
   Account(2, "plain", Icon(2, "webp"), 1), Account(2, "control", Icon(2, "png"), 2),
   Account(3, "plain", [Icon(9, "png") EXCEPT !.trusted_root = TRUE], 0),
   Account(3, "plain", Icon(9, "png"), 1),
   Account(2, "empty", Fifo(2), 0),
   Account(EmptyName, "plain", NoIcon, 1), [Account(4, "plain", NoIcon, 3) EXCEPT !.locked = TRUE]}
MCAccountLists == UNION {[1 .. n -> Accounts] : n \in 0 .. 3}

Line(fields, username, u, shell) ==
  [fields |-> fields, username |-> username, uid |-> u, shell |-> shell]
Lines == {Line(7, 1, 1, "login"), Line(7, 2, 2, "login"), Line(7, 3, 3, "login"), Line(7, 2, 2, "nologin"),
          Line(6, 1, 1, "login"), Line(7, 1, NoNumber, "login")}
MCPasswdOutputs == UNION {[1 .. n -> Lines] : n \in 0 .. 3}
Def(key, value) == [key |-> key, value |-> value]
MCLoginDefs == {<<>>, <<Def("UID_MIN", 3), Def("UID_MAX", 3)>>,
                <<Def("UID_MIN", 2), Def("UID_MAX", 3), Def("UID_MIN", NoNumber)>>,
                <<Def("UID_MIN", 3), Def("UID_MAX", 2)>>}

MCProcessUids == {<<1, 1, 1, 1>>, <<0, 0, 0, 0>>, <<1, 0, 1, 1>>, <<1, 1, 1>>}
Record(fields, u, username, gecos) ==
  [fields |-> fields, uid |-> u, username |-> username, gecos |-> gecos]
MCAccountRecords ==
  {<<Record(7, 1, "plain", g)>> : g \in {"plain", "empty", "control"}}
  \cup {<<>>, <<Record(7, 2, "plain", "plain")>>, <<Record(6, 1, "plain", "plain")>>,
        <<Record(7, 1, "long", "plain")>>, <<Record(7, 1, "plain", "plain"), Record(7, 1, "plain", "plain")>>}
MCFoundAccounts ==
  {[uid |-> 1, username |-> 1, icon_file |-> Icon(1, m)] : m \in {"png", "svg"}}
  \cup {[uid |-> u, username |-> 1, icon_file |-> i] : u \in {1, 2}, i \in {Icon(2, "png"), Fifo(1)}}

MCUris ==
  {ThemeUri(p) : p \in {Root, Index, Page, <<Segment("app", "js")>>, <<Segment("other", "html")>>,
                        Manifest, <<Name(".."), Segment("app", "js")>>, <<EmptySegment, Segment("index", "html")>>,
                        <<Segment("", "html")>>, <<Segment("illegal", "css")>>}}
  \cup {AvatarUri(1), AvatarUri(2), Uri("remote", Index)}
MCFiles == {"text", "missing", "directory", "outside", "oversized"}

Begin == Message("auth.begin", Params({"username"}, "safe", "plain"))
MCMessages ==
  {Message(m, NoParams) : m \in Methods \cup {"session.start"}}
  \cup {Message("auth.begin", Params({"username"}, "safe", t)) : t \in TextForms}
  \cup {Message("auth.begin", Params({"username", "other"}, "safe", "plain"))}
  \cup {Message("auth.respond", Params({"promptId", "response"}, n, t)) : n \in IntegerForms, t \in TextForms}
  \cup {Message("session.select", Params({"sessionId"}, "safe", t)) : t \in TextForms}
  \cup {Message("power.request", [Params({"action"}, "safe", "plain") EXCEPT !.known_action = k]) :
          k \in BOOLEAN}
  \cup {[Begin EXCEPT !.size = "oversized"], [Begin EXCEPT !.known = FALSE],
        [Begin EXCEPT !.protocol = "other"], [Begin EXCEPT !.protocol = "not_u16"], [Begin EXCEPT !.protocol = "other", !.id = "unsafe"]}
  \cup {[Begin EXCEPT !.json = j, !.id = i] : j \in {"object", "array", "other", "invalid"}, i \in IntegerForms}

\* what the parsers and the public list make of all this
ASSUME MCData == FilesAreReadAsMeant /\ ListsArePublishedAsExpected
==============================================================================
