---------------------------- MODULE HostStartup ------------------------------
(***************************************************************************)
(* From the start of a host process to a page that has its first snapshot: *)
(* the GTK main thread of the greeter (fomalhaut/src/gtk_host.rs) or the   *)
(* locker (fomalhaut-lock/src/gtk_host.rs), its controller thread, the     *)
(* greeter's discovery thread, the getent process either of them runs, and *)
(* the page.  What is read from the system is chosen when it is read, so   *)
(* two reads of one file may differ.  The catalog of sessions leaves this  *)
(* module with the controller it moves into.                               *)
(***************************************************************************)
EXTENDS FrontendProtocol, SessionDiscovery, UserDiscovery, ThemeStore, HostConfig,
        AccountIdentity

CONSTANTS
  MaxUsers, MaxSessions, MaxEntries, \* MAX_USERS, MAX_SESSIONS, MAX_NSS_ENTRIES
  Directories,      \* the kinds of the session directories, in their order
  Stems,            \* stems of desktop files
  ConfigFiles,      \* what the configuration file may be
  DesktopFiles,     \* desktop entries with the command meant by them, <<>> for none
  ThemeRoots,       \* what the theme roots may hold
  ThemeDirectories, \* what a theme directory may hold
  AccountLists,     \* what ListCachedUsers may list
  PasswdOutputs,    \* what getent may print for all accounts
  LoginDefs,        \* lines of login.defs
  ProcessUids,      \* uids of the process
  AccountRecords,   \* what getent may print for one account
  FoundAccounts,    \* what FindUserById may lead to
  Uris, Files,      \* what a page may ask for, and what is there
  Messages          \* what a page may send

ASSUME StartupAssumption ==
  /\ MaxUsers \in Nat /\ MaxSessions \in Nat /\ MaxEntries \in Nat
  /\ Directories \in Seq(Kinds)
  /\ IsFiniteSet(Stems)
  /\ Messages \subseteq MessageForms

VARIABLES
  role,      \* which host this is
  main,      \* the step the GTK main thread is at
  config,    \* the configuration of the role
  theme,     \* the opened theme
  scan,      \* directories begun, and the files of the last still to load
  found,     \* what the session discovery has
  meant,     \* history: the command the first file of each identifier stands for
  uid,       \* the account of the locker
  worker,    \* the step the controller thread is at
  finder,    \* the step the discovery thread is at
  answer,    \* what is in the channel of the discovery
  lookup,    \* one run of getent: the step of its caller, the child, the reader
  users,     \* the controller's users and the resources it hands over
  expected,  \* history: the users that were to be published
  power,     \* the controller's capabilities
  outputs,   \* outputs of the controller thread, oldest first
  resources, \* the resources the URI scheme serves
  asked,     \* where the state.get of the page is
  snapshot   \* the page's snapshot

startVars  == <<config, theme, scan, found, meant>>
workerVars == <<worker, finder, answer, users, expected, power>>
pageVars   == <<resources, asked, snapshot>>
vars == <<role, main, startVars, uid, workerVars, lookup, outputs, pageVars>>

NoSnapshot == [users |-> <<>>, power |-> <<>>, sent |-> FALSE]
Lookup(step, child, reader, status) ==
  [step |-> step, child |-> child, reader |-> reader, status |-> status]
NoLookup   == Lookup("idle", "none", "none", "none")
NewLookup  == Lookup("polling", "running", "reading", "none")

Init ==
  /\ role \in Modes
  /\ main = "config"
  /\ config = ForRole(RawConfig, role) /\ theme = Embedded
  /\ scan = [begun |-> 0, files |-> {}] /\ found = NothingFound /\ meant = <<>>
  /\ uid = RootUid
  /\ worker = "none" /\ finder = "none" /\ answer = <<>> /\ lookup = NoLookup
  /\ users = NoUsers /\ expected = {} /\ power = <<>>
  /\ outputs = <<>> /\ resources = <<>> /\ asked = "no" /\ snapshot = NoSnapshot

-----------------------------------------------------------------------------
(* The main thread, before there is a window.  Every error ends it.        *)

At(step) == main = step /\ UNCHANGED <<role, outputs, pageVars>>
Goes(ok, step) == main' = IF ok THEN step ELSE "failed"

SessionLockUnsupported ==
  /\ At("config") /\ role = "Locker"
  /\ Goes(FALSE, "failed")
  /\ UNCHANGED <<startVars, uid, workerVars, lookup>>

LoadConfig ==
  /\ At("config")
  /\ \E file \in ConfigFiles :
       /\ config' = IF Loads(file.state, file.raw)
                    THEN ForRole(Configured(file.state, file.raw), role) ELSE config
       /\ Goes(Loads(file.state, file.raw), "theme")
  /\ UNCHANGED <<theme, scan, found, meant, uid, workerVars, lookup>>

\* resolve_theme, then ThemeSource::external, which reads the directory again
SelectsTheme(roots) == config.theme = "id" => DiscoverTheme(roots) # NoTheme

OpenTheme ==
  /\ At("theme")
  /\ \E roots \in ThemeRoots, directory \in ThemeDirectories :
       LET external == config.theme # Unset
           opens    == external => SelectsTheme(roots) /\ OpensTheme(directory)
       IN  /\ theme' = IF external /\ opens THEN External(directory) ELSE theme
           /\ Goes(opens, IF role = "Greeter" THEN "socket" ELSE "identity")
  /\ UNCHANGED <<config, scan, found, meant, uid, workerVars, lookup>>

\* greetd_socket_path
FindSocket ==
  /\ At("socket")
  /\ \E socket \in {"unset", "empty", "relative", "absolute"} :
       Goes(socket = "absolute", "sessions")
  /\ UNCHANGED <<startVars, uid, workerVars, lookup>>

\* read_directory: a directory that is not there is empty, an unreadable one ends it all; a
\* file whose name is no text is passed over
ReadDirectory ==
  /\ At("sessions")
  /\ scan.files = {} /\ scan.begun < Len(Directories)
  /\ \/ /\ \E files \in SUBSET Stems : scan' = [begun |-> scan.begun + 1, files |-> files]
        /\ UNCHANGED main
     \/ UNCHANGED scan /\ Goes(FALSE, "failed")
  /\ UNCHANGED <<config, theme, found, meant, uid, workerVars, lookup>>

\* discover, one file; the identifiers of one directory differ, so their order is free
LoadDesktopFile ==
  /\ At("sessions")
  /\ \E stem \in scan.files, file \in DesktopFiles :
       LET id == SessionId(Directories[scan.begun], stem) IN
       /\ scan' = [scan EXCEPT !.files = @ \ {stem}]
       /\ found' = DiscoverFile(found, id, file.entry)
       /\ meant' = IF id \in DOMAIN meant THEN meant
                   ELSE WithEntry(meant, id, IF stem = "control" THEN <<>> ELSE file.command)
  /\ UNCHANGED <<main, config, theme, uid, workerVars, lookup>>

TrustSessions ==
  /\ At("sessions")
  /\ scan.begun = Len(Directories) /\ scan.files = {}
  /\ Goes(TrustsCatalog(found.entries, MaxSessions), "spawn")
  /\ UNCHANGED <<startVars, uid, workerVars, lookup>>

\* CurrentUserIdentity::discover, up to the run of getent; it may not start
InspectProcess ==
  /\ At("identity")
  /\ \E uids \in ProcessUids, starts \in BOOLEAN :
       LET goes_on == IsUnprivileged(uids) /\ starts IN
       /\ uid' = IF goes_on THEN uids[1] ELSE uid
       /\ lookup' = IF goes_on THEN NewLookup ELSE lookup
       /\ Goes(goes_on, "lookup")
  /\ UNCHANGED <<startVars, workerVars>>

\* ... and from its end
IdentifyAccount ==
  /\ At("lookup")
  /\ \/ lookup.step = "error" /\ Goes(FALSE, "failed")
     \/ /\ lookup.step = "ok"
        /\ \E records \in AccountRecords : Goes(IsAccountOf(uid, records), "spawn")
  /\ lookup' = Lookup("idle", lookup.child, "none", "none")
  /\ UNCHANGED <<startVars, uid, workerVars>>

\* WorkerHandle::spawn moves the catalog; the greeter builds its view at once
SpawnWorker ==
  /\ At("spawn")
  /\ \/ Goes(TRUE, IF role = "Greeter" THEN "serving" ELSE "waiting") /\ worker' = "starting"
     \/ Goes(FALSE, "failed") /\ UNCHANGED worker
  /\ scan' = [begun |-> 0, files |-> {}] /\ found' = NothingFound /\ meant' = <<>>
  /\ UNCHANGED <<config, theme, uid, finder, answer, users, expected, power, lookup>>

-----------------------------------------------------------------------------
(* One bounded run of getent: run_bounded_command for the discovery        *)
(* thread, run_getent for the main thread of the locker.  The latter       *)
(* joins the thread that reads the output before it reports an error.      *)

ProcessRuns == main # "failed"
Looks       == ProcessRuns
                /\ UNCHANGED <<role, main, startVars, uid, workerVars, outputs, pageVars>>
FailedLookup(l) == [l EXCEPT !.step = IF role = "Locker" THEN "joining" ELSE "error"]

ChildExits ==
  /\ Looks /\ lookup.child = "running"
  /\ \E status \in {"succeeded", "failed"} :
       lookup' = [lookup EXCEPT !.child = status, !.status = status]

\* a child that did not end well may have written a part, one that did has written all;
\* the thread gives up at its limit
ReaderEnds ==
  /\ Looks /\ lookup.reader = "reading"
  /\ \E output \in {"complete", "partial", "oversized", "not_utf8"} :
       /\ output = "partial" => lookup.status \in {"failed", "killed"}
       /\ lookup' = [lookup EXCEPT !.reader = output]

\* try_wait, which also reaps
ChildIsWaitedForAnyStatus ==
  /\ Looks /\ lookup.step = "polling" /\ lookup.child \in {"succeeded", "failed"}
  /\ lookup' = [lookup EXCEPT !.child = "none", !.step = "waiting"]

ChildIsWaitedFor ==
  /\ Looks /\ lookup.step = "polling" /\ lookup.child \in {"succeeded", "failed"}
  /\ LET reaped == [lookup EXCEPT !.child = "none"]
     IN  lookup' = IF lookup.child = "succeeded" THEN [reaped EXCEPT !.step = "waiting"]
                                                 ELSE FailedLookup(reaped)

\* terminate_child at the deadline, or when the child cannot be waited for
DeadlineWithoutKill ==
  /\ Looks /\ lookup.step = "polling" /\ lookup.child = "running"
  /\ lookup' = FailedLookup(lookup)

DeadlinePasses ==
  /\ Looks /\ lookup.step = "polling" /\ lookup.child = "running"
  /\ lookup' = FailedLookup([lookup EXCEPT !.child = "none", !.status = "killed"])

TakeOutput ==
  /\ Looks /\ lookup.step = "waiting" /\ lookup.reader # "reading"
  /\ lookup' = [lookup EXCEPT !.step = IF lookup.reader \in {"complete", "partial"}
                                       THEN "ok" ELSE "error"]

GracePasses ==
  /\ Looks /\ lookup.step = "waiting" /\ lookup.reader = "reading"
  /\ lookup' = [lookup EXCEPT !.step = "error"]

JoinReader ==
  /\ Looks /\ lookup.step = "joining" /\ lookup.reader # "reading"
  /\ lookup' = [lookup EXCEPT !.step = "error"]

-----------------------------------------------------------------------------
(* The discovery thread of the greeter, and what was to be published.      *)

Finds == ProcessRuns
          /\ UNCHANGED <<role, main, startVars, uid, worker, users, power, outputs, pageVars>>

\* the best record of each name, of those the best names, without a look at the lists the
\* code builds
Ranks(raw, i, j) ==
  IF Before(raw[i], raw[j]) /\ Before(raw[j], raw[i]) THEN i < j ELSE Before(raw[i], raw[j])
BestOf(raw) ==
  {i \in DOMAIN raw : \A j \in DOMAIN raw :
                        raw[j].username = raw[i].username /\ j # i => Ranks(raw, i, j)}
Publishable(raw) ==
  {i \in BestOf(raw) : ValidName(NameForm(raw[i].username)) /\ ValidName(raw[i].display_name)}
Published(raw) ==
  {[username |-> raw[i].username, rank |-> Cardinality({j \in Publishable(raw) : Ranks(raw, j, i)}),
    shown    |-> ReadsAvatar(raw[i].icon_file, raw[i].uid)] : i \in Publishable(raw)}
Expected(raw) == {u \in Published(raw) : u.rank < MaxUsers}

\* the send of the thread, of the users in raw when due is what there was to read; nobody
\* receives it after the time is out
Sends(raw, ok, due) ==
  /\ finder' = "done"
  /\ IF worker = "discovering"
     THEN /\ answer' = <<IF ok THEN BuildPublicUsers(raw, MaxUsers) ELSE NoUsers>>
          /\ expected' = IF ok THEN Expected(due) ELSE {}
     ELSE UNCHANGED <<answer, expected>>

\* discover_users_with; the service answers each call in its time, with a list or without,
\* and the icons of those it lists are opened
AskAccountsService ==
  /\ Finds /\ finder = "running" /\ config.provider \in {"auto", "accounts_service"}
  /\ \/ \E listed \in AccountLists :
          LET raw == AccountsServiceUsers(listed)
          IN  IF BuildWaits(raw, MaxUsers)
              THEN finder' = "opening" /\ UNCHANGED <<answer, expected>>
              ELSE Sends(raw, TRUE, raw)
     \/ Sends(<<>>, FALSE, <<>>)                                    \* access denied, or no fallback
     \/ config.provider = "auto" /\ finder' = "nss" /\ UNCHANGED <<answer, expected>>
  /\ UNCHANGED lookup

\* somebody opened the FIFO the thread waits at; the list is one of those that come to it
IconOpens ==
  /\ Finds /\ finder = "opening"
  /\ \E listed \in AccountLists :
       LET raw == AccountsServiceUsers(listed) IN BuildWaits(raw, MaxUsers) /\ Sends(raw, TRUE, raw)
  /\ UNCHANGED lookup

\* discover_nss, up to the run of getent; it may not start
AskNss ==
  /\ Finds
  /\ finder = "nss" \/ (finder = "running" /\ config.provider = "nss")
  /\ \/ /\ lookup' = NewLookup
        /\ finder' = "looking" /\ UNCHANGED <<answer, expected>>
     \/ Sends(<<>>, FALSE, <<>>) /\ UNCHANGED lookup

\* parse_passwd; a child that failed has not shown its last line
ReadPasswd ==
  /\ Finds /\ finder = "looking"
  /\ \/ lookup.step = "error" /\ Sends(<<>>, FALSE, <<>>)
     \/ /\ lookup.step = "ok"
        /\ \E lines \in PasswdOutputs, defs \in LoginDefs :
             LET shown == IF lookup.reader = "partial" /\ lines # <<>> THEN Front(lines) ELSE lines
             IN  Sends(PasswdUsers(shown, UidRange(defs)), PasswdParses(shown, MaxEntries),
                       PasswdUsers(lines, UidRange(defs)))
  /\ lookup' = Lookup("idle", lookup.child, "none", "none")

-----------------------------------------------------------------------------
(* The controller thread. *)

WorkerAt(step) == ProcessRuns /\ worker = step
                   /\ UNCHANGED <<role, main, startVars, uid, lookup, resources, snapshot>>
Outputs(kind)  == outputs' = Append(outputs, [kind |-> kind])
Stops          == worker' = "stopped" /\ Outputs("Fatal")

\* discover_users: the provider may be none, and the thread may not start
StartDiscovery ==
  /\ WorkerAt("starting") /\ role = "Greeter"
  /\ \/ config.provider # "none" /\ worker' = "discovering" /\ finder' = "running"
     \/ worker' = "connecting" /\ UNCHANGED finder
  /\ UNCHANGED <<answer, users, expected, power, outputs, asked>>

TakeAnswer ==
  /\ WorkerAt("discovering") /\ answer # <<>>
  /\ users' = Head(answer) /\ answer' = <<>>
  /\ worker' = "connecting"
  /\ UNCHANGED <<finder, expected, power, outputs, asked>>

DiscoveryTimesOut ==
  /\ WorkerAt("discovering") /\ answer = <<>>
  /\ worker' = "connecting"
  /\ UNCHANGED <<finder, answer, users, expected, power, outputs, asked>>

\* the PAM worker is there: the main thread may lock; the avatar is only cosmetic
PrepareBackend ==
  /\ WorkerAt("starting") /\ role = "Locker"
  /\ \/ worker' = "connecting" /\ Outputs("BackendReady")
     \/ Stops
  /\ UNCHANGED <<finder, answer, users, expected, power, asked>>

ResourcesOf(account) == CurrentAvatar(uid, uid, account)

\* the rest of the start
Runs == /\ worker' = "running"
        /\ \E granted \in SUBSET ToSet(PowerOrder) : power' = Capabilities(config.power, granted)
        /\ Outputs("Ready")
        /\ UNCHANGED <<finder, answer, expected, asked>>

ShowsAccount(avatars) ==
  users' = [NoUsers EXCEPT !.avatars = avatars,
                           !.summaries = <<UserSummary(uid, Len(avatars))>>]

\* the greeter connects to greetd
Connect ==
  /\ WorkerAt("connecting") /\ role = "Greeter"
  /\ \/ Runs /\ UNCHANGED users
     \/ Stops /\ UNCHANGED <<finder, answer, users, expected, power, asked>>

\* the locker finds the avatar of its account, whose open may wait
FindAvatar ==
  /\ WorkerAt("connecting") /\ role = "Locker"
  /\ \E account \in FoundAccounts :
       IF CurrentAvatarWaits(uid, uid, account)
       THEN /\ worker' = "opening"
            /\ UNCHANGED <<finder, answer, users, expected, power, outputs, asked>>
       ELSE Runs /\ ShowsAccount(ResourcesOf(account))

\* somebody opened that FIFO, which is no avatar
AvatarOpens ==
  /\ WorkerAt("opening") /\ role = "Locker"
  /\ \E account \in FoundAccounts :
       /\ CurrentAvatarWaits(uid, uid, account)
       /\ Runs /\ ShowsAccount(ResourcesOf(account))

\* state.get; the snapshot is taken when the controller gets to it
AnswerStateGet ==
  /\ WorkerAt("running") /\ asked = "queued"
  /\ asked' = "answered"
  /\ Outputs("Batch")
  /\ UNCHANGED workerVars

-----------------------------------------------------------------------------
(* The main thread with a window, and the page in it. *)

HasPage == main = "serving"
Receives(kind) ==
  /\ ProcessRuns /\ outputs # <<>> /\ Head(outputs).kind = kind
  /\ outputs' = Tail(outputs)
  /\ UNCHANGED <<role, startVars, uid, workerVars, lookup>>

\* handle_native, which locks the session, and add_monitor, which opens the theme again; a
\* monitor without a page ends the process, unless the session is locked by then
ReceiveBackendReady ==
  /\ ProcessRuns /\ main = "waiting" /\ outputs # <<>> /\ Head(outputs).kind = "BackendReady"
  /\ outputs' = Tail(outputs)
  /\ \E directory \in ThemeDirectories :
       LET opens == config.theme = Unset \/ OpensTheme(directory) IN
       /\ main' \in IF opens THEN {"serving"} ELSE {"failed", "without_page"}
       /\ theme' = IF config.theme # Unset /\ opens THEN External(directory) ELSE theme
  /\ UNCHANGED <<role, config, scan, found, meant, uid, workerVars, lookup, pageVars>>

\* connect_controller_outputs; attach_view has sent this to the page of the locker
ReceiveReady ==
  /\ HasPage /\ Receives("Ready")
  /\ resources' = users.avatars
  /\ UNCHANGED <<main, asked, snapshot>>

ReceiveBatch ==
  /\ HasPage /\ Receives("Batch")
  /\ snapshot' = [users |-> users.summaries, power |-> power, sent |-> TRUE]
  /\ asked' = "no"
  /\ UNCHANGED <<main, resources>>

ReceiveFatal ==
  /\ Receives("Fatal")
  /\ main' = "failed"
  /\ UNCHANGED pageVars

\* connect_bridge; of what it lets through only state.get is followed further
PageSends ==
  \E message \in Messages :
    /\ HasPage /\ asked = "no"
    /\ asked' = IF DecodeRequestForMode(message, role).method = "state.get" THEN "queued" ELSE asked
    /\ UNCHANGED <<role, main, startVars, uid, workerVars, lookup, outputs, resources, snapshot>>

\* decide_policy, for a navigation and again for its response
Navigable(uri) == AllowsNavigation(theme, uri) /\ AllowsResourceUri(theme, uri)

-----------------------------------------------------------------------------
MainSteps == \/ SessionLockUnsupported \/ LoadConfig \/ OpenTheme \/ FindSocket
             \/ ReadDirectory \/ LoadDesktopFile \/ TrustSessions
             \/ InspectProcess \/ IdentifyAccount \/ SpawnWorker
LookupSteps == \/ ChildIsWaitedFor \/ DeadlinePasses \/ TakeOutput \/ GracePasses \/ JoinReader
FinderSteps == AskAccountsService \/ AskNss \/ ReadPasswd
WorkerSteps == \/ StartDiscovery \/ TakeAnswer \/ DiscoveryTimesOut
               \/ PrepareBackend \/ Connect \/ FindAvatar \/ AnswerStateGet
WriterSteps == IconOpens \/ AvatarOpens
ReceiveSteps == ReceiveBackendReady \/ ReceiveReady \/ ReceiveBatch \/ ReceiveFatal

Next == \/ MainSteps \/ LookupSteps \/ FinderSteps \/ WorkerSteps \/ ReceiveSteps
        \/ PageSends \/ ChildExits \/ ReaderEnds \/ WriterSteps

Spec == Init /\ [][Next]_vars

\* every thread runs on, and each wait of one has its time limit, but for two.  The join of
\* the locker relies on the end of what getent writes, which its process alone holds open;
\* the open of an icon ends when it will.  The other opens, of what the administrator
\* installed (configuration, theme, desktop file, login.defs), and the connection to the bus
\* are taken to return.  Nothing is assumed of getent, the page or who writes to a FIFO
Fairness == /\ WF_vars(MainSteps) /\ WF_vars(LookupSteps) /\ WF_vars(FinderSteps)
            /\ WF_vars(WorkerSteps) /\ WF_vars(ReceiveSteps)
            /\ WF_vars(role = "Locker" /\ ReaderEnds)
FairSpec == Spec /\ Fairness

-----------------------------------------------------------------------------
(* What the functions of the start promise, of all that they may be given. *)

\* a file is accepted when it stands for a command, which the entry then has
FilesAreReadAsMeant ==
  \A file \in DesktopFiles, stem \in Stems :
    LET means == stem # "control" /\ file.command # <<>> IN
    /\ LoadsEntry(file.entry, stem) <=> means
    /\ means => CatalogEntry(file.entry).command = file.command

\* how the summaries compare with what was to be published
ShownUsers(summaries) ==
  {[username |-> summaries[i].username, rank |-> i - 1,
    shown |-> summaries[i].avatar_url # NoAvatar] : i \in DOMAIN summaries}

\* every avatar that a summary names is among the resources, with the image of that account
ServesAvatars(opened, assets, summaries) ==
  \A user \in ToSet(summaries) : user.avatar_url # NoAvatar =>
    Respond(opened, assets, AvatarUri(user.avatar_url), "missing")
      = Response(200, <<>>, user.username)

\* the list of users that each answer of a provider comes to
Listings ==
  {AccountsServiceUsers(listed) : listed \in AccountLists}
    \cup {PasswdUsers(lines, UidRange(defs)) : lines \in PasswdOutputs, defs \in LoginDefs}

ListsArePublishedAsExpected ==
  \A raw \in Listings :
    LET public == BuildPublicUsers(raw, MaxUsers) IN
    /\ ShownUsers(public.summaries) = Expected(raw)
    /\ ServesAvatars(Embedded, public.avatars, public.summaries)

-----------------------------------------------------------------------------
(* What the start of a host promises. *)

\* The catalog holds exactly the identifiers whose first desktop file, in the order of the
\* directories, is good, and each stands for the argument vector that file quotes
\* (discovery.rs discover, exec.rs parse_exec).
CatalogIsTrusted ==
  main \in {"sessions", "spawn"} =>
    /\ DOMAIN found.entries = {id \in DOMAIN meant : meant[id] # <<>>}
    /\ \A id \in DOMAIN found.entries : found.entries[id].command = meant[id]

\* The users of a snapshot are those that a whole answer of the provider calls for, the best
\* record of each name, in order and up to the limit; every avatar url in it is served from
\* the moment a page can know it, with the image of that account; and no power operation is
\* in it that the policy does not name (build_public_users, run_bounded_command,
\* LogindPowerControl::discover).
SnapshotIsTrusted ==
  snapshot.sent =>
    /\ role = "Greeter" => ShownUsers(snapshot.users) = expected
    /\ role = "Locker" => \A user \in ToSet(snapshot.users) : user.username = uid
    /\ ServesAvatars(theme, resources, snapshot.users)
    /\ ToSet(snapshot.power) \subseteq ToSet(config.power)

\* What the view shows is the entrypoint of the theme or an error; what a page gets beside
\* that is a file of an allowed type at a plain path below the root, and never the manifest
\* (ThemeSource, decide_policy).
PagesStayInTheTheme ==
  HasPage => \A uri \in Uris, file \in Files :
    LET response == Respond(theme, resources, uri, file)
        path     == response.path
    IN  /\ Navigable(uri) /\ response.status = 200 => path = theme.entrypoint
        /\ path # <<>> =>
             /\ \A s \in ToSet(path) : s.stem \in {"", ".", ".."} => s.extension # "none"
             /\ path # Manifest
             /\ MimeType(path) # NoMime

\* A request that reaches the controller is one its host may carry out: a login that names a
\* valid user in the greeter, a reauthentication that names none in the locker, no choice of
\* a session there.  A refusal is correlated whenever the message gave its id away, and
\* never with another (decode_request_for_mode).
RequestsFitTheirHost ==
  HasPage => \A m \in Messages :
    LET d == DecodeRequestForMode(m, role)
    IN  /\ d.code = "ok" =>
             /\ d.id = "safe" /\ m.size = "fits" /\ m.known
             /\ m.method = "auth.begin" =>
                  m.params.fields = IF role = "Greeter" THEN {"username"} ELSE {}
             /\ m.method = "session.select" => role = "Greeter"
             /\ m.params.fields \cap {"username", "sessionId"} # {} => m.params.text = "plain"
        /\ d.id # NoId => d.id = m.id
        /\ m.size = "fits" /\ m.json = "object" /\ m.id = "safe" => d.id # NoId

\* Unless the locker waits for ever at its own icon, the start ends, whatever the accounts
\* service and getent do and whatever the icons of a list are: the process is over, or the
\* locked session has no page, or the page can get its snapshot and its avatars, and while
\* the process runs a page that asks is answered.  Unless the discovery thread waits for
\* ever at an icon, that thread is gone too and getent has been waited for
\* (run_bounded_command, discover_users, run_getent, read_avatar).
Served == \/ main \in {"failed", "without_page"}
          \/ main = "serving" /\ worker = "running" /\ resources = users.avatars
CleanedUp == main = "failed" \/ (finder \in {"none", "done"} /\ lookup.child = "none")
StartupEnds ==
  /\ []<>(worker # "opening") => <>[]Served /\ (asked # "no" ~> asked = "no" \/ main = "failed")
  /\ []<>(finder # "opening") => <>[]CleanedUp
==============================================================================
