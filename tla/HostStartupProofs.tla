------------------------- MODULE HostStartupProofs ---------------------------
(***************************************************************************)
(* Theorems about the start of a host: what a page may ask for and send,   *)
(* for every theme, uri and message; the catalog of sessions, for every    *)
(* number of directories and order of files; the first snapshot, for every *)
(* interleaving of the threads.  How one file parses and how one list is   *)
(* sorted and published is recursion over data: the last two theorems take *)
(* it as a hypothesis about the constants, which TLC evaluates.            *)
(***************************************************************************)
EXTENDS HostStartup, SequenceTheorems, TLAPS

-----------------------------------------------------------------------------
(* Requests. *)

\* What a request that a host accepts looks like, and whose a refusal is.
FitsHost(m, mode) ==
  LET d == DecodeRequestForMode(m, mode)
  IN  /\ d.code = "ok" =>
           /\ d.id = "safe" /\ m.size = "fits" /\ m.known
           /\ m.method = "auth.begin" =>
                m.params.fields = IF mode = "Greeter" THEN {"username"} ELSE {}
           /\ m.method = "session.select" => mode = "Greeter"
           /\ m.params.fields \cap {"username", "sessionId"} # {} => m.params.text = "plain"
      /\ d.id # NoId => d.id = m.id
      /\ m.size = "fits" /\ m.json = "object" /\ m.id = "safe" => d.id # NoId

\* What decode_request accepts has the parameters of its method, with valid values.
LEMMA AcceptedRequests ==
  ASSUME NEW m \in MessageForms
  PROVE  LET d == DecodeRequest(m)
         IN  /\ d.code = "ok" =>
                  /\ d.id = m.id /\ m.id = "safe" /\ m.size = "fits" /\ m.known
                  /\ d.method = m.method /\ m.method \in Methods
                  /\ d.username <=> m.params.fields = {"username"}
                  /\ ParamsFit(m.method, m.params) /\ ParamsValid(m.method, m.params)
             /\ d.id # NoId => d.id = m.id
             /\ m.size = "fits" /\ m.json = "object" /\ m.id = "safe" => d.id # NoId
<1>1. /\ m.size \in {"fits", "oversized"} /\ m.id \in {"safe", "unsafe", "not_u64"}
      /\ m.known \in BOOLEAN
  BY DEF MessageForms, IntegerForms
<1>2. CASE m.size = "oversized"
  BY <1>1, <1>2 DEF DecodeRequest, Refused, NoId
<1>3. CASE m.size # "oversized" /\ m.json = "invalid"
  BY <1>1, <1>3 DEF DecodeRequest, Refused, NoId
<1>4. CASE m.size # "oversized" /\ m.json # "invalid" /\ (~IsEnvelope(m) \/ m.id = "unsafe")
  BY <1>1, <1>4 DEF DecodeRequest, Refused, NoId, IdHint
<1>5. CASE /\ m.size # "oversized" /\ m.json # "invalid" /\ IsEnvelope(m) /\ m.id # "unsafe"
           /\ m.protocol # "one"
  BY <1>1, <1>5 DEF DecodeRequest, Refused, NoId
<1>6. CASE /\ m.size # "oversized" /\ m.json # "invalid" /\ IsEnvelope(m) /\ m.id # "unsafe"
           /\ m.protocol = "one"
  <2>1. DecodeRequest(m) = DecodeMethod(m) /\ m.known /\ m.id = "safe" /\ m.size = "fits"
    BY <1>1, <1>6 DEF DecodeRequest, IsEnvelope
  <2>2. CASE m.method \in Methods /\ ParamsFit(m.method, m.params) /\ ParamsValid(m.method, m.params)
    <3>1. DecodeMethod(m) = Accepted(m.id, m.method, m.params.fields = {"username"})
      BY <2>2 DEF DecodeMethod
    <3> DEFINE asks == m.params.fields = {"username"}
               d    == DecodeRequest(m)
    <3>2. d = Accepted(m.id, m.method, asks)
      BY <2>1, <3>1
    <3> HIDE DEF asks, d
    <3>3. d.code = "ok" /\ d.id = m.id /\ d.method = m.method
      BY <3>2 DEF Accepted
    <3>4. d.username = asks
      BY <3>2, Zenon DEF Accepted
    <3>5. d.username <=> m.params.fields = {"username"}
      BY <3>4, Zenon DEF asks
    <3>6. d.id # NoId
      BY <2>1, <3>3 DEF NoId
    <3> QED BY <2>1, <2>2, <3>3, <3>5, <3>6, Zenon DEF d
  <2>3. CASE ~(m.method \in Methods /\ ParamsFit(m.method, m.params) /\ ParamsValid(m.method, m.params))
    <3>1. DecodeMethod(m) \in {Refused(m.id, "unknown_method"), Refused(m.id, "invalid_params")}
      BY <2>3 DEF DecodeMethod
    <3> QED BY <2>1, <3>1 DEF Refused, NoId
  <2> QED BY <2>2, <2>3
<1> QED BY <1>2, <1>3, <1>4, <1>5, <1>6

\* ... and of those the host takes what it may carry out.
LEMMA DecodedRequests ==
  ASSUME NEW m \in MessageForms, NEW mode \in Modes
  PROVE  FitsHost(m, mode)
<1> DEFINE d == DecodeRequest(m)
           e == DecodeRequestForMode(m, mode)
<1>1. /\ d.code = "ok" =>
           /\ d.id = m.id /\ m.id = "safe" /\ m.size = "fits" /\ m.known
           /\ d.method = m.method /\ m.method \in Methods
           /\ d.username <=> m.params.fields = {"username"}
           /\ ParamsFit(m.method, m.params) /\ ParamsValid(m.method, m.params)
      /\ d.id # NoId => d.id = m.id
      /\ m.size = "fits" /\ m.json = "object" /\ m.id = "safe" => d.id # NoId
  BY AcceptedRequests
<1>2. mode \in {"Greeter", "Locker"} /\ m.params.text \in TextForms
  BY DEF Modes, MessageForms
<1>3. CASE d.code # "ok"
  BY <1>1, <1>3 DEF DecodeRequestForMode, FitsHost
<1>4. CASE d.code = "ok" /\ ~AllowedInMode(d, mode)
  <2>1. e.code # "ok" /\ e.id = d.id
    BY <1>4 DEF DecodeRequestForMode, Refused
  <2> QED BY <1>1, <1>4, <2>1 DEF FitsHost
<1>5. CASE d.code = "ok" /\ AllowedInMode(d, mode)
  <2>1. e = d
    BY <1>5 DEF DecodeRequestForMode
  <2>2. m.method = "auth.begin" =>
          m.params.fields = IF mode = "Greeter" THEN {"username"} ELSE {}
    BY <1>1, <1>2, <1>5 DEF AllowedInMode, ParamsFit
  <2>3. m.method = "session.select" => mode = "Greeter"
    BY <1>1, <1>5 DEF AllowedInMode
  <2>4. m.params.fields \cap {"username", "sessionId"} # {} => m.params.text = "plain"
    <3>1. ASSUME NEW form \in TextForms, ValidName(form) PROVE form = "plain"
      BY <3>1 DEF TextForms, ValidName, ValidText
    <3>2. CASE m.method = "auth.begin"
      BY <1>1, <1>2, <1>5, <3>1, <3>2 DEF ParamsFit, ParamsValid
    <3>3. CASE m.method = "auth.respond"
      BY <1>1, <1>5, <3>3 DEF ParamsFit
    <3>4. CASE m.method = "session.select"
      BY <1>1, <1>2, <1>5, <3>1, <3>4 DEF ParamsValid
    <3>5. CASE m.method = "power.request"
      BY <1>1, <1>5, <3>5 DEF ParamsFit
    <3>6. CASE m.method \in {"state.get", "auth.cancel"}
      BY <1>1, <1>5, <3>6 DEF ParamsFit
    <3> QED BY <1>1, <1>5, <3>2, <3>3, <3>4, <3>5, <3>6 DEF Methods
  <2> HIDE DEF d, e
  <2> QED BY <1>1, <1>5, <2>1, <2>2, <2>3, <2>4 DEF FitsHost, e
<1> QED BY <1>3, <1>4, <1>5
-----------------------------------------------------------------------------
(* What no step changes, and what only the opening of a theme does.        *)

\* A host keeps its role, and its theme unless it opens one.
LEMMA RoleAndTheme ==
  ASSUME [Next]_vars
  PROVE  /\ role' = role
         /\ \/ theme' = theme
            \/ \E directory \in ThemeDirectories :
                 OpensTheme(directory) /\ theme' = External(directory)
<1>1. CASE MainSteps
  <2>1. CASE OpenTheme
    <3>1. role' = role
      BY <2>1 DEF OpenTheme, At
    <3>2. PICK roots \in ThemeRoots, directory \in ThemeDirectories :
            LET external == config.theme # Unset
                opens    == external => SelectsTheme(roots) /\ OpensTheme(directory)
            IN  theme' = IF external /\ opens THEN External(directory) ELSE theme
      BY <2>1 DEF OpenTheme
    <3>3. CASE config.theme # Unset /\ SelectsTheme(roots) /\ OpensTheme(directory)
      BY <3>1, <3>2, <3>3
    <3>4. CASE ~(config.theme # Unset /\ SelectsTheme(roots) /\ OpensTheme(directory))
      BY <3>1, <3>2, <3>4
    <3> QED BY <3>3, <3>4
  <2>2. CASE SessionLockUnsupported \/ LoadConfig \/ FindSocket
    BY <2>2 DEF SessionLockUnsupported, LoadConfig, FindSocket, At, startVars
  <2>3. CASE ReadDirectory \/ LoadDesktopFile \/ TrustSessions
    BY <2>3 DEF ReadDirectory, LoadDesktopFile, TrustSessions, At, startVars
  <2>4. CASE InspectProcess \/ IdentifyAccount \/ SpawnWorker
    BY <2>4 DEF InspectProcess, IdentifyAccount, SpawnWorker, At, startVars
  <2> QED BY <1>1, <2>1, <2>2, <2>3, <2>4 DEF MainSteps
<1>2. CASE LookupSteps \/ ChildExits \/ ReaderEnds
  BY <1>2 DEF LookupSteps, ChildIsWaitedFor, DeadlinePasses, TakeOutput, GracePasses, JoinReader,
              ChildExits, ReaderEnds, Looks, startVars
<1>3. CASE FinderSteps \/ IconOpens
  BY <1>3 DEF FinderSteps, AskAccountsService, AskNss, ReadPasswd, IconOpens, Finds, startVars
<1>4. CASE WorkerSteps \/ AvatarOpens
  BY <1>4 DEF WorkerSteps, StartDiscovery, TakeAnswer, DiscoveryTimesOut, PrepareBackend, Connect,
              FindAvatar, AvatarOpens, AnswerStateGet, WorkerAt, startVars
<1>5. CASE ReceiveReady \/ ReceiveBatch \/ ReceiveFatal
  BY <1>5 DEF ReceiveReady, ReceiveBatch, ReceiveFatal, Receives, startVars
<1>6. CASE ReceiveBackendReady
  <2>1. role' = role
    BY <1>6 DEF ReceiveBackendReady
  <2>2. PICK directory \in ThemeDirectories :
          LET opens == config.theme = Unset \/ OpensTheme(directory)
          IN  theme' = IF config.theme # Unset /\ opens THEN External(directory) ELSE theme
    BY <1>6 DEF ReceiveBackendReady
  <2>3. CASE config.theme # Unset /\ OpensTheme(directory)
    BY <2>1, <2>2, <2>3
  <2>4. CASE ~(config.theme # Unset /\ OpensTheme(directory))
    BY <2>1, <2>2, <2>4
  <2> QED BY <2>3, <2>4
<1>7. CASE PageSends
  BY <1>7 DEF PageSends, startVars
<1>8. CASE UNCHANGED vars
  BY <1>8 DEF vars, startVars
<1> QED BY <1>1, <1>2, <1>3, <1>4, <1>5, <1>6, <1>7, <1>8 DEF Next, ReceiveSteps, WriterSteps

-----------------------------------------------------------------------------
(* What a page may ask for and send. *)

RoleInv  == role \in Modes
ThemeInv == \/ theme = Embedded
            \/ \E directory \in ThemeDirectories :
                 OpensTheme(directory) /\ theme = External(directory)

\* A host is a greeter or a locker for good.
LEMMA RoleInvariant == Spec => []RoleInv
<1>1. Init => RoleInv
  BY DEF Init, RoleInv
<1>2. RoleInv /\ [Next]_vars => RoleInv'
  BY RoleAndTheme DEF RoleInv
<1> QED BY <1>1, <1>2, PTL DEF Spec

\* Whatever is shown was embedded or has been opened, the second time for a monitor too.
LEMMA ThemeInvariant == Spec => []ThemeInv
<1>1. Init => ThemeInv
  BY DEF Init, ThemeInv
<1>2. ThemeInv /\ [Next]_vars => ThemeInv'
  BY RoleAndTheme DEF ThemeInv
<1> QED BY <1>1, <1>2, PTL DEF Spec

\* A path that a theme resolves has segments of the allowed forms.
LEMMA ResolvedPaths ==
  ASSUME ThemeInv, NEW uri, NEW s \in ToSet(PathOf(theme, uri))
  PROVE  s.stem \in {"", ".", ".."} => s.extension # "none"
<1> DEFINE path == PathOf(theme, uri)
<1>1. CASE path = <<>>
  <2>1. DOMAIN << >> = {}
    OBVIOUS
  <2>2. ToSet(<< >>) = {}
    BY <2>1 DEF ToSet
  <2> QED BY <1>1, <2>2
<1>2. CASE path # <<>> /\ theme = Embedded
  <2>1. path \in BuiltinAssets
    BY <1>2 DEF PathOf, Embedded, BuiltinAssets
  <2> HIDE DEF path
  <2>2. s.stem \in {"index", "style", "app"}
    BY <2>1 DEF BuiltinAssets, Segment, ToSet, path
  <2> QED BY <2>2
<1>3. CASE path # <<>> /\ theme # Embedded
  <2>1. PICK directory \in ThemeDirectories : OpensTheme(directory) /\ theme = External(directory)
    BY <1>3 DEF ThemeInv
  <2>2. ParsesPath(path)
    BY <1>3, <2>1 DEF PathOf, External, OpensTheme
  <2> QED BY <2>2 DEF ParsesPath, ParsesSegment
<1> QED BY <1>1, <1>2, <1>3

\* The uri of an avatar is none of the theme's.
LEMMA AvatarsAreNotFiles ==
  ASSUME NEW opened, NEW identifier, NEW file
  PROVE  /\ PathOf(opened, AvatarUri(identifier)) = <<>>
         /\ Resolve(opened, AvatarUri(identifier), file) = NotFound
<1>1. PathOf(opened, AvatarUri(identifier)) = <<>>
  BY DEF PathOf, AvatarUri, Uri
<1> QED BY <1>1 DEF Resolve, AllowsResourceUri

\* The manifest is of no type that is served.
LEMMA ManifestIsNotServed == MimeType(Manifest) = NoMime
<1>1. Last(Manifest) = Segment("theme", "toml")
  BY DEF Last, Manifest
<1>2. "toml" \notin DOMAIN MimeTypes
  BY DEF MimeTypes
<1> QED BY <1>1, <1>2 DEF MimeType, Segment

\* What the view shows is the entrypoint of the theme or an error; what a page gets beside
\* that is a file of an allowed type at a plain path below the root, and never the manifest,
\* whatever the page asks for (ThemeSource, decide_policy).
THEOREM PagesAreTheThemes == Spec => []PagesStayInTheTheme
<1>1. ThemeInv => PagesStayInTheTheme
  <2> SUFFICES ASSUME ThemeInv, NEW uri \in Uris, NEW file \in Files
               PROVE  LET response == Respond(theme, resources, uri, file)
                          path     == response.path
                      IN  /\ Navigable(uri) /\ response.status = 200 => path = theme.entrypoint
                          /\ path # <<>> =>
                               /\ \A s \in ToSet(path) :
                                    s.stem \in {"", ".", ".."} => s.extension # "none"
                               /\ path # Manifest
                               /\ MimeType(path) # NoMime
    BY DEF PagesStayInTheTheme
  <2> DEFINE named    == {i \in DOMAIN resources : AvatarUri(resources[i].identifier) = uri}
             response == Respond(theme, resources, uri, file)
             resolved == Resolve(theme, uri, file)
  <2>1. CASE named # {}
    <3>1. PathOf(theme, uri) = <<>>
      BY <2>1, AvatarsAreNotFiles
    <3>2. ~Navigable(uri)
      BY <3>1 DEF Navigable, AllowsResourceUri
    <3>3. response.path = <<>>
      BY <2>1 DEF Respond, Response
    <3> QED BY <3>2, <3>3
  <2>2. CASE named = {}
    <3>1. response = resolved
      BY <2>2 DEF Respond
    <3>2. CASE ~AllowsResourceUri(theme, uri)
      <4>1. resolved = NotFound
        BY <3>2 DEF Resolve
      <4>2. response.path = <<>> /\ response.status # 200
        BY <3>1, <4>1 DEF NotFound, Response
      <4> QED BY <4>2
    <3>3. CASE AllowsResourceUri(theme, uri)
      <4>1. PathOf(theme, uri) # <<>> /\ MimeType(PathOf(theme, uri)) # NoMime
        BY <3>3 DEF AllowsResourceUri
      <4>2. /\ response.path \in {<<>>, PathOf(theme, uri)}
            /\ response.status = 200 => response.path = PathOf(theme, uri)
        <5>1. resolved \in {NotFound, Response(500, <<>>, NoBody),
                            Response(200, PathOf(theme, uri), NoBody)}
          BY <3>3 DEF Resolve, ReadFile
        <5> QED BY <3>1, <5>1 DEF NotFound, Response
      <4>3. PathOf(theme, uri) # Manifest
        BY <4>1, ManifestIsNotServed
      <4>4. \A s \in ToSet(PathOf(theme, uri)) : s.stem \in {"", ".", ".."} => s.extension # "none"
        BY ResolvedPaths
      <4>5. Navigable(uri) => PathOf(theme, uri) = theme.entrypoint
        BY DEF Navigable, AllowsNavigation
      <4> HIDE DEF response
      <4> QED BY <4>1, <4>2, <4>3, <4>4, <4>5 DEF response
    <3> QED BY <3>2, <3>3
  <2> QED BY <2>1, <2>2
<1> QED BY <1>1, ThemeInvariant, PTL

\* A request that reaches the controller is one its host may carry out, whatever the message
\* is made of, and a refusal is never correlated with another message
\* (decode_request_for_mode).
THEOREM RequestsAreTheHosts == Spec => []RequestsFitTheirHost
<1>1. RoleInv => RequestsFitTheirHost
  BY DecodedRequests, StartupAssumption DEF RoleInv, RequestsFitTheirHost, FitsHost
<1> QED BY <1>1, RoleInvariant, PTL
-----------------------------------------------------------------------------
(* The catalog of sessions. *)

\* every identifier that was met is remembered with the command of its first file, and the
\* entries are those of the files that stand for one
CatalogInv ==
  /\ scan \in [begun : Nat, files : SUBSET Stems]
  /\ found.seen = DOMAIN meant
  /\ DOMAIN found.entries = {id \in DOMAIN meant : meant[id] # <<>>}
  /\ \A id \in DOMAIN found.entries : found.entries[id].command = meant[id]

\* Only the discovery of sessions and the start of the controller touch the catalog.
LEMMA CatalogIsKept ==
  ASSUME [Next]_vars
  PROVE  \/ ReadDirectory \/ LoadDesktopFile \/ SpawnWorker
         \/ UNCHANGED <<scan, found, meant>>
<1>1. CASE MainSteps
  BY <1>1 DEF MainSteps, SessionLockUnsupported, LoadConfig, OpenTheme, FindSocket, TrustSessions,
              InspectProcess, IdentifyAccount, startVars
<1>2. CASE LookupSteps \/ ChildExits \/ ReaderEnds
  BY <1>2 DEF LookupSteps, ChildIsWaitedFor, DeadlinePasses, TakeOutput, GracePasses, JoinReader,
              ChildExits, ReaderEnds, Looks, startVars
<1>3. CASE FinderSteps \/ IconOpens
  BY <1>3 DEF FinderSteps, AskAccountsService, AskNss, ReadPasswd, IconOpens, Finds, startVars
<1>4. CASE WorkerSteps \/ AvatarOpens
  BY <1>4 DEF WorkerSteps, StartDiscovery, TakeAnswer, DiscoveryTimesOut, PrepareBackend, Connect,
              FindAvatar, AvatarOpens, AnswerStateGet, WorkerAt, startVars
<1>5. CASE ReceiveSteps
  BY <1>5 DEF ReceiveSteps, ReceiveBackendReady, ReceiveReady, ReceiveBatch, ReceiveFatal, Receives,
              startVars
<1>6. CASE PageSends
  BY <1>6 DEF PageSends, startVars
<1>7. CASE UNCHANGED vars
  BY <1>7 DEF vars, startVars
<1> QED BY <1>1, <1>2, <1>3, <1>4, <1>5, <1>6, <1>7 DEF Next, WriterSteps

\* An empty catalog is one of nothing.
LEMMA NothingIsMeant ==
  /\ DOMAIN << >> = {}
  /\ NothingFound.seen = DOMAIN << >>
  /\ NothingFound.entries = << >>
<1>1. DOMAIN << >> = {}
  OBVIOUS
<1> QED BY <1>1 DEF NothingFound

\* One more file keeps the catalog what the files mean.
LEMMA CatalogGrows ==
  ASSUME FilesAreReadAsMeant, CatalogInv, LoadDesktopFile
  PROVE  CatalogInv'
<1>1. PICK stem \in scan.files, file \in DesktopFiles :
        LET id == SessionId(Directories[scan.begun], stem) IN
        /\ scan' = [scan EXCEPT !.files = @ \ {stem}]
        /\ found' = DiscoverFile(found, id, file.entry)
        /\ meant' = IF id \in DOMAIN meant THEN meant
                    ELSE WithEntry(meant, id, IF stem = "control" THEN <<>> ELSE file.command)
  BY DEF LoadDesktopFile
<1> DEFINE id      == SessionId(Directories[scan.begun], stem)
           command == IF stem = "control" THEN <<>> ELSE file.command
<1>2. id[2] = stem
  BY DEF SessionId
<1> HIDE DEF id
<1>3. scan' \in [begun : Nat, files : SUBSET Stems] /\ stem \in Stems
  BY <1>1 DEF CatalogInv
<1>4. CASE id \in DOMAIN meant
  <2>1. found' = found /\ meant' = meant
    BY <1>1, <1>4 DEF CatalogInv, DiscoverFile, id
  <2> QED BY <1>3, <2>1 DEF CatalogInv
<1>5. CASE id \notin DOMAIN meant
  <2>1. meant' = WithEntry(meant, id, command)
    BY <1>1, <1>5 DEF id
  <2>2. /\ found'.seen = found.seen \cup {id}
        /\ found'.entries = IF LoadsEntry(file.entry, stem)
                            THEN WithEntry(found.entries, id, CatalogEntry(file.entry))
                            ELSE found.entries
    BY <1>1, <1>2, <1>5 DEF CatalogInv, DiscoverFile, id
  <2>3. /\ LoadsEntry(file.entry, stem) <=> command # <<>>
        /\ command # <<>> => CatalogEntry(file.entry).command = command
    BY <1>3 DEF FilesAreReadAsMeant
  <2> HIDE DEF command
  <2>4. /\ DOMAIN meant' = DOMAIN meant \cup {id}
        /\ meant'[id] = command
        /\ \A x \in DOMAIN meant : meant'[x] = meant[x]
    BY <1>5, <2>1 DEF WithEntry
  <2>5. id \notin DOMAIN found.entries
    BY <1>5 DEF CatalogInv
  <2>6. CASE command # <<>>
    <3>1. /\ DOMAIN found'.entries = DOMAIN found.entries \cup {id}
          /\ found'.entries[id] = CatalogEntry(file.entry)
          /\ \A x \in DOMAIN found.entries : found'.entries[x] = found.entries[x]
      BY <2>2, <2>3, <2>5, <2>6 DEF WithEntry
    <3>2. DOMAIN found'.entries = {x \in DOMAIN meant' : meant'[x] # <<>>}
      BY <2>4, <2>6, <3>1 DEF CatalogInv
    <3>3. \A x \in DOMAIN found'.entries : found'.entries[x].command = meant'[x]
      BY <2>3, <2>4, <2>6, <3>1 DEF CatalogInv
    <3>4. found'.seen = DOMAIN meant'
      BY <2>2, <2>4 DEF CatalogInv
    <3> QED BY <1>3, <3>2, <3>3, <3>4 DEF CatalogInv
  <2>7. CASE command = <<>>
    <3>1. found'.entries = found.entries
      BY <2>2, <2>3, <2>7
    <3>2. DOMAIN found'.entries = {x \in DOMAIN meant' : meant'[x] # <<>>}
      BY <1>5, <2>4, <2>7, <3>1 DEF CatalogInv
    <3>3. \A x \in DOMAIN found'.entries : found'.entries[x].command = meant'[x]
      BY <2>4, <3>1 DEF CatalogInv
    <3>4. found'.seen = DOMAIN meant'
      BY <2>2, <2>4 DEF CatalogInv
    <3> QED BY <1>3, <3>2, <3>3, <3>4 DEF CatalogInv
  <2> QED BY <2>6, <2>7
<1> QED BY <1>4, <1>5

\* While the sessions are discovered the catalog is what the files mean, in any order.
LEMMA CatalogInvariant ==
  ASSUME FilesAreReadAsMeant
  PROVE  Spec => []CatalogInv
<1>1. Init => CatalogInv
  BY NothingIsMeant DEF Init, CatalogInv
<1>2. CatalogInv /\ [Next]_vars => CatalogInv'
  <2> SUFFICES ASSUME CatalogInv, [Next]_vars PROVE CatalogInv'
    OBVIOUS
  <2>1. CASE ReadDirectory
    <3>1. UNCHANGED <<found, meant>>
      BY <2>1 DEF ReadDirectory
    <3>2. \/ \E files \in SUBSET Stems : scan' = [begun |-> scan.begun + 1, files |-> files]
          \/ scan' = scan
      BY <2>1 DEF ReadDirectory
    <3>3. scan' \in [begun : Nat, files : SUBSET Stems]
      BY <3>2 DEF CatalogInv
    <3> QED BY <3>1, <3>3 DEF CatalogInv
  <2>2. CASE LoadDesktopFile
    BY <2>2, CatalogGrows
  <2>3. CASE SpawnWorker
    BY <2>3, NothingIsMeant DEF SpawnWorker, CatalogInv
  <2>4. CASE UNCHANGED <<scan, found, meant>>
    BY <2>4 DEF CatalogInv
  <2> QED BY <2>1, <2>2, <2>3, <2>4, CatalogIsKept
<1> QED BY <1>1, <1>2, PTL DEF Spec

\* The catalog that the host trusts holds exactly the identifiers whose first desktop file is
\* good, each with the command that file quotes, however the files come in and however many
\* directories there are, provided that each single file is read as it is meant
\* (discovery.rs discover).
THEOREM CatalogIsOfFirstFiles ==
  ASSUME FilesAreReadAsMeant
  PROVE  Spec => []CatalogIsTrusted
<1>1. CatalogInv => CatalogIsTrusted
  BY DEF CatalogInv, CatalogIsTrusted
<1> QED BY <1>1, CatalogInvariant, PTL
-----------------------------------------------------------------------------
(* The users and the avatars of a snapshot. *)

\* nobody changes what the controller is made of while it runs
MainInv == worker # "none" => main \in {"serving", "waiting", "failed", "without_page"}

\* output that is less than whole is never taken for a result
LookupInv ==
  /\ lookup \in [step : {"idle", "polling", "waiting", "joining", "ok", "error"},
                 child : {"none", "running", "succeeded", "failed"},
                 reader : {"none", "reading", "complete", "partial", "oversized", "not_utf8"},
                 status : {"none", "succeeded", "failed", "killed"}]
  /\ lookup.child # "none" => lookup.step = "polling"
  /\ lookup.child = "running" => lookup.status = "none"
  /\ lookup.child \in {"succeeded", "failed"} => lookup.status = lookup.child
  /\ lookup.reader = "partial" => lookup.status \in {"failed", "killed"}
  /\ lookup.step \in {"waiting", "ok"} => lookup.status = "succeeded"

\* users that are the ones to be published, with their avatars
AreExpected(public, due) ==
  /\ ShownUsers(public.summaries) = due
  /\ ServesAvatars(Embedded, public.avatars, public.summaries)

\* the users of the locker: the account itself
AreOwn(public, owner) ==
  /\ \A user \in ToSet(public.summaries) : user.username = owner
  /\ ServesAvatars(Embedded, public.avatars, public.summaries)

\* an answer counts only while the controller waits for it, and is taken with what it was to be
UsersInv ==
  /\ worker \in {"none", "starting"} => answer = <<>>
  /\ worker \in {"none", "starting", "discovering"} => users = NoUsers
  /\ worker \in {"none", "starting", "discovering"} /\ answer = <<>> => expected = {}
  /\ worker = "discovering" /\ answer # <<>> => AreExpected(Head(answer), expected)
  /\ role = "Greeter" /\ worker \in {"connecting", "running"} => AreExpected(users, expected)
  /\ role = "Locker" /\ worker = "running" => AreOwn(users, uid)
  /\ worker = "running" => ToSet(power) \subseteq ToSet(config.power)

\* a batch is read after the ready that hands its avatars over
OutputsInv ==
  /\ outputs \in Seq([kind : {"BackendReady", "Ready", "Batch", "Fatal"}])
  /\ worker # "running" =>
       ~snapshot.sent /\ \A i \in DOMAIN outputs : outputs[i].kind # "Batch"
  /\ worker = "running" =>
       resources = users.avatars \/ \E i \in DOMAIN outputs : outputs[i].kind = "Ready"
  /\ \A i \in DOMAIN outputs :
       outputs[i].kind = "Batch" =>
         resources = users.avatars \/ \E j \in 1 .. i : outputs[j].kind = "Ready"
  /\ snapshot.sent =>
       resources = users.avatars /\ snapshot.users = users.summaries /\ snapshot.power = power

\* all of it together is inductive
SnapshotInv == MainInv /\ LookupInv /\ UsersInv /\ OutputsInv

\* A process that has not spawned its controller is the main thread alone.
LEMMA MainStepsComeFirst ==
  ASSUME MainInv, MainSteps
  PROVE  /\ worker = "none" /\ worker' \in {"none", "starting"} /\ MainInv'
         /\ UNCHANGED <<role, outputs, resources, snapshot, answer, users, expected, power>>
<1>1. CASE SessionLockUnsupported \/ LoadConfig \/ OpenTheme \/ FindSocket
  BY <1>1 DEF SessionLockUnsupported, LoadConfig, OpenTheme, FindSocket, At, MainInv, workerVars, pageVars
<1>2. CASE ReadDirectory \/ LoadDesktopFile \/ TrustSessions
  BY <1>2 DEF ReadDirectory, LoadDesktopFile, TrustSessions, At, MainInv, workerVars, pageVars
<1>3. CASE InspectProcess \/ IdentifyAccount
  BY <1>3 DEF InspectProcess, IdentifyAccount, At, MainInv, workerVars, pageVars
<1>4. CASE SpawnWorker
  BY <1>4 DEF SpawnWorker, At, Goes, MainInv, pageVars
<1> QED BY <1>1, <1>2, <1>3, <1>4 DEF MainSteps

\* A finished run of getent that is taken up leaves nothing of it; a new one starts from
\* nothing.
LEMMA LookupStartsAndEnds ==
  ASSUME LookupInv, \/ lookup' = NewLookup
                    \/ /\ lookup' = Lookup("idle", lookup.child, "none", "none")
                       /\ lookup.step \in {"ok", "error"}
                    \/ lookup' = lookup
  PROVE  LookupInv'
<1>1. CASE lookup' = NewLookup
  BY <1>1 DEF LookupInv, NewLookup, Lookup
<1>2. CASE lookup' = Lookup("idle", lookup.child, "none", "none") /\ lookup.step \in {"ok", "error"}
  <2>1. lookup.child = "none"
    BY <1>2 DEF LookupInv
  <2> QED BY <1>2, <2>1 DEF LookupInv, Lookup
<1>3. CASE lookup' = lookup
  BY <1>3 DEF LookupInv
<1> QED BY <1>1, <1>2, <1>3

\* The main thread before there is a window.
LEMMA MainStepsKeep ==
  ASSUME SnapshotInv, MainSteps
  PROVE  SnapshotInv'
<1>1. /\ worker = "none" /\ worker' \in {"none", "starting"} /\ MainInv'
      /\ UNCHANGED <<role, outputs, resources, snapshot, answer, users, expected, power>>
  BY MainStepsComeFirst DEF SnapshotInv
<1>2. LookupInv'
  <2>1. CASE InspectProcess \/ IdentifyAccount
    BY <2>1, LookupStartsAndEnds DEF InspectProcess, IdentifyAccount, SnapshotInv
  <2>2. CASE ~(InspectProcess \/ IdentifyAccount)
    <3>1. lookup' = lookup
      BY <2>2 DEF MainSteps, SessionLockUnsupported, LoadConfig, OpenTheme, FindSocket,
                  ReadDirectory, LoadDesktopFile, TrustSessions, SpawnWorker
    <3> QED BY <3>1, LookupStartsAndEnds DEF SnapshotInv
  <2> QED BY <2>1, <2>2
<1>3. UsersInv'
  BY <1>1 DEF SnapshotInv, UsersInv
<1>4. OutputsInv'
  BY <1>1 DEF SnapshotInv, OutputsInv
<1> QED BY <1>1, <1>2, <1>3, <1>4 DEF SnapshotInv

\* The run of getent.
LEMMA LookupStepsKeep ==
  ASSUME SnapshotInv, LookupSteps \/ ChildExits \/ ReaderEnds
  PROVE  SnapshotInv'
<1>1. UNCHANGED <<role, main, startVars, uid, workerVars, outputs, pageVars>>
  BY DEF LookupSteps, ChildIsWaitedFor, DeadlinePasses, TakeOutput, GracePasses, JoinReader,
         ChildExits, ReaderEnds, Looks
<1>2. LookupInv'
  <2> USE DEF SnapshotInv, LookupInv
  <2>1. CASE ChildExits
    BY <2>1 DEF ChildExits
  <2>2. CASE ReaderEnds
    BY <2>2 DEF ReaderEnds
  <2>3. CASE ChildIsWaitedFor
    BY <2>3 DEF ChildIsWaitedFor, FailedLookup
  <2>4. CASE DeadlinePasses
    BY <2>4 DEF DeadlinePasses, FailedLookup
  <2>5. CASE TakeOutput
    BY <2>5 DEF TakeOutput
  <2>6. CASE GracePasses
    BY <2>6 DEF GracePasses
  <2>7. CASE JoinReader
    BY <2>7 DEF JoinReader
  <2> QED BY <2>1, <2>2, <2>3, <2>4, <2>5, <2>6, <2>7 DEF LookupSteps
<1>3. MainInv' /\ UsersInv' /\ OutputsInv'
  BY <1>1 DEF SnapshotInv, MainInv, UsersInv, OutputsInv, startVars, workerVars, pageVars
<1> QED BY <1>2, <1>3 DEF SnapshotInv
\* Who has found nobody was to find nobody.
LEMMA NobodyIsExpected == AreExpected(NoUsers, {})
<1>1. DOMAIN << >> = {}
  OBVIOUS
<1>2. NoUsers.summaries = << >>
  BY DEF NoUsers
<1>3. ShownUsers(<< >>) = {}
  BY <1>1 DEF ShownUsers
<1>4. ToSet(<< >>) = {}
  BY <1>1 DEF ToSet
<1>5. ServesAvatars(Embedded, NoUsers.avatars, << >>)
  BY <1>4 DEF ServesAvatars
<1> QED BY <1>2, <1>3, <1>5 DEF AreExpected

\* What the discovery thread sends is received as what was to be found, or not at all.
LEMMA AnswersAreExpected ==
  ASSUME UsersInv, NEW raw, NEW ok \in BOOLEAN, NEW due, Sends(raw, ok, due),
         ok => AreExpected(BuildPublicUsers(raw, MaxUsers), Expected(due)),
         UNCHANGED <<role, main, startVars, uid, worker, users, power>>
  PROVE  UsersInv'
<1>1. CASE worker = "discovering"
  <2> DEFINE public == IF ok THEN BuildPublicUsers(raw, MaxUsers) ELSE NoUsers
  <2>1. answer' = <<public>> /\ expected' = IF ok THEN Expected(due) ELSE {}
    BY <1>1 DEF Sends
  <2>2. AreExpected(public, expected')
    <3>1. CASE ok
      BY <2>1, <3>1
    <3>2. CASE ~ok
      BY <2>1, <3>2, NobodyIsExpected
    <3> QED BY <3>1, <3>2
  <2> HIDE DEF public
  <2>3. answer' # << >> /\ Head(answer') = public
    BY <2>1
  <2> QED BY <1>1, <2>2, <2>3 DEF UsersInv
<1>2. CASE worker # "discovering"
  <2>1. UNCHANGED <<answer, expected>>
    BY <1>2 DEF Sends
  <2> QED BY <1>2, <2>1 DEF UsersInv, startVars
<1> QED BY <1>1, <1>2

\* The discovery thread, and the FIFO it may wait at.
LEMMA FinderStepsKeep ==
  ASSUME ListsArePublishedAsExpected, SnapshotInv, FinderSteps \/ IconOpens
  PROVE  SnapshotInv'
<1>1. UNCHANGED <<role, main, startVars, uid, worker, users, power, outputs, pageVars>>
  BY DEF FinderSteps, AskAccountsService, AskNss, ReadPasswd, IconOpens, Finds
<1>2. ASSUME NEW raw \in Listings
      PROVE  AreExpected(BuildPublicUsers(raw, MaxUsers), Expected(raw))
  BY <1>2 DEF ListsArePublishedAsExpected, AreExpected
<1>3. ASSUME Sends(<<>>, FALSE, <<>>) PROVE UsersInv'
  BY <1>1, <1>3, AnswersAreExpected DEF SnapshotInv
<1>4. ASSUME UNCHANGED <<answer, expected>> PROVE UsersInv'
  BY <1>1, <1>4 DEF SnapshotInv, UsersInv, startVars
<1>5. UsersInv' /\ LookupInv'
  <2>1. CASE AskAccountsService \/ IconOpens
    <3>1. LookupInv'
      BY <2>1, LookupStartsAndEnds DEF AskAccountsService, IconOpens, SnapshotInv
    <3>2. ASSUME NEW listed \in AccountLists,
                 Sends(AccountsServiceUsers(listed), TRUE, AccountsServiceUsers(listed))
          PROVE  UsersInv'
      <4>1. AccountsServiceUsers(listed) \in Listings
        BY DEF Listings
      <4> QED BY <1>1, <1>2, <3>2, <4>1, AnswersAreExpected DEF SnapshotInv
    <3>3. \/ \E listed \in AccountLists :
               Sends(AccountsServiceUsers(listed), TRUE, AccountsServiceUsers(listed))
          \/ Sends(<<>>, FALSE, <<>>)
          \/ UNCHANGED <<answer, expected>>
      BY <2>1 DEF AskAccountsService, IconOpens
    <3> QED BY <1>3, <1>4, <3>1, <3>2, <3>3
  <2>2. CASE AskNss
    <3>1. LookupInv'
      BY <2>2, LookupStartsAndEnds DEF AskNss, SnapshotInv
    <3>2. Sends(<<>>, FALSE, <<>>) \/ UNCHANGED <<answer, expected>>
      BY <2>2 DEF AskNss
    <3> QED BY <1>3, <1>4, <3>1, <3>2
  <2>3. CASE ReadPasswd
    <3>1. LookupInv'
      BY <2>3, LookupStartsAndEnds DEF ReadPasswd, SnapshotInv
    <3>2. CASE lookup.step = "error" /\ Sends(<<>>, FALSE, <<>>)
      BY <1>3, <3>1, <3>2
    <3>3. CASE lookup.step # "error"
      <4>1. lookup.step = "ok"
        BY <2>3, <3>3 DEF ReadPasswd
      <4>2. lookup.reader # "partial"
        BY <4>1 DEF SnapshotInv, LookupInv
      <4>3. PICK lines \in PasswdOutputs, defs \in LoginDefs :
              LET shown == IF lookup.reader = "partial" /\ lines # <<>> THEN Front(lines) ELSE lines
              IN  Sends(PasswdUsers(shown, UidRange(defs)), PasswdParses(shown, MaxEntries),
                        PasswdUsers(lines, UidRange(defs)))
        BY <2>3, <3>3 DEF ReadPasswd
      <4> DEFINE listed == PasswdUsers(lines, UidRange(defs))
                 ok     == PasswdParses(lines, MaxEntries)
      <4>4. Sends(listed, ok, listed)
        BY <4>2, <4>3
      <4>5. listed \in Listings
        BY DEF Listings
      <4>6. ok \in BOOLEAN
        BY DEF PasswdParses
      <4> HIDE DEF listed, ok
      <4>7. AreExpected(BuildPublicUsers(listed, MaxUsers), Expected(listed))
        BY <1>2, <4>5
      <4>8. UsersInv'
        BY <1>1, <4>4, <4>6, <4>7, AnswersAreExpected DEF SnapshotInv
      <4> QED BY <3>1, <4>8
    <3> QED BY <2>3, <3>2, <3>3 DEF ReadPasswd
  <2> QED BY <2>1, <2>2, <2>3 DEF FinderSteps
<1>6. MainInv' /\ OutputsInv'
  BY <1>1 DEF SnapshotInv, MainInv, OutputsInv, startVars, pageVars
<1> QED BY <1>5, <1>6 DEF SnapshotInv
\* What is granted of the configured operations was configured.
LEMMA PowerIsConfigured ==
  ASSUME NEW actions, NEW granted
  PROVE  ToSet(Capabilities(actions, granted)) \subseteq ToSet(actions)
<1> DEFINE allowed == {a \in ToSet(actions) : a \in granted}
           Kept(i) == IF PowerOrder[i] \in allowed THEN <<PowerOrder[i]>> ELSE <<>>
<1>1. ASSUME NEW i PROVE Kept(i) \in Seq(allowed)
  <2>1. CASE PowerOrder[i] \in allowed
    BY <2>1
  <2>2. CASE PowerOrder[i] \notin allowed
    BY <2>2
  <2> QED BY <2>1, <2>2
<1>2. Capabilities(actions, granted) = Kept(1) \o Kept(2) \o Kept(3)
  BY DEF Capabilities, InPowerOrder
<1>3. Kept(1) \in Seq(allowed) /\ Kept(2) \in Seq(allowed) /\ Kept(3) \in Seq(allowed)
  BY <1>1
<1>4. allowed \subseteq ToSet(actions)
  OBVIOUS
<1> HIDE DEF Kept, allowed
<1>5. Kept(1) \o Kept(2) \o Kept(3) \in Seq(allowed)
  BY <1>3, ConcatProperties
<1>6. ASSUME NEW s \in Seq(allowed) PROVE ToSet(s) \subseteq allowed
  BY <1>6, ElementOfSeq, LenProperties DEF ToSet
<1> QED BY <1>2, <1>4, <1>5, <1>6

\* The avatar of the locker, if there is one, is served as the one of its account.
LEMMA TheAccountIsItsOwn ==
  ASSUME NEW owner, NEW account
  PROVE  LET avatars == CurrentAvatar(owner, owner, account)
         IN  AreOwn([NoUsers EXCEPT !.avatars = avatars,
                       !.summaries = <<UserSummary(owner, Len(avatars))>>], owner)
<1> DEFINE avatars == CurrentAvatar(owner, owner, account)
           summary == UserSummary(owner, Len(avatars))
           public  == [NoUsers EXCEPT !.avatars = avatars, !.summaries = <<summary>>]
<1>1. public.avatars = avatars /\ public.summaries = <<summary>>
  BY DEF NoUsers
<1>2. summary.username = owner /\ summary.avatar_url = Len(avatars)
  BY DEF UserSummary
<1>3. avatars = <<>> \/ avatars = <<Avatar(1, owner)>>
  BY DEF CurrentAvatar, IsAccount
<1> HIDE DEF avatars, summary, public
<1>4. ToSet(<<summary>>) = {summary}
  BY DEF ToSet
<1>5. ServesAvatars(Embedded, avatars, <<summary>>)
  <2>1. CASE avatars = <<>>
    <3>1. summary.avatar_url = NoAvatar
      BY <1>2, <2>1 DEF NoAvatar
    <3> QED BY <1>4, <3>1 DEF ServesAvatars
  <2>2. CASE avatars = <<Avatar(1, owner)>>
    <3>1. summary.avatar_url = 1
      BY <1>2, <2>2
    <3>2. DOMAIN avatars = {1} /\ avatars[1].identifier = 1 /\ avatars[1].body = owner
      BY <2>2 DEF Avatar
    <3>3. {i \in DOMAIN avatars : AvatarUri(avatars[i].identifier) = AvatarUri(1)} = {1}
      BY <3>2
    <3>4. Min({1}) = 1
      BY DEF Min
    <3>5. Respond(Embedded, avatars, AvatarUri(1), "missing") = Response(200, <<>>, owner)
      BY <3>2, <3>3, <3>4 DEF Respond
    <3> QED BY <1>2, <1>4, <3>1, <3>5 DEF ServesAvatars
  <2> QED BY <1>3, <2>1, <2>2
<1>6. \A user \in ToSet(<<summary>>) : user.username = owner
  BY <1>2, <1>4
<1>7. AreOwn(public, owner)
  BY <1>1, <1>5, <1>6 DEF AreOwn
<1> QED BY <1>7 DEF public, summary, avatars

\* An output that is sent comes last.
LEMMA SentComesLast ==
  ASSUME OutputsInv, NEW kind \in {"BackendReady", "Ready", "Batch", "Fatal"}, Outputs(kind)
  PROVE  /\ outputs' \in Seq([kind : {"BackendReady", "Ready", "Batch", "Fatal"}])
         /\ \E last \in Nat :
              /\ DOMAIN outputs' = 1 .. last /\ last > 0 /\ DOMAIN outputs = 1 .. (last - 1)
              /\ outputs'[last].kind = kind
              /\ \A i \in 1 .. (last - 1) : outputs'[i] = outputs[i]
<1> DEFINE Output == [kind : {"BackendReady", "Ready", "Batch", "Fatal"}]
           output == [kind |-> kind]
           last   == Len(outputs) + 1
<1>1. output \in Output /\ outputs' = Append(outputs, output) /\ output.kind = kind
  BY DEF Outputs
<1>2. outputs \in Seq(Output)
  BY DEF OutputsInv
<1> HIDE DEF Output, output
<1>3. /\ outputs' \in Seq(Output) /\ Len(outputs') = Len(outputs) + 1
      /\ \A i \in 1 .. Len(outputs) : outputs'[i] = outputs[i]
      /\ outputs'[Len(outputs) + 1] = output
  BY <1>1, <1>2, AppendProperties
<1>4. /\ Len(outputs) \in Nat /\ DOMAIN outputs = 1 .. Len(outputs)
      /\ DOMAIN outputs' = 1 .. Len(outputs')
  BY <1>2, <1>3, LenProperties
<1>5. last \in Nat /\ last > 0 /\ last - 1 = Len(outputs)
  BY <1>4
<1>6. /\ DOMAIN outputs' = 1 .. last /\ DOMAIN outputs = 1 .. (last - 1)
      /\ outputs'[last].kind = kind
      /\ \A i \in 1 .. (last - 1) : outputs'[i] = outputs[i]
  BY <1>1, <1>3, <1>4, <1>5
<1> HIDE DEF last
<1> QED BY <1>3, <1>5, <1>6 DEF Output
\* A controller that runs has capabilities that were configured, and the users it ran with.
LEMMA RunningKeepsUsers ==
  ASSUME UsersInv, Runs, UNCHANGED <<role, startVars, uid>>,
         role = "Greeter" => worker = "connecting" /\ users' = users,
         role = "Locker" => AreOwn(users', uid)
  PROVE  UsersInv'
<1>1. PICK granted : power' = Capabilities(config.power, granted)
  BY DEF Runs
<1>2. ToSet(power') \subseteq ToSet(config.power)
  BY <1>1, PowerIsConfigured
<1>3. worker' = "running" /\ UNCHANGED <<answer, expected>>
  BY DEF Runs
<1> QED BY <1>2, <1>3 DEF UsersInv, startVars

\* The controller thread, as far as its users and capabilities go, and the FIFO it may wait
\* at.
LEMMA WorkerStepsKeepUsers ==
  ASSUME UsersInv, WorkerSteps \/ AvatarOpens
  PROVE  UsersInv'
<1>1. UNCHANGED <<role, startVars, uid>>
  BY DEF WorkerSteps, StartDiscovery, TakeAnswer, DiscoveryTimesOut, PrepareBackend, Connect,
         FindAvatar, AvatarOpens, AnswerStateGet, WorkerAt
<1>2. CASE StartDiscovery
  <2>1. /\ worker = "starting" /\ worker' \in {"discovering", "connecting"} /\ role = "Greeter"
        /\ UNCHANGED <<answer, users, expected, power>>
    BY <1>2 DEF StartDiscovery, WorkerAt
  <2> QED BY <1>1, <2>1, NobodyIsExpected DEF UsersInv
<1>3. CASE TakeAnswer
  <2>1. /\ worker = "discovering" /\ answer # <<>> /\ worker' = "connecting"
        /\ users' = Head(answer) /\ expected' = expected
    BY <1>3 DEF TakeAnswer, WorkerAt
  <2> QED BY <1>1, <2>1 DEF UsersInv
<1>4. CASE DiscoveryTimesOut
  <2>1. /\ worker = "discovering" /\ answer = <<>> /\ worker' = "connecting"
        /\ UNCHANGED <<answer, users, expected, power>>
    BY <1>4 DEF DiscoveryTimesOut, WorkerAt
  <2> QED BY <1>1, <2>1, NobodyIsExpected DEF UsersInv
<1>5. CASE PrepareBackend
  <2>1. role = "Locker" /\ worker' \in {"connecting", "stopped"}
    BY <1>5 DEF PrepareBackend, WorkerAt, Stops
  <2> QED BY <1>1, <2>1 DEF UsersInv
<1>6. CASE Connect
  <2>1. role = "Greeter" /\ worker = "connecting"
    BY <1>6 DEF Connect, WorkerAt
  <2>2. CASE Runs /\ UNCHANGED users
    BY <1>1, <2>1, <2>2, RunningKeepsUsers
  <2>3. CASE worker' = "stopped"
    BY <2>3 DEF UsersInv
  <2> QED BY <1>6, <2>2, <2>3 DEF Connect, Stops
<1>7. CASE FindAvatar \/ AvatarOpens
  <2>1. role = "Locker"
    BY <1>7 DEF FindAvatar, AvatarOpens
  <2>2. CASE worker' = "opening"
    BY <2>2 DEF UsersInv
  <2>3. ASSUME NEW account, Runs, ShowsAccount(ResourcesOf(account)) PROVE UsersInv'
    <3>1. AreOwn(users', uid)
      BY <2>3, TheAccountIsItsOwn DEF ShowsAccount, ResourcesOf
    <3> QED BY <1>1, <2>1, <2>3, <3>1, RunningKeepsUsers
  <2> QED BY <1>7, <2>2, <2>3 DEF FindAvatar, AvatarOpens
<1>8. CASE AnswerStateGet
  BY <1>1, <1>8 DEF AnswerStateGet, workerVars, UsersInv, startVars
<1> QED BY <1>2, <1>3, <1>4, <1>5, <1>6, <1>7, <1>8 DEF WorkerSteps

\* The controller thread, and the FIFO it may wait at.
LEMMA WorkerStepsKeep ==
  ASSUME SnapshotInv, WorkerSteps \/ AvatarOpens
  PROVE  SnapshotInv'
<1>1. UNCHANGED <<role, main, startVars, uid, lookup, resources, snapshot>>
  BY DEF WorkerSteps, StartDiscovery, TakeAnswer, DiscoveryTimesOut, PrepareBackend, Connect,
         FindAvatar, AvatarOpens, AnswerStateGet, WorkerAt
<1>2. LookupInv'
  BY <1>1, LookupStartsAndEnds DEF SnapshotInv
<1>3. MainInv'
  <2>1. worker # "none"
    BY DEF WorkerSteps, StartDiscovery, TakeAnswer, DiscoveryTimesOut, PrepareBackend, Connect,
           FindAvatar, AvatarOpens, AnswerStateGet, WorkerAt
  <2> QED BY <1>1, <2>1 DEF SnapshotInv, MainInv
<1>4. UsersInv'
  BY WorkerStepsKeepUsers DEF SnapshotInv
<1>5. OutputsInv'
  <2>1. OutputsInv
    BY DEF SnapshotInv
  <2>2. CASE \/ StartDiscovery \/ TakeAnswer \/ DiscoveryTimesOut
             \/ FindAvatar /\ worker' = "opening" /\ UNCHANGED outputs
    <3>1. worker # "running" /\ worker' # "running" /\ outputs' = outputs
      BY <2>2 DEF StartDiscovery, TakeAnswer, DiscoveryTimesOut, FindAvatar, WorkerAt
    <3> QED BY <1>1, <2>1, <3>1 DEF OutputsInv
  <2>3. CASE PrepareBackend \/ (Connect /\ ~Runs)
    <3>1. worker # "running" /\ worker' # "running"
      BY <2>3 DEF PrepareBackend, Connect, WorkerAt, Stops
    <3>2. PICK kind \in {"BackendReady", "Fatal"} : Outputs(kind)
      BY <2>3 DEF PrepareBackend, Connect, Stops
    <3>3. PICK last \in Nat :
            /\ DOMAIN outputs' = 1 .. last /\ last > 0 /\ DOMAIN outputs = 1 .. (last - 1)
            /\ outputs'[last].kind = kind
            /\ \A i \in 1 .. (last - 1) : outputs'[i] = outputs[i]
      BY <2>1, <3>2, SentComesLast
    <3>4. outputs' \in Seq([kind : {"BackendReady", "Ready", "Batch", "Fatal"}])
      BY <2>1, <3>2, SentComesLast
    <3>5. \A i \in DOMAIN outputs' : outputs'[i].kind # "Batch"
      <4> SUFFICES ASSUME NEW i \in 1 .. last PROVE outputs'[i].kind # "Batch"
        BY <3>3
      <4>1. CASE i = last
        BY <3>3, <4>1
      <4>2. CASE i # last
        BY <2>1, <3>1, <3>3, <4>2 DEF OutputsInv
      <4> QED BY <4>1, <4>2
    <3> QED BY <1>1, <2>1, <3>1, <3>4, <3>5 DEF OutputsInv
  <2>4. CASE (Connect \/ FindAvatar \/ AvatarOpens) /\ Runs
    <3>1. worker # "running" /\ worker' = "running" /\ Outputs("Ready")
      BY <2>4 DEF Connect, FindAvatar, AvatarOpens, WorkerAt, Runs
    <3>2. PICK last \in Nat :
            /\ DOMAIN outputs' = 1 .. last /\ last > 0 /\ DOMAIN outputs = 1 .. (last - 1)
            /\ outputs'[last].kind = "Ready"
            /\ \A i \in 1 .. (last - 1) : outputs'[i] = outputs[i]
      BY <2>1, <3>1, SentComesLast
    <3>3. outputs' \in Seq([kind : {"BackendReady", "Ready", "Batch", "Fatal"}])
      BY <2>1, <3>1, SentComesLast
    <3>4. \A i \in DOMAIN outputs' : outputs'[i].kind # "Batch"
      <4> SUFFICES ASSUME NEW i \in 1 .. last PROVE outputs'[i].kind # "Batch"
        BY <3>2
      <4>1. CASE i = last
        BY <3>2, <4>1
      <4>2. CASE i # last
        BY <2>1, <3>1, <3>2, <4>2 DEF OutputsInv
      <4> QED BY <4>1, <4>2
    <3>5. \E i \in DOMAIN outputs' : outputs'[i].kind = "Ready"
      BY <3>2
    <3>6. ~snapshot'.sent
      BY <1>1, <2>1, <3>1 DEF OutputsInv
    <3> QED BY <3>1, <3>3, <3>4, <3>5, <3>6 DEF OutputsInv
  <2>5. CASE AnswerStateGet
    <3>1. worker = "running" /\ UNCHANGED workerVars /\ Outputs("Batch")
      BY <2>5 DEF AnswerStateGet, WorkerAt
    <3>2. PICK last \in Nat :
            /\ DOMAIN outputs' = 1 .. last /\ last > 0 /\ DOMAIN outputs = 1 .. (last - 1)
            /\ outputs'[last].kind = "Batch"
            /\ \A i \in 1 .. (last - 1) : outputs'[i] = outputs[i]
      BY <2>1, <3>1, SentComesLast
    <3>3. outputs' \in Seq([kind : {"BackendReady", "Ready", "Batch", "Fatal"}])
      BY <2>1, <3>1, SentComesLast
    <3>4. CASE resources = users.avatars
      BY <1>1, <2>1, <3>1, <3>3, <3>4 DEF OutputsInv, workerVars
    <3>5. CASE resources # users.avatars
      <4>1. PICK r \in 1 .. (last - 1) : outputs[r].kind = "Ready"
        BY <2>1, <3>1, <3>2, <3>5 DEF OutputsInv
      <4>2. r \in DOMAIN outputs' /\ outputs'[r].kind = "Ready"
        BY <3>2, <4>1
      <4>3. ASSUME NEW i \in DOMAIN outputs', outputs'[i].kind = "Batch"
            PROVE  \E j \in 1 .. i : outputs'[j].kind = "Ready"
        <5>1. CASE i = last
          BY <3>2, <4>1, <4>2, <5>1
        <5>2. CASE i # last
          <6>1. i \in DOMAIN outputs /\ outputs[i].kind = "Batch" /\ i \in 1 .. (last - 1)
            BY <3>2, <4>3, <5>2
          <6>2. PICK j \in 1 .. i : outputs[j].kind = "Ready"
            BY <2>1, <3>5, <6>1 DEF OutputsInv
          <6>3. outputs'[j] = outputs[j]
            BY <3>2, <6>1, <6>2
          <6> QED BY <6>2, <6>3
        <5> QED BY <5>1, <5>2
      <4>4. ~snapshot'.sent
        BY <1>1, <2>1, <3>5 DEF OutputsInv
      <4> QED BY <3>1, <3>3, <4>2, <4>3, <4>4 DEF OutputsInv, workerVars
    <3> QED BY <3>4, <3>5
  <2>6. FindAvatar => Runs \/ (worker' = "opening" /\ UNCHANGED outputs)
    BY DEF FindAvatar
  <2>7. AvatarOpens => Runs
    BY DEF AvatarOpens
  <2> QED BY <2>2, <2>3, <2>4, <2>5, <2>6, <2>7 DEF WorkerSteps
<1> QED BY <1>2, <1>3, <1>4, <1>5 DEF SnapshotInv
\* An output that is taken leaves those behind it, each one place further.
LEMMA TheRestMovesUp ==
  ASSUME OutputsInv, outputs # <<>>, outputs' = Tail(outputs)
  PROVE  /\ outputs' \in Seq([kind : {"BackendReady", "Ready", "Batch", "Fatal"}])
         /\ 1 \in DOMAIN outputs /\ Head(outputs) = outputs[1]
         /\ \A i \in DOMAIN outputs' :
              i \in Nat \ {0} /\ i + 1 \in DOMAIN outputs /\ outputs'[i] = outputs[i + 1]
         /\ \A i \in DOMAIN outputs \ {1} :
              i - 1 \in DOMAIN outputs' /\ i \in Nat /\ i > 1 /\ outputs'[i - 1] = outputs[i]
<1> DEFINE Output == [kind : {"BackendReady", "Ready", "Batch", "Fatal"}]
<1>1. outputs \in Seq(Output)
  BY DEF OutputsInv
<1> HIDE DEF Output
<1>2. /\ outputs' \in Seq(Output) /\ Len(outputs') = Len(outputs) - 1
      /\ \A i \in 1 .. Len(outputs') : outputs'[i] = outputs[i + 1]
  BY <1>1, HeadTailProperties
<1>3. /\ Len(outputs) \in Nat /\ DOMAIN outputs = 1 .. Len(outputs)
      /\ Len(outputs') \in Nat /\ DOMAIN outputs' = 1 .. Len(outputs')
  BY <1>1, <1>2, LenProperties
<1>4. Len(outputs) > 0
  BY <1>1, <1>3, EmptySeq
<1>5. Head(outputs) = outputs[1]
  BY <1>1
<1> DEFINE n == Len(outputs)
           m == Len(outputs')
<1>6. n \in Nat /\ m = n - 1 /\ n > 0
  BY <1>2, <1>3, <1>4
<1>7. DOMAIN outputs = 1 .. n /\ DOMAIN outputs' = 1 .. m
  BY <1>3
<1>8. \A i \in 1 .. m : outputs'[i] = outputs[i + 1]
  BY <1>2
<1> HIDE DEF n, m
<1>9. \A i \in 1 .. m : i \in Nat \ {0} /\ i + 1 \in 1 .. n
  BY <1>6
<1>10. \A i \in (1 .. n) \ {1} :
         i - 1 \in 1 .. m /\ i \in Nat /\ i > 1 /\ outputs'[i - 1] = outputs[i]
  <2> SUFFICES ASSUME NEW i \in (1 .. n) \ {1}
               PROVE  i - 1 \in 1 .. m /\ i \in Nat /\ i > 1 /\ outputs'[i - 1] = outputs[i]
    OBVIOUS
  <2>1. i - 1 \in 1 .. m /\ i \in Nat /\ i > 1 /\ (i - 1) + 1 = i
    BY <1>6
  <2>2. outputs'[i - 1] = outputs[(i - 1) + 1]
    BY <1>8, <2>1
  <2> QED BY <2>1, <2>2
<1>11. 1 \in 1 .. n
  BY <1>6
<1> QED BY <1>2, <1>5, <1>7, <1>8, <1>9, <1>10, <1>11 DEF Output

\* The main thread with its window.
LEMMA ReceiveStepsKeep ==
  ASSUME SnapshotInv, ReceiveSteps
  PROVE  SnapshotInv'
<1>1. /\ UNCHANGED <<role, config, uid, workerVars, lookup>>
      /\ outputs # <<>> /\ outputs' = Tail(outputs)
  BY DEF ReceiveSteps, ReceiveBackendReady, ReceiveReady, ReceiveBatch, ReceiveFatal, Receives, startVars
<1>2. LookupInv'
  BY <1>1, LookupStartsAndEnds DEF SnapshotInv
<1>3. MainInv'
  <2>1. main' \in {main, "serving", "failed", "without_page"}
    BY DEF ReceiveSteps, ReceiveBackendReady, ReceiveReady, ReceiveBatch, ReceiveFatal
  <2> QED BY <1>1, <2>1 DEF SnapshotInv, MainInv, workerVars
<1>4. UsersInv'
  BY <1>1 DEF SnapshotInv, UsersInv, workerVars
<1>5. OutputsInv'
  <2>1. OutputsInv /\ UNCHANGED <<worker, users, power>>
    BY <1>1 DEF SnapshotInv, workerVars
  <2>2. /\ outputs' \in Seq([kind : {"BackendReady", "Ready", "Batch", "Fatal"}])
        /\ 1 \in DOMAIN outputs /\ Head(outputs) = outputs[1]
        /\ \A i \in DOMAIN outputs' :
             i \in Nat \ {0} /\ i + 1 \in DOMAIN outputs /\ outputs'[i] = outputs[i + 1]
        /\ \A i \in DOMAIN outputs \ {1} :
             i - 1 \in DOMAIN outputs' /\ i \in Nat /\ i > 1 /\ outputs'[i - 1] = outputs[i]
    BY <1>1, <2>1, TheRestMovesUp
  <2>3. worker' # "running" => \A i \in DOMAIN outputs' : outputs'[i].kind # "Batch"
    BY <2>1, <2>2 DEF OutputsInv
  <2>4. CASE ReceiveReady
    <3>1. resources' = users.avatars /\ snapshot' = snapshot
      BY <2>4 DEF ReceiveReady
    <3> QED BY <2>1, <2>2, <2>3, <3>1 DEF OutputsInv
  <2>5. CASE ReceiveBackendReady \/ ReceiveBatch \/ ReceiveFatal
    <3>1. resources' = resources /\ outputs[1].kind # "Ready"
      BY <2>2, <2>5 DEF ReceiveBackendReady, ReceiveBatch, ReceiveFatal, Receives, pageVars
    <3>2. worker' = "running" =>
            resources' = users'.avatars \/ \E i \in DOMAIN outputs' : outputs'[i].kind = "Ready"
      <4> SUFFICES ASSUME worker' = "running", resources' # users'.avatars
                   PROVE  \E i \in DOMAIN outputs' : outputs'[i].kind = "Ready"
        OBVIOUS
      <4>1. PICK i \in DOMAIN outputs : outputs[i].kind = "Ready"
        BY <2>1, <3>1 DEF OutputsInv
      <4>2. i \in DOMAIN outputs \ {1}
        BY <3>1, <4>1
      <4> QED BY <2>2, <4>1, <4>2
    <3>3. \A i \in DOMAIN outputs' :
            outputs'[i].kind = "Batch" =>
              resources' = users'.avatars \/ \E j \in 1 .. i : outputs'[j].kind = "Ready"
      <4> SUFFICES ASSUME NEW i \in DOMAIN outputs', outputs'[i].kind = "Batch",
                          resources' # users'.avatars
                   PROVE  \E j \in 1 .. i : outputs'[j].kind = "Ready"
        OBVIOUS
      <4>1. i \in Nat \ {0} /\ i + 1 \in DOMAIN outputs /\ outputs[i + 1].kind = "Batch"
        BY <2>2
      <4>2. PICK j \in 1 .. (i + 1) : outputs[j].kind = "Ready"
        BY <2>1, <3>1, <4>1 DEF OutputsInv
      <4>3. j \in DOMAIN outputs \ {1}
        <5>1. DOMAIN outputs = 1 .. Len(outputs) /\ Len(outputs) \in Nat
          BY <2>1, LenProperties DEF OutputsInv
        <5>2. j # 1
          BY <3>1, <4>2
        <5>3. j \in 1 .. Len(outputs)
          BY <4>1, <4>2, <5>1
        <5> QED BY <5>1, <5>2, <5>3
      <4>4. j - 1 \in DOMAIN outputs' /\ j \in Nat /\ j > 1 /\ outputs'[j - 1] = outputs[j]
        BY <2>2, <4>3
      <4>5. j - 1 \in 1 .. i
        BY <4>1, <4>2, <4>4
      <4> QED BY <4>2, <4>4, <4>5
    <3>4. CASE ReceiveBatch
      <4>1. /\ snapshot' = [users |-> users.summaries, power |-> power, sent |-> TRUE]
            /\ outputs[1].kind = "Batch"
        BY <2>2, <3>4 DEF ReceiveBatch, Receives
      <4>2. worker = "running"
        BY <2>1, <2>2, <4>1 DEF OutputsInv
      <4>3. resources = users.avatars
        <5>1. ASSUME resources # users.avatars
              PROVE  \E j \in 1 .. 1 : outputs[j].kind = "Ready"
          BY <2>1, <2>2, <4>1, <5>1 DEF OutputsInv
        <5>2. 1 .. 1 = {1}
          OBVIOUS
        <5> QED BY <3>1, <5>1, <5>2
      <4> QED BY <2>1, <2>2, <2>3, <3>1, <3>2, <3>3, <4>1, <4>2, <4>3 DEF OutputsInv
    <3>5. CASE ~ReceiveBatch
      <4>1. snapshot' = snapshot
        BY <2>5, <3>5 DEF ReceiveBackendReady, ReceiveFatal, pageVars
      <4> QED BY <2>1, <2>2, <2>3, <3>1, <3>2, <3>3, <4>1 DEF OutputsInv
    <3> QED BY <3>4, <3>5
  <2> QED BY <2>4, <2>5 DEF ReceiveSteps
<1> QED BY <1>2, <1>3, <1>4, <1>5 DEF SnapshotInv

\* Whatever is read, and in whatever order the threads run, the snapshot is of the users that
\* were to be published, with their avatars handed over before it.
LEMMA SnapshotInvariant ==
  ASSUME ListsArePublishedAsExpected
  PROVE  Spec => []SnapshotInv
<1>1. Init => SnapshotInv
  <2> SUFFICES ASSUME Init PROVE SnapshotInv
    OBVIOUS
  <2>1. MainInv /\ UsersInv
    BY DEF Init, MainInv, UsersInv
  <2>2. LookupInv
    BY DEF Init, LookupInv, NoLookup, Lookup
  <2>3. OutputsInv
    <3>1. outputs = <<>> /\ DOMAIN << >> = {}
      BY DEF Init
    <3>2. <<>> \in Seq([kind : {"BackendReady", "Ready", "Batch", "Fatal"}])
      OBVIOUS
    <3>3. ~snapshot.sent /\ worker = "none"
      BY DEF Init, NoSnapshot
    <3> QED BY <3>1, <3>2, <3>3 DEF OutputsInv
  <2> QED BY <2>1, <2>2, <2>3 DEF SnapshotInv
<1>2. SnapshotInv /\ [Next]_vars => SnapshotInv'
  <2> SUFFICES ASSUME SnapshotInv, [Next]_vars PROVE SnapshotInv'
    OBVIOUS
  <2>1. CASE PageSends \/ UNCHANGED vars
    <3>1. UNCHANGED <<role, main, config, uid, workerVars, lookup, outputs, resources, snapshot>>
      BY <2>1 DEF PageSends, vars, startVars, pageVars
    <3>2. LookupInv'
      BY <3>1, LookupStartsAndEnds DEF SnapshotInv
    <3>3. MainInv' /\ UsersInv' /\ OutputsInv'
      BY <3>1 DEF SnapshotInv, MainInv, UsersInv, OutputsInv, workerVars
    <3> QED BY <3>2, <3>3 DEF SnapshotInv
  <2> QED BY <2>1, MainStepsKeep, LookupStepsKeep, FinderStepsKeep, WorkerStepsKeep,
             ReceiveStepsKeep DEF Next, WriterSteps
<1> QED BY <1>1, <1>2, PTL DEF Spec

\* What an avatar is served with does not depend on the theme.
LEMMA AvatarsServeInAnyTheme ==
  ASSUME NEW opened, NEW assets, NEW summaries, ServesAvatars(Embedded, assets, summaries)
  PROVE  ServesAvatars(opened, assets, summaries)
<1> SUFFICES ASSUME NEW user \in ToSet(summaries), user.avatar_url # NoAvatar
             PROVE  Respond(opened, assets, AvatarUri(user.avatar_url), "missing")
                      = Response(200, <<>>, user.username)
  BY DEF ServesAvatars
<1> DEFINE uri == AvatarUri(user.avatar_url)
<1>1. Respond(Embedded, assets, uri, "missing") = Response(200, <<>>, user.username)
  BY DEF ServesAvatars
<1>2. Resolve(opened, uri, "missing") = Resolve(Embedded, uri, "missing")
  BY AvatarsAreNotFiles
<1> HIDE DEF uri
<1>3. Respond(opened, assets, uri, "missing") = Respond(Embedded, assets, uri, "missing")
  BY <1>2 DEF Respond
<1> QED BY <1>1, <1>3 DEF uri

\* The users of a snapshot are those that a whole answer of the provider calls for, those of
\* the locker its own account alone; every avatar url in it is served from the moment a page
\* can know it; and no power operation is in it that the policy does not name, provided that
\* each list a provider may give is published as expected (build_public_users,
\* run_bounded_command, LogindPowerControl::discover).
THEOREM SnapshotIsOfExpectedUsers ==
  ASSUME ListsArePublishedAsExpected
  PROVE  Spec => []SnapshotIsTrusted
<1>1. SnapshotInv /\ RoleInv => SnapshotIsTrusted
  <2> SUFFICES ASSUME SnapshotInv, RoleInv, snapshot.sent
               PROVE  /\ role = "Greeter" => ShownUsers(snapshot.users) = expected
                      /\ role = "Locker" =>
                           \A user \in ToSet(snapshot.users) : user.username = uid
                      /\ ServesAvatars(theme, resources, snapshot.users)
                      /\ ToSet(snapshot.power) \subseteq ToSet(config.power)
    BY DEF SnapshotIsTrusted
  <2>1. /\ worker = "running" /\ resources = users.avatars
        /\ snapshot.users = users.summaries /\ snapshot.power = power
    BY DEF SnapshotInv, OutputsInv
  <2>2. ToSet(snapshot.power) \subseteq ToSet(config.power)
    BY <2>1 DEF SnapshotInv, UsersInv
  <2>3. CASE role = "Greeter"
    <3>1. AreExpected(users, expected)
      BY <2>1, <2>3 DEF SnapshotInv, UsersInv
    <3> QED BY <2>1, <2>2, <2>3, <3>1, AvatarsServeInAnyTheme DEF AreExpected
  <2>4. CASE role = "Locker"
    <3>1. AreOwn(users, uid)
      BY <2>1, <2>4 DEF SnapshotInv, UsersInv
    <3> QED BY <2>1, <2>2, <2>4, <3>1, AvatarsServeInAnyTheme DEF AreOwn
  <2> QED BY <2>3, <2>4 DEF RoleInv, Modes
<1> QED BY <1>1, SnapshotInvariant, RoleInvariant, PTL
==============================================================================
