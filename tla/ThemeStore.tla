----------------------------- MODULE ThemeStore ------------------------------
(***************************************************************************)
(* Themes and their resources (fomalhaut-web theme.rs and assets.rs, the   *)
(* URI scheme and the policy decisions of fomalhaut-gtk).  A path is the   *)
(* sequence of segments between its slashes, so a leading or a trailing    *)
(* slash and the empty path each give an empty segment; a segment is known *)
(* by its stem and its extension.                                          *)
(***************************************************************************)
EXTENDS Naturals, FiniteSets, Sequences, SequencesExt

Segment(stem, extension) == [stem |-> stem, extension |-> extension]
Name(stem)   == Segment(stem, "none")
EmptySegment == Name("")
Root         == <<EmptySegment>>

\* ThemePath::parse; "illegal" stands for a name with a character outside the alphabet of
\* theme paths, "oversized" for one that makes the path too long
ParsesSegment(s) ==
  /\ s.stem \notin {"illegal", "oversized"}
  /\ s.extension = "none" => s.stem \notin {"", ".", ".."}
ParsesPath(path) == \A s \in ToSet(path) : ParsesSegment(s)

\* mime_type, of the last segment; a name that begins with its only dot has no extension
MimeTypes == [html |-> "text/html", htm |-> "text/html", css |-> "text/css",
              js |-> "application/javascript", png |-> "image/png"]
NoMime == "none"
MimeType(path) ==
  LET last == Last(path)
  IN  IF last.stem # "" /\ last.extension \in DOMAIN MimeTypes
      THEN MimeTypes[last.extension] ELSE NoMime

\* read_file: the file is text, binary, oversized, missing, a directory, or "outside": a
\* link that leaves the root, which the capability of the root does not follow
ReadFile(file) == CASE file \in {"missing", "directory", "outside"} -> "Unavailable"
                    [] file = "oversized"                            -> "TooLarge"
                    [] OTHER                                         -> "Ok"

-----------------------------------------------------------------------------
(* Selection and opening. *)

Manifest == <<Segment("theme", "toml")>>

\* read_manifest_id: any other content of a manifest that parses is not looked at
MatchesTheme(candidate) == candidate.opens /\ candidate.manifest = "parses" /\ candidate.id

\* discover_theme_in; "missing" roots are skipped, an unreadable one ends the search.
\* The result is a theme directory or its absence
NoTheme == <<>>
DiscoverTheme(roots) ==
  LET present    == SelectSeq(roots, LAMBDA r : r.state # "missing")
      candidates == FlattenSeq([i \in DOMAIN present |-> present[i].candidates])
      matches    == SelectSeq(candidates, MatchesTheme)
  IN  IF \E r \in ToSet(roots) : r.state = "unreadable" THEN NoTheme
      ELSE SubSeq(matches, 1, IF matches = <<>> THEN 0 ELSE 1)

\* ExternalTheme::open: the entrypoint is HTML that can be read as text
OpensTheme(directory) ==
  /\ directory.opens /\ directory.manifest = "parses"
  /\ directory.valid_id /\ directory.valid_name /\ directory.protocol = 1
  /\ ParsesPath(directory.entrypoint)
  /\ MimeType(directory.entrypoint) = "text/html"
  /\ directory.entry_file = "text"

Embedded == [external |-> FALSE, entrypoint |-> <<Segment("index", "html")>>]
External(directory) == [external |-> TRUE, entrypoint |-> directory.entrypoint]

-----------------------------------------------------------------------------
(* URIs of an opened theme. *)

Uri(authority, path) == [authority |-> authority, path |-> path]
ThemeUri(path)       == Uri("theme", path)

\* resolve_builtin_asset
BuiltinAssets == {<<Segment("index", "html")>>, <<Segment("style", "css")>>, <<Segment("app", "js")>>}

\* the file a URI names, <<>> for none
PathOf(theme, uri) ==
  LET names == IF theme.external THEN ParsesPath(uri.path) ELSE uri.path \in BuiltinAssets
  IN  IF uri.authority # "theme" THEN <<>>
      ELSE IF uri.path = Root THEN theme.entrypoint
      ELSE IF names THEN uri.path ELSE <<>>

\* ThemeSource::allows_navigation
AllowsNavigationToAnyPage(theme, uri) ==
  LET path == PathOf(theme, uri) IN path # <<>> /\ MimeType(path) = "text/html"

AllowsNavigation(theme, uri) == PathOf(theme, uri) = theme.entrypoint

\* ThemeSource::allows_resource_uri
AllowsResourceUri(theme, uri) ==
  LET path == PathOf(theme, uri) IN path # <<>> /\ MimeType(path) # NoMime

\* ThemeSource::resolve, as the status of the response; the embedded files are always there
Response(status, path, body) == [status |-> status, path |-> path, body |-> body]
NoBody == 0
NotFound == Response(404, <<>>, NoBody)

Resolve(theme, uri, file) ==
  LET read == IF ~AllowsResourceUri(theme, uri) THEN "Unavailable"
              ELSE IF theme.external THEN ReadFile(file) ELSE "Ok"
  IN  CASE read = "Unavailable" -> NotFound
        [] read = "TooLarge"    -> Response(500, <<>>, NoBody)
        [] read = "Ok"          -> Response(200, PathOf(theme, uri), NoBody)

\* respond_to_scheme_request: an avatar has the uri of its identifier
AvatarUri(identifier) == Uri("avatar", <<Name(ToString(identifier))>>)

Respond(theme, resources, uri, file) ==
  LET named == {i \in DOMAIN resources : AvatarUri(resources[i].identifier) = uri}
  IN  IF named # {} THEN Response(200, <<>>, resources[Min(named)].body)
      ELSE Resolve(theme, uri, file)
==============================================================================
