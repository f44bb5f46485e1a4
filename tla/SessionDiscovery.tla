-------------------------- MODULE SessionDiscovery ---------------------------
(***************************************************************************)
(* Discovery of trusted sessions (fomalhaut-session).  A desktop file is   *)
(* what the discovery reads of it; a key that is missing is Absent.  The   *)
(* value of Exec is a sequence of characters, of which one stands for      *)
(* every class that parse_exec tells apart.                                *)
(***************************************************************************)
EXTENDS ProtocolValues, Naturals, FiniteSets, Sequences, SequencesExt

Absent == "absent"
Kinds  == {"Wayland", "X11"}

-----------------------------------------------------------------------------
(* exec.rs.  "w" is any character without a meaning of its own, "p" one    *)
(* that is reserved in the desktop entry grammar outside quotes only, "$"  *)
(* one that a backslash may follow inside quotes and is reserved else.     *)

Characters == {"w", "=", " ", "\"", "\\", "%", "p", "$", "nul"}

IsReserved(c) == c \in {"p", "$"}
Escapable(c)  == c \in {"\"", "$", "\\"}

\* where the parser stands: its three flags, the argument it collects, and what the
\* character before demands of this one
Scan(at, args, current, due) == [at |-> at, args |-> args, current |-> current, due |-> due]
ScanStart == Scan("between", <<>>, <<>>, "none")
ScanError == Scan("error", <<>>, <<>>, "none")

Within(at) == IF at = "between" THEN "word" ELSE at

\* push_character
PushCharacter(s, c) ==
  CASE c = "nul" -> ScanError
    [] c = "%"   -> Scan(Within(s.at), s.args, s.current, "percent")
    [] OTHER     -> Scan(Within(s.at), s.args, Append(s.current, c), "none")

EndArgument(s) == Scan("between", Append(s.args, s.current), <<>>, "none")
Escape(s)      == [s EXCEPT !.due = "escaped"]

ParseQuoted(s, c) ==
  CASE c = "\"" -> Scan("closed", s.args, s.current, "none")
    [] c = "\\" -> Escape(s)
    [] c = "$"  -> ScanError
    [] OTHER    -> PushCharacter(s, c)

ParseUnquoted(s, c) ==
  CASE c = "\""         -> IF s.at = "between" THEN Scan("quoted", s.args, <<>>, "none")
                                               ELSE ScanError
    [] c = "\\"         -> Escape(s)
    [] c = " "          -> IF s.at = "between" THEN s ELSE EndArgument(s)
    [] IsReserved(c)    -> ScanError
    [] OTHER            -> PushCharacter(s, c)

\* a character that the one before demands nothing of
ParseFree(s, c) ==
  CASE s.at = "closed" -> IF c = " " THEN EndArgument(s) ELSE ScanError
    [] s.at = "quoted" -> ParseQuoted(s, c)
    [] s.at \in {"between", "word"} -> ParseUnquoted(s, c)
    [] s.at = "error"  -> s

ParseCharacter(s, c) ==
  CASE s.due = "none"    -> ParseFree(s, c)
    [] s.due = "percent" ->
         IF c = "%" THEN Scan(s.at, s.args, Append(s.current, "%"), "none") ELSE ScanError
    [] s.due = "escaped" ->
         IF s.at = "quoted" /\ ~Escapable(c) THEN ScanError
         ELSE PushCharacter([s EXCEPT !.due = "none"], c)

\* the argument vector, <<>> for an error
ParseExec(input) ==
  LET s    == FoldLeft(ParseCharacter, ScanStart, input)
      args == IF s.at = "between" THEN s.args ELSE Append(s.args, s.current)
      fails == \/ s.at \in {"error", "quoted"}
               \/ s.due # "none"
               \/ args = <<>> \/ args[1] = <<>> \/ "=" \in ToSet(args[1])
  IN  IF fails THEN <<>> ELSE args

-----------------------------------------------------------------------------
(* discovery.rs. *)

\* an entry that is accepted; an Exec that is missing is empty, DesktopNames is known by
\* the names it splits into
Entry == [parses |-> TRUE, group |-> TRUE, Hidden |-> Absent, NoDisplay |-> Absent,
          Type |-> Absent, Name |-> "plain", Exec |-> <<"w">>, TryExec |-> Absent,
          DesktopNames |-> Absent]

\* strict_bool, of a key that must not be true
NotSet(value) == value \in {Absent, "false"}

\* TryExec names an executable, absolute or found on the search paths
ValidateTryExec(value) == value \in {Absent, "executable"}

\* session_environment: the stem and every name of DesktopNames go into variables
SessionEnvironment(stem, names) == stem # "control" /\ names \in {Absent, "names"}

\* load_entry; the order of its checks only chooses the reason of a rejection, and no
\* host reads one
LoadsEntry(e, stem) ==
  /\ e.parses /\ e.group
  /\ NotSet(e.Hidden) /\ NotSet(e.NoDisplay)
  /\ e.Type \in {Absent, "Application"}
  /\ e.Name \notin {Absent, "empty"}
  /\ ParseExec(e.Exec) # <<>>
  /\ ValidateTryExec(e.TryExec)
  /\ SessionEnvironment(stem, e.DesktopNames)

CatalogEntry(e) == [name |-> e.Name, command |-> ParseExec(e.Exec)]

\* SessionId::from_file_stem; stems are named by their form
SessionId(kind, stem) == <<kind, stem>>

\* what discover has seen and accepted so far
NothingFound == [seen |-> {}, entries |-> <<>>]

WithEntry(f, id, value) == [x \in DOMAIN f \cup {id} |-> IF x = id THEN value ELSE f[x]]

\* one file: the first of an id claims it, whatever comes of it
DiscoverFileThatLoads(found, id, e) ==
  IF id \in found.seen \/ ~LoadsEntry(e, id[2]) THEN found
  ELSE [seen |-> found.seen \cup {id}, entries |-> WithEntry(found.entries, id, CatalogEntry(e))]

DiscoverFile(found, id, e) ==
  IF id \in found.seen THEN found
  ELSE [seen    |-> found.seen \cup {id},
        entries |-> IF LoadsEntry(e, id[2]) THEN WithEntry(found.entries, id, CatalogEntry(e))
                                            ELSE found.entries]

\* discover_trusted_sessions: the protocol must hold every entry, or the host stops
TrustsCatalog(entries, max_sessions) ==
  /\ Cardinality(DOMAIN entries) \in 1 .. max_sessions
  /\ \A id \in DOMAIN entries : AcceptsSessionSummary(id[2], entries[id].name)
==============================================================================
