----------------------------- MODULE HostConfig ------------------------------
(***************************************************************************)
(* The system configuration (fomalhaut-config), narrowed to one role, and  *)
(* the power operations logind grants (fomalhaut-logind).  A raw           *)
(* configuration has every section; an option that is not given is Unset.  *)
(* The locale and the value of a valid display scale are presentation and  *)
(* left out.                                                               *)
(***************************************************************************)
EXTENDS Naturals, Sequences, SequencesExt

Unset == "unset"

RawConfig == [default |-> Unset, greeter |-> Unset, locker |-> Unset, paths |-> Unset,
              provider |-> Unset, actions |-> <<>>, scale |-> Unset]

\* parse_theme_selector: an absolute path or an identifier
ParsesSelector(value) == value \in {Unset, "id", "directory"}

\* validate_paths, of the three lists of paths
ValidPaths(paths) == paths \in {Unset, "absolute"}

\* the policy names each action once; it is kept in the order of the protocol
PowerOrder == <<"poweroff", "reboot", "suspend">>
InPowerOrder(actions) ==
  LET Kept(i) == IF PowerOrder[i] \in actions THEN <<PowerOrder[i]>> ELSE <<>>
  IN  Kept(1) \o Kept(2) \o Kept(3)
ValidPower(actions)   == Len(actions) <= 3 /\ IsInjective(actions)

\* valid_scale, of one value or of one for each role
ValidScale(scale) == scale \in {Unset, "in_range"}

Validates(raw) ==
  /\ ParsesSelector(raw.default) /\ ParsesSelector(raw.greeter) /\ ParsesSelector(raw.locker)
  /\ ValidPaths(raw.paths)
  /\ ValidPower(raw.actions)
  /\ ValidScale(raw.scale)

\* ThemeConfig::for_greeter, for_locker
ThemeFor(raw, role) ==
  LET own == IF role = "Greeter" THEN raw.greeter ELSE raw.locker
  IN  IF own # Unset THEN own ELSE raw.default

\* AppConfig::for_greeter, for_locker
ForRole(raw, role) ==
  [theme    |-> ThemeFor(raw, role),
   provider |-> IF raw.provider = Unset THEN "auto" ELSE raw.provider,
   power    |-> InPowerOrder(ToSet(raw.actions))]

\* load_from_path: a file that is not there configures nothing; one that is unreadable, too
\* large or not TOML is an error
Loads(state, raw) == state = "missing" \/ (state = "toml" /\ Validates(raw))
Configured(state, raw) == IF state = "missing" THEN RawConfig ELSE raw

\* LogindPowerControl::discover: what is configured and answered with yes; a service that
\* cannot be reached grants nothing
Capabilities(configured, granted) ==
  InPowerOrder({a \in ToSet(configured) : a \in granted})
==============================================================================
