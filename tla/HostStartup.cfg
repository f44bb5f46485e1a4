SPECIFICATION FairSpec
CONSTANTS
  MaxUsers = 2
  MaxSessions = 1
  MaxEntries = 2
  Stems = {"plain", "control"}
  Directories <- MCDirectories
  ConfigFiles <- MCConfigFiles
  DesktopFiles <- MCDesktopFiles
  ThemeRoots <- MCThemeRoots
  ThemeDirectories <- MCThemeDirectories
  AccountLists <- MCAccountLists
  PasswdOutputs <- MCPasswdOutputs
  LoginDefs <- MCLoginDefs
  ProcessUids <- MCProcessUids
  AccountRecords <- MCAccountRecords
  FoundAccounts <- MCFoundAccounts
  Uris <- MCUris
  Files <- MCFiles
  Messages <- MCMessages
INVARIANTS
  CatalogIsTrusted
  SnapshotIsTrusted
  PagesStayInTheTheme
  RequestsFitTheirHost
PROPERTY
  StartupEnds
CHECK_DEADLOCK FALSE
