SPECIFICATION FairSpec
CONSTANTS
  s1 = s1
  s2 = s2
  f = f
  cls = cls
  met = met
  r1 = r1
  w1 = w1
  NoWork = NoWork
  Session = {s1}
  Boundary = {cls, met}
  Path = {f}
  PathOf <- OneFile
  Parent <- MethodInClass
  MaxVer = 2
  Req = {r1}
  Work = {w1}
  Start <- MarkedRepo
  CliSession <- CliOwn
  Call <- CliCalls
  Shell <- CliShell
  UserEdit <- NoEffects
  Commands = {"begin", "end", "confirm", "status", "context", "index", "finish", "commit"}
  AuxDirty = {TRUE, FALSE}
  OtherRules = {FALSE}
  RequireContext = TRUE
  OnBranch = FALSE
  ListCap = 20
  ScanCap = 20
  ScanSkips = {}
  MaxCommits = 1
INVARIANT TypeOK
INVARIANT NothingOwed
INVARIANT VerdictIsSound
PROPERTY PendingSurvives
PROPERTY AccountedStopsAreAllowed
