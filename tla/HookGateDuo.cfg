SPECIFICATION Spec
CONSTANTS
  s1 = s1
  s2 = s2
  f = f
  cls = cls
  met = met
  r1 = r1
  w1 = w1
  NoWork = NoWork
  Session = {s1, s2}
  Boundary = {cls, met}
  Path = {f}
  PathOf <- OneFile
  Parent <- MethodInClass
  MaxVer = 2
  Req = {r1}
  Work = {w1}
  Start <- EmptyRepo
  CliSession <- CliOwn
  Call <- DuoCalls
  Shell <- NoEffects
  UserEdit <- DuoUser
  Commands = {"begin", "timeout"}
  AuxDirty = {FALSE}
  OtherRules = {TRUE, FALSE}
  RequireContext = FALSE
  OnBranch = FALSE
  ListCap = 20
  ScanCap = 20
  ScanSkips = {}
  MaxCommits = 0
INVARIANT VerdictIsSound
INVARIANT NothingOwed
PROPERTY EditsAreAccounted
SYMMETRY TwoSessions
