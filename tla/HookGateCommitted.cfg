SPECIFICATION Spec
CONSTANTS
  s1 = s1
  s2 = s2
  f = f
  cls = cls
  met = met
  r1 = r1
  w1 = w1
  NoWork = NoWork
  Session = {s1}
  Boundary = {cls, met}
  Path = {f}
  PathOf <- OneFile
  Parent <- MethodInClass
  MaxVer = 2
  Req = {r1}
  Work = {w1}
  Start <- EmptyRepo
  CliSession <- CliOwn
  Call <- NoCalls
  Shell <- NoEffects
  UserEdit <- UserCommits
  Commands = {"commit"}
  AuxDirty = {FALSE}
  OtherRules = {FALSE}
  RequireContext = FALSE
  OnBranch = FALSE
  ListCap = 20
  ScanCap = 20
  ScanSkips = {}
  MaxCommits = 1
INVARIANT CommittedChangeIsAccounted
