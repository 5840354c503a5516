SPECIFICATION Spec
CONSTANTS
  q = q
  m = m
  t = t
  v1 = v1
  v2 = v2
  Conf = conf
  NoFp = NoFp
  NoRev = NoRev
  Suite = suite
  Any = any
  Req = {q}
  Impl = {m}
  Test = {t}
  Fp = {v1, v2}
  Rank <- Ranks
  Start <- Begin
  Draft <- Drafts
  Depth = 5
  MaxCommits = 1
  PerTest = FALSE
  Waiver <- Waivers
  Bare = {t}
  Override <- Overrides
  RunId <- RunIds
  Name <- Names
  Place <- Places
  MaxRuns = 2
INVARIANT PassIsOfItsCommit
CONSTRAINT Ordinary
