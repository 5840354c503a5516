SPECIFICATION Spec
CONSTANTS
  p1 = p1
  p2 = p2
  fa = fa
  fb = fb
  ia = ia
  ib = ib
  iw = iw
  v1 = v1
  v2 = v2
  NoFp = NoFp
  NoRev = NoRev
  Conf = conf
  Proc = {p1, p2}
  File = {fa, fb}
  Id = {ia, ib, iw}
  Fp = {v1, v2}
  Rank <- Ranks
  Start <- Begin
  Draft <- Drafts
  Job <- TwoJobs
  Depth = 5
  MaxCommits = 1
INVARIANT TypeOK
INVARIANT StoreMirrorsSeen
INVARIANT EdgesHaveActiveSource
INVARIANT VerifiedAtHead
PROPERTY ChangeIsNoticed
PROPERTY StaleWaits
