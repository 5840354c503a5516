SPECIFICATION Spec
CONSTANTS
  Boundary = {b1, b2}
  Req = {r1}
  Work = {w1}
  NoWork = NoWork
  Proc = {p1, p2}
  Request <- AllCalls
SYMMETRY Symmetry
CONSTRAINT Overlaps
INVARIANT TypeOK
INVARIANT ObligationsAreDurable
PROPERTY LossNeedsOverlap
PROPERTY ImplementsStore
