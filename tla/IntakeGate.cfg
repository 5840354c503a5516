SPECIFICATION Spec
CONSTANTS
  s1 = s1
  s2 = s2
  r1 = r1
  w1 = w1
  b1 = b1
  t1 = t1
  t2 = t2
  NoWork = NoWork
  Gone = Gone
  Session = {s1}
  Boundary = {b1}
  Req = {r1}
  Work = {w1}
  Text = {t1, t2}
  Known = {w1}
  ReqsOf <- OneReq
PROPERTY IndexingKeepsGateOpen
