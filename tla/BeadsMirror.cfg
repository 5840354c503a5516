SPECIFICATION FairSpec
CONSTANTS
  r1 = r1
  t1 = t1
  t2 = t2
  t3 = t3
  q1 = q1
  Run = {r1}
  Task = {t1, t2, t3}
  Item <- Items
  Question = {q1}
  Needs <- Chain
  Linked <- Links
  TaskMove <- Moves
  NoBead = NoBead
  MaxBeads = 7
  MaxFailures = 2
  MaxMoves = 2
INVARIANT TypeOK
INVARIANT OneBeadPerTask
INVARIANT SomebodyCanMove
PROPERTY MappingConverges
 
