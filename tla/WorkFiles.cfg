SPECIFICATION Spec
CONSTANTS
  s1 = s1
  s2 = s2
  rate = rate
  limit = limit
  NoWork = NoWork
  Session = {s1, s2}
  Job <- Jobs
  Slug = {rate, limit}
  Starts <- RateLimit
  MaxCopies = 2
  MaxBegun = 2
  MaxReceipts = 2
  MaxCommits = 1
INVARIANT TypeOK
INVARIANT EntriesSurvive
INVARIANT EntriesAreUnique
INVARIANT ContractsSurvive
INVARIANT ReceiptsSurvive
 
 
CONSTRAINT FewMishaps
