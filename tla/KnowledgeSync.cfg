SPECIFICATION FairSpec
CONSTANTS
  f1 = f1
  f2 = f2
  old = old
  new = new
  bad = bad
  Files = {f1, f2}
  Blobs = {old, new, bad}
  Text <- TextOfBlobs
  Refused = {bad}
  Included <- Filters
  MaxVersion = 2
  MaxCommit = 3
  Tree <- Trees
  History <- Ancestry
  Workers = {w1, w2}
  MaxFaults = 1
  None = None
INVARIANTS
  TypeOK
  ContentFollowsCursor
PROPERTIES
  EveryCommitArrives
