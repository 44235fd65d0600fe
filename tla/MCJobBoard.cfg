CONSTANTS
  Columns = {title}
  Texts = {a, b}
  Omitted = Omitted
  Requests = {r1, r2}
  Nobody = Nobody
  MaxEmployers = 2
  MaxJobs = 2
SPECIFICATION FairSpec
INVARIANTS
  NoOrphans
  DeleteIsAtomic
  EditIdentity
PROPERTIES
  ModerationSticks
  KeepsPromise
  EditsEnd
