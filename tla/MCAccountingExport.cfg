\* One export, two exporters, two senders, two attempts, one change of the books.
SPECIFICATION FairSpec
CONSTANTS
  Jobs = {j1}
  Exporters = {e1, e2}
  Senders = {s1, s2}
  MaxAttempts = 2
  MaxBooks = 1
  MaxFaults = 1
  None = None
INVARIANTS ArtifactMatchesJob OneContentSent
PROPERTIES FinalKept ExportsSettle
CHECK_DEADLOCK FALSE
