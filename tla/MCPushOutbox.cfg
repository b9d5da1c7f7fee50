\* Two notifications, two overlapping workers, batches of two, two attempts.
SPECIFICATION FairSpec
CONSTANTS
  Notes = {n1, n2}
  Workers = {w1, w2}
  MaxAttempts = 2
  BatchSize = 2
  None = None
INVARIANTS OneDeliveryPerAttempt LatestClaimInFlight OutcomeJustified
PROPERTIES SettledForGood EveryNoteSettles
CHECK_DEADLOCK FALSE
