SPECIFICATION Spec
CONSTANTS
  w1 = w1
  w2 = w2
  Windows = {w1, w2}
  MaxRequests = 3
  Workers = 2
  MaxAge = 1
  MaxFaults = 1
  InitialDraft = TRUE
SYMMETRY WindowSymmetry
CHECK_DEADLOCK FALSE
INVARIANTS TypeOK PostedDraftGone
PROPERTIES SequenceNeverDecreases BlindOverwriteIsBounded SavedIsServed
