\* A crash in the middle of an append, and an append after the restart.
SPECIFICATION Spec
CONSTANTS
  k1 = k1
  k2 = k2
  Key = {k1}
  Faults = {"torn"}
  MaxJournal = 2
  MaxVersion = 2
  MaxSequence = 5
  MaxLength = 4
  MaxRestarts = 3
SYMMETRY Symmetry
INVARIANTS
  AcknowledgedSurvives
CHECK_DEADLOCK FALSE
