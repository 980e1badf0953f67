\* Crashes at every step of appends and checkpoints, steps that fail cleanly, and
\* every damage that a crash may do to the journal and to its header.
SPECIFICATION Spec
CONSTANTS
  k1 = k1
  k2 = k2
  Key = {k1, k2}
  Faults = {"append", "flush", "checkpoint", "torn", "header"}
  MaxJournal = 2
  MaxVersion = 2
  MaxSequence = 7
  MaxLength = 4
  MaxRestarts = 3
SYMMETRY Symmetry
INVARIANTS
  TypeOK
  SafeSurvives
  SnapshotDecides
  AlwaysOpens
CHECK_DEADLOCK FALSE
