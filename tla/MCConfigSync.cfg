CONSTANTS
  Phones = {p1, p2}
  Edits = {e1, e2}
  Absent = Absent
  Broken = Broken
  None = None
  MaxUploads = 2
SYMMETRY Symmetry
SPECIFICATION Spec
INVARIANTS
  RunsWhatFileSays
  FreshUploadsAreNewer
  BrokenHasCause
  LinearEditsSurvive
\* The bounds on edits and uploads end some behaviours.
CHECK_DEADLOCK FALSE
