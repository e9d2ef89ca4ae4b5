SPECIFICATION VersionedSpec
CONSTANTS
  r1 = r1
  r2 = r2
  NoRun = NoRun
  Runs = {r1, r2}
  Scenes <- McTwiceDown
SYMMETRY McSymmetry
INVARIANT ReapplyAvailable
CHECK_DEADLOCK FALSE
