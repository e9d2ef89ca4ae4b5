SPECIFICATION VersionedSpec
CONSTANTS
  r1 = r1
  r2 = r2
  NoRun = NoRun
  Runs = {r1, r2}
  Scenes <- McScenes
SYMMETRY McSymmetry
PROPERTIES  ImplementsLedger
CHECK_DEADLOCK FALSE
