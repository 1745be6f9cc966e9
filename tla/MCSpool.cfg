CONSTANTS
  Users = {u1}
  Runs = {c1, c2, c3}
  Races = {}
  MaxCrashes = 1
  Old = Old
  None = None
  Unknown = Unknown
SPECIFICATION Spec
SYMMETRY Symmetry
INVARIANTS TypeOK SpoolHoldsLatest LoadedIsSaved SignalSent
