CONSTANTS
  Users = {u1}
  Runs = {c1, c2, c3}
  Races = {"overwrite"}
  MaxCrashes = 0
  Old = Old
  None = None
  Unknown = Unknown
SPECIFICATION Spec
SYMMETRY Symmetry
INVARIANTS SpoolHoldsLatest
