SPECIFICATION Spec
CONSTANTS
  NLanes = 2
  MaxPolls = 2
  MaxTunePolls = 2
  AppSels = {1}
  Tunings = {1}
  Mixed = mixed
  PathOf <- MCSingles
INVARIANTS
  DeactivatedOnSuccess
