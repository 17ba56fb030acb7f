CONSTANTS
  Loop = loop
  Retrainers = {t1, t2}
  EPOCHS = 1
  TUNE_EPOCHS = 1
  MaxRetrains = 3
  MaxFailures = 1
  MaxCrashes = 1
  EPISODE_STEPS = 3
  INITIAL_RULES = 3
  FP_WINDOW = 2
  TIMESTEPS = 4
SPECIFICATION FairSpec
INVARIANTS
  TypeOK
  ReadyWhenQuiet
  ModelSettled
PROPERTIES
  StartsUp
