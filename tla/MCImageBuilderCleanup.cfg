CONSTANTS
  Timeouts = {0, 50}
  AttemptTimes = {1, 20}
  Sources <- MCSources
  MaxUpdates = 2
  Options <- MCOptions
  Names = {"a", "b", "bad"}
  Unparsable = {"bad"}
  Sizes = {1, 2}
SPECIFICATION Spec
INVARIANT EveryPluginCleanedUp
CHECK_DEADLOCK FALSE
