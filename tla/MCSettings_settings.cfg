SPECIFICATION Spec
CONSTANTS
  Plan = {"month", "week", "never"}
  Invalid = {"never"}
  Threshold = {"high", "low"}
  Default <- Builtin
  Found <- Profiles
  Record = {r1}
  Unseen = Unseen
  MaxChanges = 2
  MaxCrashes = 1
  MaxFaults = 1
INVARIANTS SettingsAgree WorkFollows
CHECK_DEADLOCK FALSE
