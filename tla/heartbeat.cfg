SPECIFICATION FairSpec
CONSTANTS
  Interval = 5
  Delay = 2
  RestartDelay = 5
  MaxFaults = 5
INVARIANTS AlarmMeansMissedBeat DownIsNoticed
PROPERTIES StampNeverGoesBack EventuallyShownPassing
