SPECIFICATION FairSpec
CONSTANTS
  Procs <- MCProcs
  Tasks <- MCTasks
  MaxDisturbances = 2
INVARIANTS VersionTellsSchema TasksHaveSchema OutageSurvives
PROPERTIES SignalEndsProcess AllUp
