SPECIFICATION Spec
CONSTANTS
  Absent = Absent
  Torn = Torn
  Hand <- MCHand
INVARIANT SettingsSurvive
PROPERTIES
  StableRestart
  CarriedOver
