SPECIFICATION Spec
CONSTANTS
  Scenarios <- MCScenarios
  FreshContext <- PackageContext
  Checker <- CheckPass
  FieldValues <- MCFieldValues
INVARIANTS
  ArgumentsAreApplied
  DiagnosticsAreShown
  ErrorsStopCompilation
  CheckedAsSwift
  SynthesizedAsWritten
CHECK_DEADLOCK FALSE
