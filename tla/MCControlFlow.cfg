CONSTANTS
  Programs <- MCPrograms
  ForComptime <- MCForComptime
  MaxAnswers = 6
SPECIFICATION Spec
INVARIANTS RunsAsWritten VerifierAccepts ComptimeAgrees
