SPECIFICATION Spec
CONSTANTS
  NoId = "none"
  MaxTail = 12
  MaxHeld = 8
  MaxOthers = 2
  Scenarios <- MCScenarios
INVARIANTS ClientIntact ClaudeGrammar ReportExact RequestSound
