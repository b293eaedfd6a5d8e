SPECIFICATION RuntimeSpec
CONSTANTS
  a1 = a1
  a2 = a2
  Run = {a1, a2}
  Caller = {a1, a2}
  Null = Null
  Limit = 2
  Estimate = 1
  Call <- MCCall
  Slug <- MCSlug
  Registry <- MCRegistry
  Named <- MCNamed
  Args <- MCArgs
  Route <- MCRoute
  Response <- MCResponse
  MaxIterations = 2
  MaxFaults = 1
  Provider = {"openai", "anthropic", "gemini"}
  Answer <- MCAnswer
  MaxTurns = 3
  MaxToolIterations = 2
  HistorySize = 3
  MaxMishaps = 1
INVARIANTS
  HighNeverRuns
\* Runs and turns end.
CHECK_DEADLOCK FALSE
