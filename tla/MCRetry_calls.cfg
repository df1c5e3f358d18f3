SPECIFICATION FairSpec
CONSTANTS
  g = g
  r = r
  p = p
  Calls = {g, p}
  Language <- MCLanguage
  MaxRetries = 4
  InitialBackoff = 1
  Shl <- MCShl
  Errors <- MCFewErrors
  Cancellable = {g}
  MaxTime = 1
INVARIANTS TypeOK TailUnreachable BackoffFloor AbortsPromptly TransientMeansSpent
PROPERTIES ImplementsUnaryCall SettlesOrHangs
