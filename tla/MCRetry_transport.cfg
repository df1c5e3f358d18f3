SPECIFICATION Spec
CONSTANTS
  g = g
  r = r
  p = p
  Calls = {g}
  Language <- MCLanguage
  MaxRetries = 5
  InitialBackoff = 1
  Shl <- MCShl
  Errors <- MCErrors
  Cancellable = {}
  MaxTime = 2
INVARIANTS OnlyNonConnectByTransport
