SPECIFICATION Spec
CONSTANTS
  g = g
  r = r
  p = p
  goServer = goServer
  rustServer = rustServer
  Calls = {p, r}
  Language <- MCLanguage
  MaxRetries = 2
  InitialBackoff = 1
  Shl <- MCShl
  MaxTime = 0
  Servers = {goServer}
  Impl <- MCImpl
  NoServer = NoServer
  MaxStarts = 2
  Errors <- MCTransient
  Payload <- MCMixed
  MaxLosses = 1
INVARIANTS AnswerIsFinal
PROPERTIES KeepsPromise
