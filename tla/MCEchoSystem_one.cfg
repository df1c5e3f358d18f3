SPECIFICATION FairSpec
CONSTANTS
  g = g
  r = r
  p = p
  goServer = goServer
  rustServer = rustServer
  Calls = {g}
  Language <- MCLanguage
  MaxRetries = 5
  InitialBackoff = 1
  Shl <- MCShl
  MaxTime = 1
  Servers = {goServer, rustServer}
  Impl <- MCImpl
  NoServer = NoServer
  MaxStarts = 1
  Errors <- MCErrors
  Payload <- MCJane
  MaxLosses = 1
INVARIANTS TypeOK SuccessWasServed RepeatNeedsLoss OutlivesShortOutage
PROPERTIES KeepsPromise EveryClientExits
