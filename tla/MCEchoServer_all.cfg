SPECIFICATION FairSpec
CONSTANTS
  goServer = goServer
  rustServer = rustServer
  jane = jane
  blank = blank
  noise = noise
  probe = probe
  Servers = {goServer, rustServer}
  Impl <- MCImpl
  Requests = {jane, blank, noise, probe}
  Path <- MCPath
  Message <- MCMessage
  NoServer = NoServer
  MaxStarts = 1
CHECK_DEADLOCK FALSE
INVARIANTS TypeOK OnlyOwnerServes LogMatchesAnswer HealthNotLogged HandledIffGreeted
PROPERTIES EndsOrAwaitsBody
