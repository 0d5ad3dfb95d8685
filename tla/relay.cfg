SPECIFICATION FairSpec
CONSTANTS
  Clients = {c1}
  Daemon = daemon
  Servers = {s1, s2}
  Nobody = nobody
  Triggered = {"UpdateDatabase", "RequestCustomSchedule"}
  MaxCalls = 2
INVARIANTS RelayTypeOK SuccessMeansHeard
PROPERTIES RelaysRequests EveryCallIsSettled NameIsServed
