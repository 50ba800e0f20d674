CONSTANTS
  w1 = w1  w2 = w2  w3 = w3  p1 = p1  p2 = p2
  base = base  closed = closed  huge = huge  route = route
  close = close  inflate = inflate
  NoRequest = NoRequest  NoMods = NoMods
  Workers = {w1, w3}
  Replicas = {p1, p2}
  ReplicaOf <- MCReplicaOf
  Requests = {base, closed, huge, route}
  ClientRequests = {base, closed, huge, route}
  DomainOf <- MCDomainOf
  NonFinite = {huge}
  Mods = {close, inflate}
  Applied <- MCApplied
  MaxRetries = 3
  MaxCalls = 3
  MaxFaults = 1
SPECIFICATION FairSpec
PROPERTIES
  EveryCallEnds
