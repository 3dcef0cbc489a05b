CONSTANTS
  c1 = c1
  c2 = c2
  Cores <- OneCore
  CoreDomain <- OneDomain
  Systems <- MissOnly
  NumDomains = 2
  PhaseLength = 6
  MaxPhase = 3
  AccLat = 1
  NetLat = 1
  InvLat = 2
  MemPre = 1
  MemPost = 1
  ExtraLats = {1}
  NumMSHRs = 1
  B = 4
  W = 2
SPECIFICATION Spec
INVARIANT
  SlabKeptWhileLive
