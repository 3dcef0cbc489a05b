SPECIFICATION Spec
CONSTANTS
  LOG2_LLC_SET = 1
  llc_ways = 2
  NUM_SAMPLED_SETS = 512
  NUM_SAMPLED_WAYS = 2
  kMaxTimestamp = 4
  INF_ETR = 1
  INF_RD = 2
  MAX_RD = 1
  GRANULARITY = 1
  TEMP_DIVISOR = 2
  LOG2_CORES = 0
  a1 = a1
  a2 = a2
  a3 = a3
  a4 = a4
  None = None
  Sigs = {s1}
  Addrs = {a1,a2,a3,a4}
  SetOf <- MCSetOf
  IndexOf <- MCIndexOf
  TagOf <- MCTagOf
INVARIANTS UniqueLines VictimIsScanned UniqueSamples
PROPERTIES OldestSampleGivenUp
