SPECIFICATION TmuFairSpec
CONSTANTS
  Lockers = {G3D}
  Limiters = {TMU}
  PM = PM
  TMU = TMU
  max_support_idx = 0
  min_support_idx = 1
  pm_lock_idx = 1
  Governors = {FALSE, TRUE}
  stop_throttle = 0
  start_throttle = 1
  stop_warning = 1
  start_warning = 2
  start_tripping = 3
  stop_mem_throttle = 0
  start_mem_throttle = 1
  throttle_freq = 0
  warning_freq = 1
  MaxTemp = 3
  MaxChanges = 3
INVARIANTS
  LevelsExact
  ThermalConsistent
PROPERTIES
  HotIsLimited
