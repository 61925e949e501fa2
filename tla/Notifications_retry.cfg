\* Two messages and one slot, no faults.
SPECIFICATION NotifySpec
CONSTANTS
  Items = {m1, m2}
  MaxActive = 1
  MaxUpsets = 0
PROPERTIES
  CapacityIsRetried
CHECK_DEADLOCK FALSE
