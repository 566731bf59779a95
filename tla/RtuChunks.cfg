CONSTANTS
  MaxFrame = 4
  MinFrame = 2
  Lines <- AllLines
  Length = 11
  Modes = {"net", "serial", "serial_t15"}
  MaxEvents = 3
  MaxForgets = 1
SPECIFICATION Spec
INVARIANTS NeverOverflows CleanLineIsFramed NothingStrands
PROPERTIES BurstsDontMix
CHECK_DEADLOCK FALSE
