SPECIFICATION StreamSpec
CONSTANTS
  PacketSize = 6
  UsbBudget = 12
  FifoSize = 14
  StreamLength = 54
INVARIANTS
  DamageBounded
