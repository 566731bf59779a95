CONSTANTS
  t1 = t1  t2 = t2
  Clients = {t1, t2}
  CallsOf <- TwoClients
  Ranges <- TwoModels
  ServerIds = {2, 3, 8}
  Odd = {t1}
  Word = 10
  Byte = 8
  PerByte = 2
  ReadBits = 6
  ReadRegs = 3
  WriteBits = 4
  WriteRegs = 3
  ExchangeRegs = 3
SPECIFICATION Spec
INVARIANTS WritesAreMade WithinRange ChecksFitResponses FramesArePredicted UpdatesDontTear ExchangeReadsItsWrites
CHECK_DEADLOCK FALSE
