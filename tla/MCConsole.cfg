SPECIFICATION FairSpec
CONSTANTS
  INPUT_MAX = 3
  IdxMod = 6
  MaxRead = 3
  t1 = t1 t2 = t2
  x = x
  Reader <- Readers
  Char <- Chars
  NoReader = NoReader
  Nl = Nl
  Eof = Eof
  NoChar = NoChar
INVARIANTS
  NoSleepOnInput
PROPERTIES
  ImplementsLineQueue
  WokenReaderReturns
