SPECIFICATION TxFairSpec
CONSTANTS
  UART_TX_BUF_SIZE = 3
  TxMod = 6
  t1 = t1 t2 = t2
  x = x y = y
  Writer <- Writers
  TxChar <- Chars
  TxIntr = TxIntr
  Nobody = Nobody
  Echo = Echo
  NoTx = NoTx
INVARIANTS
  NoStall
PROPERTIES
  ImplementsTxQueue
  WriterWakes
