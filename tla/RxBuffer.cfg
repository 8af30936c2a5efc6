CONSTANTS
  PosRange = 8
  BufSize = 16
  MsgMin = 2
  MsgMax = 8
  SeqRange = 2
  ReceiveWindow = 4
  MaxNoise = 1
SPECIFICATION SpecRx
INVARIANTS BufferIsQueue
PROPERTIES Resynchronises
