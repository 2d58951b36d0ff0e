CONSTANTS
  InitWords <- MC_ParseWords
  MaxCalls <- MC_ParseMaxCalls
  MaxWrites <- MC_ParseMaxWrites
  AddrBufLen <- MC_AddrBufLen
  PanIds <- MC_PanIds
  ShortAddrs <- MC_ShortAddrs
  ExtAddrs <- MC_ExtAddrs
  None = None
  Panic = Panic
SPECIFICATION Spec
INVARIANT AccessorsTileLen
