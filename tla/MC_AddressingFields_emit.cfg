CONSTANTS
  InitWords <- MC_EmitWords
  MaxCalls <- MC_MaxCalls
  MaxWrites <- MC_MaxWrites
  AddrBufLen <- MC_AddrBufLen
  PanIds <- MC_PanIds
  ShortAddrs <- MC_ShortAddrs
  ExtAddrs <- MC_ExtAddrs
  None = None
  Panic = Panic
SPECIFICATION Spec
INVARIANT PanIdRoundTrip
INVARIANT WriteEndsAtLen
