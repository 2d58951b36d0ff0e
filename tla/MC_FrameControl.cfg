CONSTANTS
  InitWords <- MC_InitWords
  MaxCalls <- MC_MaxCalls
SPECIFICATION Spec
PROPERTY NonInterference
