SPECIFICATION FairSpec
CONSTANTS
  Callers = {main}
  Timely = TRUE
  CtrlF = TRUE
  TxRetriesMax = 1
  LoginRetriesMax = 2
  Timeout = 2
INVARIANTS CallsTakeEffect LoginNeedsBoth OffIsOff
PROPERTIES StopsReturn SilentSessionEnds
