SPECIFICATION FairSpec
CONSTANTS
  CmdLen = 2
  RxLen = 2
  CbLen = 7
  Pins = {TRUE, FALSE}
  Modes = {"on", "tx_only"}
  MaxTraffic = 6
INVARIANT OrderKept
PROPERTIES SentWhole CallReturns
CHECK_DEADLOCK FALSE
