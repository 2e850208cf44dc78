CONSTANTS
  Infos <- MCInfos
  BarReg <- MCBarReg
  Handlers = {{1, 4}}
  HasMapOps = TRUE
  HandlerByte <- MCHandlerByte
  CfgWriteOffsets <- MCCfgWriteOffsets
  CfgReadOffsets = {254}
  CfgValues <- MCCfgValues
  AccessSizes = {1, 2, 4}
  MmioSizes = {1, 2, 4}
  BarOffsets = {0, 2}
  BarValues <- MCBarValues
  MaxRestarts = 1
  HvCanFail = TRUE
SPECIFICATION Spec
INVARIANT RoutingFollowsConfig
