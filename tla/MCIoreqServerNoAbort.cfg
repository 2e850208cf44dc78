CONSTANTS
  Infos <- MCInfos
  BarReg <- MCBarReg
  Handlers = {{1, 4}}
  HasMapOps = TRUE
  HandlerByte <- MCHandlerByte
  CfgWriteOffsets <- MCIoCfgWriteOffsets
  CfgReadOffsets = {254}
  CfgValues <- MCIoCfgValues
  AccessSizes = {4}
  MmioSizes = {4}
  BarOffsets = {0}
  BarValues <- MCBarValues
  MaxRestarts = 1
  HvCanFail = FALSE
  Vcpus = {v1, v2}
SPECIFICATION IoSpec
INVARIANT NoAbort
