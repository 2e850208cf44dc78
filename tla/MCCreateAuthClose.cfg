CONSTANTS
  gEfiCertX509Guid <- MCX509Guid
  gEfiCertPkcs7Guid <- MCPkcs7Guid
  gEfiGlobalVariableGuid <- MCGlobalGuid
  gEfiImageSecurityDatabaseGuid <- MCImageSecurityGuid
  Argvs <- MCArgvs
  InitFs <- MCInitFs
  Files <- MCFiles
  Times <- MCTimes
  Faults = {"fclose"}
SPECIFICATION CaSpec
INVARIANT AuthFileVerifies
