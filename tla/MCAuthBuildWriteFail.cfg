CONSTANTS
  gEfiCertX509Guid <- MCX509Guid
  gEfiCertPkcs7Guid <- MCPkcs7Guid
  gEfiGlobalVariableGuid <- MCGlobalGuid
  gEfiImageSecurityDatabaseGuid <- MCImageSecurityGuid
  Argvs = {}
  InitFs <- MCBuildFs
  Files <- MCBuildFiles
  Times <- MCBuildTimes
  Faults = {"fwrite"}
  MaxTime = 14
  Edits <- MCListEdits
  MaxKeys = 2
SPECIFICATION AbSpec
INVARIANT BuiltAuthsCurrent
