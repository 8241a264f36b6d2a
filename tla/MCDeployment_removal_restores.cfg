\* A removal fails and recovers.
SPECIFICATION Spec
CONSTANTS
  None = None
  Proc = {p1}
  Task = {t1}
  Unit = {"u1"}
  Release = {"a1"}
  PackageOf <- MCPackageOf
  VersionOf <- MCVersionOf
  ServicesOf <- MCServicesOf
  UnitFilesOf <- MCUnitFilesOf
  DependsOn <- MCDependsOn
  NativeArch <- MCNativeArch
  BackupKeep = 1
  Faults = {}
INVARIANT RemovalRecoveryRestoresServices
