\* Fair scheduling of three commands: nobody is killed, every save works; debs are
\* rebuilt under the change, one of them for another architecture, and apt may lie.
SPECIFICATION FairSpec
CONSTANTS
  None = None
  Proc = {p1, p2, p3}
  Task = {t1}
  Unit = {"u1"}
  Release = {"a1", "a2", "a2f"}
  PackageOf <- MCPackageOf
  VersionOf <- MCVersionOf
  ServicesOf <- MCServicesOf
  UnitFilesOf <- MCUnitFilesOf
  DependsOn <- MCDependsOn
  NativeArch <- MCNativeArch
  BackupKeep = 1
  Faults = {"rebuild", "silent"}
INVARIANT CommitIsTrue
PROPERTIES
  TasksSettle
  EveryCommandReturns
