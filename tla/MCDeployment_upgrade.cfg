\* Two rsctl processes, one package with an upgrade that brings a second unit; saves
\* fail, rsctl is killed, the machine reboots.
SPECIFICATION Spec
CONSTANTS
  None = None
  Proc = {p1, p2}
  Task = {t1, t2}
  Unit = {"u1", "u2"}
  Release = {"a1", "a2"}
  PackageOf <- MCPackageOf
  VersionOf <- MCVersionOf
  ServicesOf <- MCServicesOf
  UnitFilesOf <- MCUnitFilesOf
  DependsOn <- MCDependsOn
  NativeArch <- MCNativeArch
  BackupKeep = 1
  Faults = {"save", "crash", "reboot"}
SYMMETRY ProcAndTaskSymmetry
INVARIANTS
  TypeOK
  OneOpenTask
  WorkIsJournaled
  AptIsJournaled
  RecoveryIsTrue
PROPERTIES
  RollbackSourceStays
  ImplementsLifecycle
