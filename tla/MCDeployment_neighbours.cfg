\* Two rsctl processes and two changes of packages that share a unit and depend on each
\* other, and whose manifests cannot be read for a while.
SPECIFICATION Spec
CONSTANTS
  None = None
  Proc = {p1, p2}
  Task = {t1, t2}
  Unit = {"u1"}
  Release = {"a1", "b1"}
  PackageOf <- MCPackageOf
  VersionOf <- MCVersionOf
  ServicesOf <- MCServicesOf
  UnitFilesOf <- MCUnitFilesOf
  DependsOn <- MCDependsOn
  NativeArch <- MCNativeArch
  BackupKeep = 1
  Faults = {"manifest"}
SYMMETRY ProcAndTaskSymmetry
PROPERTIES
  SharedUnitsUntouched
  NoDependentStranded
