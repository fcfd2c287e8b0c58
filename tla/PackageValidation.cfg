SPECIFICATION Spec
CONSTANTS
  Packages <- MCPackages
  NoCode = NoCode
INVARIANTS
  SkipsHaveCause
  OkIsSound
  OneFaultOneFail
  LayoutSeals
CHECK_DEADLOCK FALSE
