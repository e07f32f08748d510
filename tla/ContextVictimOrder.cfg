SPECIFICATION Spec
CONSTANTS
  Threads = {t1}
  Kinds <- ThreeKinds
  MaxContent = 2
  Usable = 1
  MinMessages = 2
  MaxMessages = 2
PROPERTIES
  LowImportanceFirst
