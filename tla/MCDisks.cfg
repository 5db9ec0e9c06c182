SPECIFICATION DisksSpec
CONSTANTS
  Drives = 2
  Sectors = 2
  Cylinders = 2
  SectField = 3
  CylField = 3
  SectWords = 2
  DiskWords = 16
  WordRange = 4
  RlSectField = 4
  RlWordRange = 4
  RpSectors = 2
  RpSurfaces = 2
  RpSectField = 3
  RpSurfField = 3
  RpCylField = 2
  RpSectWords = 2
  RpDiskWords = 13
  RpWordRange = 8
INVARIANTS RlRequestMeansReady
PROPERTIES LatchesInterrupt TransfersAccounted RlStaysOnDrive RpLatchesInterrupt RpTransfersAccounted
