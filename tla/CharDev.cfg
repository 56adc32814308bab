SPECIFICATION Spec
CONSTANTS
  Modules <- LabModules
  Numbers <- LabNumbers
  Driver <- LabDriver
  Asked <- LabAsked
  Careless <- LabCareless
  Owning <- LabOwning
  MaxLoaded = 3
  MaxFiles = 1
INVARIANTS NumberAccount LiveDevice HonestLoad
PROPERTIES TableSpec
