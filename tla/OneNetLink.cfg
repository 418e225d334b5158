SPECIFICATION Spec
CONSTANTS
  Capacity = 4
  PostSize = 2
  MaxCommands = 3
  MaxVersion = 2
INVARIANT TypeOK
PROPERTY MirrorsDevice
PROPERTY CloudConverges
PROPERTY CommandsServed
