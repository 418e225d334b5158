SPECIFICATION LedSpec
CONSTANTS
  Callers = {8, 10}
  Capacity = 4
INVARIANTS LedTypeOK LampFollows
