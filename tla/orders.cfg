CONSTANTS
  NULL = NULL
  g1 = g1  g2 = g2  s1 = s1  s2 = s2  a1 = a1  a2 = a2  long = long
  Signals = {g1, g2}
  Strategies = {s1, s2}
  Worlds <- FourWorlds
  LastOrder = 3
  Attempts = 3
SPECIFICATION SpecAll
CHECK_DEADLOCK FALSE
INVARIANTS TypeOK OneEntryPerAnswer  OneOwner 
PROPERTIES  BreachStops
