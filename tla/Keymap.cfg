SPECIFICATION Spec
CONSTANTS
  k1 = k1
  k2 = k2
  k3 = k3
  k4 = k4
  Keys <- FourKeys
  Hash <- Hashes
  Shorter <- ShorterKeys
  NoKey = NoKey
  Gone = Gone
  Generations = {1, 2}
  Entries <- SomeEntries
  Long = {k4}
  FirstSlots = 4
  FaultIn = {"write", "kill", "open", "read", "temp", "rename", "close"}
  MaxLines = 2
  MaxFaults = 1
INVARIANT TypeOK
INVARIANT ProbesEnd
INVARIANT LogReproduces
PROPERTY MapSpec
