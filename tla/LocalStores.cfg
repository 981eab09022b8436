SPECIFICATION Spec
CONSTANTS
  Updaters = {a, b}
  NoUpdater = nobody
  MaxVersion = 2
  MaxUpdates = 4
  Processes = {p, q}
  Writers = {w1, w2}
  Entries = {e, f, g}
  MaxEntries = 1
  MaxOps = 4
  Setups = {s, t}
  Providers = {"anthropic", "openai"}
  MaxSetups = 3
  KeepPerLeaf = 1
  MaxLog = 4
  MaxFiles = 3
INVARIANTS
  RuntimeUsable
  MemoryHonest
  KeyOfProfile
PROPERTY GcKeepsNewest
CHECK_DEADLOCK FALSE
