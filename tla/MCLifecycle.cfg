SPECIFICATION Spec
CONSTANTS
  Decoders = {d1, d2}
  Types = {"legacy", "v3"}
  Faults = {"list", "index", "codec", "load", "open", "init", "map", "header"}
INVARIANTS
  NothingHeld
PROPERTIES
  KeptWhileUsed
