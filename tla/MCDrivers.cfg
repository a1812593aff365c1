SPECIFICATION Spec
CONSTANTS
  Decoders = {d1, d2}
  Instances = 2
  Descriptors = {0, 1, 2, 3, 4, 5, 6}
  Faults = {"mem"}
SYMMETRY DecoderSymmetry
INVARIANTS
  DriversTypeOK
  NoInstanceLeft
  DescriptorsOwned
  InstanceExclusive
  NoDescriptorLeft
