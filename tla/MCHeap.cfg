SPECIFICATION Spec
CONSTANTS
  Owners = {o1, o2, o3}
  TotalBlocks = 4
  PhysBlocks = 7
  BlockSize = 4
  WordSize = 64
  Sizes = {1, 4, 7, 12}
  Values = {0, 1}
  Zero = 0
INVARIANTS TypeOK ChainsMatchBuffers NothingLeaked BuffersDisjoint
PROPERTY PrivateBuffers
SYMMETRY Symmetric
