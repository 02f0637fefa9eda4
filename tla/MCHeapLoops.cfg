SPECIFICATION Spec
CONSTANTS
  Owners = {o1, o2}
  TotalBlocks = 3
  PhysBlocks = 6
  BlockSize = 4
  WordSize = 64
  Sizes = {0, 1, 8, 9}
  Values = {0, 1}
  Zero = 0
PROPERTIES LoopsImplementCalls EveryCallReturns
