SPECIFICATION Spec
CONSTANTS
  Addr = {1, 2, 3, 4}
  MaxLength = 2
  NumPrint = 1
  MaxDrift = 1
  Roms = 2
  MaxCycles = 14
  Costs = {0, 2}
  MaxFree = 1
  Opcodes = {0, 1, 2}
INVARIANT EnterRunsMarkedRom
