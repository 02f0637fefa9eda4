SPECIFICATION Spec
CONSTANTS
  ENTRIES = 8
  MAX_PROCESSES = 3
  ProcessBlocks = 1
  StackBlocks = 1
  Programs <- MCPrograms
  HEAP_PAGE = 9
  HeapSizes = {11, 13, 15, 16, 17, 18, 19, 20, 21, 22, 23, 29, 54}
INVARIANTS TypeOK AddressSpaces WritesOwnBinary TaskList PagingBlocksOwned RegisteredComplete
