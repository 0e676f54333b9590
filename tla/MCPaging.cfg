SPECIFICATION Spec
CONSTANTS
  ENTRIES = 6
  KERNEL_PT_NUMBER = 1
  FRAMES = 10
  BYTE = 2
  Reserved <- MCReserved
  INITIAL_PD = 2
  INITIAL_PT = 3
  HEAP_BASE = 17
  HEAP_PAGES = 2
  Temps <- NewTables
  Dead <- DeadTables
  Contents <- Words
  Ram <- UsedMemory
  MaxDead = 1
CHECK_DEADLOCK FALSE
INVARIANTS
  HeapIsMapped
  KernelStaysMapped
  NewTablesAreZero
