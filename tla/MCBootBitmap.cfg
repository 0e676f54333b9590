SPECIFICATION Spec
CONSTANTS
  PAGE = 4
  BYTE = 2
  ADDR_BITS = 8
  WORD = 256
  LOW = 4
  KERNEL_START = 20
  KERNEL_END = 26
  MMAP_REGION_NUM = 5
  MAPPED = 64
  Maps <- PlainMaps
  Contents <- Cleared
INVARIANT BitmapUsed
