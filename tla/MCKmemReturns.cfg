SPECIFICATION FairSpec
CONSTANTS
  PAGE_SIZE = 8
  SIZEOF_KMEMPTR = 2
  KMEM_ALIGN_SIZE = 2
  KERNEL_HEAP_START = 192
  WORD = 256
  MaxPages = 4
  Requests <- MCRequests
PROPERTY
  KmallocReturns
