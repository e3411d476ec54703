SPECIFICATION Spec
CONSTANTS
  memory = 64
  memory_size = 384
  PAGE_SIZE = 64
  HeaderSize = 32
  MIN_BLOCK_SIZE = 16
  BUCKET_COUNT = 3
  PageInfoSize = 8
  RandomSizes = {8, 24}
  PowerSizes = {8, 16}
  SmallSizes = {16, 24}
  LargeSizes = {64, 100, 150}
  MixedSizes = {24, 100}
  ClientSizes = {2, 24, 60, 70, 130}
  Operations = 5
INVARIANTS
  TypeOK
  ActiveInUse
  BlocksTile
  NoFreeNeighbours
  PagesAccounted
  CutPagesNeeded
  RefusedOnlyIfFull
PROPERTIES
  AllocatorKept
CHECK_DEADLOCK FALSE
