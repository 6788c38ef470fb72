SPECIFICATION FairSpec
CONSTANTS
  PAGE_SIZE = 4
  WORD = 40
  STACK_TOP = 32
  STACK_SIZE = 4
  NFS_SEND_SIZE = 2
  LABEL = 20
  MAXSWAPS = 2
  Image <- MCImage
  Break = {0, 9, 22, 30}
  Buffer <- MCBuffer
INVARIANTS
  RegionsDisjoint
  DestinationPinned
  ImageInPlace
PROPERTIES
  MapsInsideRegions
  LoadEnds
CHECK_DEADLOCK FALSE
