SPECIFICATION Spec
CONSTANTS
  BlockCount = 3
  Signal <- OneSilent
  IconLength <- OneIcon
  MAX_BLOCK_OUTPUT_LENGTH = 1
  DelimiterLength = 4
  Bytes = {0, 1, 4}
  Layouts <- AllLayouts
INVARIANTS
  OutputIsWhole
  BarIsJoined
  FitsBuffer
  ClickReachesBlock
