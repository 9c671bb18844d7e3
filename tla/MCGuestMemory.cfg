SPECIFICATION Spec
CONSTANTS
  AddressModulus = 4096
  RomLength = 4
  RamOrigin = 4
  RamLength = 64
  StackOrigin = 68
  StackLength = 6
  UartOrigin = 80
  UartLength = 1
  Increments <- MCIncrements
  Frames <- MCFrames
INVARIANT HeapClearOfStack
PROPERTY GrantsAreFresh
