SPECIFICATION Spec
CONSTANTS
  Sectors = 3
  Buffers = 2
  Cap = 2
  Reissue = TRUE
PROPERTIES
  PublishedIsRequested
