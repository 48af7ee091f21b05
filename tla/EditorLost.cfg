SPECIFICATION Spec
CONSTANTS
  Addresses <- TwoAddresses
  Labels <- SomeLabels
  Unnamed = "new node"
  Pool <- TwoAddresses
  Bases <- Project
  Formats <- EditorFileAndPicture
  Shelf <- NoFiles
  MaxVertices = 2
  MaxEdges = 3
  MaxEdits = 4
  HistorySize = 1
INVARIANTS NothingLost
CHECK_DEADLOCK FALSE
