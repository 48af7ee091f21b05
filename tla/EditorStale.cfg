SPECIFICATION Spec
CONSTANTS
  Addresses <- TwoAddresses
  Labels <- SomeLabels
  Unnamed = "new node"
  Pool <- TwoAddresses
  Bases <- Project
  Formats <- EditorFile
  Shelf <- Stored
  MaxVertices = 3
  MaxEdges = 3
  MaxEdits = 2
  HistorySize = 1
INVARIANTS DeployedWhatIsDrawn
CHECK_DEADLOCK FALSE
