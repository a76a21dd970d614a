SPECIFICATION Spec
CONSTANTS
  Clients = {c1, c2}
  Ops = {"deliver", "copy", "createFolder", "deleteFolder", "renameFolder"}
  SystemFolders <- MCOneFolder
  NewNames = {"Work"}
  FlagLists <- MCFlagLists
  FlagSets <- MCFlagSets
  OtherFlags = {"flagged"}
  Addresses = {}
  MaxFolders = 2
  MaxMsgs = 2
  MaxUid = 3
SYMMETRY ClientSymmetry
INVARIANTS Integrity
PROPERTIES NoResurrection
