SPECIFICATION Spec
CONSTANTS
  Clients = {c1, c2}
  Ops = {"deliver", "renameFolder"}
  SystemFolders <- MCOneFolder
  NewNames = {"Work"}
  FlagLists <- MCFlagLists
  FlagSets <- MCFlagSets
  OtherFlags = {"flagged"}
  Addresses = {}
  MaxFolders = 1
  MaxMsgs = 2
  MaxUid = 3
SYMMETRY ClientSymmetry
INVARIANTS DeliveryNeverRefused
