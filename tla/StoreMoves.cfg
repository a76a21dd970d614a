SPECIFICATION Spec
CONSTANTS
  Clients = {c1, c2}
  Ops = {"deliver", "copy", "move", "markOther", "hardDelete"}
  SystemFolders <- MCTwoFolders
  NewNames = {}
  FlagLists <- MCFlagLists
  FlagSets <- MCFlagSets
  OtherFlags = {"flagged"}
  Addresses = {}
  MaxFolders = 2
  MaxMsgs = 2
  MaxUid = 3
SYMMETRY ClientSymmetry
INVARIANTS UidBelowNext
PROPERTIES OnlyMoveMoves
