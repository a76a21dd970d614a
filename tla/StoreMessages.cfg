SPECIFICATION Spec
CONSTANTS
  Clients = {c1, c2}
  Ops = {"deliver", "saveToFolder", "append", "markSeen", "markDeleted", "setFlags", "updateFlags", "clearRecent", "expunge", "closeFolder", "setSubscribed", "hardDelete", "incrementNextUID", "addRecipient", "removeRecipient"}
  SystemFolders <- MCOneFolder
  NewNames = {}
  FlagLists <- MCDeletedLists
  FlagSets = {{}}
  OtherFlags = {"flagged"}
  Addresses = {a1}
  MaxFolders = 1
  MaxMsgs = 2
  MaxUid = 3
SYMMETRY ClientSymmetry
INVARIANTS UidNeverReused DeliveryNeverRefused
